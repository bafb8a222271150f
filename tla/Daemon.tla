------------------------------- MODULE Daemon -------------------------------
(***************************************************************************)
(* The daemon around the store: the scheduler loop (scheduler.rs), the     *)
(* attempt tasks it spawns, the mutating API handlers (api.rs) and the     *)
(* process life cycle (lib.rs).  They are Tokio tasks that share the store *)
(* and the cancellation registry, so they interleave between any two       *)
(* awaits; every database access is one transaction of Store.              *)
(*                                                                         *)
(* Storage faults (an I/O error from SQLite) are not modelled.             *)
(***************************************************************************)
EXTENDS Store, FiniteSets, Integers

CONSTANTS
  Limit, Reserve, Monitor, MaxAge, Interval, Skew,  \* see Capacity
  Answer,      \* what a capacity probe may answer
  AgeCap,      \* most a submission can gain by waiting (50 in the code)
  PriorityCap, \* upper bound of the effective priority (100 in the code)
  MaxTime,     \* bound on the clock
  MaxFaults    \* bound on crashes and interrupts

VARIABLES
  now,       \* wall clock
  faults,    \* crashes and interrupts so far
  pc,        \* where the scheduler task is; "down": no process
  pending,   \* start-up: submissions still to reject or to recover
  queue,     \* pass: what is left of the snapshot of the queued rows
  pick,      \* pass: the source select_dispatch chose
  shutdown,  \* SIGINT was received, also by the process that is gone
  obs,       \* capacity observations, see Capacity
  registry,  \* cancellation registry: None, or the value of the watch channel
  task,      \* attempt task of a submission
  call       \* cancel handler of a submission, "acked" once it has answered

schedVars == <<pc, pending, queue, pick>>

procVars == <<shutdown, obs, registry, task, call>>

vars == <<storeVars, now, faults, schedVars, procVars>>

Cap == INSTANCE Capacity

ASSUME SourceAssumption ==
  /\ \A src \in Source : Cap!ValidSource(src)
  /\ \A r \in Request : r.sources \in Seq(Source)

(* None, an absent value, is not a value; identities are ULIDs of 128 bits. *)
ASSUME DomainAssumption ==
  /\ None \notin BOOLEAN /\ None \notin Int /\ None \notin Cap!UsageKind
  /\ IsFiniteSet(Submission) /\ IsFiniteSet(Attempt)

ASSUME BlockerAssumption ==
  {"not_before", "workspace_busy", "capacity_unavailable", "capacity_unknown",
   "route_unsatisfied"} \subseteq Blocker

(* What run_probe can decode; None stands for everything else. *)
ASSUME AnswerAssumption ==
  \A answer \in Answer \ {None} :
    answer \in [health : {"healthy", "unavailable"},
               kind : Cap!UsageKind \cup {None}, count : Nat, sampled : Int]

(* The scheduler task has not ended: handlers and attempt tasks can run. *)
Up == pc \notin {"down", "failed"}

(* The submission the pass is looking at. *)
Visited == Head(queue).id

(* Claimed, but the attempt task is not spawned yet. *)
Launching(s) == pc \in {"register", "recheck"} /\ Visited = s

-----------------------------------------------------------------------------
(* Process life cycle.  Whether it was told to stop outlives the process:   *)
(* systemd restarts one that failed, never one it has sent SIGINT to stop. *)

NoProcess ==
  /\ pc' = "down" /\ pending' = {} /\ queue' = << >> /\ pick' = None
  /\ UNCHANGED shutdown
  /\ obs' = [src \in Source |-> None]
  /\ registry' = [s \in Submission |-> None]
  /\ task' = [s \in Submission |-> "none"]
  /\ call' = [s \in Submission |-> "idle"]

Init ==
  /\ StoreInit
  /\ now = 0 /\ faults = 0
  /\ pc = "down" /\ pending = {} /\ queue = << >> /\ pick = None
  /\ shutdown = FALSE
  /\ obs = [src \in Source |-> None]
  /\ registry = [s \in Submission |-> None]
  /\ task = [s \in Submission |-> "none"]
  /\ call = [s \in Submission |-> "idle"]

(* The process starts; the scheduler initializes the capacity manager and
   selects the queued rows that have no frozen configuration. *)
Boot ==
  /\ pc = "down"
  /\ pc' = "reject"
  /\ pending' = {s \in Submission : Queued(s) /\ ~subs[s].frozen}
  /\ shutdown' = FALSE
  /\ Cap!Initialize
  /\ UNCHANGED <<storeVars, now, faults, queue, pick, registry, task, call>>

(* Power loss or kill -9, at any point. *)
Crash ==
  /\ Up
  /\ faults < MaxFaults /\ faults' = faults + 1
  /\ NoProcess
  /\ UNCHANGED <<storeVars, now>>

(* run() of lib.rs returns the scheduler's error and the process exits. *)
ExitAfterFailure ==
  /\ pc = "failed"
  /\ NoProcess
  /\ UNCHANGED <<storeVars, now, faults>>

(* SIGINT. *)
Interrupt ==
  /\ Up /\ ~shutdown
  /\ faults < MaxFaults /\ faults' = faults + 1
  /\ shutdown' = TRUE
  /\ UNCHANGED <<storeVars, now, schedVars, obs, registry, task, call>>

Tick ==
  /\ now < MaxTime
  /\ now' = now + 1
  /\ UNCHANGED <<storeVars, faults, schedVars, procVars>>

-----------------------------------------------------------------------------
(* Scheduler start-up. *)

(* A row that a client cancelled after the SELECT is passed over. *)
RejectOne ==
  /\ pc = "reject"
  /\ \E s \in pending :
       /\ IF Queued(s) THEN RejectUnfrozen(s) ELSE UNCHANGED storeVars
       /\ pending' = pending \ {s}
  /\ UNCHANGED <<now, faults, pc, queue, pick, procVars>>

(* Fault: the new process forgets the attempts of the last one. *)
RejectDoneBug ==
  /\ pc = "reject" /\ pending = {}
  /\ pc' = "recover"
  /\ UNCHANGED <<storeVars, now, faults, pending, queue, pick, procVars>>

(* recover_running_as_uncertain selects the active attempts. *)
RejectDone ==
  /\ pc = "reject" /\ pending = {}
  /\ pc' = "recover"
  /\ pending' = {s \in Submission : ActiveOf(s) # {}}
  /\ UNCHANGED <<storeVars, now, faults, queue, pick, procVars>>

(* Fault: recovery declares the lost executions failed. *)
RecoveredAsBug == "failed"

RecoveredAs == "uncertain"

RecoverOne ==
  /\ pc = "recover"
  /\ \E s \in pending :
       /\ \E a \in ActiveOf(s) : Finish(s, a, RecoveredAs)
       /\ pending' = pending \ {s}
  /\ UNCHANGED <<now, faults, pc, queue, pick, procVars>>

RecoverDone ==
  /\ pc = "recover" /\ pending = {}
  /\ pc' = "idle"
  /\ UNCHANGED <<storeVars, now, faults, pending, queue, pick, procVars>>

-----------------------------------------------------------------------------
(* One pass of the scheduler loop. *)

(* The interval, a notification or a finished attempt wakes the loop. *)
Wake ==
  /\ pc = "idle"
  /\ pc' = "query"
  /\ \E answers \in [Source -> Answer] : Cap!RefreshDue(answers)
  /\ UNCHANGED <<storeVars, now, faults, pending, queue, pick,
                 shutdown, registry, task, call>>

Lesser(m, n) == IF m < n THEN m ELSE n

(* effective_priority; created_at is never in the future. *)
EffectivePriority(s) ==
  Lesser(subs[s].priority + Lesser(now - subs[s].created, AgeCap), PriorityCap)

(* The stable sort by effective priority of ORDER BY priority DESC,
   created_at ASC. *)
Before(s, t) ==
  \/ EffectivePriority(s) > EffectivePriority(t)
  \/ /\ EffectivePriority(s) = EffectivePriority(t)
     /\ \/ subs[s].priority > subs[t].priority
        \/ /\ subs[s].priority = subs[t].priority
           /\ subs[s].created <= subs[t].created

Orders(S) ==
  {q \in [1..Cardinality(S) -> S] :
     \A i, j \in 1..Cardinality(S) : i < j => q[i] # q[j] /\ Before(q[i], q[j])}

Snapshot(s) == [id |-> s, not_before |-> subs[s].not_before,
                start_deadline |-> subs[s].start_deadline]

(* Fault: a row that shows a blocker is not looked at again. *)
QueryBug ==
  /\ pc = "query"
  /\ \E q \in Orders({s \in Submission : Queued(s) /\ subs[s].blocker = None}) :
       queue' = [i \in DOMAIN q |-> Snapshot(q[i])]
  /\ pc' = "visit"
  /\ UNCHANGED <<storeVars, now, faults, pending, pick, procVars>>

Query ==
  /\ pc = "query"
  /\ \E q \in Orders({s \in Submission : Queued(s)}) :
       queue' = [i \in DOMAIN q |-> Snapshot(q[i])]
  /\ pc' = "visit"
  /\ UNCHANGED <<storeVars, now, faults, pending, pick, procVars>>

(* set_blocker: nothing to do for a row that left the queue or already
   shows this blocker. *)
Block(s, code) ==
  IF Queued(s) /\ subs[s].blocker # code
  THEN SetBlocker(s, code) ELSE UNCHANGED storeVars

(* Fault: a row that waits for a reason does not expire. *)
DeadlinePassedBug(e) ==
  e.start_deadline # None /\ e.start_deadline <= now /\ subs[e.id].blocker = None

DeadlinePassed(e) == e.start_deadline # None /\ e.start_deadline <= now

TooEarly(e) == e.not_before # None /\ e.not_before > now

(* The error of expire ends the scheduler. *)
VisitExpired ==
  /\ pc = "visit" /\ queue # << >> /\ DeadlinePassed(Head(queue))
  /\ \/ Expire(Visited) /\ queue' = Tail(queue) /\ UNCHANGED pc
     \/ ~Queued(Visited) /\ pc' = "failed" /\ UNCHANGED <<storeVars, queue>>
  /\ UNCHANGED <<now, faults, pending, pick, procVars>>

VisitTooEarly ==
  /\ pc = "visit" /\ queue # << >>
  /\ ~DeadlinePassed(Head(queue)) /\ TooEarly(Head(queue))
  /\ Block(Visited, "not_before")
  /\ queue' = Tail(queue)
  /\ UNCHANGED <<now, faults, pc, pending, pick, procVars>>

Visitable ==
  /\ pc = "visit" /\ queue # << >>
  /\ ~DeadlinePassed(Head(queue)) /\ ~TooEarly(Head(queue))

Routes(s) == subs[s].request.sources

(* Fault: leases of executions in doubt are not counted. *)
ActiveForSourceBug(src) == Cardinality(HeldBug(src))

ActiveForSource(src) == Cardinality(Held(src))

Free(src) == Cap!HasSlot(src, ActiveForSource(src))

(* select_dispatch takes the first source, in route order, with a slot. *)
VisitReady ==
  /\ Visitable
  /\ \E i \in DOMAIN Routes(Visited) :
       /\ Free(Routes(Visited)[i])
       /\ \A j \in 1..(i-1) : ~Free(Routes(Visited)[j])
       /\ pick' = Routes(Visited)[i]
  /\ pc' = "claim"
  /\ UNCHANGED <<storeVars, now, faults, pending, queue, procVars>>

BlockedCode(s) ==
  IF Routes(s) = << >> THEN "route_unsatisfied"
  ELSE IF \E i \in DOMAIN Routes(s) :
       Cap!Available(Routes(s)[i], ActiveForSource(Routes(s)[i])) = None
  THEN "capacity_unknown" ELSE "capacity_unavailable"

VisitBlocked ==
  /\ Visitable
  /\ \A i \in DOMAIN Routes(Visited) : ~Free(Routes(Visited)[i])
  /\ Block(Visited, BlockedCode(Visited))
  /\ queue' = Tail(queue)
  /\ UNCHANGED <<now, faults, pc, pending, pick, procVars>>

ClaimOk ==
  /\ pc = "claim"
  /\ \E a \in Attempt : Claim(Visited, a, pick)
  /\ pc' = "register"
  /\ UNCHANGED <<now, faults, pending, queue, pick, procVars>>

ClaimNotQueued ==
  /\ pc = "claim" /\ ~Queued(Visited)
  /\ pc' = "visit" /\ queue' = Tail(queue) /\ pick' = None
  /\ UNCHANGED <<storeVars, now, faults, pending, procVars>>

ClaimBusy ==
  /\ pc = "claim" /\ Queued(Visited) /\ WorkspaceBusy(Visited)
  /\ pc' = "busy"
  /\ UNCHANGED <<storeVars, now, faults, pending, queue, pick, procVars>>

ReportBusy ==
  /\ pc = "busy"
  /\ Block(Visited, "workspace_busy")
  /\ pc' = "visit" /\ queue' = Tail(queue) /\ pick' = None
  /\ UNCHANGED <<now, faults, pending, procVars>>

(* The watch channel becomes visible to the cancel handlers. *)
Register ==
  /\ pc = "register"
  /\ registry' = [registry EXCEPT ![Visited] = FALSE]
  /\ pc' = "recheck"
  /\ UNCHANGED <<storeVars, now, faults, pending, queue, pick,
                 shutdown, obs, task, call>>

(* Fault: the registration race is left open. *)
RecheckedBug(s) == registry[s]

(* cancellation_requested closes the registration race. *)
Rechecked(s) == registry[s] \/ subs[s].cancel_requested

Launch ==
  /\ pc = "recheck"
  /\ registry' = [registry EXCEPT ![Visited] = Rechecked(Visited)]
  /\ task' = [task EXCEPT ![Visited] = "starting"]
  /\ pc' = "visit" /\ queue' = Tail(queue) /\ pick' = None
  /\ UNCHANGED <<storeVars, now, faults, pending, shutdown, obs, call>>

EndPass ==
  /\ pc = "visit" /\ queue = << >>
  /\ pc' = "idle"
  /\ UNCHANGED <<storeVars, now, faults, pending, queue, pick, procVars>>

(* The loop ends: every registered attempt is told to cancel. *)
Stop ==
  /\ pc = "idle" /\ shutdown
  /\ pc' = "drain"
  /\ registry' = [s \in Submission |-> IF registry[s] = None THEN None ELSE TRUE]
  /\ UNCHANGED <<storeVars, now, faults, pending, queue, pick,
                 shutdown, obs, task, call>>

(* All attempt tasks joined: the process exits. *)
Drained ==
  /\ pc = "drain"
  /\ \A s \in Submission : task[s] = "none"
  /\ NoProcess
  /\ UNCHANGED <<storeVars, now, faults>>

SchedulerStep ==
  \/ RejectOne \/ RejectDone \/ RecoverOne \/ RecoverDone
  \/ Wake \/ Query \/ VisitExpired \/ VisitTooEarly \/ VisitReady \/ VisitBlocked
  \/ ClaimOk \/ ClaimNotQueued \/ ClaimBusy \/ ReportBusy \/ Register \/ Launch
  \/ EndPass

-----------------------------------------------------------------------------
(* The attempt task: run_attempt fed by the events of the local runner.   *)

(* RuntimeEvent::Started: two transactions. *)
AttemptStarted(s) ==
  /\ Up /\ task[s] = "starting"
  /\ \E a \in Attempt : MarkAttemptRunning(s, a)
  /\ task' = [task EXCEPT ![s] = "marked"]
  /\ UNCHANGED <<now, faults, schedVars, shutdown, obs, registry, call>>

AttemptReady(s) ==
  /\ Up /\ task[s] = "marked"
  /\ \E a \in Attempt : AppendAgentEvent(s, a)
  /\ task' = [task EXCEPT ![s] = "live"]
  /\ UNCHANGED <<now, faults, schedVars, shutdown, obs, registry, call>>

(* Fault: output that arrives after the end of the run is still appended. *)
AttemptEventBug(s) ==
  /\ Up /\ task[s] \in {"live", "cleanup"}
  /\ Len(log[s]) < MaxLog
  /\ \E a \in Attempt : AppendAgentEvent(s, a)
  /\ UNCHANGED <<now, faults, schedVars, procVars>>

AttemptEvent(s) ==
  /\ Up /\ task[s] = "live"
  /\ Len(log[s]) < MaxLog
  /\ \E a \in Attempt : AppendAgentEvent(s, a)
  /\ UNCHANGED <<now, faults, schedVars, procVars>>

(* What the runner can report: it is cancelled only after it was told to,
   and completes only after it started. *)
Reportable(s) ==
  {"failed", "uncertain"}
    \cup (IF task[s] = "live" THEN {"completed"} ELSE {})
    \cup (IF task[s] = "live" /\ registry[s] = TRUE THEN {"cancelled"} ELSE {})

AttemptEnd(s) ==
  /\ Up /\ task[s] \in {"starting", "live"}
  /\ \E a \in Attempt, outcome \in Reportable(s) : Finish(s, a, outcome)
  /\ task' = [task EXCEPT ![s] = "cleanup"]
  /\ UNCHANGED <<now, faults, schedVars, shutdown, obs, registry, call>>

(* The request for the runner cannot be built, or the runner ends without a
   terminal report. *)
AttemptLost(s) ==
  /\ Up /\ task[s] \in {"starting", "live"}
  /\ \E a \in Attempt : Finish(s, a, "uncertain")
  /\ task' = [task EXCEPT ![s] = "cleanup"]
  /\ UNCHANGED <<now, faults, schedVars, shutdown, obs, registry, call>>

AttemptCleanup(s) ==
  /\ Up /\ task[s] = "cleanup"
  /\ task' = [task EXCEPT ![s] = "none"]
  /\ registry' = [registry EXCEPT ![s] = None]
  /\ UNCHANGED <<storeVars, now, faults, schedVars, shutdown, obs, call>>

TaskStep(s) ==
  \/ AttemptStarted(s) \/ AttemptReady(s)
  \/ AttemptEnd(s) \/ AttemptLost(s) \/ AttemptCleanup(s)

-----------------------------------------------------------------------------
(* The mutating API handlers.  They serve as soon as the process is up.    *)

CreateSubmission(s, r) ==
  /\ Up
  /\ Accept(s, r, now)
  /\ UNCHANGED <<now, faults, schedVars, procVars>>

PatchSubmission(s, p) ==
  /\ Up
  /\ subs[s].revision < MaxRevision
  /\ PatchScheduling(s, subs[s].revision, p)
  /\ UNCHANGED <<now, faults, schedVars, procVars>>

CancelSubmission(s) ==
  /\ Up /\ call[s] = "idle"
  /\ \/ CancelQueued(s) /\ UNCHANGED call
     \/ /\ \/ CancelRunning(s)
           \/ subs[s].state = "running" /\ subs[s].cancel_requested /\ UNCHANGED storeVars
        /\ call' = [call EXCEPT ![s] = "send"]
  /\ UNCHANGED <<now, faults, schedVars, shutdown, obs, registry, task>>

(* The handler signals the registered attempt, if any, and answers. *)
CancelSignal(s) ==
  /\ Up /\ call[s] = "send"
  /\ registry' = [registry EXCEPT ![s] = IF @ = None THEN None ELSE TRUE]
  /\ call' = [call EXCEPT ![s] = "acked"]
  /\ UNCHANGED <<storeVars, now, faults, schedVars, shutdown, obs, task>>

(* The client disconnects: hyper drops the handler after its commit. *)
CancelDropped(s) ==
  /\ Up /\ call[s] = "send"
  /\ call' = [call EXCEPT ![s] = "idle"]
  /\ UNCHANGED <<storeVars, now, faults, schedVars, shutdown, obs, registry, task>>

-----------------------------------------------------------------------------

Next ==
  \/ Boot \/ Crash \/ ExitAfterFailure \/ Interrupt \/ Tick
  \/ SchedulerStep \/ Stop \/ Drained
  \/ \E s \in Submission :
       \/ TaskStep(s) \/ AttemptEvent(s)
       \/ \E r \in Request : CreateSubmission(s, r)
       \/ \E p \in Patch : PatchSubmission(s, p)
       \/ CancelSubmission(s) \/ CancelSignal(s) \/ CancelDropped(s)

Spec == Init /\ [][Next]_vars

(***************************************************************************)
(* Fairness: the runtime polls every ready task, so the scheduler and the  *)
(* attempt tasks move on; select! picks among ready branches at random, so *)
(* a pending shutdown is taken sooner or later although the interval also  *)
(* ticks; the runner reports an end sooner or later, which Session shows   *)
(* on condition that Sandbox Agent answers two requests; the service       *)
(* manager restarts a process that failed (Restart=on-failure, intranet-   *)
(* deployment.md:268), but nobody has to start one that was told to stop.  *)
(* Clients owe nothing.                                                    *)
(***************************************************************************)
FairSpec ==
  /\ Spec
  /\ WF_vars(~shutdown /\ Boot) /\ WF_vars(ExitAfterFailure) /\ WF_vars(Tick)
  /\ WF_vars(SchedulerStep) /\ SF_vars(Stop) /\ WF_vars(Drained)
  /\ \A s \in Submission : WF_vars(TaskStep(s))

-----------------------------------------------------------------------------
(* Properties. *)

(***************************************************************************)
(* The slots of a source are never oversubscribed: the leases that are     *)
(* active or in doubt leave its reserve free, although select_dispatch     *)
(* counts them in one transaction and claim takes the slot in another, and *)
(* although leases outlive a crash.                                        *)
(***************************************************************************)
CapacityRespected ==
  \A src \in Source : Cardinality(Held(src)) <= Limit[src] - Reserve[src]

(***************************************************************************)
(* Once recovery is over, every running submission belongs to an attempt   *)
(* task of this process, or to one about to be spawned: none is stranded   *)
(* by a crash, a shutdown or a client.                                     *)
(***************************************************************************)
RunningIsDriven ==
  \A s \in Submission :
    subs[s].state = "running" /\ Up /\ pc \notin {"reject", "recover"}
      => Launching(s) \/ task[s] \in {"starting", "marked", "live"}

(***************************************************************************)
(* Nobody takes a result away from under an attempt task or the recovery:  *)
(* the finish they are about to issue is accepted.  A refused finish would *)
(* lose the result of the run, or end the scheduler during start-up.       *)
(***************************************************************************)
FinishAccepted ==
  /\ \A s \in Submission : task[s] \in {"starting", "marked", "live"}
       => \E a \in Attempt : CanFinish(s, a)
  /\ pc = "recover" => \A s \in pending : \E a \in Attempt : CanFinish(s, a)

(***************************************************************************)
(* A run nobody watched to its end is never given a confirmed outcome: it  *)
(* leaves the running state as uncertain, which keeps its slot and its     *)
(* workspace away from everybody else.                                     *)
(***************************************************************************)
UnwatchedIsUncertain ==
  [][\A s \in Submission :
       subs[s].state = "running" /\ task[s] = "none"
         => subs'[s].state \in {"running", "uncertain"}]_vars

(***************************************************************************)
(* A cancellation that was acknowledged to the client reaches the attempt: *)
(* the watch channel says so, or the scheduler still has to look at the    *)
(* durable intent before it spawns the task, or recovery has to settle it. *)
(***************************************************************************)
CancelReaches ==
  \A s \in Submission :
    call[s] = "acked" /\ subs[s].state = "running"
      => \/ registry[s] = TRUE
         \/ Launching(s)
         \/ pc \in {"failed", "reject", "recover"}

(* The event that announces a terminal state is the last one of its stream:
   SSE clients stop reading there. *)
TerminalEventIsLast ==
  [][\A s \in Submission : IsTerminal(s) => log'[s] = log[s]]_vars

(* The service was told to stop, has stopped, and waits for its operator. *)
Stopped == pc = "down" /\ shutdown

(***************************************************************************)
(* A run always ends, at the latest in the next life of the process, which *)
(* a process killed while it was stopping has to wait for.                 *)
(***************************************************************************)
RunsEnd ==
  \A s \in Submission : subs[s].state = "running" ~> IsTerminal(s) \/ Stopped

(***************************************************************************)
(* A deadline is always acted on: the submission starts or leaves the      *)
(* queue, unless the client takes the deadline away or the service is      *)
(* stopped; a restart after a failure and one by the operator both come    *)
(* back to it.                                                             *)
(***************************************************************************)
DeadlineActs ==
  \A s \in Submission :
    (Queued(s) /\ subs[s].start_deadline # None)
      ~> (~Queued(s) \/ subs[s].start_deadline = None \/ Stopped)

Startable(s) ==
  /\ Queued(s) /\ subs[s].frozen /\ ~WorkspaceBusy(s)
  /\ subs[s].not_before = None \/ subs[s].not_before <= now
  /\ \E i \in DOMAIN Routes(s) : Free(Routes(s)[i])

(* A submission is not left in the queue for ever while its window is open,
   its workspace is free and one of its sources has a slot. *)
NotLeftBehind == \A s \in Submission : ~<>[]Startable(s)

(***************************************************************************)
(* A race with a client must not end the scheduler: lib.rs calls its end   *)
(* "scheduler stopped unexpectedly".                                       *)
(***************************************************************************)
SchedulerSurvives == pc # "failed"

(***************************************************************************)
(* No attempt starts before the submission's not_before: the API           *)
(* acknowledged the time, and not_before is a blocker of queued            *)
(* submissions (submission-api.md section 6).                              *)
(***************************************************************************)
NotBeforeHonoured ==
  [][\A s \in Submission :
       Queued(s) /\ subs'[s].state = "running"
         => subs[s].not_before = None \/ subs[s].not_before <= now]_vars
=============================================================================
