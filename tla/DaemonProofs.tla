---------------------------- MODULE DaemonProofs ----------------------------
(***************************************************************************)
(* Proofs about the daemon, for every set of submissions, attempts and     *)
(* sources, every limit, and any number of crashes and interrupts.         *)
(*                                                                         *)
(* The argument has two halves.  Every step of the daemon is one           *)
(* transaction of the store or none, so what StoreProofs shows of          *)
(* Transaction holds here.  What the memory of the process adds is the     *)
(* invariant Inv below.                                                    *)
(***************************************************************************)
EXTENDS Daemon, StoreProofs, FiniteSetTheorems

-----------------------------------------------------------------------------
(* The inductive invariant. *)

Entry == [id : Submission, not_before : Nat \cup {None},
          start_deadline : Nat \cup {None}]

PassStep == {"visit", "claim", "busy", "register", "recheck"}

ProcTypeOK ==
  /\ now \in Nat
  /\ pc \in {"down", "failed", "reject", "recover", "idle", "query", "drain"}
              \cup PassStep
  /\ pending \subseteq Submission
  /\ queue \in Seq(Entry)
  /\ obs \in [Source -> Cap!Observation \cup {None}]
  /\ registry \in [Submission -> BOOLEAN \cup {None}]
  /\ task \in [Submission -> {"none", "starting", "marked", "live", "cleanup"}]
  /\ call \in [Submission -> {"idle", "send", "acked"}]

(* A row in the table holds a validated request, and the snapshot of a pass
   names rows of the table only. *)
RequestsKnown ==
  /\ \A s \in Submission : Exists(s) => subs[s].request \in Request
  /\ \A i \in 1..Len(queue) : Exists(queue[i].id)

(* Between the visit of a row and the spawn of its task the row is at the
   head of what is left of the pass. *)
VisitsHead == pc \in PassStep \ {"visit"} => queue # << >>

Driven(s) == task[s] \in {"starting", "marked", "live"}

(* An attempt task runs a submission that is running and registered; a row
   that waits has no task; a task is spawned once. *)
TasksRun ==
  \A s \in Submission :
    /\ Driven(s) => subs[s].state = "running" /\ registry[s] # None
    /\ task[s] # "none" => subs[s].state \notin {"absent", "queued"}
    /\ pc \in {"down", "reject", "recover"} => task[s] = "none"

(* A claimed submission waits for its task. *)
LaunchReady ==
  pc \in {"register", "recheck"} =>
    /\ subs[Visited].state = "running" /\ task[Visited] = "none"
    /\ pc = "recheck" => registry[Visited] # None

(* What recovery still has to settle. *)
RecoveryPending ==
  pc = "recover" => pending = {s \in Submission : subs[s].state = "running"}

(* Nobody but the scheduler takes a slot, so the slot that select_dispatch
   saw is still there when claim takes it. *)
SlotReserved ==
  pc = "claim" =>
    /\ pick \in Source
    /\ Cardinality(Held(pick)) < Limit[pick] - Reserve[pick]

(* A handler that got past its commit left a durable intent, and one that
   got past its signal told the task, if there is one. *)
CancelKnown ==
  \A s \in Submission :
    /\ call[s] # "idle" => pc # "down" /\ Exists(s) /\ subs[s].cancel_requested
    /\ call[s] = "acked" /\ Driven(s) => registry[s] = TRUE

(* Who drives a running submission, and who knows of its cancellation. *)
DriveInv == /\ TasksRun /\ LaunchReady /\ RecoveryPending
            /\ CancelKnown /\ RunningIsDriven

Inv == /\ StoreTypeOK /\ AttemptInv /\ ProcTypeOK /\ RequestsKnown /\ VisitsHead
       /\ SlotReserved /\ CapacityRespected /\ DriveInv

-----------------------------------------------------------------------------
(***************************************************************************)
(* Every step of the daemon is at most one transaction of the store.  Only *)
(* claim makes a submission run, and only finish ends a run; the rest is   *)
(* quiet: no submission starts or ends a run, and no slot is taken.        *)
(***************************************************************************)
Quiet ==
  \E s \in Submission :
    \/ \E r \in Request, time \in Nat : Accept(s, r, time)
    \/ \E a \in Attempt : MarkAttemptRunning(s, a)
    \/ \E a \in Attempt : subs[s].state = "running" /\ AppendAgentEvent(s, a)
    \/ \E to \in {"expired", "cancelled"} : CloseQueued(s, to)
    \/ ~subs[s].frozen /\ CloseQueued(s, "failed")
    \/ Annotates(s)

LEMMA HeadTailTyped ==
  ASSUME NEW q \in Seq(Entry), q # << >>
  PROVE  /\ Head(q).id \in Submission
         /\ Tail(q) \in Seq(Entry)
         /\ \A i \in 1..Len(Tail(q)) : i + 1 \in 1..Len(q) /\ Tail(q)[i] = q[i + 1]
<1>1. Head(q) \in Entry /\ Tail(q) \in Seq(Entry) /\ Len(Tail(q)) = Len(q) - 1
  OBVIOUS
<1>2. \A i \in 1..Len(Tail(q)) : i + 1 \in 1..Len(q) /\ Tail(q)[i] = q[i + 1]
  BY <1>1
<1>3. QED
  BY <1>1, <1>2 DEF Entry

LEMMA VisitedTyped ==
  ASSUME ProcTypeOK, queue # << >>
  PROVE  Visited \in Submission
BY HeadTailTyped DEF ProcTypeOK, Visited

LEMMA BlockTransacts ==
  ASSUME NEW s \in Submission, NEW code \in Blocker, Block(s, code)
  PROVE  UNCHANGED storeVars \/ Annotates(s)
BY DEF Block, Annotates

LEMMA BlockedCodeTyped == ASSUME NEW s PROVE BlockedCode(s) \in Blocker
BY BlockerAssumption DEF BlockedCode

(* Finish(s, a, outcome) is issued by the recovery or by the task of s. *)
LEMMA ReportableTyped == ASSUME NEW s PROVE Reportable(s) \subseteq Outcome
BY DEF Reportable, Outcome, Confirmed

LEMMA SchedulerQuiet ==
  ASSUME ProcTypeOK, VisitsHead, SchedulerStep, ~RecoverOne, ~ClaimOk
  PROVE  [Quiet]_storeVars
<1>1. CASE RejectOne
  BY <1>1 DEF RejectOne, RejectUnfrozen, Quiet, ProcTypeOK
<1>3. CASE VisitExpired
  <2>1. Visited \in Submission
    BY <1>3, VisitedTyped DEF VisitExpired
  <2>2. QED
    BY <1>3, <2>1 DEF VisitExpired, Expire, Quiet
<1>4. CASE VisitTooEarly
  <2>1. Visited \in Submission
    BY <1>4, VisitedTyped DEF VisitTooEarly
  <2>2. QED
    BY <1>4, <2>1, BlockTransacts, BlockerAssumption DEF VisitTooEarly, Quiet
<1>5. CASE VisitBlocked
  <2>1. Visited \in Submission
    BY <1>5, VisitedTyped DEF VisitBlocked, Visitable
  <2>2. QED
    BY <1>5, <2>1, BlockTransacts, BlockedCodeTyped DEF VisitBlocked, Quiet
<1>7. CASE ReportBusy
  <2>1. Visited \in Submission
    BY <1>7, VisitedTyped DEF ReportBusy, VisitsHead, PassStep
  <2>2. QED
    BY <1>7, <2>1, BlockTransacts, BlockerAssumption DEF ReportBusy, Quiet
<1>8. CASE \/ RejectDone \/ RecoverDone \/ Wake \/ Query \/ VisitReady
           \/ ClaimNotQueued \/ ClaimBusy \/ Register \/ Launch \/ EndPass
  BY <1>8 DEF RejectDone, RecoverDone, Wake, Query, VisitReady, ClaimNotQueued,
              ClaimBusy, Register, Launch, EndPass
<1>9. QED
  BY <1>1, <1>3, <1>4, <1>5, <1>7, <1>8 DEF SchedulerStep

LEMMA TaskQuiet ==
  ASSUME TasksRun, NEW s \in Submission, TaskStep(s) \/ AttemptEvent(s),
         ~AttemptEnd(s), ~AttemptLost(s)
  PROVE  [Quiet]_storeVars
<1>1. CASE AttemptStarted(s)
  BY <1>1 DEF AttemptStarted, Quiet
<1>2. CASE AttemptReady(s) \/ AttemptEvent(s)
  BY <1>2 DEF AttemptReady, AttemptEvent, TasksRun, Driven, Quiet
<1>5. CASE AttemptCleanup(s)
  BY <1>5 DEF AttemptCleanup
<1>6. QED
  BY <1>1, <1>2, <1>5 DEF TaskStep

LEMMA HandlerQuiet ==
  ASSUME ProcTypeOK, NEW s \in Submission,
         \/ \E r \in Request : CreateSubmission(s, r)
         \/ \E p \in Patch : PatchSubmission(s, p)
         \/ CancelSubmission(s) \/ CancelSignal(s) \/ CancelDropped(s)
  PROVE  [Quiet]_storeVars
<1>1. CASE \E r \in Request : CreateSubmission(s, r)
  BY <1>1 DEF CreateSubmission, Quiet, ProcTypeOK
<1>2. CASE \E p \in Patch : PatchSubmission(s, p)
  BY <1>2 DEF PatchSubmission, Quiet, Annotates
<1>3. CASE CancelSubmission(s)
  BY <1>3 DEF CancelSubmission, CancelQueued, Quiet, Annotates
<1>4. CASE CancelSignal(s) \/ CancelDropped(s)
  BY <1>4 DEF CancelSignal, CancelDropped
<1>5. QED
  BY <1>1, <1>2, <1>3, <1>4

LEMMA NextQuiet ==
  ASSUME ProcTypeOK, VisitsHead, TasksRun, [Next]_vars, ~RecoverOne, ~ClaimOk,
         \A s \in Submission : ~AttemptEnd(s) /\ ~AttemptLost(s)
  PROVE  [Quiet]_storeVars
<1>1. CASE UNCHANGED vars
  BY <1>1 DEF vars
<1>2. CASE \/ Boot \/ Crash \/ ExitAfterFailure \/ Interrupt \/ Tick
           \/ Stop \/ Drained
  BY <1>2 DEF Boot, Crash, ExitAfterFailure, Interrupt, Tick, Stop, Drained
<1>3. CASE SchedulerStep
  BY <1>3, SchedulerQuiet
<1>4. ASSUME NEW s \in Submission, TaskStep(s) \/ AttemptEvent(s)
      PROVE  [Quiet]_storeVars
  BY <1>4, TaskQuiet
<1>5. QED
  BY <1>1, <1>2, <1>3, <1>4, HandlerQuiet DEF Next

LEMMA NextTransacts ==
  ASSUME ProcTypeOK, VisitsHead, TasksRun, SlotReserved, [Next]_vars
  PROVE  [Transaction]_storeVars
<1>1. CASE RecoverOne
  BY <1>1 DEF RecoverOne, ActiveOf, RecoveredAs, Outcome, Transaction, ProcTypeOK
<1>2. CASE ClaimOk
  <2>1. Visited \in Submission /\ pick \in Source
    BY <1>2, VisitedTyped DEF ClaimOk, VisitsHead, SlotReserved, PassStep
  <2>2. QED
    BY <1>2, <2>1 DEF ClaimOk, Transaction
<1>3. ASSUME NEW s \in Submission, AttemptEnd(s) \/ AttemptLost(s)
      PROVE  Transaction
  BY <1>3, ReportableTyped DEF AttemptEnd, AttemptLost, Transaction, Outcome
<1>4. Quiet => Transaction
  BY DEF Quiet, Transaction
<1>5. QED
  BY <1>1, <1>2, <1>3, <1>4, NextQuiet

-----------------------------------------------------------------------------
(* The memory of the process is well typed. *)

LEMMA NoProcessTyped ==
  ASSUME ProcTypeOK, NoProcess, now' = now
  PROVE  ProcTypeOK'
BY DEF ProcTypeOK, NoProcess

(* The rows of a pass, in any order ORDER BY may give. *)
LEMMA SnapshotsTyped ==
  ASSUME StoreTypeOK, NEW S \in SUBSET Submission, NEW q \in Orders(S)
  PROVE  /\ [i \in DOMAIN q |-> Snapshot(q[i])] \in Seq(Entry)
         /\ \A i \in 1..Len([j \in DOMAIN q |-> Snapshot(q[j])]) :
              [j \in DOMAIN q |-> Snapshot(q[j])][i].id \in S
<1> DEFINE n == Cardinality(S)
<1>1. n \in Nat
  BY DomainAssumption, FS_Subset, FS_CardinalityType
<1>2. q \in [1..n -> S]
  BY DEF Orders
<1>3. \A s \in Submission : Snapshot(s) \in Entry /\ Snapshot(s).id = s
  BY DEF Snapshot, Entry, StoreTypeOK, Row
<1> HIDE DEF n
<1>4. \A i \in 1..n : q[i] \in S /\ q[i] \in Submission
  BY <1>2
<1> DEFINE p == [i \in 1..n |-> Snapshot(q[i])]
<1>5. DOMAIN q = 1..n
  BY <1>2
<1>6. p \in Seq(Entry) /\ Len(p) = n
  BY <1>1, <1>3, <1>4
<1>7. \A i \in 1..n : p[i].id \in S
  BY <1>3, <1>4
<1>8. p = [i \in DOMAIN q |-> Snapshot(q[i])]
  BY <1>5
<1> HIDE DEF p
<1>9. QED
  BY <1>6, <1>7, <1>8

(* What a probe, or the lack of one, leaves in the capacity manager. *)
LEMMA ObserveTyped ==
  ASSUME now \in Nat, NEW answer \in Answer
  PROVE  Cap!Observe(answer) \in Cap!Observation
<1>1. CASE Cap!Accepts(answer)
  <2>1. answer \in [health : {"healthy", "unavailable"},
                    kind : Cap!UsageKind \cup {None}, count : Nat, sampled : Int]
    BY <1>1, AnswerAssumption DEF Cap!Accepts
  <2>2. QED
    BY <1>1, <2>1 DEF Cap!Observe, Cap!Observation
<1>2. CASE ~Cap!Accepts(answer)
  BY <1>2 DEF Cap!Observe, Cap!Observation
<1>3. QED
  BY <1>1, <1>2

LEMMA StaticTyped ==
  ASSUME now \in Nat PROVE Cap!StaticObservation \in Cap!Observation
BY DEF Cap!StaticObservation, Cap!Observation

LEMMA SchedulerTyped ==
  ASSUME StoreTypeOK, ProcTypeOK, VisitsHead, SchedulerStep
  PROVE  ProcTypeOK'
<1>1. CASE RejectOne \/ RecoverOne
  BY <1>1 DEF ProcTypeOK, RejectOne, RecoverOne, procVars
<1>2. CASE RejectDone \/ RecoverDone
  BY <1>2 DEF ProcTypeOK, RejectDone, RecoverDone, procVars
<1>3. CASE Wake
  <2>1. obs' \in [Source -> Cap!Observation \cup {None}]
    BY <1>3, ObserveTyped DEF ProcTypeOK, Wake, Cap!RefreshDue
  <2>2. QED
    BY <1>3, <2>1 DEF ProcTypeOK, Wake
<1>4. CASE Query
  <2>1. queue' \in Seq(Entry)
    BY <1>4, SnapshotsTyped DEF Query
  <2>2. QED
    BY <1>4, <2>1 DEF ProcTypeOK, Query, procVars, PassStep
<1>5. CASE VisitReady \/ ClaimOk \/ ClaimBusy \/ EndPass
  BY <1>5 DEF ProcTypeOK, VisitReady, Visitable, ClaimOk, ClaimBusy, EndPass,
              procVars, PassStep
<1>6. ASSUME queue # << >>, queue' \in {queue, Tail(queue)}
      PROVE  queue' \in Seq(Entry)
  BY <1>6, HeadTailTyped DEF ProcTypeOK
<1>7. CASE VisitExpired \/ VisitTooEarly \/ VisitBlocked
  <2>1. queue' \in Seq(Entry)
    BY <1>6, <1>7 DEF VisitExpired, VisitTooEarly, VisitBlocked, Visitable
  <2>2. QED
    BY <1>7, <2>1 DEF ProcTypeOK, VisitExpired, VisitTooEarly, VisitBlocked,
                      Visitable, procVars
<1>8. CASE ClaimNotQueued \/ ReportBusy
  <2>1. queue' \in Seq(Entry)
    BY <1>6, <1>8 DEF ClaimNotQueued, ReportBusy, VisitsHead, PassStep
  <2>2. QED
    BY <1>8, <2>1 DEF ProcTypeOK, ClaimNotQueued, ReportBusy, procVars, PassStep
<1>9. CASE Register
  BY <1>9 DEF ProcTypeOK, Register, PassStep
<1>10. CASE Launch
  <2>1. queue' \in Seq(Entry)
    BY <1>6, <1>10 DEF Launch, VisitsHead, PassStep
  <2>2. Visited \in Submission
    BY <1>10, VisitedTyped DEF Launch, VisitsHead, PassStep
  <2>3. Rechecked(Visited) \in BOOLEAN
    BY DEF Rechecked
  <2>4. registry' \in [Submission -> BOOLEAN \cup {None}]
    BY <1>10, <2>3 DEF ProcTypeOK, Launch
  <2>5. QED
    BY <1>10, <2>1, <2>4 DEF ProcTypeOK, Launch, PassStep
<1>11. QED
  BY <1>1, <1>2, <1>3, <1>4, <1>5, <1>7, <1>8, <1>9, <1>10 DEF SchedulerStep

LEMMA ProcStep ==
  ASSUME StoreTypeOK, ProcTypeOK, VisitsHead, [Next]_vars
  PROVE  ProcTypeOK'
<1>1. CASE UNCHANGED vars
  BY <1>1 DEF ProcTypeOK, vars, schedVars, procVars
<1>2. CASE Boot
  <2>1. obs' \in [Source -> Cap!Observation \cup {None}]
    BY <1>2, StaticTyped DEF ProcTypeOK, Boot, Cap!Initialize
  <2>2. QED
    BY <1>2, <2>1 DEF ProcTypeOK, Boot
<1>3. CASE Crash \/ ExitAfterFailure \/ Drained
  BY <1>3, NoProcessTyped DEF Crash, ExitAfterFailure, Drained
<1>4. CASE Interrupt \/ Tick
  BY <1>4 DEF ProcTypeOK, Interrupt, Tick, schedVars, procVars
<1>5. CASE Stop
  BY <1>5 DEF ProcTypeOK, Stop
<1>6. CASE SchedulerStep
  BY <1>6, SchedulerTyped
<1>7. ASSUME NEW s \in Submission, TaskStep(s) \/ AttemptEvent(s)
      PROVE  ProcTypeOK'
  <2>1. CASE AttemptStarted(s) \/ AttemptReady(s) \/ AttemptEnd(s) \/ AttemptLost(s)
    BY <2>1 DEF ProcTypeOK, AttemptStarted, AttemptReady, AttemptEnd, AttemptLost,
                schedVars
  <2>2. CASE AttemptCleanup(s)
    BY <2>2 DEF ProcTypeOK, AttemptCleanup, schedVars
  <2>3. CASE AttemptEvent(s)
    BY <2>3 DEF ProcTypeOK, AttemptEvent, schedVars, procVars
  <2>4. QED
    BY <1>7, <2>1, <2>2, <2>3 DEF TaskStep
<1>8. ASSUME NEW s \in Submission,
             \/ \E r \in Request : CreateSubmission(s, r)
             \/ \E p \in Patch : PatchSubmission(s, p)
      PROVE  ProcTypeOK'
  BY <1>8 DEF ProcTypeOK, CreateSubmission, PatchSubmission, schedVars, procVars
<1>9. ASSUME NEW s \in Submission, CancelSubmission(s) \/ CancelDropped(s)
      PROVE  ProcTypeOK'
  BY <1>9 DEF ProcTypeOK, CancelSubmission, CancelDropped, schedVars
<1>10. ASSUME NEW s \in Submission, CancelSignal(s)
       PROVE  ProcTypeOK'
  <2>1. registry' \in [Submission -> BOOLEAN \cup {None}]
    BY <1>10 DEF ProcTypeOK, CancelSignal
  <2>2. QED
    BY <1>10, <2>1 DEF ProcTypeOK, CancelSignal, schedVars
<1>11. QED
  BY <1>1, <1>2, <1>3, <1>4, <1>5, <1>6, <1>7, <1>8, <1>9, <1>10 DEF Next

-----------------------------------------------------------------------------
(* What a step does to the rows, as far as the invariant looks at them. *)

(* A row stays in the table, keeps its request and its cancellation intent,
   and never returns to the queue. *)
RowsGrow ==
  \A s \in Submission :
    /\ Exists(s) => /\ subs'[s].state # "absent"
                    /\ subs'[s].request = subs[s].request
                    /\ subs[s].cancel_requested => subs'[s].cancel_requested
    /\ subs[s].state \notin {"absent", "queued"}
         => subs'[s].state \notin {"absent", "queued"}
    /\ ~Exists(s) /\ subs'[s].state # "absent" => subs'[s].request \in Request

LEMMA TransactionGrows ==
  ASSUME StoreTypeOK, [Transaction]_storeVars
  PROVE  RowsGrow
<1>1. CASE subs' = subs
  BY <1>1 DEF RowsGrow, Exists
<1>2. ASSUME NEW s \in Submission,
             \A t \in Submission : t # s => subs'[t] = subs[t],
             subs'[s].state # "absent",
             subs'[s].state = "queued" => subs[s].state \in {"absent", "queued"},
             \/ subs[s].state = "absent" /\ subs'[s].request \in Request
             \/ /\ subs[s].state # "absent" /\ subs'[s].request = subs[s].request
                /\ subs[s].cancel_requested => subs'[s].cancel_requested
      PROVE  RowsGrow
  BY <1>2 DEF RowsGrow, Exists
<1>3. ASSUME NEW s \in Submission, NEW r \in Request, NEW time \in Nat,
             Accept(s, r, time)
      PROVE  RowsGrow
  <2>1. /\ subs[s].state = "absent"
        /\ \A t \in Submission : t # s => subs'[t] = subs[t]
        /\ subs'[s].state = "queued" /\ subs'[s].request = r
    BY <1>3, AcceptEffect
  <2>2. QED
    BY <1>2, <2>1
<1>4. ASSUME NEW s \in Submission, NEW a \in Attempt, NEW src \in Source,
             Claim(s, a, src)
      PROVE  RowsGrow
  <2>1. Queued(s) /\ OnlyRow(s, "running")
    BY <1>4, ClaimEffect
  <2>2. subs'[s].cancel_requested = subs[s].cancel_requested
    BY <1>4 DEF Claim, StoreTypeOK, Row
  <2>3. QED
    BY <1>2, <2>1, <2>2 DEF OnlyRow, Queued
<1>5. ASSUME NEW s \in Submission, NEW a \in Attempt, NEW outcome \in Outcome,
             Finish(s, a, outcome)
      PROVE  RowsGrow
  <2>1. subs[s].state = "running" /\ OnlyRow(s, outcome)
    BY <1>5, FinishEffect
  <2>2. subs'[s].cancel_requested = subs[s].cancel_requested
    BY <1>5 DEF Finish, StoreTypeOK, Row
  <2>3. outcome \notin {"absent", "queued"}
    BY DEF Outcome, Confirmed
  <2>4. QED
    BY <1>2, <2>1, <2>2, <2>3 DEF OnlyRow
<1>6. ASSUME NEW s \in Submission, NEW to \in {"expired", "cancelled", "failed"},
             CloseQueued(s, to)
      PROVE  RowsGrow
  <2>1. Queued(s) /\ OnlyRow(s, to)
    BY <1>6, CloseEffect
  <2>2. subs'[s].cancel_requested = subs[s].cancel_requested
    BY <1>6 DEF CloseQueued, StoreTypeOK, Row
  <2>3. QED
    BY <1>2, <2>1, <2>2 DEF OnlyRow, Queued
<1>7. ASSUME NEW s \in Submission, Annotates(s)
      PROVE  RowsGrow
  <2>1. OnlyRow(s, subs[s].state) /\ subs[s].state \in {"queued", "running"}
    BY <1>7, AnnotateEffect
  <2>2. subs[s].cancel_requested => subs'[s].cancel_requested
    <3> USE DEF StoreTypeOK, Row
    <3>1. CASE \E code \in Blocker : SetBlocker(s, code)
      BY <3>1 DEF SetBlocker
    <3>2. CASE CancelRunning(s)
      BY <3>2 DEF CancelRunning
    <3>3. CASE \E p \in Patch : PatchScheduling(s, subs[s].revision, p)
      BY <3>3 DEF PatchScheduling
    <3>4. QED
      BY <1>7, <3>1, <3>2, <3>3 DEF Annotates
  <2>3. QED
    BY <1>2, <2>1, <2>2 DEF OnlyRow
<1>8. ASSUME NEW s \in Submission, NEW a \in Attempt,
             MarkAttemptRunning(s, a) \/ AppendAgentEvent(s, a)
      PROVE  subs' = subs
  BY <1>8 DEF MarkAttemptRunning, AppendAgentEvent
<1>9. CASE Transaction
  <2> HIDE DEF RowsGrow
  <2> QED
    BY <1>1, <1>9, <1>3, <1>4, <1>5, <1>6, <1>7, <1>8 DEF Transaction
<1>10. QED
  BY <1>1, <1>9 DEF storeVars

(* The same submissions run afterwards as before. *)
RunningKept ==
  \A s \in Submission : subs'[s].state = "running" <=> subs[s].state = "running"

(* No slot is taken. *)
HeldShrinks == \A src \in Source : Held(src)' \subseteq Held(src)

LEMMA QuietEffect ==
  ASSUME StoreTypeOK, [Quiet]_storeVars
  PROVE  RunningKept /\ HeldShrinks
<1>1. ASSUME atts' = atts PROVE HeldShrinks
  BY <1>1 DEF HeldShrinks, Held
<1>2. CASE UNCHANGED storeVars
  BY <1>1, <1>2 DEF storeVars, RunningKept
<1>3. ASSUME NEW s \in Submission, NEW to, OnlyRow(s, to),
             to = "running" <=> subs[s].state = "running"
      PROVE  RunningKept
  BY <1>3 DEF OnlyRow, RunningKept
<1>4. ASSUME NEW s \in Submission, NEW r \in Request, NEW time \in Nat,
             Accept(s, r, time)
      PROVE  RunningKept /\ HeldShrinks
  <2>1. /\ subs[s].state = "absent"
        /\ \A t \in Submission : t # s => subs'[t] = subs[t]
        /\ subs'[s].state = "queued" /\ atts' = atts
    BY <1>4, AcceptEffect
  <2>2. QED
    BY <1>1, <2>1 DEF RunningKept
<1>5. ASSUME NEW s \in Submission, NEW a \in Attempt, MarkAttemptRunning(s, a)
      PROVE  RunningKept /\ HeldShrinks
  <2>1. /\ subs' = subs
        /\ \A b \in Attempt : /\ atts'[b].source = atts[b].source
                              /\ atts'[b].capacity_held = atts[b].capacity_held
    BY <1>5, MarkEffect
  <2>2. QED
    BY <2>1 DEF RunningKept, HeldShrinks, Held
<1>6. ASSUME NEW s \in Submission, NEW a \in Attempt, AppendAgentEvent(s, a)
      PROVE  RunningKept /\ HeldShrinks
  BY <1>1, <1>6 DEF AppendAgentEvent, RunningKept
<1>7. ASSUME NEW s \in Submission, NEW to \in {"expired", "cancelled", "failed"},
             CloseQueued(s, to)
      PROVE  RunningKept /\ HeldShrinks
  BY <1>1, <1>3, <1>7, CloseEffect DEF Queued
<1>8. ASSUME NEW s \in Submission, Annotates(s)
      PROVE  RunningKept /\ HeldShrinks
  BY <1>1, <1>3, <1>8, AnnotateEffect
<1>9. QED
  BY <1>2, <1>4, <1>5, <1>6, <1>7, <1>8 DEF Quiet

(* The run of s ends, and only that one. *)
Ends(s, outcome) ==
  /\ subs[s].state = "running" /\ subs'[s].state = outcome
  /\ \A t \in Submission : t # s => subs'[t] = subs[t]
  /\ HeldShrinks

LEMMA FinishEnds ==
  ASSUME StoreTypeOK, NEW s \in Submission, NEW a \in Attempt, NEW outcome,
         Finish(s, a, outcome), AttemptInv
  PROVE  Ends(s, outcome)
<1>1. /\ subs[s].state = "running" /\ atts[a].submission = s
      /\ atts[a].state \in ActiveAttempt /\ OnlyRow(s, outcome)
      /\ \A b \in Attempt : b # a => atts'[b] = atts[b]
      /\ atts'[a].source = atts[a].source
  BY FinishEffect
<1>2. atts[a].capacity_held
  BY <1>1 DEF AttemptInv, AttemptOwnership, ActiveAttempt, Confirmed
<1>3. HeldShrinks
  BY <1>1, <1>2 DEF HeldShrinks, Held
<1>4. QED
  BY <1>1, <1>3 DEF Ends, OnlyRow

-----------------------------------------------------------------------------
(* The pass. *)

(* A pass only ever shortens its snapshot, until the next query. *)
LEMMA QueueMoves ==
  ASSUME [Next]_vars, ~Query, VisitsHead
  PROVE  \/ queue' = queue
         \/ queue' = << >>
         \/ queue # << >> /\ queue' = Tail(queue)
<1>1. CASE UNCHANGED vars
  BY <1>1 DEF vars, schedVars
<1>2. CASE Crash \/ ExitAfterFailure \/ Drained
  BY <1>2 DEF Crash, ExitAfterFailure, Drained, NoProcess
<1>3. CASE Boot \/ Interrupt \/ Tick \/ Stop
  BY <1>3 DEF Boot, Interrupt, Tick, Stop, schedVars
<1>4. CASE \/ RejectOne \/ RejectDone \/ RecoverOne \/ RecoverDone \/ Wake
           \/ VisitReady \/ ClaimOk \/ ClaimBusy \/ Register \/ EndPass
  BY <1>4 DEF RejectOne, RejectDone, RecoverOne, RecoverDone, Wake, VisitReady,
              ClaimOk, ClaimBusy, Register, EndPass
<1>5. CASE \/ VisitExpired \/ VisitTooEarly \/ VisitBlocked
           \/ ClaimNotQueued \/ ReportBusy \/ Launch
  BY <1>5 DEF VisitExpired, VisitTooEarly, VisitBlocked, Visitable, VisitsHead,
              ClaimNotQueued, ReportBusy, Launch, PassStep
<1>6. ASSUME NEW s \in Submission, TaskStep(s) \/ AttemptEvent(s)
      PROVE  queue' = queue
  BY <1>6 DEF TaskStep, AttemptStarted, AttemptReady, AttemptEnd, AttemptLost,
              AttemptCleanup, AttemptEvent, schedVars
<1>7. ASSUME NEW s \in Submission,
             \/ \E r \in Request : CreateSubmission(s, r)
             \/ \E p \in Patch : PatchSubmission(s, p)
             \/ CancelSubmission(s) \/ CancelSignal(s) \/ CancelDropped(s)
      PROVE  queue' = queue
  BY <1>7 DEF CreateSubmission, PatchSubmission, CancelSubmission, CancelSignal,
              CancelDropped, schedVars
<1>8. QED
  BY <1>1, <1>2, <1>3, <1>4, <1>5, <1>6, <1>7 DEF Next, SchedulerStep

LEMMA RequestsStep ==
  ASSUME StoreTypeOK, ProcTypeOK, VisitsHead, RequestsKnown, RowsGrow, [Next]_vars
  PROVE  RequestsKnown'
<1> USE DEF Exists
<1>1. \A s \in Submission : subs'[s].state # "absent" => subs'[s].request \in Request
  BY DEF RequestsKnown, RowsGrow
<1>2. \A s \in Submission : subs[s].state # "absent" => subs'[s].state # "absent"
  BY DEF RowsGrow
<1>3. queue \in Seq(Entry)
  BY DEF ProcTypeOK
<1>4. ASSUME NEW i \in 1..Len(queue)
      PROVE  queue[i].id \in Submission /\ subs'[queue[i].id].state # "absent"
  <2>1. queue[i] \in Entry
    BY <1>3
  <2>2. queue[i].id \in Submission
    BY <2>1 DEF Entry
  <2>3. QED
    BY <1>2, <2>2 DEF RequestsKnown
<1>5. \A i \in 1..Len(queue') : subs'[queue'[i].id].state # "absent"
  <2>1. CASE Query
    <3> DEFINE S == {s \in Submission : Queued(s)}
    <3>1. PICK q \in Orders(S) : queue' = [i \in DOMAIN q |-> Snapshot(q[i])]
      BY <2>1 DEF Query
    <3>2. \A i \in 1..Len(queue') : queue'[i].id \in S
      BY <3>1, SnapshotsTyped
    <3>3. \A s \in S : subs'[s].state # "absent"
      BY <1>2 DEF Queued
    <3>4. QED
      BY <3>2, <3>3
  <2>2. CASE queue' = queue
    BY <1>4, <2>2
  <2>3. CASE queue' = << >>
    BY <2>3
  <2>4. CASE queue # << >> /\ queue' = Tail(queue)
    <3>1. ASSUME NEW i \in 1..Len(Tail(queue))
          PROVE  subs'[Tail(queue)[i].id].state # "absent"
      <4>1. i + 1 \in 1..Len(queue) /\ Tail(queue)[i] = queue[i + 1]
        BY <1>3, <2>4, HeadTailTyped
      <4>2. QED
        BY <1>4, <4>1
    <3>2. QED
      BY <2>4, <3>1
  <2>5. QED
    BY <2>1, <2>2, <2>3, <2>4, QueueMoves
<1>6. QED
  BY <1>1, <1>5 DEF RequestsKnown

(* How the place of the scheduler changes, as far as the invariant asks. *)
LEMMA PlaceMoves ==
  ASSUME [Next]_vars, ~SchedulerStep
  PROVE  \/ UNCHANGED <<pc, queue, pending, pick>>
         \/ pc = "down" /\ pc' = "reject" /\ UNCHANGED <<task, registry, call>>
         \/ NoProcess
         \/ Stop
<1>1. CASE UNCHANGED vars
  BY <1>1 DEF vars, schedVars
<1>2. CASE \/ Crash \/ ExitAfterFailure \/ Drained \/ Boot \/ Interrupt \/ Tick
           \/ Stop
  BY <1>2 DEF Crash, ExitAfterFailure, Drained, Boot, Interrupt, Tick, schedVars
<1>3. ASSUME NEW s \in Submission, TaskStep(s) \/ AttemptEvent(s)
      PROVE  UNCHANGED <<pc, queue, pending, pick>>
  BY <1>3 DEF TaskStep, AttemptStarted, AttemptReady, AttemptEnd, AttemptLost,
              AttemptCleanup, AttemptEvent, schedVars
<1>4. ASSUME NEW s \in Submission,
             \/ \E r \in Request : CreateSubmission(s, r)
             \/ \E p \in Patch : PatchSubmission(s, p)
             \/ CancelSubmission(s) \/ CancelSignal(s) \/ CancelDropped(s)
      PROVE  UNCHANGED <<pc, queue, pending, pick>>
  BY <1>4 DEF CreateSubmission, PatchSubmission, CancelSubmission, CancelSignal,
              CancelDropped, schedVars
<1>5. QED
  BY <1>1, <1>2, <1>3, <1>4 DEF Next

LEMMA VisitsStep ==
  ASSUME VisitsHead, [Next]_vars
  PROVE  VisitsHead'
<1> USE DEF VisitsHead, PassStep
<1>1. CASE SchedulerStep
  BY <1>1 DEF SchedulerStep, RejectOne, RejectDone, RecoverOne, RecoverDone, Wake,
              Query, VisitExpired, VisitTooEarly, VisitReady, VisitBlocked, Visitable,
              ClaimOk, ClaimNotQueued, ClaimBusy, ReportBusy, Register, Launch, EndPass
<1>2. CASE ~SchedulerStep
  BY <1>2, PlaceMoves DEF NoProcess, Stop
<1>3. QED
  BY <1>1, <1>2

-----------------------------------------------------------------------------
(* Capacity. *)

(* Apart from claim, finish and the quiet transactions nothing happens. *)
LEMMA HeldMoves ==
  ASSUME StoreTypeOK, AttemptInv, ProcTypeOK, VisitsHead, TasksRun, [Next]_vars,
         ~ClaimOk
  PROVE  HeldShrinks
<1>1. CASE RecoverOne
  <2>1. PICK s \in Submission, a \in Attempt : Finish(s, a, RecoveredAs)
    BY <1>1 DEF RecoverOne, ActiveOf, ProcTypeOK
  <2>2. QED
    BY <2>1, FinishEnds DEF Ends
<1>2. ASSUME NEW s \in Submission, AttemptEnd(s) \/ AttemptLost(s)
      PROVE  HeldShrinks
  BY <1>2, FinishEnds DEF AttemptEnd, AttemptLost, Ends
<1>3. QED
  BY <1>1, <1>2, NextQuiet, QuietEffect

LEMMA HeldFinite ==
  ASSUME NEW src
  PROVE  IsFiniteSet(Held(src)) /\ Cardinality(Held(src)) \in Nat
<1>1. Held(src) \subseteq Attempt
  BY DEF Held
<1>2. QED
  BY <1>1, DomainAssumption, FS_Subset, FS_CardinalityType

LEMMA HeldCounts ==
  ASSUME HeldShrinks, NEW src \in Source
  PROVE  /\ Cardinality(Held(src)') \in Nat
         /\ Cardinality(Held(src)') <= Cardinality(Held(src))
<1>1. Held(src)' \subseteq Held(src)
  BY DEF HeldShrinks
<1>2. QED
  BY <1>1, HeldFinite, FS_Subset, FS_CardinalityType

(* The arithmetic of available: a source with a slot to give has fewer
   leases than its limit less its reserve. *)
LEMMA SlotsArithmetic ==
  ASSUME NEW limit \in Nat, NEW reserve \in Nat, NEW used \in Nat,
         NEW active \in Nat, active <= used,
         Cap!SatSub(Cap!SatSub(limit, used), reserve) # 0
  PROVE  active < limit - reserve
BY DEF Cap!SatSub

LEMMA UsedBounds ==
  ASSUME NEW o \in Cap!Observation, NEW active \in Nat
  PROVE  Cap!Used(o, active) \in Nat /\ active <= Cap!Used(o, active)
<1>1. /\ o.kind \in {"total_in_use", "external_in_use", None}
      /\ o.count \in Nat
      /\ None \notin {"total_in_use", "external_in_use"}
  BY DomainAssumption DEF Cap!Observation, Cap!UsageKind
<1>2. CASE o.kind = None
  BY <1>1, <1>2 DEF Cap!Used
<1>3. CASE o.kind # None /\ o.kind = "total_in_use"
  <2>1. Cap!Used(o, active) = Cap!Larger(active, o.count)
    BY <1>1, <1>3 DEF Cap!Used
  <2>2. QED
    BY <1>1, <2>1 DEF Cap!Larger
<1>4. CASE o.kind # None /\ o.kind = "external_in_use"
  <2>1. Cap!Used(o, active) = active + o.count
    BY <1>1, <1>4 DEF Cap!Used
  <2>2. QED
    BY <1>1, <2>1
<1>5. QED
  BY <1>1, <1>2, <1>3, <1>4

LEMMA FreeMeansRoom ==
  ASSUME ProcTypeOK, NEW src \in Source, Free(src)
  PROVE  Cardinality(Held(src)) < Limit[src] - Reserve[src]
<1> DEFINE active == Cardinality(Held(src))
<1>1. active \in Nat
  BY HeldFinite
<1>2. Limit[src] \in Nat /\ Reserve[src] \in Nat
  BY SourceAssumption DEF Cap!ValidSource
<1>3. Cap!Available(src, active) \notin {None, 0}
  BY DEF Free, ActiveForSource, Cap!HasSlot
<1> HIDE DEF active
<1>4. obs[src] # None /\ Cap!Slots(src, active) # 0
  BY <1>3 DEF Cap!Available
<1>5. obs[src] \in Cap!Observation
  BY <1>4 DEF ProcTypeOK
<1>6. Cap!Used(obs[src], active) \in Nat /\ active <= Cap!Used(obs[src], active)
  BY <1>1, <1>5, UsedBounds
<1>7. active < Limit[src] - Reserve[src]
  BY <1>1, <1>2, <1>4, <1>6, SlotsArithmetic DEF Cap!Slots
<1>8. QED
  BY <1>7 DEF active

(* A route of a visited row is a configured source. *)
LEMMA RoutesTyped ==
  ASSUME ProcTypeOK, RequestsKnown, queue # << >>
  PROVE  Routes(Visited) \in Seq(Source)
<1>1. queue[1] \in Entry /\ Visited = queue[1].id /\ 1 \in 1..Len(queue)
  BY DEF ProcTypeOK, Visited
<1>2. Visited \in Submission /\ Exists(Visited)
  BY <1>1 DEF RequestsKnown, Entry
<1>3. QED
  BY <1>2, SourceAssumption DEF RequestsKnown, Routes

(***************************************************************************)
(* Between select_dispatch, which counts the leases, and claim, which adds *)
(* one, other tasks run; none of them adds a lease.                        *)
(***************************************************************************)
LEMMA SlotStep ==
  ASSUME StoreTypeOK, AttemptInv, ProcTypeOK, VisitsHead, RequestsKnown,
         TasksRun, SlotReserved, [Next]_vars
  PROVE  SlotReserved'
<1> SUFFICES ASSUME pc' = "claim"
             PROVE  /\ pick' \in Source
                    /\ Cardinality(Held(pick)') < Limit[pick'] - Reserve[pick']
  BY DEF SlotReserved
<1>1. CASE VisitReady
  <2>1. PICK i \in DOMAIN Routes(Visited) :
          Free(Routes(Visited)[i]) /\ pick' = Routes(Visited)[i]
    BY <1>1 DEF VisitReady
  <2>2. pick' \in Source
    BY <1>1, <2>1, RoutesTyped DEF VisitReady, Visitable
  <2>3. Cardinality(Held(pick')) < Limit[pick'] - Reserve[pick']
    BY <2>1, <2>2, FreeMeansRoom
  <2>4. UNCHANGED atts
    BY <1>1 DEF VisitReady, storeVars
  <2>5. QED
    BY <2>2, <2>3, <2>4 DEF Held
<1>2. CASE ~VisitReady
  <2>1. pc = "claim" /\ pick' = pick /\ ~ClaimOk
    <3>1. CASE SchedulerStep
      BY <1>2, <3>1
         DEF SchedulerStep, RejectOne, RejectDone, RecoverOne, RecoverDone, Wake,
             Query, VisitExpired, VisitTooEarly, VisitBlocked, Visitable, ClaimOk,
             ClaimNotQueued, ClaimBusy, ReportBusy, Register, Launch, EndPass
    <3>2. CASE ~SchedulerStep
      BY <3>2, PlaceMoves DEF NoProcess, Stop, SchedulerStep
    <3>3. QED
      BY <3>1, <3>2
  <2>2. PICK src \in Source : src = pick
    BY <2>1 DEF SlotReserved
  <2>3. /\ Cardinality(Held(src)) < Limit[src] - Reserve[src]
        /\ Limit[src] \in Nat /\ Reserve[src] \in Nat
        /\ Cardinality(Held(src)) \in Nat
    BY <2>1, <2>2, SourceAssumption, HeldFinite DEF SlotReserved, Cap!ValidSource
  <2>4. /\ Cardinality(Held(src)') \in Nat
        /\ Cardinality(Held(src)') <= Cardinality(Held(src))
    BY <2>1, HeldMoves, HeldCounts
  <2>5. Cardinality(Held(src)') < Limit[src] - Reserve[src]
    BY <2>3, <2>4
  <2>6. Held(pick)' = Held(src)'
    BY <2>1, <2>2 DEF Held
  <2>7. QED
    BY <2>1, <2>2, <2>5, <2>6
<1>3. QED
  BY <1>1, <1>2

LEMMA CapacityStep ==
  ASSUME StoreTypeOK, AttemptInv, ProcTypeOK, VisitsHead, TasksRun, SlotReserved,
         CapacityRespected, [Next]_vars
  PROVE  CapacityRespected'
<1> SUFFICES ASSUME NEW src \in Source
             PROVE  Cardinality(Held(src)') <= Limit[src] - Reserve[src]
  BY DEF CapacityRespected
<1>1. /\ Limit[src] \in Nat /\ Reserve[src] \in Nat
      /\ Cardinality(Held(src)) \in Nat
      /\ Cardinality(Held(src)) <= Limit[src] - Reserve[src]
  BY SourceAssumption, HeldFinite DEF Cap!ValidSource, CapacityRespected
<1>2. CASE ClaimOk
  <2>1. /\ Visited \in Submission /\ pick \in Source
        /\ Cardinality(Held(pick)) < Limit[pick] - Reserve[pick]
    BY <1>2, VisitedTyped DEF ClaimOk, VisitsHead, SlotReserved, PassStep
  <2>2. PICK a \in Attempt : Claim(Visited, a, pick)
    BY <1>2 DEF ClaimOk
  <2>3. /\ \A b \in Attempt : b # a => atts'[b] = atts[b]
        /\ atts'[a].source = pick
    <3>1. /\ \A b \in Attempt : b # a => atts'[b] = atts[b]
          /\ atts'[a] = [state |-> "starting", submission |-> Visited,
                         source |-> pick, capacity_held |-> TRUE]
      BY <2>1, <2>2, ClaimEffect
    <3>2. QED
      BY <3>1
  <2>4. CASE src = pick
    <3>1. Held(src)' \subseteq Held(src) \cup {a}
      BY <2>3 DEF Held
    <3>2. /\ IsFiniteSet(Held(src) \cup {a})
          /\ Cardinality(Held(src) \cup {a}) <= Cardinality(Held(src)) + 1
      BY HeldFinite, FS_AddElement
    <3>3. /\ Cardinality(Held(src)') \in Nat
          /\ Cardinality(Held(src) \cup {a}) \in Nat
          /\ Cardinality(Held(src)') <= Cardinality(Held(src) \cup {a})
      BY <3>1, <3>2, FS_Subset, FS_CardinalityType
    <3>4. QED
      BY <1>1, <2>1, <2>4, <3>2, <3>3
  <2>5. CASE src # pick
    <3>1. Held(src)' \subseteq Held(src)
      BY <2>3, <2>5 DEF Held
    <3>2. /\ Cardinality(Held(src)') \in Nat
          /\ Cardinality(Held(src)') <= Cardinality(Held(src))
      BY <3>1, HeldFinite, FS_Subset, FS_CardinalityType
    <3>3. QED
      BY <1>1, <3>2
  <2>6. QED
    BY <2>4, <2>5
<1>3. CASE ~ClaimOk
  BY <1>1, <1>3, HeldMoves, HeldCounts
<1>4. QED
  BY <1>2, <1>3

-----------------------------------------------------------------------------
(* The scheduler is at none of the places the invariant speaks of. *)
Calm == {"idle", "query", "visit", "claim", "busy", "drain"}

SteadyPlace ==
  \/ pc' = pc /\ queue' = queue /\ (pc = "recover" => pending' = pending)
  \/ pc \in Calm /\ pc' \in Calm \cup {"failed"}

(* No task starts or ends. *)
SteadyTasks ==
  \A s \in Submission : \/ task'[s] = task[s]
                        \/ Driven(s) /\ task'[s] \in {"starting", "marked", "live"}

(* A registered task can only be told to cancel. *)
SteadyRegistry ==
  \A s \in Submission : \/ registry'[s] = registry[s]
                        \/ registry[s] # None /\ registry'[s] = TRUE

(* A handler is answered with a durable intent, and a signal if possible. *)
SteadyCalls ==
  \A s \in Submission :
    \/ call'[s] \in {call[s], "idle"}
    \/ /\ call'[s] = "send" /\ pc # "down"
       /\ subs'[s].state # "absent" /\ subs'[s].cancel_requested
    \/ /\ call[s] = "send" /\ call'[s] = "acked"
       /\ registry[s] # None => registry'[s] = TRUE

(* Most steps change none of this. *)
LEMMA SteadyStep ==
  ASSUME ProcTypeOK, VisitsHead, DriveInv, RowsGrow, RunningKept,
         SteadyPlace, SteadyTasks, SteadyRegistry, SteadyCalls
  PROVE  DriveInv'
<1>1. TasksRun'
  <2> SUFFICES ASSUME NEW s \in Submission
               PROVE  /\ task'[s] \in {"starting", "marked", "live"} =>
                           subs'[s].state = "running" /\ registry'[s] # None
                      /\ task'[s] # "none" => subs'[s].state \notin {"absent", "queued"}
                      /\ pc' \in {"down", "reject", "recover"} => task'[s] = "none"
    BY DEF TasksRun, Driven
  <2>1. /\ Driven(s) => subs[s].state = "running" /\ registry[s] # None
        /\ task[s] # "none" => subs[s].state \notin {"absent", "queued"}
        /\ pc \in {"down", "reject", "recover"} => task[s] = "none"
    BY DEF DriveInv, TasksRun
  <2>2. task'[s] \in {"starting", "marked", "live"} => Driven(s)
    BY DEF SteadyTasks, Driven
  <2>3. registry[s] # None => registry'[s] # None
    BY DomainAssumption DEF SteadyRegistry
  <2>4. task'[s] # "none" => task[s] # "none"
    BY DEF SteadyTasks, Driven
  <2>5. pc' \in {"down", "reject", "recover"} => pc' = pc
    BY DEF SteadyPlace, Calm
  <2>6. QED
    BY <2>1, <2>2, <2>3, <2>4, <2>5 DEF RunningKept, RowsGrow
<1>2. LaunchReady'
  <2> SUFFICES ASSUME pc' \in {"register", "recheck"}
               PROVE  /\ subs'[Visited'].state = "running" /\ task'[Visited'] = "none"
                      /\ pc' = "recheck" => registry'[Visited'] # None
    BY DEF LaunchReady
  <2>1. pc' = pc /\ Visited' = Visited
    BY DEF SteadyPlace, Calm, Visited
  <2>2. Visited \in Submission
    BY <2>1, VisitedTyped DEF VisitsHead, PassStep
  <2>3. /\ subs[Visited].state = "running" /\ task[Visited] = "none"
        /\ pc = "recheck" => registry[Visited] # None
    BY <2>1 DEF DriveInv, LaunchReady
  <2>4. subs'[Visited].state = "running" /\ task'[Visited] = "none"
    BY <2>2, <2>3 DEF RunningKept, SteadyTasks, Driven
  <2>5. registry[Visited] # None => registry'[Visited] # None
    BY <2>2, DomainAssumption DEF SteadyRegistry
  <2>6. QED
    BY <2>1, <2>3, <2>4, <2>5
<1>3. RecoveryPending'
  BY DEF DriveInv, RecoveryPending, SteadyPlace, Calm, RunningKept
<1>4. CancelKnown'
  <2> SUFFICES ASSUME NEW s \in Submission
               PROVE  /\ call'[s] # "idle" =>
                           pc' # "down" /\ subs'[s].state # "absent"
                             /\ subs'[s].cancel_requested
                      /\ call'[s] = "acked" /\ task'[s] \in {"starting", "marked", "live"}
                           => registry'[s] = TRUE
    BY DEF CancelKnown, Driven, Exists
  <2>1. /\ call[s] # "idle" => pc # "down" /\ Exists(s) /\ subs[s].cancel_requested
        /\ call[s] = "acked" /\ Driven(s) => registry[s] = TRUE
        /\ Driven(s) => registry[s] # None
    BY DEF DriveInv, CancelKnown, TasksRun
  <2>2. pc # "down" => pc' # "down"
    BY DEF SteadyPlace, Calm
  <2>3. task'[s] \in {"starting", "marked", "live"} => Driven(s)
    BY DEF SteadyTasks, Driven
  <2>4. call'[s] # "idle" =>
          pc' # "down" /\ subs'[s].state # "absent" /\ subs'[s].cancel_requested
    BY <2>1, <2>2 DEF SteadyCalls, RowsGrow
  <2>5. registry[s] = TRUE => registry'[s] = TRUE
    BY DEF SteadyRegistry
  <2>6. ASSUME call'[s] = "acked", Driven(s)
        PROVE  registry'[s] = TRUE
    <3>1. CASE call[s] = "acked"
      BY <2>1, <2>5, <2>6, <3>1
    <3>2. CASE call[s] # "acked"
      BY <2>1, <2>6, <3>2 DEF SteadyCalls
    <3>3. QED
      BY <3>1, <3>2
  <2>7. QED
    BY <2>3, <2>4, <2>6
<1>5. RunningIsDriven'
  <2> SUFFICES ASSUME NEW s \in Submission, subs'[s].state = "running",
                      pc' \notin {"down", "failed", "reject", "recover"}
               PROVE  \/ pc' \in {"register", "recheck"} /\ Visited' = s
                      \/ task'[s] \in {"starting", "marked", "live"}
    BY DEF RunningIsDriven, Launching, Up
  <2>1. subs[s].state = "running" /\ pc \notin {"down", "failed", "reject", "recover"}
    BY DEF RunningKept, SteadyPlace, Calm
  <2>2. Launching(s) \/ Driven(s)
    BY <2>1 DEF DriveInv, RunningIsDriven, Up, Driven
  <2>3. CASE Launching(s)
    <3>1. pc' = pc /\ Visited' = Visited
      BY <2>3 DEF Launching, SteadyPlace, Calm, Visited
    <3>2. QED
      BY <2>3, <3>1 DEF Launching
  <2>4. CASE Driven(s)
    BY <2>4 DEF SteadyTasks, Driven
  <2>5. QED
    BY <2>2, <2>3, <2>4
<1>6. QED
  BY <1>1, <1>2, <1>3, <1>4, <1>5 DEF DriveInv

(* The process is gone: nothing of its memory is left. *)
LEMMA NoProcessDrives ==
  ASSUME NoProcess PROVE DriveInv'
BY DEF NoProcess, DriveInv, TasksRun, LaunchReady, RecoveryPending, CancelKnown,
       RunningIsDriven, Driven, Launching, Up

LEMMA BootDrives ==
  ASSUME ProcTypeOK, DriveInv, Boot PROVE DriveInv'
<1>1. /\ pc = "down" /\ pc' = "reject"
      /\ UNCHANGED <<subs, registry, task, call>>
  BY DEF Boot, storeVars
<1>2. TasksRun'
  BY <1>1 DEF DriveInv, TasksRun, Driven
<1>3. CancelKnown'
  BY <1>1 DEF DriveInv, CancelKnown, Driven, Exists
<1>4. LaunchReady' /\ RecoveryPending' /\ RunningIsDriven'
  BY <1>1 DEF LaunchReady, RecoveryPending, RunningIsDriven
<1>5. QED
  BY <1>2, <1>3, <1>4 DEF DriveInv

(* recover_running_as_uncertain selects exactly the running submissions. *)
LEMMA RejectDoneDrives ==
  ASSUME AttemptInv, DriveInv, RejectDone PROVE DriveInv'
<1>1. /\ pc = "reject" /\ pc' = "recover"
      /\ UNCHANGED <<subs, atts, registry, task, call>>
      /\ pending' = {s \in Submission : ActiveOf(s) # {}}
  BY DEF RejectDone, storeVars, procVars
<1>2. ASSUME NEW s \in Submission
      PROVE  ActiveOf(s) # {} <=> subs[s].state = "running"
  <2>1. ASSUME NEW a \in ActiveOf(s)
        PROVE  subs[s].state = "running"
    <3>1. a \in Attempt /\ atts[a].submission = s /\ atts[a].state \in ActiveAttempt
      BY DEF ActiveOf
    <3>2. atts[a].state # "absent"
      BY <3>1 DEF ActiveAttempt
    <3>3. QED
      BY <3>1, <3>2 DEF AttemptInv, AttemptOwnership
  <2>2. QED
    BY <2>1 DEF AttemptInv, RunningIsOwned
<1>3. TasksRun'
  BY <1>1 DEF DriveInv, TasksRun, Driven
<1>4. CancelKnown'
  BY <1>1 DEF DriveInv, CancelKnown, Driven, Exists
<1>5. RecoveryPending'
  BY <1>1, <1>2 DEF RecoveryPending
<1>6. LaunchReady' /\ RunningIsDriven'
  BY <1>1 DEF LaunchReady, RunningIsDriven
<1>7. QED
  BY <1>3, <1>4, <1>5, <1>6 DEF DriveInv

LEMMA RecoverOneDrives ==
  ASSUME StoreTypeOK, AttemptInv, ProcTypeOK, DriveInv, RowsGrow, RecoverOne
  PROVE  DriveInv'
<1>1. /\ pc = "recover" /\ pc' = pc
      /\ UNCHANGED <<registry, task, call>>
  BY DEF RecoverOne, procVars
<1>2. PICK s \in pending :
        /\ \E a \in ActiveOf(s) : Finish(s, a, RecoveredAs)
        /\ pending' = pending \ {s}
  BY DEF RecoverOne
<1>3. s \in Submission /\ Ends(s, "uncertain")
  BY <1>2, FinishEnds DEF ProcTypeOK, ActiveOf, RecoveredAs
<1>4. \A t \in Submission : task[t] = "none"
  BY <1>1 DEF DriveInv, TasksRun
<1>5. TasksRun'
  BY <1>1, <1>4 DEF TasksRun, Driven
<1>6. CancelKnown'
  <2>1. \A t \in Submission : call[t] # "idle" =>
          pc # "down" /\ Exists(t) /\ subs[t].cancel_requested
    BY DEF DriveInv, CancelKnown
  <2>2. \A t \in Submission : call'[t] # "idle" =>
          pc' # "down" /\ subs'[t].state # "absent" /\ subs'[t].cancel_requested
    BY <1>1, <2>1 DEF RowsGrow
  <2>3. QED
    BY <1>1, <1>4, <2>2 DEF CancelKnown, Driven, Exists
<1>7. RecoveryPending'
  BY <1>1, <1>2, <1>3 DEF DriveInv, RecoveryPending, Ends
<1>8. LaunchReady' /\ RunningIsDriven'
  BY <1>1 DEF LaunchReady, RunningIsDriven
<1>9. QED
  BY <1>5, <1>6, <1>7, <1>8 DEF DriveInv

LEMMA RecoverDoneDrives ==
  ASSUME DriveInv, RecoverDone PROVE DriveInv'
<1>1. /\ pc = "recover" /\ pending = {} /\ pc' = "idle"
      /\ UNCHANGED <<subs, registry, task, call>>
  BY DEF RecoverDone, storeVars, procVars
<1>2. \A s \in Submission : subs[s].state # "running"
  BY <1>1 DEF DriveInv, RecoveryPending
<1>3. TasksRun'
  BY <1>1 DEF DriveInv, TasksRun, Driven
<1>4. CancelKnown'
  BY <1>1 DEF DriveInv, CancelKnown, Driven, Exists
<1>5. LaunchReady' /\ RecoveryPending' /\ RunningIsDriven'
  BY <1>1, <1>2 DEF LaunchReady, RecoveryPending, RunningIsDriven
<1>6. QED
  BY <1>3, <1>4, <1>5 DEF DriveInv

(* A claimed row was waiting, so it has no task and no acknowledged cancel of
   a running attempt. *)
LEMMA ClaimDrives ==
  ASSUME StoreTypeOK, ProcTypeOK, VisitsHead, DriveInv, SlotReserved, RowsGrow,
         ClaimOk
  PROVE  DriveInv'
<1>1. /\ pc = "claim" /\ pc' = "register"
      /\ UNCHANGED <<queue, registry, task, call>>
  BY DEF ClaimOk, procVars
<1>2. Visited \in Submission /\ pick \in Source /\ Visited' = Visited
  BY <1>1, VisitedTyped DEF VisitsHead, SlotReserved, PassStep, Visited
<1>3. Queued(Visited) /\ OnlyRow(Visited, "running")
  BY <1>2, ClaimEffect DEF ClaimOk
<1> DEFINE v == Visited
<1>4. /\ v \in Submission /\ Visited' = v
      /\ subs[v].state = "queued" /\ subs'[v].state = "running"
      /\ \A t \in Submission : t # v => subs'[t] = subs[t]
  BY <1>2, <1>3 DEF Queued, OnlyRow
<1>5. task[v] = "none"
  BY <1>4 DEF DriveInv, TasksRun
<1> HIDE DEF v
<1>6. TasksRun'
  <2> SUFFICES ASSUME NEW s \in Submission
               PROVE  /\ Driven(s) => subs'[s].state = "running" /\ registry'[s] # None
                      /\ task[s] # "none" => subs'[s].state \notin {"absent", "queued"}
    BY <1>1 DEF TasksRun, Driven
  <2>1. CASE s = v
    BY <1>4, <1>5, <2>1 DEF Driven
  <2>2. CASE s # v
    <3>1. subs'[s] = subs[s]
      BY <1>4, <2>2
    <3>2. QED
      BY <1>1, <3>1 DEF DriveInv, TasksRun
  <2>3. QED
    BY <2>1, <2>2
<1>7. LaunchReady'
  BY <1>1, <1>4, <1>5 DEF LaunchReady
<1>8. CancelKnown'
  <2>1. \A t \in Submission : call[t] # "idle" =>
          pc # "down" /\ Exists(t) /\ subs[t].cancel_requested
    BY DEF DriveInv, CancelKnown
  <2>2. \A t \in Submission : call'[t] # "idle" =>
          pc' # "down" /\ subs'[t].state # "absent" /\ subs'[t].cancel_requested
    BY <1>1, <2>1 DEF RowsGrow
  <2>3. QED
    BY <1>1, <2>2 DEF DriveInv, CancelKnown, Driven, Exists
<1>9. RunningIsDriven'
  <2> SUFFICES ASSUME NEW s \in Submission, subs'[s].state = "running"
               PROVE  Visited' = s \/ Driven(s)
    BY <1>1 DEF RunningIsDriven, Launching, Driven
  <2>1. CASE s # v
    <3>1. subs[s].state = "running"
      BY <1>4, <2>1
    <3>2. QED
      BY <1>1, <3>1 DEF DriveInv, RunningIsDriven, Up, Launching, Driven
  <2>2. QED
    BY <1>4, <2>1
<1>10. RecoveryPending'
  BY <1>1 DEF RecoveryPending
<1>11. QED
  BY <1>6, <1>7, <1>8, <1>9, <1>10 DEF DriveInv

LEMMA RegisterDrives ==
  ASSUME ProcTypeOK, VisitsHead, DriveInv, Register PROVE DriveInv'
<1>1. /\ pc = "register" /\ pc' = "recheck"
      /\ UNCHANGED <<subs, queue, task, call>>
      /\ registry' = [registry EXCEPT ![Visited] = FALSE]
  BY DEF Register, storeVars
<1>2. Visited \in Submission /\ Visited' = Visited
  BY <1>1, VisitedTyped DEF VisitsHead, PassStep, Visited
<1>3. subs[Visited].state = "running" /\ task[Visited] = "none"
  BY <1>1 DEF DriveInv, LaunchReady
<1> DEFINE v == Visited
<1>4. /\ v \in Submission /\ Visited' = v /\ Visited = v
      /\ subs[v].state = "running" /\ task[v] = "none"
  BY <1>2, <1>3
<1>5. registry'[v] # None /\ \A s \in Submission : s # v => registry'[s] = registry[s]
  BY <1>1, <1>4, DomainAssumption DEF ProcTypeOK
<1> HIDE DEF v
<1>6. TasksRun'
  BY <1>1, <1>4, <1>5 DEF DriveInv, TasksRun, Driven
<1>7. LaunchReady'
  BY <1>1, <1>4, <1>5 DEF LaunchReady
<1>8. CancelKnown'
  BY <1>1, <1>4, <1>5 DEF DriveInv, CancelKnown, Driven, Exists
<1>9. RunningIsDriven'
  BY <1>1, <1>4 DEF DriveInv, RunningIsDriven, Launching, Up
<1>10. RecoveryPending'
  BY <1>1 DEF RecoveryPending
<1>11. QED
  BY <1>6, <1>7, <1>8, <1>9, <1>10 DEF DriveInv

(* The recheck sees the intent of every handler that answered before. *)
LEMMA LaunchDrives ==
  ASSUME ProcTypeOK, VisitsHead, DriveInv, Launch PROVE DriveInv'
<1>1. /\ pc = "recheck" /\ pc' = "visit"
      /\ UNCHANGED <<subs, call>>
      /\ registry' = [registry EXCEPT ![Visited] = Rechecked(Visited)]
      /\ task' = [task EXCEPT ![Visited] = "starting"]
  BY DEF Launch, storeVars
<1>2. Visited \in Submission
  BY <1>1, VisitedTyped DEF VisitsHead, PassStep
<1>3. subs[Visited].state = "running"
  BY <1>1 DEF DriveInv, LaunchReady
<1> DEFINE v == Visited
<1>4. /\ v \in Submission /\ subs[v].state = "running"
      /\ task'[v] = "starting" /\ registry'[v] = Rechecked(v)
      /\ \A s \in Submission : s # v => task'[s] = task[s] /\ registry'[s] = registry[s]
  BY <1>1, <1>2, <1>3 DEF ProcTypeOK
<1>5. Rechecked(v) # None
  BY DomainAssumption DEF Rechecked
<1>6. \A s \in Submission : Launching(s) => s = v
  BY DEF Launching
<1> HIDE DEF v
<1>7. TasksRun'
  BY <1>1, <1>4, <1>5 DEF DriveInv, TasksRun, Driven
<1>8. CancelKnown'
  <2>1. \A s \in Submission : call[s] # "idle" =>
          pc # "down" /\ Exists(s) /\ subs[s].cancel_requested
    BY DEF DriveInv, CancelKnown
  <2>2. subs[v].cancel_requested => Rechecked(v) = TRUE
    BY DEF Rechecked
  <2>3. call[v] # "idle" => registry'[v] = TRUE
    BY <1>4, <2>1, <2>2
  <2>4. \A s \in Submission : s # v /\ call[s] = "acked" /\ Driven(s)
          => registry'[s] = TRUE
    BY <1>4 DEF DriveInv, CancelKnown
  <2>5. QED
    BY <1>1, <1>4, <2>1, <2>3, <2>4 DEF CancelKnown, Driven, Exists
<1>9. RunningIsDriven'
  BY <1>1, <1>4, <1>6 DEF DriveInv, RunningIsDriven, Up
<1>10. LaunchReady' /\ RecoveryPending'
  BY <1>1 DEF LaunchReady, RecoveryPending
<1>11. QED
  BY <1>7, <1>8, <1>9, <1>10 DEF DriveInv

LEMMA EndDrives ==
  ASSUME StoreTypeOK, AttemptInv, ProcTypeOK, VisitsHead, DriveInv, RowsGrow,
         NEW s \in Submission, AttemptEnd(s) \/ AttemptLost(s)
  PROVE  DriveInv'
<1>1. /\ task[s] \in {"starting", "live"}
      /\ pc \notin {"down", "failed"}
      /\ task'[s] = "cleanup"
      /\ \A t \in Submission : t # s => task'[t] = task[t]
      /\ UNCHANGED <<pc, pending, queue, registry, call>>
  BY DEF AttemptEnd, AttemptLost, ProcTypeOK, schedVars, Up
<1>2. PICK outcome \in Outcome : Ends(s, outcome)
  BY FinishEnds, ReportableTyped DEF AttemptEnd, AttemptLost, Outcome
<1>3. outcome \notin {"absent", "queued", "running"}
  BY DEF Outcome, Confirmed
<1>4. pc \notin {"reject", "recover"}
  BY <1>1 DEF DriveInv, TasksRun
<1>5. \A t \in Submission : t # s => subs'[t] = subs[t]
  BY <1>2 DEF Ends
<1>6. TasksRun'
  BY <1>1, <1>2, <1>3, <1>4, <1>5 DEF DriveInv, TasksRun, Driven, Ends
<1>7. LaunchReady'
  <2> SUFFICES ASSUME pc \in {"register", "recheck"}
               PROVE  /\ subs'[Visited].state = "running" /\ task'[Visited] = "none"
                      /\ pc = "recheck" => registry[Visited] # None
    BY <1>1 DEF LaunchReady, Visited
  <2>1. Visited \in Submission /\ Visited # s
    BY <1>1, VisitedTyped DEF VisitsHead, PassStep, DriveInv, LaunchReady
  <2>2. QED
    BY <1>1, <1>5, <2>1 DEF DriveInv, LaunchReady
<1>8. CancelKnown'
  <2>1. \A t \in Submission : call'[t] # "idle" =>
          pc' # "down" /\ subs'[t].state # "absent" /\ subs'[t].cancel_requested
    BY <1>1 DEF DriveInv, CancelKnown, RowsGrow
  <2>2. QED
    BY <1>1, <2>1 DEF DriveInv, CancelKnown, Driven, Exists
<1>9. RunningIsDriven'
  <2> SUFFICES ASSUME NEW t \in Submission, subs'[t].state = "running"
               PROVE  \/ pc \in {"register", "recheck"} /\ Visited = t
                      \/ task'[t] \in {"starting", "marked", "live"}
    BY <1>1 DEF RunningIsDriven, Launching, Visited
  <2>1. t # s
    BY <1>2, <1>3 DEF Ends
  <2>2. Launching(t) \/ task[t] \in {"starting", "marked", "live"}
    BY <1>1, <1>4, <1>5, <2>1 DEF DriveInv, RunningIsDriven, Up
  <2>3. QED
    BY <1>1, <2>1, <2>2 DEF Launching
<1>10. RecoveryPending'
  BY <1>1, <1>4 DEF RecoveryPending
<1>11. QED
  BY <1>6, <1>7, <1>8, <1>9, <1>10 DEF DriveInv

LEMMA CleanupDrives ==
  ASSUME ProcTypeOK, VisitsHead, DriveInv, NEW s \in Submission, AttemptCleanup(s)
  PROVE  DriveInv'
<1>1. /\ task[s] = "cleanup" /\ task'[s] = "none"
      /\ \A t \in Submission : t # s => task'[t] = task[t] /\ registry'[t] = registry[t]
      /\ UNCHANGED <<subs, pc, pending, queue, call>>
  BY DEF AttemptCleanup, ProcTypeOK, schedVars, storeVars
<1>2. TasksRun'
  BY <1>1 DEF DriveInv, TasksRun, Driven
<1>3. LaunchReady'
  <2> SUFFICES ASSUME pc \in {"register", "recheck"}
               PROVE  /\ subs[Visited].state = "running" /\ task'[Visited] = "none"
                      /\ pc = "recheck" => registry'[Visited] # None
    BY <1>1 DEF LaunchReady, Visited
  <2>1. Visited \in Submission /\ Visited # s
    BY <1>1, VisitedTyped DEF VisitsHead, PassStep, DriveInv, LaunchReady
  <2>2. QED
    BY <1>1, <2>1 DEF DriveInv, LaunchReady
<1>4. CancelKnown'
  BY <1>1 DEF DriveInv, CancelKnown, Driven, Exists
<1>5. RunningIsDriven'
  <2> SUFFICES ASSUME NEW t \in Submission, subs[t].state = "running",
                      Up, pc \notin {"reject", "recover"}
               PROVE  Launching(t) \/ task'[t] \in {"starting", "marked", "live"}
    BY <1>1 DEF RunningIsDriven, Launching, Visited, Up
  <2>1. Launching(t) \/ task[t] \in {"starting", "marked", "live"}
    BY DEF DriveInv, RunningIsDriven
  <2>2. QED
    BY <1>1, <2>1
<1>6. RecoveryPending'
  BY <1>1 DEF DriveInv, RecoveryPending
<1>7. QED
  BY <1>2, <1>3, <1>4, <1>5, <1>6 DEF DriveInv

Steady == SteadyPlace /\ SteadyTasks /\ SteadyRegistry /\ SteadyCalls

(* The steps of the scheduler that leave tasks and handlers alone. *)
LEMMA SchedulerSteady ==
  ASSUME SchedulerStep, ~RejectDone, ~RecoverOne, ~RecoverDone, ~ClaimOk,
         ~Register, ~Launch
  PROVE  Steady
<1>1. UNCHANGED <<task, registry, call>>
  BY DEF SchedulerStep, RejectOne, Wake, Query, VisitExpired, VisitTooEarly,
         VisitReady, VisitBlocked, ClaimNotQueued, ClaimBusy, ReportBusy, EndPass,
         procVars
<1>2. SteadyPlace
  BY DEF SchedulerStep, RejectOne, Wake, Query, VisitExpired, VisitTooEarly,
         VisitReady, VisitBlocked, Visitable, ClaimNotQueued, ClaimBusy, ReportBusy,
         EndPass, SteadyPlace, Calm
<1>3. QED
  BY <1>1, <1>2 DEF Steady, SteadyTasks, SteadyRegistry, SteadyCalls

LEMMA IdleSteady ==
  ASSUME UNCHANGED vars \/ Interrupt \/ Tick
  PROVE  Steady
<1>1. UNCHANGED <<pc, queue, pending, task, registry, call>>
  BY DEF vars, Interrupt, Tick, schedVars, procVars
<1>2. QED
  BY <1>1 DEF Steady, SteadyPlace, SteadyTasks, SteadyRegistry, SteadyCalls

(* What clients and running attempts do. *)
LEMMA OthersSteady ==
  ASSUME ProcTypeOK, StoreTypeOK, NEW s \in Submission,
         \/ AttemptStarted(s) \/ AttemptReady(s) \/ AttemptEvent(s)
         \/ \E r \in Request : CreateSubmission(s, r)
         \/ \E p \in Patch : PatchSubmission(s, p)
         \/ CancelSubmission(s) \/ CancelSignal(s) \/ CancelDropped(s)
  PROVE  Steady
<1> USE DEF Steady, SteadyTasks, SteadyRegistry, SteadyCalls
<1>1. ASSUME UNCHANGED <<pc, queue, pending>> PROVE SteadyPlace
  BY <1>1 DEF SteadyPlace
<1>2. CASE \/ AttemptEvent(s)
           \/ \E r \in Request : CreateSubmission(s, r)
           \/ \E p \in Patch : PatchSubmission(s, p)
  <2>1. UNCHANGED <<pc, queue, pending, task, registry, call>>
    BY <1>2 DEF AttemptEvent, CreateSubmission, PatchSubmission, schedVars, procVars
  <2>2. QED
    BY <1>1, <2>1
<1>3. CASE AttemptStarted(s) \/ AttemptReady(s)
  <2>1. /\ UNCHANGED <<pc, queue, pending, registry, call>>
        /\ Driven(s) /\ task'[s] \in {"starting", "marked", "live"}
        /\ \A t \in Submission : t # s => task'[t] = task[t]
    BY <1>3 DEF AttemptStarted, AttemptReady, schedVars, Driven, ProcTypeOK
  <2>2. QED
    BY <1>1, <2>1
<1>4. CASE CancelSubmission(s)
  <2>1. /\ UNCHANGED <<pc, queue, pending, registry, task>>
        /\ \A t \in Submission : t # s => call'[t] = call[t]
    BY <1>4 DEF CancelSubmission, schedVars, ProcTypeOK
  <2>2. CASE call' = call
    BY <1>1, <2>1, <2>2
  <2>3. CASE CancelRunning(s) /\ call' = [call EXCEPT ![s] = "send"]
    <3>1. subs'[s].cancel_requested /\ subs'[s].state = "running"
      BY <2>3 DEF CancelRunning, StoreTypeOK, Row
    <3>2. call'[s] = "send" /\ pc # "down"
      BY <1>4, <2>3 DEF CancelSubmission, Up, ProcTypeOK
    <3>3. QED
      BY <1>1, <2>1, <3>1, <3>2
  <2>4. CASE /\ subs[s].state = "running" /\ subs[s].cancel_requested
             /\ UNCHANGED storeVars /\ call' = [call EXCEPT ![s] = "send"]
    <3>1. subs'[s].cancel_requested /\ subs'[s].state = "running"
      BY <2>4 DEF storeVars
    <3>2. call'[s] = "send" /\ pc # "down"
      BY <1>4, <2>4 DEF CancelSubmission, Up, ProcTypeOK
    <3>3. QED
      BY <1>1, <2>1, <3>1, <3>2
  <2>5. QED
    BY <1>4, <2>2, <2>3, <2>4 DEF CancelSubmission
<1>5. CASE CancelSignal(s)
  <2>1. /\ UNCHANGED <<pc, queue, pending, task>>
        /\ \A t \in Submission : t # s => call'[t] = call[t] /\ registry'[t] = registry[t]
        /\ call[s] = "send" /\ call'[s] = "acked"
    BY <1>5 DEF CancelSignal, schedVars, ProcTypeOK
  <2>2. CASE registry[s] = None
    <3>1. registry'[s] = registry[s]
      BY <1>5, <2>2 DEF CancelSignal, ProcTypeOK
    <3>2. QED
      BY <1>1, <2>1, <2>2, <3>1
  <2>3. CASE registry[s] # None
    <3>1. registry'[s] = TRUE
      BY <1>5, <2>3 DEF CancelSignal, ProcTypeOK
    <3>2. QED
      BY <1>1, <2>1, <2>3, <3>1
  <2>4. QED
    BY <2>2, <2>3
<1>6. CASE CancelDropped(s)
  <2>1. /\ UNCHANGED <<pc, queue, pending, task, registry>>
        /\ \A t \in Submission : call'[t] \in {call[t], "idle"}
    BY <1>6 DEF CancelDropped, schedVars, ProcTypeOK
  <2>2. QED
    BY <1>1, <2>1
<1>7. QED
  BY <1>2, <1>3, <1>4, <1>5, <1>6

LEMMA StopSteady == ASSUME ProcTypeOK, Stop PROVE Steady
<1>1. /\ pc = "idle" /\ pc' = "drain" /\ UNCHANGED <<task, call>>
  BY DEF Stop
<1>2. \A s \in Submission :
        \/ registry'[s] = registry[s]
        \/ registry[s] # None /\ registry'[s] = TRUE
  <2>1. registry' = [s \in Submission |-> IF registry[s] = None THEN None ELSE TRUE]
    BY DEF Stop
  <2> TAKE s \in Submission
  <2>2. CASE registry[s] = None
    <3>1. registry'[s] = None
      BY <2>1, <2>2, Zenon
    <3>2. QED
      BY <2>2, <3>1
  <2>3. CASE registry[s] # None
    <3>1. registry'[s] = TRUE
      BY <2>1, <2>3
    <3>2. QED
      BY <2>3, <3>1
  <2>4. QED
    BY <2>2, <2>3
<1>3. QED
  BY <1>1, <1>2 DEF Steady, SteadyPlace, Calm, SteadyTasks, SteadyRegistry, SteadyCalls

LEMMA DriveStep ==
  ASSUME StoreTypeOK, AttemptInv, ProcTypeOK, VisitsHead, SlotReserved, DriveInv,
         [Next]_vars
  PROVE  DriveInv'
<1>1. TasksRun /\ RowsGrow
  BY NextTransacts, TransactionGrows DEF DriveInv
<1>2. ASSUME Steady, ~RecoverOne, ~ClaimOk,
             \A s \in Submission : ~AttemptEnd(s) /\ ~AttemptLost(s)
      PROVE  DriveInv'
  <2>1. RunningKept
    BY <1>1, <1>2, NextQuiet, QuietEffect
  <2>2. QED
    BY <1>1, <1>2, <2>1, SteadyStep DEF Steady
<1>3. CASE RecoverOne
  BY <1>1, <1>3, RecoverOneDrives
<1>4. CASE ClaimOk
  BY <1>1, <1>4, ClaimDrives
<1>5. ASSUME NEW s \in Submission, AttemptEnd(s) \/ AttemptLost(s)
      PROVE  DriveInv'
  BY <1>1, <1>5, EndDrives
<1>6. CASE SchedulerStep
  BY <1>2, <1>3, <1>4, <1>5, <1>6, SchedulerSteady, RejectDoneDrives,
     RecoverDoneDrives, RegisterDrives, LaunchDrives
<1>7. CASE Boot \/ Crash \/ ExitAfterFailure \/ Drained \/ Stop
  BY <1>2, <1>3, <1>4, <1>5, <1>7, BootDrives, NoProcessDrives, StopSteady
     DEF Crash, ExitAfterFailure, Drained
<1>8. ASSUME NEW s \in Submission, AttemptCleanup(s)
      PROVE  DriveInv'
  BY <1>8, CleanupDrives
<1>9. ASSUME NEW s \in Submission,
             \/ AttemptStarted(s) \/ AttemptReady(s) \/ AttemptEvent(s)
             \/ \E r \in Request : CreateSubmission(s, r)
             \/ \E p \in Patch : PatchSubmission(s, p)
             \/ CancelSubmission(s) \/ CancelSignal(s) \/ CancelDropped(s)
      PROVE  DriveInv'
  BY <1>2, <1>3, <1>4, <1>5, <1>9, OthersSteady
<1>10. CASE UNCHANGED vars \/ Interrupt \/ Tick
  BY <1>2, <1>3, <1>4, <1>5, <1>10, IdleSteady
<1>11. QED
  BY <1>3, <1>4, <1>5, <1>6, <1>7, <1>8, <1>9, <1>10 DEF Next, TaskStep

-----------------------------------------------------------------------------
(* The invariant and what follows from it. *)

LEMMA InvInit == Init => Inv
<1> SUFFICES ASSUME Init PROVE Inv
  OBVIOUS
<1>1. StoreInit /\ StoreTypeOK /\ AttemptInv
  BY StoreInitTyped, AttemptInitial DEF Init
<1>2. \A s \in Submission : subs[s].state \in {"absent", "queued"}
  BY <1>1, InitialStates
<1>3. ProcTypeOK
  BY DEF Init, ProcTypeOK
<1>4. RequestsKnown
  <2>1. \A s \in Submission : Exists(s) => subs[s].request \in Request
    <3> SUFFICES ASSUME NEW s \in Submission, Exists(s) PROVE subs[s].request \in Request
      OBVIOUS
    <3>1. s \in Legacy
      BY <1>1, InitialRows DEF Exists, NoRow
    <3>2. QED
      BY <1>1, <3>1, InitialRows
  <2>2. queue = << >>
    BY DEF Init
  <2>3. QED
    BY <2>1, <2>2 DEF RequestsKnown
<1>5. VisitsHead /\ SlotReserved
  BY DEF Init, VisitsHead, PassStep, SlotReserved
<1>6. CapacityRespected
  <2> SUFFICES ASSUME NEW src \in Source
               PROVE  Cardinality(Held(src)) <= Limit[src] - Reserve[src]
    BY DEF CapacityRespected
  <2>1. Held(src) = {}
    BY <1>1 DEF Held, StoreInit, NoAttempt
  <2>2. Cardinality(Held(src)) = 0
    BY <2>1, FS_EmptySet
  <2>3. QED
    BY <2>2, SourceAssumption DEF Cap!ValidSource
<1>7. DriveInv
  BY <1>2 DEF Init, DriveInv, TasksRun, LaunchReady, RecoveryPending, CancelKnown,
              RunningIsDriven, Driven, Up
<1>8. QED
  BY <1>1, <1>3, <1>4, <1>5, <1>6, <1>7 DEF Inv

LEMMA InvStep == Inv /\ [Next]_vars => Inv'
<1> SUFFICES ASSUME Inv, [Next]_vars PROVE Inv'
  OBVIOUS
<1>1. /\ StoreTypeOK /\ AttemptInv /\ ProcTypeOK /\ RequestsKnown /\ VisitsHead
      /\ SlotReserved /\ CapacityRespected /\ DriveInv /\ TasksRun
  BY DEF Inv, DriveInv
<1>2. [Transaction]_storeVars
  BY <1>1, NextTransacts
<1>3. StoreTypeOK' /\ AttemptInv'
  BY <1>1, <1>2, StoreStepTyped, AttemptStep
<1>4. RequestsKnown'
  BY <1>1, <1>2, TransactionGrows, RequestsStep
<1>5. ProcTypeOK' /\ VisitsHead'
  BY <1>1, ProcStep, VisitsStep
<1>6. SlotReserved' /\ CapacityRespected'
  BY <1>1, SlotStep, CapacityStep
<1>7. DriveInv'
  BY <1>1, DriveStep
<1>8. QED
  BY <1>3, <1>4, <1>5, <1>6, <1>7 DEF Inv

LEMMA Invariance == Spec => []Inv
BY InvInit, InvStep, PTL DEF Spec

(***************************************************************************)
(* The daemon uses the store as the store means to be used: whatever the   *)
(* scheduler, the attempt tasks, the handlers, a crash and a restart do    *)
(* beside each other, the tables go through a behaviour of Transactions.   *)
(***************************************************************************)
THEOREM DaemonTransacts == Spec => Transactions
<1>1. Init => StoreInit
  BY DEF Init
<1>2. Inv /\ [Next]_vars => [Transaction]_storeVars
  BY NextTransacts DEF Inv, DriveInv
<1>3. QED
  BY <1>1, <1>2, Invariance, PTL DEF Spec, Transactions

(***************************************************************************)
(* select_dispatch counts the leases of a source and claim takes the slot  *)
(* in a later transaction; still no source is ever oversubscribed, for any *)
(* number of submissions, whatever the probes answer, and although leases  *)
(* outlive the process.                                                    *)
(***************************************************************************)
THEOREM SlotsRespected == Spec => []CapacityRespected
<1>1. Inv => CapacityRespected
  BY DEF Inv
<1>2. QED
  BY <1>1, Invariance, PTL

(* No running submission is stranded by a crash, a shutdown or a client: once
   recovery is over, a task of this process drives it, or is about to. *)
THEOREM RunsAreDriven == Spec => []RunningIsDriven
<1>1. Inv => RunningIsDriven
  BY DEF Inv, DriveInv
<1>2. QED
  BY <1>1, Invariance, PTL

(* The finish that an attempt task or the recovery is about to issue finds
   its submission running and its attempt active. *)
THEOREM FinishesAccepted == Spec => []FinishAccepted
<1>1. Inv => FinishAccepted
  <2> SUFFICES ASSUME Inv PROVE FinishAccepted
    OBVIOUS
  <2>1. ASSUME NEW s \in Submission, subs[s].state = "running"
        PROVE  \E a \in Attempt : CanFinish(s, a)
    <3>1. PICK a : a \in ActiveOf(s)
      BY <2>1 DEF Inv, AttemptInv, RunningIsOwned
    <3>2. a \in Attempt
      BY <3>1 DEF ActiveOf
    <3>3. QED
      BY <2>1, <3>1, <3>2 DEF CanFinish
  <2>2. \A s \in Submission : Driven(s) => subs[s].state = "running"
    BY DEF Inv, DriveInv, TasksRun
  <2>3. pc = "recover" => \A s \in pending : s \in Submission /\ subs[s].state = "running"
    BY DEF Inv, DriveInv, RecoveryPending
  <2>4. QED
    BY <2>1, <2>2, <2>3 DEF FinishAccepted, Driven
<1>2. QED
  BY <1>1, Invariance, PTL

(* A cancellation acknowledged to the client is known to whoever decides the
   fate of the run: the registration race is closed for every schedule. *)
THEOREM CancelsReach == Spec => []CancelReaches
<1>1. Inv => CancelReaches
  <2> SUFFICES ASSUME Inv, NEW s \in Submission, call[s] = "acked",
                      subs[s].state = "running",
                      pc \notin {"failed", "reject", "recover"}
               PROVE  registry[s] = TRUE \/ Launching(s)
    BY DEF CancelReaches
  <2>1. pc # "down" /\ (Driven(s) => registry[s] = TRUE)
    BY DEF Inv, DriveInv, CancelKnown
  <2>2. Launching(s) \/ Driven(s)
    BY <2>1 DEF Inv, DriveInv, RunningIsDriven, Up, Driven
  <2>3. QED
    BY <2>1, <2>2
<1>2. QED
  BY <1>1, Invariance, PTL

(***************************************************************************)
(* A run that no task of this process watches leaves the running state     *)
(* only through recovery, hence as uncertain, with its lease.              *)
(***************************************************************************)
THEOREM UnwatchedStaysOpen == Spec => UnwatchedIsUncertain
<1> DEFINE Open == \A s \in Submission :
                     subs[s].state = "running" /\ task[s] = "none"
                       => subs'[s].state \in {"running", "uncertain"}
<1>1. Inv /\ [Next]_vars => [Open]_vars
  <2> SUFFICES ASSUME Inv, [Next]_vars, NEW s \in Submission,
                      subs[s].state = "running", task[s] = "none"
               PROVE  subs'[s].state \in {"running", "uncertain"}
    OBVIOUS
  <2>1. /\ StoreTypeOK /\ AttemptInv /\ ProcTypeOK /\ VisitsHead /\ TasksRun
        /\ SlotReserved
    BY DEF Inv, DriveInv
  <2>2. CASE RecoverOne
    <3>1. PICK t \in Submission : Ends(t, "uncertain")
      BY <2>1, <2>2, FinishEnds DEF RecoverOne, ActiveOf, ProcTypeOK, RecoveredAs
    <3>2. QED
      BY <3>1 DEF Ends
  <2>3. CASE ClaimOk
    <3>1. OnlyRow(Visited, "running") /\ Visited \in Submission
      BY <2>1, <2>3, VisitedTyped, ClaimEffect
         DEF ClaimOk, VisitsHead, PassStep, SlotReserved
    <3>2. QED
      BY <3>1 DEF OnlyRow
  <2>4. ASSUME NEW t \in Submission, AttemptEnd(t) \/ AttemptLost(t)
        PROVE  subs'[s].state = "running"
    <3>1. t # s
      BY <2>4 DEF AttemptEnd, AttemptLost
    <3>2. PICK outcome : Ends(t, outcome)
      BY <2>1, <2>4, FinishEnds DEF AttemptEnd, AttemptLost
    <3>3. QED
      BY <3>1, <3>2 DEF Ends
  <2>5. CASE ~RecoverOne /\ ~ClaimOk
             /\ \A t \in Submission : ~AttemptEnd(t) /\ ~AttemptLost(t)
    <3>1. RunningKept
      BY <2>1, <2>5, NextQuiet, QuietEffect
    <3>2. QED
      BY <3>1 DEF RunningKept
  <2>6. QED
    BY <2>2, <2>3, <2>4, <2>5
<1>2. QED
  BY <1>1, Invariance, PTL DEF Spec, UnwatchedIsUncertain

(* Events are written for one submission at a time. *)
LEMMA OnlyLog ==
  ASSUME StoreTypeOK, NEW s \in Submission, NEW evs, AppendEvents(s, evs)
  PROVE  \A t \in Submission : t # s => log'[t] = log[t]
BY DEF StoreTypeOK, AppendEvents

LEMMA TerminalLogKept ==
  ASSUME StoreTypeOK, AttemptInv, NEW t \in Submission, IsTerminal(t),
         \/ [Quiet]_storeVars
         \/ \E s \in Submission, a \in Attempt :
              \/ \E src : Claim(s, a, src)
              \/ \E outcome : Finish(s, a, outcome)
  PROVE  log'[t] = log[t]
<1>1. ASSUME NEW s \in Submission, ~IsTerminal(s), NEW evs, AppendEvents(s, evs)
      PROVE  log'[t] = log[t]
  BY <1>1, OnlyLog
<1> USE DEF IsTerminal, Terminal, Outcome, Confirmed
<1>2. CASE UNCHANGED storeVars
  BY <1>2 DEF storeVars
<1>3. ASSUME NEW s \in Submission, NEW r \in Request, NEW time \in Nat,
             Accept(s, r, time)
      PROVE  log'[t] = log[t]
  BY <1>1, <1>3 DEF Accept, Exists
<1>4. ASSUME NEW s \in Submission, NEW a \in Attempt, MarkAttemptRunning(s, a)
      PROVE  log'[t] = log[t]
  <2>1. subs[s].state = "running"
    BY <1>4, OwnedFacts DEF MarkAttemptRunning, ActiveAttempt
  <2>2. QED
    BY <1>1, <1>4, <2>1 DEF MarkAttemptRunning
<1>5. ASSUME NEW s \in Submission, NEW a \in Attempt,
             subs[s].state = "running", AppendAgentEvent(s, a)
      PROVE  log'[t] = log[t]
  BY <1>1, <1>5 DEF AppendAgentEvent
<1>6. ASSUME NEW s \in Submission, NEW to, CloseQueued(s, to)
      PROVE  log'[t] = log[t]
  BY <1>1, <1>6 DEF CloseQueued, Queued
<1>7. ASSUME NEW s \in Submission, Annotates(s)
      PROVE  log'[t] = log[t]
  BY <1>1, <1>7 DEF Annotates, SetBlocker, CancelRunning, PatchScheduling, Queued
<1>8. ASSUME NEW s \in Submission, NEW a \in Attempt, NEW src, Claim(s, a, src)
      PROVE  log'[t] = log[t]
  BY <1>1, <1>8 DEF Claim, ClaimGuard, Queued
<1>9. ASSUME NEW s \in Submission, NEW a \in Attempt, NEW outcome,
             Finish(s, a, outcome)
      PROVE  log'[t] = log[t]
  BY <1>1, <1>9 DEF Finish, CanFinish
<1> HIDE DEF IsTerminal, Terminal, Outcome, Confirmed
<1>10. CASE Quiet
  BY <1>10, <1>3, <1>4, <1>5, <1>6, <1>7 DEF Quiet
<1>11. QED
  BY <1>2, <1>8, <1>9, <1>10

(***************************************************************************)
(* Once the event of a terminal state is in the log of a submission, the   *)
(* log has ended: output that arrives late finds no task to append it, so  *)
(* SSE clients may stop reading there.                                     *)
(***************************************************************************)
THEOREM LogEnds == Spec => TerminalEventIsLast
<1> DEFINE Kept == \A s \in Submission : IsTerminal(s) => log'[s] = log[s]
<1>1. Inv /\ [Next]_vars => [Kept]_vars
  <2> SUFFICES ASSUME Inv, [Next]_vars, NEW t \in Submission, IsTerminal(t)
               PROVE  log'[t] = log[t]
    OBVIOUS
  <2>1. StoreTypeOK /\ AttemptInv /\ ProcTypeOK /\ VisitsHead /\ TasksRun
    BY DEF Inv, DriveInv
  <2>2. CASE RecoverOne
    BY <2>1, <2>2, TerminalLogKept DEF RecoverOne, ActiveOf, ProcTypeOK
  <2>3. CASE ClaimOk
    <3>1. Visited \in Submission
      BY <2>1, <2>3, VisitedTyped DEF ClaimOk, VisitsHead, PassStep
    <3>2. QED
      BY <2>1, <2>3, <3>1, TerminalLogKept DEF ClaimOk
  <2>4. ASSUME NEW s \in Submission, AttemptEnd(s) \/ AttemptLost(s)
        PROVE  log'[t] = log[t]
    BY <2>1, <2>4, TerminalLogKept DEF AttemptEnd, AttemptLost
  <2>5. CASE ~RecoverOne /\ ~ClaimOk
             /\ \A s \in Submission : ~AttemptEnd(s) /\ ~AttemptLost(s)
    BY <2>1, <2>5, NextQuiet, TerminalLogKept
  <2>6. QED
    BY <2>2, <2>3, <2>4, <2>5
<1>2. QED
  BY <1>1, Invariance, PTL DEF Spec, TerminalEventIsLast

-----------------------------------------------------------------------------
(***************************************************************************)
(* What StoreProofs shows of any behaviour of the store holds of the       *)
(* daemon, with its crashes, its stale snapshots and its races.            *)
(***************************************************************************)

(* Two conflicting submissions never run or stay in doubt together: the first
   check of a pass is stale, the one inside claim is not. *)
THEOREM DaemonExcludes == Spec => []WorkspaceExclusive
BY DaemonTransacts, TransactionsExclude, PTL

(* Concurrent creates with one idempotency key leave one submission. *)
THEOREM DaemonKeysUnique == Spec => []KeyUnique
BY DaemonTransacts, TransactionsKeys, PTL

(* Whatever arrives late, from a client, a task or a restart, a terminal
   submission and its attempt stay as they are. *)
THEOREM DaemonTerminalStays == Spec => TerminalIsFinal
BY DaemonTransacts, TransactionsFinal, PTL

(* The log never lies about a submission, across restarts. *)
THEOREM DaemonLogTells == Spec => []LogMatchesState
BY DaemonTransacts, TransactionsTell, PTL

(* The daemon implements the documented lifecycle of submission-api.md. *)
THEOREM DaemonRefinesLifecycle == Spec => ImplementsLifecycle
BY DaemonTransacts, TransactionsRefine, PTL
=============================================================================
