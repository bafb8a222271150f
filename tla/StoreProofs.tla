---------------------------- MODULE StoreProofs ----------------------------
(***************************************************************************)
(* Proofs about the store, for every set of submissions, attempts, sources *)
(* and requests and every bound.                                           *)
(***************************************************************************)
EXTENDS Store, TLAPS

(* The transactions that change no state at all. *)
Annotates(s) ==
  \/ \E code \in Blocker : SetBlocker(s, code)
  \/ CancelRunning(s)
  \/ \E p \in Patch : PatchScheduling(s, subs[s].revision, p)

(***************************************************************************)
(* StoreNext without the bounds that only TLC needs: a submission may be   *)
(* created at any time, and revisions and logs grow without limit.  The    *)
(* step lemmas below are about Transaction, so that they hold for the      *)
(* daemon as well, whose handlers issue these transactions at any time.    *)
(***************************************************************************)
Transaction ==
  \E s \in Submission :
    \/ \E r \in Request, time \in Nat : Accept(s, r, time)
    \/ \E a \in Attempt, src \in Source : Claim(s, a, src)
    \/ \E a \in Attempt : MarkAttemptRunning(s, a)
    \/ \E a \in Attempt : AppendAgentEvent(s, a)
    \/ \E a \in Attempt, outcome \in Outcome : Finish(s, a, outcome)
    \/ \E to \in {"expired", "cancelled"} : CloseQueued(s, to)
    \/ ~subs[s].frozen /\ CloseQueued(s, "failed")
    \/ Annotates(s)

Transactions == StoreInit /\ [][Transaction]_storeVars

LEMMA StoreNextTransacts == [StoreNext]_storeVars => [Transaction]_storeVars
BY SMTT(30)
   DEF StoreNext, Transaction, Annotates, Expire, CancelQueued, RejectUnfrozen

LEMMA StoreTransacts == StoreSpec => Transactions
BY StoreNextTransacts, PTL DEF StoreSpec, Transactions

(* What append_event_tx inserts is a row of the events table. *)
LEMMA AppendTyped ==
  ASSUME NEW s \in Submission, NEW evs \in Seq(Event),
         log \in [Submission -> Seq(Event)], AppendEvents(s, evs)
  PROVE  log' \in [Submission -> Seq(Event)]
BY BoundAssumption DEF AppendEvents

(* A row created from a validated request has values of the column domains. *)
LEMMA NewRowTyped ==
  ASSUME NEW r \in Request, NEW time \in Nat
  PROVE  NewRow(r, time) \in Row
BY RequestAssumption DEF Validated, NewRow, Row, SubmissionState

LEMMA NoRowTyped == NoRow \in Row
BY DEF NoRow, Row

LEMMA EvTyped ==
  ASSUME NEW type \in EventType,
         NEW to \in SubmissionState \cup AttemptState \cup {"-"}
  PROVE  Ev(type, to) \in Event
BY DEF Ev, Event

(* The initial database, fresh or migrated, is well typed. *)
LEMMA StoreInitTyped == StoreInit => StoreTypeOK
<1> SUFFICES ASSUME StoreInit PROVE StoreTypeOK
  OBVIOUS
<1>1. subs \in [Submission -> Row]
  <2>1. PICK old \in [Legacy -> Request] :
          subs = [s \in Submission |->
                   IF s \in Legacy
                   THEN [NewRow(old[s], 0) EXCEPT !.frozen = FALSE]
                   ELSE NoRow]
    BY DEF StoreInit
  <2>2. ASSUME NEW r \in Request
        PROVE  [NewRow(r, 0) EXCEPT !.frozen = FALSE] \in Row
    BY RequestAssumption DEF Validated, NewRow, Row, SubmissionState
  <2>3. QED
    BY <2>1, <2>2, NoRowTyped
<1>2. atts \in [Attempt -> AttemptRow]
  BY DEF StoreInit, NoAttempt, AttemptRow
<1>3. log \in [Submission -> Seq(Event)]
  <2>1. Ev("submission.created", "queued") \in Event
    BY EvTyped DEF EventType, SubmissionState
  <2>2. QED
    BY <2>1 DEF StoreInit
<1>4. QED
  BY <1>1, <1>2, <1>3 DEF StoreTypeOK

LEMMA BumpTyped == ASSUME NEW n \in Nat PROVE Bump(n) \in Nat
BY BoundAssumption DEF Bump

(* One lemma per group of transactions that write the same tables. *)
LEMMA AcceptTyped ==
  ASSUME StoreTypeOK, NEW s \in Submission, NEW r \in Request, NEW time \in Nat,
         Accept(s, r, time)
  PROVE  StoreTypeOK'
<1>1. subs' \in [Submission -> Row]
  BY NewRowTyped DEF StoreTypeOK, Accept
<1>2. <<Ev("submission.created", "queued")>> \in Seq(Event)
  BY EvTyped DEF EventType, SubmissionState
<1>3. QED
  BY <1>1, <1>2, AppendTyped DEF StoreTypeOK, Accept

LEMMA ClaimTyped ==
  ASSUME StoreTypeOK, NEW s \in Submission, NEW a \in Attempt, NEW src \in Source,
         Claim(s, a, src)
  PROVE  StoreTypeOK'
<1>1. subs[s] \in Row /\ subs[s].revision \in Nat
  BY DEF StoreTypeOK, Row
<1>2. subs' \in [Submission -> Row]
  <2>1. [subs[s] EXCEPT !.state = "running", !.blocker = None,
                        !.revision = Bump(subs[s].revision)] \in Row
    BY <1>1, BumpTyped DEF Row, SubmissionState
  <2>2. subs' = [subs EXCEPT ![s] = [subs[s] EXCEPT !.state = "running",
                    !.blocker = None, !.revision = Bump(subs[s].revision)]]
    BY <1>1 DEF StoreTypeOK, Claim, Row
  <2>3. QED
    BY <2>1, <2>2 DEF StoreTypeOK
<1>3. atts' \in [Attempt -> AttemptRow]
  BY DEF StoreTypeOK, Claim, AttemptRow, AttemptState, ActiveAttempt
<1>4. <<Ev("attempt.created", "starting"),
        Ev("submission.state_changed", "running")>> \in Seq(Event)
  BY EvTyped DEF EventType, SubmissionState, AttemptState, ActiveAttempt
<1>5. QED
  BY <1>2, <1>3, <1>4, AppendTyped DEF StoreTypeOK, Claim

LEMMA MarkAttemptRunningTyped ==
  ASSUME StoreTypeOK, NEW s \in Submission, NEW a \in Attempt,
         MarkAttemptRunning(s, a)
  PROVE  StoreTypeOK'
<1>1. atts' \in [Attempt -> AttemptRow]
  BY DEF StoreTypeOK, MarkAttemptRunning, AttemptRow, AttemptState, ActiveAttempt
<1>2. <<Ev("attempt.state_changed", "running")>> \in Seq(Event)
  BY EvTyped DEF EventType, SubmissionState
<1>3. QED
  BY <1>1, <1>2, AppendTyped DEF StoreTypeOK, MarkAttemptRunning

LEMMA AppendAgentEventTyped ==
  ASSUME StoreTypeOK, NEW s \in Submission, NEW a \in Attempt,
         AppendAgentEvent(s, a)
  PROVE  StoreTypeOK'
<1>1. <<Ev("agent", "-")>> \in Seq(Event)
  BY EvTyped DEF EventType
<1>2. QED
  BY <1>1, AppendTyped DEF StoreTypeOK, AppendAgentEvent

LEMMA FinishTyped ==
  ASSUME StoreTypeOK, NEW s \in Submission, NEW a \in Attempt,
         NEW outcome \in Outcome, Finish(s, a, outcome)
  PROVE  StoreTypeOK'
<1>1. subs[s] \in Row /\ subs[s].revision \in Nat
  BY DEF StoreTypeOK, Row
<1>2. subs' = [subs EXCEPT ![s] = [subs[s] EXCEPT !.state = outcome,
                                     !.revision = Bump(subs[s].revision)]]
  BY <1>1 DEF StoreTypeOK, Finish, Row
<1>3. outcome \in SubmissionState /\ outcome \in AttemptState
  BY DEF SubmissionState, Terminal, AttemptState
<1>4. subs' \in [Submission -> Row]
  <2>1. [subs[s] EXCEPT !.state = outcome,
                        !.revision = Bump(subs[s].revision)] \in Row
    BY <1>1, <1>3, BumpTyped DEF Row
  <2>2. QED
    BY <1>2, <2>1 DEF StoreTypeOK
<1>5. atts' \in [Attempt -> AttemptRow]
  <2>1. KeepsCapacity(outcome) \in BOOLEAN
    BY DEF KeepsCapacity
  <2>2. atts' = [atts EXCEPT ![a] = [atts[a] EXCEPT !.state = outcome,
                                        !.capacity_held = KeepsCapacity(outcome)]]
    BY DEF StoreTypeOK, Finish, AttemptRow
  <2>3. [atts[a] EXCEPT !.state = outcome,
                        !.capacity_held = KeepsCapacity(outcome)] \in AttemptRow
    BY <1>3, <2>1 DEF StoreTypeOK, AttemptRow
  <2>4. QED
    BY <2>2, <2>3 DEF StoreTypeOK
<1>6. <<Ev("attempt.state_changed", outcome),
        Ev("submission.state_changed", outcome)>> \in Seq(Event)
  BY <1>3, EvTyped DEF EventType
<1>7. QED
  BY <1>4, <1>5, <1>6, AppendTyped DEF StoreTypeOK, Finish

LEMMA SetBlockerTyped ==
  ASSUME StoreTypeOK, NEW s \in Submission, NEW code \in Blocker,
         SetBlocker(s, code)
  PROVE  StoreTypeOK'
<1>1. subs[s] \in Row /\ subs[s].revision \in Nat
  BY DEF StoreTypeOK, Row
<1>2. subs' = [subs EXCEPT ![s] = [subs[s] EXCEPT !.blocker = code,
                                     !.revision = Bump(subs[s].revision)]]
  BY <1>1 DEF StoreTypeOK, SetBlocker, Row
<1>3. [subs[s] EXCEPT !.blocker = code,
                      !.revision = Bump(subs[s].revision)] \in Row
  BY <1>1, BumpTyped DEF Row
<1>4. <<Ev("queue.blocked", "-")>> \in Seq(Event)
  BY EvTyped DEF EventType
<1>5. QED
  BY <1>2, <1>3, <1>4, AppendTyped DEF StoreTypeOK, SetBlocker

LEMMA CloseQueuedTyped ==
  ASSUME StoreTypeOK, NEW s \in Submission, NEW to \in SubmissionState,
         CloseQueued(s, to)
  PROVE  StoreTypeOK'
<1>1. subs[s] \in Row /\ subs[s].revision \in Nat
  BY DEF StoreTypeOK, Row
<1>2. subs' = [subs EXCEPT ![s] = [subs[s] EXCEPT !.state = to,
                                     !.revision = Bump(subs[s].revision)]]
  BY <1>1 DEF StoreTypeOK, CloseQueued, Row
<1>3. [subs[s] EXCEPT !.state = to, !.revision = Bump(subs[s].revision)] \in Row
  BY <1>1, BumpTyped DEF Row
<1>4. <<Ev("submission.state_changed", to)>> \in Seq(Event)
  BY EvTyped DEF EventType
<1>5. QED
  BY <1>2, <1>3, <1>4, AppendTyped DEF StoreTypeOK, CloseQueued

LEMMA CancelRunningTyped ==
  ASSUME StoreTypeOK, NEW s \in Submission, CancelRunning(s)
  PROVE  StoreTypeOK'
<1>1. subs[s] \in Row /\ subs[s].revision \in Nat
  BY DEF StoreTypeOK, Row
<1>2. subs' = [subs EXCEPT ![s] = [subs[s] EXCEPT !.cancel_requested = TRUE,
                                     !.revision = Bump(subs[s].revision)]]
  BY <1>1 DEF StoreTypeOK, CancelRunning, Row
<1>3. [subs[s] EXCEPT !.cancel_requested = TRUE,
                      !.revision = Bump(subs[s].revision)] \in Row
  BY <1>1, BumpTyped DEF Row
<1>4. <<Ev("cancellation.requested", "-")>> \in Seq(Event)
  BY EvTyped DEF EventType
<1>5. QED
  BY <1>2, <1>3, <1>4, AppendTyped DEF StoreTypeOK, CancelRunning

LEMMA PatchSchedulingTyped ==
  ASSUME StoreTypeOK, NEW s \in Submission, NEW expected, NEW p \in Patch,
         PatchScheduling(s, expected, p)
  PROVE  StoreTypeOK'
<1> DEFINE pr == Merge(p.priority, subs[s].priority)
           nb == Merge(p.not_before, subs[s].not_before)
           dl == Merge(p.start_deadline, subs[s].start_deadline)
           n == Bump(subs[s].revision)
           row == [subs[s] EXCEPT !.priority = pr, !.not_before = nb,
                                  !.start_deadline = dl, !.revision = n]
<1>1. /\ subs[s] \in Row
      /\ subs[s].revision \in Nat /\ subs[s].priority \in Nat
      /\ subs[s].not_before \in Nat \cup {None}
      /\ subs[s].start_deadline \in Nat \cup {None}
  BY DEF StoreTypeOK, Row
<1>2. /\ pr \in Nat /\ n \in Nat
      /\ nb \in Nat \cup {None} /\ dl \in Nat \cup {None}
  BY <1>1, PatchAssumption, BumpTyped DEF Merge
<1>3. subs' = [subs EXCEPT ![s] = row]
  BY <1>1 DEF StoreTypeOK, PatchScheduling, Row
<1>4. row \in Row
  <2> HIDE DEF pr, nb, dl, n
  <2> QED BY <1>1, <1>2 DEF Row
<1>5. <<Ev("submission.scheduling_changed", "-")>> \in Seq(Event)
  BY EvTyped DEF EventType
<1>6. subs' \in [Submission -> Row]
  <2> HIDE DEF row
  <2> QED BY <1>3, <1>4 DEF StoreTypeOK
<1>7. log' \in [Submission -> Seq(Event)] /\ atts' = atts
  BY <1>5, AppendTyped DEF StoreTypeOK, PatchScheduling
<1>8. QED
  BY <1>6, <1>7 DEF StoreTypeOK

(* Every transaction keeps the database well typed. *)
LEMMA StoreStepTyped == StoreTypeOK /\ [Transaction]_storeVars => StoreTypeOK'
<1> SUFFICES ASSUME StoreTypeOK, [Transaction]_storeVars PROVE StoreTypeOK'
  OBVIOUS
<1>1. CASE UNCHANGED storeVars
  BY <1>1 DEF StoreTypeOK, storeVars
<1>2. CASE Transaction
  <2>1. ASSUME NEW s \in Submission, NEW r \in Request, NEW time \in Nat,
             Accept(s, r, time)
        PROVE  StoreTypeOK'
    BY <2>1, AcceptTyped
  <2>2. ASSUME NEW s \in Submission, NEW a \in Attempt, NEW src \in Source,
               Claim(s, a, src)
        PROVE  StoreTypeOK'
    BY <2>2, ClaimTyped
  <2>3. ASSUME NEW s \in Submission, NEW a \in Attempt, MarkAttemptRunning(s, a)
        PROVE  StoreTypeOK'
    BY <2>3, MarkAttemptRunningTyped
  <2>4. ASSUME NEW s \in Submission, NEW a \in Attempt, AppendAgentEvent(s, a)
        PROVE  StoreTypeOK'
    BY <2>4, AppendAgentEventTyped
  <2>5. ASSUME NEW s \in Submission, NEW a \in Attempt, NEW outcome \in Outcome,
               Finish(s, a, outcome)
        PROVE  StoreTypeOK'
    BY <2>5, FinishTyped
  <2>6. ASSUME NEW s \in Submission, NEW to \in {"expired", "cancelled", "failed"},
               CloseQueued(s, to)
        PROVE  StoreTypeOK'
    BY <2>6, CloseQueuedTyped DEF SubmissionState, Terminal, Outcome, Confirmed
  <2>7. ASSUME NEW s \in Submission, Annotates(s)
        PROVE  StoreTypeOK'
    BY <2>7, SetBlockerTyped, CancelRunningTyped, PatchSchedulingTyped DEF Annotates
  <2>8. QED
    BY <1>2, <2>1, <2>2, <2>3, <2>4, <2>5, <2>6, <2>7 DEF Transaction
<1>3. QED
  BY <1>1, <1>2

LEMMA TransactionsTyped == Transactions => []StoreTypeOK
<1>1. StoreInit => StoreTypeOK
  BY StoreInitTyped
<1>2. StoreTypeOK /\ [Transaction]_storeVars => StoreTypeOK'
  BY StoreStepTyped
<1>3. QED
  BY <1>1, <1>2, PTL DEF Transactions

(***************************************************************************)
(* Every column always holds a value of its domain, whatever order the     *)
(* transactions of store.rs are committed in.                              *)
(***************************************************************************)
THEOREM StoreTyped == StoreSpec => []StoreTypeOK
BY StoreTransacts, TransactionsTyped, PTL

-----------------------------------------------------------------------------
(***************************************************************************)
(* What each transaction does to the columns the invariants are about.     *)
(***************************************************************************)

(* Only the row of s is written; its request and its origin stay. *)
OnlyRow(s, to) ==
  /\ \A t \in Submission : t # s => subs'[t] = subs[t]
  /\ subs'[s].state = to
  /\ subs'[s].request = subs[s].request
  /\ subs'[s].frozen = subs[s].frozen

LEMMA ClaimEffect ==
  ASSUME StoreTypeOK, NEW s \in Submission, NEW a \in Attempt, NEW src,
         Claim(s, a, src)
  PROVE  /\ Queued(s) /\ ~WorkspaceBusy(s) /\ atts[a].state = "absent"
         /\ OnlyRow(s, "running")
         /\ \A b \in Attempt : b # a => atts'[b] = atts[b]
         /\ atts'[a] = [state |-> "starting", submission |-> s,
                        source |-> src, capacity_held |-> TRUE]
BY DEF StoreTypeOK, Row, Claim, ClaimGuard, OnlyRow

LEMMA MarkEffect ==
  ASSUME StoreTypeOK, NEW s \in Submission, NEW a \in Attempt,
         MarkAttemptRunning(s, a)
  PROVE  /\ subs' = subs
         /\ atts[a].submission = s /\ atts[a].state = "starting"
         /\ \A b \in Attempt : b # a => atts'[b] = atts[b]
         /\ atts'[a].state = "running"
         /\ atts'[a].submission = s
         /\ atts'[a].source = atts[a].source
         /\ atts'[a].capacity_held = atts[a].capacity_held
BY DEF StoreTypeOK, AttemptRow, MarkAttemptRunning

LEMMA FinishEffect ==
  ASSUME StoreTypeOK, NEW s \in Submission, NEW a \in Attempt, NEW outcome,
         Finish(s, a, outcome)
  PROVE  /\ subs[s].state = "running" /\ atts[a].submission = s
         /\ atts[a].state \in ActiveAttempt
         /\ OnlyRow(s, outcome)
         /\ \A b \in Attempt : b # a => atts'[b] = atts[b]
         /\ atts'[a].state = outcome
         /\ atts'[a].submission = s
         /\ atts'[a].source = atts[a].source
         /\ atts'[a].capacity_held = KeepsCapacity(outcome)
<1>1. subs[s].state = "running" /\ atts[a].submission = s
      /\ atts[a].state \in ActiveAttempt
  BY DEF Finish, CanFinish, ActiveOf
<1>2. OnlyRow(s, outcome)
  BY DEF StoreTypeOK, Row, Finish, OnlyRow
<1>3. QED
  BY <1>1, <1>2 DEF StoreTypeOK, AttemptRow, Finish

(* Leaving the queue without a run, for any of the three reasons. *)
LEMMA CloseEffect ==
  ASSUME StoreTypeOK, NEW s \in Submission, NEW to, CloseQueued(s, to)
  PROVE  Queued(s) /\ OnlyRow(s, to) /\ atts' = atts
BY DEF StoreTypeOK, Row, CloseQueued, OnlyRow

LEMMA AnnotateEffect ==
  ASSUME StoreTypeOK, NEW s \in Submission, Annotates(s)
  PROVE  /\ OnlyRow(s, subs[s].state) /\ atts' = atts
         /\ subs[s].state \in {"queued", "running"}
<1>1. CASE \E code \in Blocker : SetBlocker(s, code)
  BY <1>1 DEF StoreTypeOK, Row, SetBlocker, OnlyRow, Queued
<1>2. CASE CancelRunning(s)
  BY <1>2 DEF StoreTypeOK, Row, CancelRunning, OnlyRow
<1>3. CASE \E p \in Patch : PatchScheduling(s, subs[s].revision, p)
  BY <1>3 DEF StoreTypeOK, Row, PatchScheduling, OnlyRow, Queued
<1>4. QED
  BY <1>1, <1>2, <1>3 DEF Annotates

LEMMA AcceptEffect ==
  ASSUME StoreTypeOK, NEW s \in Submission, NEW r \in Request, NEW time,
         Accept(s, r, time)
  PROVE  /\ subs[s].state = "absent" /\ ~KeyTaken(r)
         /\ \A t \in Submission : t # s => subs'[t] = subs[t]
         /\ subs'[s].state = "queued" /\ subs'[s].request = r
         /\ subs'[s].frozen = TRUE
         /\ atts' = atts
BY DEF StoreTypeOK, Accept, NewRow, Exists

-----------------------------------------------------------------------------
(* Attempts and the submissions that own them. *)

(* No row of the initial database is running or has ended. *)
LEMMA InitialStates ==
  ASSUME StoreInit
  PROVE  \A s \in Submission : subs[s].state \in {"absent", "queued"}
<1>1. PICK old \in [Legacy -> Request] :
        subs = [s \in Submission |->
                 IF s \in Legacy
                 THEN [NewRow(old[s], 0) EXCEPT !.frozen = FALSE]
                 ELSE NoRow]
  BY DEF StoreInit
<1>2. NoRow.state = "absent"
  BY DEF NoRow
<1>3. ASSUME NEW r PROVE [NewRow(r, 0) EXCEPT !.frozen = FALSE].state = "queued"
  BY DEF NewRow
<1>4. QED
  BY <1>1, <1>2, <1>3

LEMMA AttemptInitial == StoreInit => AttemptInv
<1> SUFFICES ASSUME StoreInit PROVE AttemptInv
  OBVIOUS
<1>1. \A a \in Attempt : atts[a] = NoAttempt
  BY DEF StoreInit
<1>2. \A s \in Submission : subs[s].state \in {"absent", "queued"}
  BY InitialStates
<1>3. AttemptOwnership /\ OneAttemptEach
  <2>1. NoAttempt.state = "absent" /\ NoAttempt.submission = None
    BY DEF NoAttempt
  <2>2. QED
    BY <1>1, <2>1 DEF AttemptOwnership, OneAttemptEach
<1>4. RunningIsOwned /\ UncertainIsHeld
  BY <1>2 DEF RunningIsOwned, UncertainIsHeld
<1>5. QED
  BY <1>3, <1>4 DEF AttemptInv

(* An owned attempt is never absent, and its owner is not waiting. *)
LEMMA OwnedFacts ==
  ASSUME StoreTypeOK, AttemptInv, NEW a \in Attempt, NEW s \in Submission,
         atts[a].submission = s
  PROVE  /\ atts[a].state # "absent"
         /\ subs[s].state \notin {"absent", "queued", "expired"}
         /\ subs[s].state = IF atts[a].state \in ActiveAttempt THEN "running"
                            ELSE atts[a].state
<1>1. atts[a].state # "absent"
  BY NoneAssumption DEF AttemptInv, AttemptOwnership, NoAttempt
<1>2. subs[s].state = IF atts[a].state \in ActiveAttempt THEN "running"
                      ELSE atts[a].state
  BY <1>1 DEF AttemptInv, AttemptOwnership
<1>3. atts[a].state \in AttemptState
  BY <1>1 DEF StoreTypeOK, AttemptRow
<1>4. QED
  BY <1>1, <1>2, <1>3 DEF AttemptState, ActiveAttempt, Outcome, Confirmed

LEMMA AttemptClaim ==
  ASSUME StoreTypeOK, AttemptInv, NEW s \in Submission, NEW a \in Attempt,
         NEW src \in Source, Claim(s, a, src)
  PROVE  AttemptInv'
<1>1. /\ Queued(s) /\ atts[a].state = "absent"
      /\ OnlyRow(s, "running")
      /\ \A b \in Attempt : b # a => atts'[b] = atts[b]
      /\ atts'[a] = [state |-> "starting", submission |-> s,
                     source |-> src, capacity_held |-> TRUE]
  BY ClaimEffect
<1>2. \A b \in Attempt : atts[b].submission # s
  BY <1>1, OwnedFacts DEF Queued
<1>3. AttemptOwnership'
  BY <1>1, <1>2 DEF AttemptInv, AttemptOwnership, OnlyRow, ActiveAttempt, Confirmed
<1>4. OneAttemptEach'
  BY <1>1, <1>2 DEF AttemptInv, OneAttemptEach
<1>5. RunningIsOwned'
  BY <1>1, <1>2 DEF AttemptInv, RunningIsOwned, ActiveOf, OnlyRow, ActiveAttempt
<1>6. UncertainIsHeld'
  BY <1>1, <1>2 DEF AttemptInv, UncertainIsHeld, OnlyRow
<1>7. QED
  BY <1>3, <1>4, <1>5, <1>6 DEF AttemptInv

LEMMA AttemptMark ==
  ASSUME StoreTypeOK, AttemptInv, NEW s \in Submission, NEW a \in Attempt,
         MarkAttemptRunning(s, a)
  PROVE  AttemptInv'
<1>1. /\ subs' = subs
      /\ atts[a].submission = s /\ atts[a].state = "starting"
      /\ \A b \in Attempt : b # a => atts'[b] = atts[b]
      /\ atts'[a].state = "running"
      /\ atts'[a].submission = s
      /\ atts'[a].capacity_held = atts[a].capacity_held
  BY MarkEffect
<1>2. AttemptOwnership'
  BY <1>1 DEF AttemptInv, AttemptOwnership, ActiveAttempt, Confirmed
<1>3. OneAttemptEach'
  BY <1>1 DEF AttemptInv, OneAttemptEach
<1>4. RunningIsOwned'
  BY <1>1 DEF AttemptInv, RunningIsOwned, ActiveOf, ActiveAttempt
<1>5. UncertainIsHeld'
  BY <1>1 DEF AttemptInv, UncertainIsHeld
<1>6. QED
  BY <1>2, <1>3, <1>4, <1>5 DEF AttemptInv

LEMMA AttemptFinish ==
  ASSUME StoreTypeOK, AttemptInv, NEW s \in Submission, NEW a \in Attempt,
         NEW outcome \in Outcome, Finish(s, a, outcome)
  PROVE  AttemptInv'
<1>1. /\ subs[s].state = "running" /\ atts[a].submission = s
      /\ atts[a].state \in ActiveAttempt
      /\ OnlyRow(s, outcome)
      /\ \A b \in Attempt : b # a => atts'[b] = atts[b]
      /\ atts'[a].state = outcome
      /\ atts'[a].submission = s
      /\ atts'[a].capacity_held = KeepsCapacity(outcome)
  BY FinishEffect
<1>2. \A b \in Attempt : b # a => atts[b].submission # s
  BY <1>1, NoneAssumption DEF AttemptInv, OneAttemptEach
<1>3. AttemptOwnership'
  <2>1. atts'[a].capacity_held <=> outcome \notin Confirmed
    BY <1>1 DEF KeepsCapacity, Outcome, Confirmed
  <2>2. outcome \notin ActiveAttempt /\ outcome # "absent"
    BY DEF ActiveAttempt, Outcome, Confirmed
  <2>3. subs'[s].state = outcome
    BY <1>1 DEF OnlyRow
  <2>4. \A b \in Attempt : b # a /\ atts[b].submission \in Submission
          => subs'[atts[b].submission] = subs[atts[b].submission]
    BY <1>1, <1>2 DEF OnlyRow
  <2>5. QED
    BY <1>1, <2>1, <2>2, <2>3, <2>4 DEF AttemptInv, AttemptOwnership
<1>4. OneAttemptEach'
  BY <1>1 DEF AttemptInv, OneAttemptEach
<1>5. RunningIsOwned'
  BY <1>1, <1>2 DEF AttemptInv, RunningIsOwned, ActiveOf, OnlyRow, Outcome, Confirmed
<1>6. UncertainIsHeld'
  BY <1>1, <1>2 DEF AttemptInv, UncertainIsHeld, OnlyRow
<1>7. QED
  BY <1>3, <1>4, <1>5, <1>6 DEF AttemptInv

(* A row without attempts may change state as long as it does not start. *)
LEMMA AttemptOther ==
  ASSUME StoreTypeOK, AttemptInv, NEW s \in Submission, atts' = atts,
         \A t \in Submission : t # s => subs'[t] = subs[t],
         \/ subs'[s].state = subs[s].state
         \/ /\ subs[s].state \in {"absent", "queued"}
            /\ subs'[s].state \notin {"running", "uncertain"}
  PROVE  AttemptInv'
<1>1. ASSUME NEW b \in Attempt, atts[b].submission = s
      PROVE  subs'[s].state = subs[s].state
  BY <1>1, OwnedFacts
<1>2. AttemptOwnership'
  BY <1>1 DEF AttemptInv, AttemptOwnership
<1>3. OneAttemptEach'
  BY DEF AttemptInv, OneAttemptEach
<1>4. RunningIsOwned' /\ UncertainIsHeld'
  BY DEF AttemptInv, RunningIsOwned, UncertainIsHeld, ActiveOf
<1>5. QED
  BY <1>2, <1>3, <1>4 DEF AttemptInv

LEMMA AttemptStep ==
  StoreTypeOK /\ AttemptInv /\ [Transaction]_storeVars => AttemptInv'
<1> SUFFICES ASSUME StoreTypeOK, AttemptInv, [Transaction]_storeVars
             PROVE  AttemptInv'
  OBVIOUS
<1>1. CASE UNCHANGED storeVars
  BY <1>1 DEF storeVars, AttemptInv, AttemptOwnership, OneAttemptEach,
              RunningIsOwned, UncertainIsHeld, ActiveOf
<1>2. CASE Transaction
  <2>1. ASSUME NEW s \in Submission, NEW r \in Request, NEW time \in Nat,
             Accept(s, r, time)
        PROVE  AttemptInv'
    BY <2>1, AcceptEffect, AttemptOther
  <2>2. ASSUME NEW s \in Submission, NEW a \in Attempt, AppendAgentEvent(s, a)
        PROVE  AttemptInv'
    BY <2>2, AttemptOther DEF AppendAgentEvent
  <2>3. ASSUME NEW s \in Submission, NEW to \in {"expired", "cancelled", "failed"},
               CloseQueued(s, to)
        PROVE  AttemptInv'
    BY <2>3, CloseEffect, AttemptOther DEF OnlyRow, Queued
  <2>4. ASSUME NEW s \in Submission, Annotates(s)
        PROVE  AttemptInv'
    BY <2>4, AnnotateEffect, AttemptOther DEF OnlyRow
  <2>5. QED
    BY <1>2, <2>1, <2>2, <2>3, <2>4, AttemptClaim, AttemptMark, AttemptFinish
       DEF Transaction
<1>3. QED
  BY <1>1, <1>2

LEMMA TransactionsAgree == Transactions => []AttemptInv
<1>1. StoreInit => StoreTypeOK /\ AttemptInv
  BY StoreInitTyped, AttemptInitial
<1>2. StoreTypeOK /\ AttemptInv /\ [Transaction]_storeVars
        => StoreTypeOK' /\ AttemptInv'
  BY StoreStepTyped, AttemptStep
<1>3. QED
  BY <1>1, <1>2, PTL DEF Transactions

(***************************************************************************)
(* The mismatch that finish reports as an internal error never arises: the *)
(* rows of attempts and of submissions agree after any sequence of         *)
(* transactions.                                                           *)
(***************************************************************************)
THEOREM AttemptsAgree == StoreSpec => []AttemptInv
BY StoreTransacts, TransactionsAgree, PTL

-----------------------------------------------------------------------------
(* Mutual exclusion on workspaces. *)

(***************************************************************************)
(* Two submissions that need a workspace for themselves never both hold    *)
(* it: WorkspaceExclusive is inductive because claim looks for every row   *)
(* that is running or uncertain in the transaction that starts its own,    *)
(* and no other transaction makes a row occupy its workspace.              *)
(***************************************************************************)
LEMMA ExclusiveStep ==
  StoreTypeOK /\ WorkspaceExclusive /\ [Transaction]_storeVars => WorkspaceExclusive'
<1> SUFFICES ASSUME StoreTypeOK, WorkspaceExclusive, [Transaction]_storeVars
             PROVE  WorkspaceExclusive'
  OBVIOUS
<1> USE DEF WorkspaceExclusive, OccupiesWorkspace, Conflict
<1>1. CASE UNCHANGED storeVars
  BY <1>1 DEF storeVars
<1>2. ASSUME NEW s \in Submission,
             \A t \in Submission : t # s => subs'[t] = subs[t],
             \/ subs'[s].state \notin {"running", "uncertain"}
             \/ /\ subs[s].state \in {"running", "uncertain"}
                /\ subs'[s].request = subs[s].request
      PROVE  WorkspaceExclusive'
  BY <1>2
<1>3. ASSUME NEW s \in Submission, NEW a \in Attempt, NEW src \in Source,
             Claim(s, a, src)
      PROVE  WorkspaceExclusive'
  <2>1. OnlyRow(s, "running") /\ ~WorkspaceBusy(s)
    BY <1>3, ClaimEffect
  <2>2. QED
    BY <2>1 DEF OnlyRow, WorkspaceBusy
<1>4. ASSUME NEW s \in Submission, NEW r \in Request, NEW time \in Nat,
             Accept(s, r, time)
      PROVE  WorkspaceExclusive'
  <2>1. /\ \A t \in Submission : t # s => subs'[t] = subs[t]
        /\ subs'[s].state = "queued"
    BY <1>4, AcceptEffect
  <2>2. QED
    BY <1>2, <2>1
<1>5. ASSUME NEW s \in Submission, NEW a \in Attempt,
             MarkAttemptRunning(s, a) \/ AppendAgentEvent(s, a)
      PROVE  WorkspaceExclusive'
  BY <1>5 DEF MarkAttemptRunning, AppendAgentEvent
<1>6. ASSUME NEW s \in Submission, NEW a \in Attempt, NEW outcome \in Outcome,
             Finish(s, a, outcome)
      PROVE  WorkspaceExclusive'
  <2>1. subs[s].state = "running" /\ OnlyRow(s, outcome)
    BY <1>6, FinishEffect
  <2>2. QED
    BY <1>2, <2>1 DEF OnlyRow
<1>7. ASSUME NEW s \in Submission, NEW to \in {"expired", "cancelled", "failed"},
             CloseQueued(s, to)
      PROVE  WorkspaceExclusive'
  <2>1. OnlyRow(s, to)
    BY <1>7, CloseEffect
  <2>2. QED
    BY <1>2, <2>1 DEF OnlyRow
<1>8. ASSUME NEW s \in Submission, Annotates(s)
      PROVE  WorkspaceExclusive'
  <2>1. OnlyRow(s, subs[s].state) /\ subs[s].state \in {"queued", "running"}
    BY <1>8, AnnotateEffect
  <2>2. QED
    BY <1>2, <2>1 DEF OnlyRow
<1>9. CASE Transaction
  <2> HIDE DEF WorkspaceExclusive
  <2> QED
    BY <1>9, <1>3, <1>4, <1>5, <1>6, <1>7, <1>8 DEF Transaction
<1>10. QED
  BY <1>1, <1>9

LEMMA TransactionsExclude == Transactions => []WorkspaceExclusive
<1>1. StoreInit => WorkspaceExclusive
  <2> SUFFICES ASSUME StoreInit PROVE WorkspaceExclusive
    OBVIOUS
  <2>1. \A s \in Submission : subs[s].state \in {"absent", "queued"}
    BY InitialStates
  <2>2. QED
    BY <2>1 DEF WorkspaceExclusive, OccupiesWorkspace
<1>2. StoreTypeOK /\ WorkspaceExclusive /\ [Transaction]_storeVars => WorkspaceExclusive'
  BY ExclusiveStep
<1>3. QED
  BY <1>1, <1>2, TransactionsTyped, PTL DEF Transactions

(* No two conflicting submissions are ever both running or in doubt: the
   workspace check of claim, for any number of submissions. *)
THEOREM WorkspacesExclusive == StoreSpec => []WorkspaceExclusive
BY StoreTransacts, TransactionsExclude, PTL

-----------------------------------------------------------------------------
LEMMA TransactionsFinal == Transactions => TerminalIsFinal
<1> DEFINE Kept == \A s \in Submission : IsTerminal(s) =>
                     /\ subs'[s] = subs[s]
                     /\ \A a \in Attempt : atts[a].submission = s => atts'[a] = atts[a]
<1>1. StoreTypeOK /\ AttemptInv /\ [Transaction]_storeVars => Kept
  <2> SUFFICES ASSUME StoreTypeOK, AttemptInv, [Transaction]_storeVars PROVE Kept
    OBVIOUS
  <2>1. CASE UNCHANGED storeVars
    BY <2>1 DEF storeVars
  <2>2. ASSUME NEW s \in Submission, ~IsTerminal(s),
               \A t \in Submission : t # s => subs'[t] = subs[t],
               \A b \in Attempt : \/ atts'[b] = atts[b]
                                  \/ atts[b].submission \in {s, None}
        PROVE  Kept
    BY <2>2, NoneAssumption
  <2>3. ASSUME NEW s \in Submission, NEW r \in Request, NEW time \in Nat,
             Accept(s, r, time)
        PROVE  Kept
    BY <2>2, <2>3, AcceptEffect DEF IsTerminal, Terminal, Outcome, Confirmed
  <2>4. ASSUME NEW s \in Submission, NEW a \in Attempt, NEW src \in Source,
               Claim(s, a, src)
        PROVE  Kept
    <3>1. /\ Queued(s) /\ atts[a].state = "absent" /\ OnlyRow(s, "running")
          /\ \A b \in Attempt : b # a => atts'[b] = atts[b]
      BY <2>4, ClaimEffect
    <3>2. atts[a].submission = None
      BY <3>1 DEF AttemptInv, AttemptOwnership, NoAttempt
    <3>3. ~IsTerminal(s)
      BY <3>1 DEF Queued, IsTerminal, Terminal, Outcome, Confirmed
    <3>4. QED
      BY <2>2, <3>1, <3>2, <3>3 DEF OnlyRow
  <2>5. ASSUME NEW s \in Submission, NEW a \in Attempt, MarkAttemptRunning(s, a)
        PROVE  Kept
    <3>1. /\ subs' = subs /\ atts[a].submission = s /\ atts[a].state = "starting"
          /\ \A b \in Attempt : b # a => atts'[b] = atts[b]
      BY <2>5, MarkEffect
    <3>2. subs[s].state = "running"
      BY <3>1, OwnedFacts DEF ActiveAttempt
    <3>3. QED
      BY <2>2, <3>1, <3>2 DEF IsTerminal, Terminal, Outcome, Confirmed
  <2>6. ASSUME NEW s \in Submission, NEW a \in Attempt, AppendAgentEvent(s, a)
        PROVE  Kept
    BY <2>6 DEF AppendAgentEvent
  <2>7. ASSUME NEW s \in Submission, NEW a \in Attempt, NEW outcome \in Outcome,
               Finish(s, a, outcome)
        PROVE  Kept
    <3>1. /\ subs[s].state = "running" /\ atts[a].submission = s
          /\ OnlyRow(s, outcome)
          /\ \A b \in Attempt : b # a => atts'[b] = atts[b]
      BY <2>7, FinishEffect
    <3>2. QED
      BY <2>2, <3>1 DEF OnlyRow, IsTerminal, Terminal, Outcome, Confirmed
  <2>8. ASSUME NEW s \in Submission, NEW to \in {"expired", "cancelled", "failed"},
               CloseQueued(s, to)
        PROVE  Kept
    <3>1. Queued(s) /\ OnlyRow(s, to) /\ atts' = atts
      BY <2>8, CloseEffect
    <3>2. QED
      BY <2>2, <3>1 DEF OnlyRow, Queued, IsTerminal, Terminal, Outcome, Confirmed
  <2>9. ASSUME NEW s \in Submission, Annotates(s)
        PROVE  Kept
    <3>1. /\ OnlyRow(s, subs[s].state) /\ atts' = atts
          /\ subs[s].state \in {"queued", "running"}
      BY <2>9, AnnotateEffect
    <3>2. QED
      BY <2>2, <3>1 DEF OnlyRow, IsTerminal, Terminal, Outcome, Confirmed
  <2>10. CASE Transaction
    <3> HIDE DEF Kept
    <3> QED
      BY <2>10, <2>3, <2>4, <2>5, <2>6, <2>7, <2>8, <2>9 DEF Transaction
  <2>11. QED
    BY <2>1, <2>10
<1>2. StoreTypeOK /\ AttemptInv /\ [Transaction]_storeVars => [Kept]_storeVars
  BY <1>1
<1>3. QED
  BY <1>2, TransactionsTyped, TransactionsAgree, PTL DEF Transactions, TerminalIsFinal

(***************************************************************************)
(* A terminal submission, its attempt and its lease never change again,    *)
(* whatever transaction comes late: the guards of claim, cancel, patch,    *)
(* set_blocker and finish_queued see the state of the row, and finish and  *)
(* mark_attempt_running see an active attempt, which by AttemptInv no      *)
(* terminal submission owns.                                               *)
(***************************************************************************)
THEOREM TerminalStays == StoreSpec => TerminalIsFinal
BY StoreTransacts, TransactionsFinal, PTL

-----------------------------------------------------------------------------
(* The store implements the documented lifecycle. *)

(* Only migrated rows lack a frozen configuration. *)
UnfrozenIsLegacy ==
  \A s \in Submission : Exists(s) /\ ~subs[s].frozen => s \in Legacy

LEMMA UnfrozenStep ==
  StoreTypeOK /\ UnfrozenIsLegacy /\ [Transaction]_storeVars => UnfrozenIsLegacy'
<1> SUFFICES ASSUME StoreTypeOK, UnfrozenIsLegacy, [Transaction]_storeVars
             PROVE  UnfrozenIsLegacy'
  OBVIOUS
<1> USE DEF UnfrozenIsLegacy, Exists
<1>1. CASE subs' = subs
  BY <1>1
<1>2. ASSUME NEW s \in Submission, NEW to, OnlyRow(s, to), Exists(s)
      PROVE  UnfrozenIsLegacy'
  BY <1>2 DEF OnlyRow
<1>3. ASSUME NEW s \in Submission, NEW r \in Request, NEW time \in Nat,
             Accept(s, r, time)
      PROVE  UnfrozenIsLegacy'
  <2>1. /\ \A t \in Submission : t # s => subs'[t] = subs[t]
        /\ subs'[s].frozen = TRUE
    BY <1>3, AcceptEffect
  <2>2. QED
    BY <2>1
<1>4. ASSUME NEW s \in Submission, NEW a \in Attempt, NEW src \in Source,
             Claim(s, a, src)
      PROVE  UnfrozenIsLegacy'
  BY <1>2, <1>4, ClaimEffect DEF Queued
<1>5. ASSUME NEW s \in Submission, NEW a \in Attempt, NEW outcome \in Outcome,
             Finish(s, a, outcome)
      PROVE  UnfrozenIsLegacy'
  BY <1>2, <1>5, FinishEffect
<1>6. ASSUME NEW s \in Submission, NEW to, CloseQueued(s, to)
      PROVE  UnfrozenIsLegacy'
  BY <1>2, <1>6, CloseEffect DEF Queued
<1>7. ASSUME NEW s \in Submission, Annotates(s)
      PROVE  UnfrozenIsLegacy'
  BY <1>2, <1>7, AnnotateEffect
<1>8. CASE Transaction
  <2> HIDE DEF UnfrozenIsLegacy
  <2>1. ASSUME NEW s \in Submission, NEW a \in Attempt,
               MarkAttemptRunning(s, a) \/ AppendAgentEvent(s, a)
        PROVE  UnfrozenIsLegacy'
    BY <1>1, <2>1 DEF MarkAttemptRunning, AppendAgentEvent
  <2>2. QED
    BY <1>8, <1>3, <1>4, <1>5, <1>6, <1>7, <2>1 DEF Transaction
<1>9. QED
  BY <1>1, <1>8 DEF storeVars

(* The two components of the refinement mapping, step by step. *)
LEMMA PhaseMoves ==
  ASSUME NEW s \in Submission, NEW to, OnlyRow(s, to)
  PROVE  Phase' = [Phase EXCEPT ![s] = to]
BY DEF OnlyRow, Phase

LEMMA LeasedStays == ASSUME atts' = atts PROVE Leased' = Leased
BY DEF Leased

LEMMA LifecycleClaim ==
  ASSUME StoreTypeOK, AttemptInv, NEW s \in Submission, NEW a \in Attempt,
         NEW src \in Source, Claim(s, a, src)
  PROVE  L!Start(s)
<1>1. /\ Queued(s) /\ atts[a].state = "absent" /\ OnlyRow(s, "running")
      /\ \A b \in Attempt : b # a => atts'[b] = atts[b]
      /\ atts'[a] = [state |-> "starting", submission |-> s,
                     source |-> src, capacity_held |-> TRUE]
  BY ClaimEffect
<1>2. atts[a].submission = None
  BY <1>1 DEF AttemptInv, AttemptOwnership, NoAttempt
<1>3. Leased' = Leased \cup {s}
  BY <1>1, <1>2, NoneAssumption DEF Leased
<1>4. Phase[s] = "queued" /\ Phase' = [Phase EXCEPT ![s] = "running"]
  BY <1>1, PhaseMoves DEF Phase, Queued
<1>5. QED
  BY <1>3, <1>4 DEF L!Start

LEMMA LifecycleFinish ==
  ASSUME StoreTypeOK, AttemptInv, NEW s \in Submission, NEW a \in Attempt,
         NEW outcome \in Outcome, Finish(s, a, outcome)
  PROVE  L!End(s, outcome)
<1>1. /\ subs[s].state = "running" /\ atts[a].submission = s
      /\ atts[a].state \in ActiveAttempt /\ OnlyRow(s, outcome)
      /\ \A b \in Attempt : b # a => atts'[b] = atts[b]
      /\ atts'[a].submission = s
      /\ atts'[a].capacity_held = KeepsCapacity(outcome)
  BY FinishEffect
<1>2. \A b \in Attempt : b # a => atts[b].submission # s
  BY <1>1, NoneAssumption DEF AttemptInv, OneAttemptEach
<1>3. atts[a].capacity_held
  BY <1>1 DEF AttemptInv, AttemptOwnership, ActiveAttempt, Confirmed
<1>4. CASE outcome = "uncertain"
  <2>1. atts'[a].capacity_held
    BY <1>1, <1>4 DEF KeepsCapacity
  <2>2. Leased' = Leased
    BY <1>1, <1>3, <2>1 DEF Leased
  <2>3. QED
    BY <1>1, <1>4, <2>2, PhaseMoves DEF L!End, Phase
<1>5. CASE outcome # "uncertain"
  <2>1. ~atts'[a].capacity_held
    BY <1>1, <1>5 DEF KeepsCapacity
  <2>2. Leased' = Leased \ {s}
    BY <1>1, <1>2, <2>1 DEF Leased
  <2>3. QED
    BY <1>1, <1>5, <2>2, PhaseMoves DEF L!End, Phase
<1>6. QED
  BY <1>4, <1>5

LEMMA LifecycleStep ==
  ASSUME StoreTypeOK, AttemptInv, UnfrozenIsLegacy, [Transaction]_storeVars
  PROVE  [L!Next]_<<Phase, Leased>>
<1>1. CASE UNCHANGED storeVars
  BY <1>1 DEF storeVars, Phase, Leased
<1>2. ASSUME NEW s \in Submission, NEW r \in Request, NEW time \in Nat,
             Accept(s, r, time)
      PROVE  L!Submit(s)
  <2>1. /\ subs[s].state = "absent" /\ subs'[s].state = "queued" /\ atts' = atts
        /\ \A t \in Submission : t # s => subs'[t] = subs[t]
    BY <1>2, AcceptEffect
  <2>2. QED
    BY <2>1, LeasedStays DEF L!Submit, Phase
<1>3. ASSUME NEW s \in Submission, NEW to, CloseQueued(s, to)
      PROVE  L!Drop(s, to)
  <2>1. Queued(s) /\ OnlyRow(s, to) /\ atts' = atts
    BY <1>3, CloseEffect
  <2>2. QED
    BY <2>1, PhaseMoves, LeasedStays DEF L!Drop, Phase, Queued
<1>4. ASSUME NEW s \in Submission, ~subs[s].frozen, CloseQueued(s, "failed")
      PROVE  s \in Legacy
  BY <1>4, CloseEffect DEF UnfrozenIsLegacy, Exists, Queued
<1>5. ASSUME NEW s \in Submission, Annotates(s)
      PROVE  UNCHANGED <<Phase, Leased>>
  <2>1. OnlyRow(s, subs[s].state) /\ atts' = atts
    BY <1>5, AnnotateEffect
  <2>2. QED
    BY <2>1, LeasedStays DEF OnlyRow, Phase
<1>6. ASSUME NEW s \in Submission, NEW a \in Attempt, AppendAgentEvent(s, a)
      PROVE  UNCHANGED <<Phase, Leased>>
  BY <1>6 DEF AppendAgentEvent, Phase, Leased
<1>7. ASSUME NEW s \in Submission, NEW a \in Attempt, MarkAttemptRunning(s, a)
      PROVE  UNCHANGED <<Phase, Leased>>
  <2>1. /\ subs' = subs
        /\ \A b \in Attempt : /\ atts'[b].submission = atts[b].submission
                              /\ atts'[b].capacity_held = atts[b].capacity_held
    BY <1>7, MarkEffect
  <2>2. QED
    BY <2>1 DEF Phase, Leased
<1>8. CASE Transaction
  BY <1>8, <1>2, <1>3, <1>4, <1>5, <1>6, <1>7, LifecycleClaim,
     LifecycleFinish DEF Transaction, L!Next, Outcome, Confirmed
<1>9. QED
  BY <1>1, <1>8

LEMMA LifecycleInitial == StoreInit => L!Init /\ UnfrozenIsLegacy
<1> SUFFICES ASSUME StoreInit PROVE L!Init /\ UnfrozenIsLegacy
  OBVIOUS
<1>1. PICK old \in [Legacy -> Request] :
        subs = [s \in Submission |->
                 IF s \in Legacy
                 THEN [NewRow(old[s], 0) EXCEPT !.frozen = FALSE]
                 ELSE NoRow]
  BY DEF StoreInit
<1>2. NoRow.state = "absent"
  BY DEF NoRow
<1>3. ASSUME NEW r PROVE [NewRow(r, 0) EXCEPT !.frozen = FALSE].state = "queued"
  BY DEF NewRow
<1>4. Phase = [s \in Submission |-> IF s \in Legacy THEN "queued" ELSE "absent"]
  BY <1>1, <1>2, <1>3 DEF Phase
<1>5. Leased = {}
  <2>1. NoAttempt.capacity_held = FALSE
    BY DEF NoAttempt
  <2>2. QED
    BY <2>1 DEF Leased, StoreInit
<1>6. UnfrozenIsLegacy
  BY <1>1, <1>2 DEF UnfrozenIsLegacy, Exists
<1>7. QED
  BY <1>4, <1>5, <1>6 DEF L!Init

LEMMA TransactionsRefine == Transactions => ImplementsLifecycle
<1>1. StoreInit => L!Init /\ UnfrozenIsLegacy
  BY LifecycleInitial
<1>2. StoreTypeOK /\ UnfrozenIsLegacy /\ [Transaction]_storeVars => UnfrozenIsLegacy'
  BY UnfrozenStep
<1>3. StoreTypeOK /\ AttemptInv /\ UnfrozenIsLegacy /\ [Transaction]_storeVars
        => [L!Next]_<<Phase, Leased>>
  BY LifecycleStep
<1>4. QED
  BY <1>1, <1>2, <1>3, TransactionsTyped, TransactionsAgree, PTL
     DEF Transactions, ImplementsLifecycle, L!Spec

(***************************************************************************)
(* Every behaviour of the store is a behaviour of the documented lifecycle *)
(* of a submission: no transaction, in any order, takes a transition that  *)
(* submission-api.md does not list (rows of the old schema aside), and a   *)
(* slot is given back exactly with a confirmed end.                        *)
(***************************************************************************)
THEOREM StoreRefinesLifecycle == StoreSpec => ImplementsLifecycle
BY StoreTransacts, TransactionsRefine, PTL

-----------------------------------------------------------------------------
(***************************************************************************)
(* The initial rows, with what the last two invariants need of them.       *)
(***************************************************************************)
LEMMA InitialRows ==
  ASSUME StoreInit
  PROVE  \E old \in [Legacy -> Request] :
           /\ \A s, t \in Legacy : old[s].key = old[t].key => s = t
           /\ \A s \in Legacy :
                /\ subs[s].request = old[s]
                /\ subs[s].not_before = old[s].not_before
                /\ subs[s].start_deadline = old[s].start_deadline
           /\ \A s \in Submission \ Legacy : subs[s] = NoRow
<1>1. PICK old \in [Legacy -> Request] :
        /\ \A s, t \in Legacy : old[s].key = old[t].key => s = t
        /\ subs = [s \in Submission |->
                    IF s \in Legacy
                    THEN [NewRow(old[s], 0) EXCEPT !.frozen = FALSE]
                    ELSE NoRow]
  BY DEF StoreInit
<1>2. \A s \in Legacy : subs[s] = [NewRow(old[s], 0) EXCEPT !.frozen = FALSE]
  BY <1>1, LegacyAssumption
<1>3. ASSUME NEW r
      PROVE  /\ [NewRow(r, 0) EXCEPT !.frozen = FALSE].request = r
             /\ [NewRow(r, 0) EXCEPT !.frozen = FALSE].not_before = r.not_before
             /\ [NewRow(r, 0) EXCEPT !.frozen = FALSE].start_deadline = r.start_deadline
  BY DEF NewRow
<1>4. \A s \in Legacy :
        /\ subs[s].request = old[s]
        /\ subs[s].not_before = old[s].not_before
        /\ subs[s].start_deadline = old[s].start_deadline
  BY <1>2, <1>3
<1>5. \A s \in Submission \ Legacy : subs[s] = NoRow
  BY <1>1
<1>6. QED
  BY <1>1, <1>4, <1>5, Zenon

(* A key once taken stays with its row: no transaction rewrites a request or
   removes a row, and accept looks for the key in its own transaction. *)
LEMMA KeyStep ==
  StoreTypeOK /\ KeyUnique /\ [Transaction]_storeVars => KeyUnique'
<1> SUFFICES ASSUME StoreTypeOK, KeyUnique, [Transaction]_storeVars
             PROVE  KeyUnique'
  OBVIOUS
<1> USE DEF KeyUnique, Exists
<1>1. CASE UNCHANGED storeVars
  BY <1>1 DEF storeVars
<1>2. ASSUME NEW s \in Submission,
             \A t \in Submission : t # s => subs'[t] = subs[t],
             subs[s].state # "absent",
             subs'[s].request = subs[s].request
      PROVE  KeyUnique'
  BY <1>2
<1>3. ASSUME NEW s \in Submission, NEW r \in Request, NEW time \in Nat,
             Accept(s, r, time)
      PROVE  KeyUnique'
  <2>1. /\ \A t \in Submission : t # s => subs'[t] = subs[t]
        /\ subs'[s].request = r
        /\ subs[s].state = "absent" /\ ~KeyTaken(r)
    BY <1>3, AcceptEffect
  <2>2. \A t \in Submission : t # s /\ subs'[t].state # "absent"
          => subs'[t].request.key # r.key
    BY <2>1 DEF KeyTaken
  <2>3. QED
    BY <2>1, <2>2
<1>4. ASSUME NEW s \in Submission, NEW a \in Attempt, NEW src \in Source,
             Claim(s, a, src)
      PROVE  KeyUnique'
  <2>1. Queued(s) /\ OnlyRow(s, "running")
    BY <1>4, ClaimEffect
  <2>2. QED
    BY <1>2, <2>1 DEF OnlyRow, Queued
<1>5. ASSUME NEW s \in Submission, NEW a \in Attempt,
             MarkAttemptRunning(s, a) \/ AppendAgentEvent(s, a)
      PROVE  KeyUnique'
  BY <1>5 DEF MarkAttemptRunning, AppendAgentEvent
<1>6. ASSUME NEW s \in Submission, NEW a \in Attempt, NEW outcome \in Outcome,
             Finish(s, a, outcome)
      PROVE  KeyUnique'
  <2>1. subs[s].state = "running" /\ OnlyRow(s, outcome)
    BY <1>6, FinishEffect
  <2>2. QED
    BY <1>2, <2>1 DEF OnlyRow
<1>7. ASSUME NEW s \in Submission, NEW to \in {"expired", "cancelled", "failed"},
             CloseQueued(s, to)
      PROVE  KeyUnique'
  <2>1. Queued(s) /\ OnlyRow(s, to)
    BY <1>7, CloseEffect
  <2>2. QED
    BY <1>2, <2>1 DEF OnlyRow, Queued
<1>8. ASSUME NEW s \in Submission, Annotates(s)
      PROVE  KeyUnique'
  <2>1. OnlyRow(s, subs[s].state) /\ subs[s].state \in {"queued", "running"}
    BY <1>8, AnnotateEffect
  <2>2. QED
    BY <1>2, <2>1 DEF OnlyRow
<1>9. CASE Transaction
  <2> HIDE DEF KeyUnique
  <2> QED
    BY <1>9, <1>3, <1>4, <1>5, <1>6, <1>7, <1>8 DEF Transaction
<1>10. QED
  BY <1>1, <1>9

LEMMA TransactionsKeys == Transactions => []KeyUnique
<1>1. StoreInit => KeyUnique
  <2> SUFFICES ASSUME StoreInit PROVE KeyUnique
    OBVIOUS
  <2>1. NoRow.state = "absent"
    BY DEF NoRow
  <2>2. QED
    BY <2>1, InitialRows DEF KeyUnique, Exists
<1>2. StoreTypeOK /\ KeyUnique /\ [Transaction]_storeVars => KeyUnique'
  BY KeyStep
<1>3. QED
  BY <1>1, <1>2, TransactionsTyped, PTL DEF Transactions

(* An idempotency key names one submission, for any number of concurrent
   creates: accept finds the key, or inserts the row, in one transaction. *)
THEOREM KeysUnique == StoreSpec => []KeyUnique
BY StoreTransacts, TransactionsKeys, PTL

-----------------------------------------------------------------------------
(* The two columns of the start window of s stay as they are. *)
SameWindow(s) == /\ subs'[s].not_before = subs[s].not_before
                 /\ subs'[s].start_deadline = subs[s].start_deadline

(* Only accept and patch_scheduling write the window. *)
LEMMA WindowStep ==
  StoreTypeOK /\ WindowNonEmpty /\ [Transaction]_storeVars => WindowNonEmpty'
<1> SUFFICES ASSUME StoreTypeOK, WindowNonEmpty, [Transaction]_storeVars
             PROVE  WindowNonEmpty'
  OBVIOUS
<1> USE DEF WindowNonEmpty
<1>1. CASE UNCHANGED storeVars
  BY <1>1 DEF storeVars
<1>2. ASSUME \A s \in Submission : SameWindow(s)
      PROVE  WindowNonEmpty'
  BY <1>2 DEF SameWindow
<1>3. ASSUME NEW s \in Submission, NEW r \in Request, NEW time \in Nat,
             Accept(s, r, time)
      PROVE  WindowNonEmpty'
  <2>1. subs' = [subs EXCEPT ![s] = NewRow(r, time)]
    BY <1>3 DEF Accept
  <2>2. /\ NewRow(r, time).not_before = r.not_before
        /\ NewRow(r, time).start_deadline = r.start_deadline
    BY DEF NewRow
  <2>3. WindowOK(r.not_before, r.start_deadline)
    BY RequestAssumption DEF Validated
  <2>4. QED
    BY <2>1, <2>2, <2>3 DEF StoreTypeOK
<1>4. ASSUME NEW s \in Submission, NEW p \in Patch,
             PatchScheduling(s, subs[s].revision, p)
      PROVE  WindowNonEmpty'
  <2>1. /\ subs'[s].not_before = Merge(p.not_before, subs[s].not_before)
        /\ subs'[s].start_deadline = Merge(p.start_deadline, subs[s].start_deadline)
        /\ \A t \in Submission : t # s => subs'[t] = subs[t]
    BY <1>4 DEF PatchScheduling, StoreTypeOK, Row
  <2>2. WindowOK(subs'[s].not_before, subs'[s].start_deadline)
    BY <1>4, <2>1 DEF PatchScheduling, PatchWindow
  <2>3. QED
    BY <2>1, <2>2
<1>5. ASSUME NEW s \in Submission,
             \/ \E a \in Attempt, src \in Source : Claim(s, a, src)
             \/ \E a \in Attempt : MarkAttemptRunning(s, a)
             \/ \E a \in Attempt : AppendAgentEvent(s, a)
             \/ \E a \in Attempt, outcome \in Outcome : Finish(s, a, outcome)
             \/ \E to \in {"expired", "cancelled", "failed"} : CloseQueued(s, to)
             \/ \E code \in Blocker : SetBlocker(s, code)
             \/ CancelRunning(s)
      PROVE  \A t \in Submission : SameWindow(t)
  <2> USE DEF SameWindow, StoreTypeOK, Row
  <2>1. CASE \E a \in Attempt, src \in Source : Claim(s, a, src)
    BY <2>1 DEF Claim
  <2>2. CASE \E a \in Attempt : MarkAttemptRunning(s, a) \/ AppendAgentEvent(s, a)
    BY <2>2 DEF MarkAttemptRunning, AppendAgentEvent
  <2>3. CASE \E a \in Attempt, outcome \in Outcome : Finish(s, a, outcome)
    BY <2>3 DEF Finish
  <2>4. CASE \E to \in {"expired", "cancelled", "failed"} : CloseQueued(s, to)
    BY <2>4 DEF CloseQueued
  <2>5. CASE \E code \in Blocker : SetBlocker(s, code)
    BY <2>5 DEF SetBlocker
  <2>6. CASE CancelRunning(s)
    BY <2>6 DEF CancelRunning
  <2>7. QED
    BY <1>5, <2>1, <2>2, <2>3, <2>4, <2>5, <2>6
<1>6. CASE Transaction
  <2> HIDE DEF WindowNonEmpty
  <2>1. PICK s \in Submission :
          \/ \E r \in Request, time \in Nat : Accept(s, r, time)
          \/ \E a \in Attempt, src \in Source : Claim(s, a, src)
          \/ \E a \in Attempt : MarkAttemptRunning(s, a)
          \/ \E a \in Attempt : AppendAgentEvent(s, a)
          \/ \E a \in Attempt, outcome \in Outcome : Finish(s, a, outcome)
          \/ \E to \in {"expired", "cancelled", "failed"} : CloseQueued(s, to)
          \/ \E code \in Blocker : SetBlocker(s, code)
          \/ CancelRunning(s)
          \/ \E p \in Patch : PatchScheduling(s, subs[s].revision, p)
    BY <1>6 DEF Transaction, Annotates
  <2>2. QED
    BY <2>1, <1>2, <1>3, <1>4, <1>5
<1>7. QED
  BY <1>1, <1>6

LEMMA TransactionsWindows == Transactions => []WindowNonEmpty
<1>1. StoreInit => WindowNonEmpty
  <2> SUFFICES ASSUME StoreInit PROVE WindowNonEmpty
    OBVIOUS
  <2>1. WindowOK(NoRow.not_before, NoRow.start_deadline)
    BY DEF NoRow, WindowOK
  <2>2. \A r \in Request : WindowOK(r.not_before, r.start_deadline)
    BY RequestAssumption DEF Validated
  <2>3. QED
    BY <2>1, <2>2, InitialRows, LegacyAssumption DEF WindowNonEmpty
<1>2. StoreTypeOK /\ WindowNonEmpty /\ [Transaction]_storeVars => WindowNonEmpty'
  BY WindowStep
<1>3. QED
  BY <1>1, <1>2, TransactionsTyped, PTL DEF Transactions

(* A start window is never empty: validate_request checks the whole window of
   a new submission, patch_scheduling that of the merged row. *)
THEOREM WindowsNonEmpty == StoreSpec => []WindowNonEmpty
BY StoreTransacts, TransactionsWindows, PTL

-----------------------------------------------------------------------------
(* The log: the last state event of q announces state st. *)
Announces(q, st) ==
  \E i \in 1..Len(q) :
    /\ q[i].type \in StateEvents
    /\ q[i].to = st
    /\ \A j \in (i+1)..Len(q) : q[j].type \notin StateEvents

(* Events that announce nothing leave the last announcement standing. *)
LEMMA StillAnnounced ==
  ASSUME NEW q \in Seq(Event), NEW evs \in Seq(Event), NEW st, Announces(q, st),
         \A j \in 1..Len(evs) : evs[j].type \notin StateEvents
  PROVE  Announces(q \o evs, st)
<1>1. PICK i \in 1..Len(q) :
        /\ q[i].type \in StateEvents
        /\ q[i].to = st
        /\ \A j \in (i+1)..Len(q) : q[j].type \notin StateEvents
  BY DEF Announces
<1>2. Len(q \o evs) = Len(q) + Len(evs) /\ i \in 1..Len(q \o evs)
  OBVIOUS
<1>3. (q \o evs)[i] = q[i]
  OBVIOUS
<1>4. ASSUME NEW j \in (i+1)..Len(q \o evs)
      PROVE  (q \o evs)[j].type \notin StateEvents
  <2>1. CASE j <= Len(q)
    <3>1. (q \o evs)[j] = q[j] /\ j \in (i+1)..Len(q)
      BY <2>1
    <3>2. QED
      BY <1>1, <3>1
  <2>2. CASE j > Len(q)
    <3>1. (q \o evs)[j] = evs[j - Len(q)] /\ j - Len(q) \in 1..Len(evs)
      BY <1>2, <2>2
    <3>2. QED
      BY <3>1
  <2>3. QED
    BY <2>1, <2>2
<1>5. QED
  BY <1>1, <1>2, <1>3, <1>4 DEF Announces

(* Events that end with an announcement make it the last one of the log. *)
LEMMA NewlyAnnounced ==
  ASSUME NEW q \in Seq(Event), NEW evs \in Seq(Event), NEW st, Announces(evs, st)
  PROVE  Announces(q \o evs, st)
<1>1. PICK i \in 1..Len(evs) :
        /\ evs[i].type \in StateEvents
        /\ evs[i].to = st
        /\ \A j \in (i+1)..Len(evs) : evs[j].type \notin StateEvents
  BY DEF Announces
<1> DEFINE n == Len(q)
<1>2. n \in Nat /\ Len(q \o evs) = n + Len(evs) /\ n + i \in 1..Len(q \o evs)
  OBVIOUS
<1>3. (q \o evs)[n + i] = evs[i]
  OBVIOUS
<1>4. ASSUME NEW j \in (n + i + 1)..Len(q \o evs)
      PROVE  (q \o evs)[j].type \notin StateEvents
  <2>1. (q \o evs)[j] = evs[j - n] /\ j - n \in (i+1)..Len(evs)
    BY <1>2
  <2>2. QED
    BY <1>1, <2>1
<1> HIDE DEF n
<1>5. QED
  BY <1>1, <1>2, <1>3, <1>4 DEF Announces

(***************************************************************************)
(* The heart of LogMatchesState: a transaction that moves one row appends, *)
(* in the same commit, either events that end with the new state or, when  *)
(* the state stays, events that announce none.                             *)
(***************************************************************************)
LEMMA LogMoves ==
  ASSUME StoreTypeOK, LogMatchesState, NEW s \in Submission,
         NEW evs \in Seq(Event), AppendEvents(s, evs),
         \A t \in Submission : t # s => subs'[t] = subs[t],
         \/ Announces(evs, subs'[s].state)
         \/ /\ subs'[s].state = subs[s].state
            /\ \A j \in 1..Len(evs) : evs[j].type \notin StateEvents
  PROVE  LogMatchesState'
<1> SUFFICES ASSUME NEW t \in Submission, History, subs'[t].state # "absent"
             PROVE  Announces(log'[t], subs'[t].state)
  BY DEF LogMatchesState, Exists, Announces
<1>1. subs[t].state # "absent" => Announces(log[t], subs[t].state)
  BY DEF LogMatchesState, Exists, Announces
<1>2. log[s] \in Seq(Event) /\ log' = [log EXCEPT ![s] = log[s] \o evs]
  BY DEF StoreTypeOK, AppendEvents
<1>3. CASE t # s
  <2>1. log'[t] = log[t] /\ subs'[t] = subs[t]
    BY <1>2, <1>3
  <2>2. QED
    BY <1>1, <2>1
<1>4. CASE t = s
  <2>1. log'[t] = log[s] \o evs
    BY <1>2, <1>4 DEF StoreTypeOK
  <2>2. Announces(log[s] \o evs, subs'[s].state)
    BY <1>1, <1>2, <1>4, StillAnnounced, NewlyAnnounced
  <2>3. QED
    BY <1>4, <2>1, <2>2
<1>5. QED
  BY <1>3, <1>4

(* One event, and a pair of events the second of which announces a state. *)
LEMMA OneEvent ==
  ASSUME NEW type \in EventType,
         NEW to \in SubmissionState \cup AttemptState \cup {"-"}
  PROVE  /\ <<Ev(type, to)>> \in Seq(Event)
         /\ type \in StateEvents => Announces(<<Ev(type, to)>>, to)
         /\ type \notin StateEvents =>
              \A j \in 1..Len(<<Ev(type, to)>>) : <<Ev(type, to)>>[j].type \notin StateEvents
<1>1. Ev(type, to) \in Event /\ Ev(type, to).type = type /\ Ev(type, to).to = to
  BY DEF Ev, Event
<1> DEFINE e == Ev(type, to)
<1> HIDE DEF e
<1>2. <<e>> \in Seq(Event) /\ Len(<<e>>) = 1 /\ <<e>>[1] = e
  BY <1>1 DEF e
<1>3. type \in StateEvents => Announces(<<e>>, to)
  BY <1>1, <1>2 DEF Announces, e
<1>4. QED
  BY <1>1, <1>2, <1>3 DEF e

LEMMA TwoEvents ==
  ASSUME NEW first \in EventType, NEW was \in SubmissionState \cup AttemptState,
         NEW to \in SubmissionState
  PROVE  LET evs == <<Ev(first, was), Ev("submission.state_changed", to)>>
         IN  evs \in Seq(Event) /\ Announces(evs, to)
<1> DEFINE d == Ev(first, was)
           e == Ev("submission.state_changed", to)
<1>1. d \in Event /\ e \in Event /\ e.type \in StateEvents /\ e.to = to
  BY DEF Ev, Event, EventType, StateEvents
<1> HIDE DEF d, e
<1>2. <<d, e>> \in Seq(Event) /\ Len(<<d, e>>) = 2 /\ <<d, e>>[2] = e
  BY <1>1
<1>3. Announces(<<d, e>>, to)
  BY <1>1, <1>2 DEF Announces
<1>4. QED
  BY <1>2, <1>3 DEF d, e

LEMMA LogStep ==
  StoreTypeOK /\ LogMatchesState /\ [Transaction]_storeVars => LogMatchesState'
<1> SUFFICES ASSUME StoreTypeOK, LogMatchesState, [Transaction]_storeVars
             PROVE  LogMatchesState'
  OBVIOUS
<1>1. CASE UNCHANGED storeVars
  BY <1>1 DEF storeVars, LogMatchesState, Exists
<1>2. ASSUME NEW s \in Submission, NEW r \in Request, NEW time \in Nat,
             Accept(s, r, time)
      PROVE  LogMatchesState'
  <2>1. /\ \A t \in Submission : t # s => subs'[t] = subs[t]
        /\ subs'[s].state = "queued"
    BY <1>2, AcceptEffect
  <2>2. AppendEvents(s, <<Ev("submission.created", "queued")>>)
    BY <1>2 DEF Accept
  <2>3. /\ "submission.created" \in EventType
        /\ "submission.created" \in StateEvents
        /\ "queued" \in SubmissionState
    BY DEF EventType, StateEvents, SubmissionState
  <2>4. QED
    BY <2>1, <2>2, <2>3, OneEvent, LogMoves
<1>3. ASSUME NEW s \in Submission, NEW a \in Attempt, NEW src \in Source,
             Claim(s, a, src)
      PROVE  LogMatchesState'
  <2>1. OnlyRow(s, "running")
    BY <1>3, ClaimEffect
  <2>2. AppendEvents(s, <<Ev("attempt.created", "starting"),
                          Ev("submission.state_changed", "running")>>)
    BY <1>3 DEF Claim
  <2>3. /\ "attempt.created" \in EventType
        /\ "starting" \in AttemptState /\ "running" \in SubmissionState
    BY DEF EventType, SubmissionState, AttemptState, ActiveAttempt
  <2>4. QED
    BY <2>1, <2>2, <2>3, TwoEvents, LogMoves DEF OnlyRow
<1>4. ASSUME NEW s \in Submission, NEW a \in Attempt,
             MarkAttemptRunning(s, a) \/ AppendAgentEvent(s, a)
      PROVE  LogMatchesState'
  <2>1. /\ subs' = subs
        /\ \E type \in {"attempt.state_changed", "agent"}, to \in {"running", "-"} :
             AppendEvents(s, <<Ev(type, to)>>)
    BY <1>4 DEF MarkAttemptRunning, AppendAgentEvent
  <2>2. PICK type \in {"attempt.state_changed", "agent"}, to \in {"running", "-"} :
          AppendEvents(s, <<Ev(type, to)>>)
    BY <2>1
  <2>3. /\ type \in EventType /\ type \notin StateEvents
        /\ to \in SubmissionState \cup AttemptState \cup {"-"}
    BY DEF EventType, StateEvents, SubmissionState
  <2>4. QED
    BY <2>1, <2>2, <2>3, OneEvent, LogMoves
<1>5. ASSUME NEW s \in Submission, NEW a \in Attempt, NEW outcome \in Outcome,
             Finish(s, a, outcome)
      PROVE  LogMatchesState'
  <2>1. OnlyRow(s, outcome)
    BY <1>5, FinishEffect
  <2>2. AppendEvents(s, <<Ev("attempt.state_changed", outcome),
                          Ev("submission.state_changed", outcome)>>)
    BY <1>5 DEF Finish
  <2>3. /\ "attempt.state_changed" \in EventType
        /\ outcome \in AttemptState /\ outcome \in SubmissionState
    BY DEF EventType, SubmissionState, AttemptState, Terminal
  <2>4. QED
    BY <2>1, <2>2, <2>3, TwoEvents, LogMoves DEF OnlyRow
<1>6. ASSUME NEW s \in Submission, NEW to \in {"expired", "cancelled", "failed"},
             CloseQueued(s, to)
      PROVE  LogMatchesState'
  <2>1. OnlyRow(s, to)
    BY <1>6, CloseEffect
  <2>2. AppendEvents(s, <<Ev("submission.state_changed", to)>>)
    BY <1>6 DEF CloseQueued
  <2>3. /\ "submission.state_changed" \in EventType
        /\ "submission.state_changed" \in StateEvents
        /\ to \in SubmissionState
    BY DEF EventType, StateEvents, SubmissionState, Terminal, Outcome, Confirmed
  <2>4. QED
    BY <2>1, <2>2, <2>3, OneEvent, LogMoves DEF OnlyRow
<1>7. ASSUME NEW s \in Submission, Annotates(s)
      PROVE  LogMatchesState'
  <2>1. OnlyRow(s, subs[s].state)
    BY <1>7, AnnotateEffect
  <2>2. PICK type \in {"queue.blocked", "cancellation.requested",
                       "submission.scheduling_changed"} :
          AppendEvents(s, <<Ev(type, "-")>>)
    BY <1>7 DEF Annotates, SetBlocker, CancelRunning, PatchScheduling
  <2>3. type \in EventType /\ type \notin StateEvents
    BY DEF EventType, StateEvents
  <2>4. QED
    BY <2>1, <2>2, <2>3, OneEvent, LogMoves DEF OnlyRow
<1>8. CASE Transaction
  BY <1>8, <1>2, <1>3, <1>4, <1>5, <1>6, <1>7 DEF Transaction
<1>9. QED
  BY <1>1, <1>8

LEMMA LogInitial == StoreInit => LogMatchesState
<1> SUFFICES ASSUME StoreInit, NEW s \in Submission, History, Exists(s)
             PROVE  Announces(log[s], subs[s].state)
  BY DEF LogMatchesState, Announces
<1>1. s \in Legacy
  BY InitialRows DEF Exists, NoRow
<1>2. subs[s].state = "queued"
  BY InitialStates DEF Exists
<1>3. log[s] = <<Ev("submission.created", "queued")>>
  BY <1>1 DEF StoreInit
<1>4. QED
  BY <1>2, <1>3, OneEvent DEF EventType, StateEvents, SubmissionState

LEMMA TransactionsTell == Transactions => []LogMatchesState
<1>1. StoreInit => LogMatchesState
  BY LogInitial
<1>2. StoreTypeOK /\ LogMatchesState /\ [Transaction]_storeVars => LogMatchesState'
  BY LogStep
<1>3. QED
  BY <1>1, <1>2, TransactionsTyped, PTL DEF Transactions

(* The event log never lies about the state of a submission, however long it
   is: append_event_tx runs in the transaction that changes the row. *)
THEOREM LogTells == StoreSpec => []LogMatchesState
BY StoreTransacts, TransactionsTell, PTL

-----------------------------------------------------------------------------
(* A submission that was never accepted has no row: no transaction deletes
   one. *)
AbsentIsNoRow == \A s \in Submission : ~Exists(s) => subs[s] = NoRow

LEMMA RevisionStep ==
  ASSUME StoreTypeOK, AbsentIsNoRow, [Transaction]_storeVars
  PROVE  /\ AbsentIsNoRow'
         /\ \A s \in Submission : History /\ subs'[s] # subs[s]
              => subs'[s].revision = subs[s].revision + 1
<1> DEFINE Counts ==
      \A t \in Submission : History /\ subs'[t] # subs[t]
        => subs'[t].revision = subs[t].revision + 1
<1>1. CASE subs' = subs
  BY <1>1 DEF AbsentIsNoRow, Exists
<1>2. ASSUME NEW s \in Submission,
             \A t \in Submission : t # s => subs'[t] = subs[t],
             subs'[s].state # "absent",
             History => subs'[s].revision = subs[s].revision + 1
      PROVE  AbsentIsNoRow' /\ Counts
  BY <1>2 DEF AbsentIsNoRow, Exists
<1>3. ASSUME NEW s \in Submission, NEW r \in Request, NEW time \in Nat,
             Accept(s, r, time)
      PROVE  AbsentIsNoRow' /\ Counts
  <2>1. subs[s].revision = 0
    BY <1>3 DEF Accept, AbsentIsNoRow, NoRow
  <2>2. subs'[s].revision = 1
    BY <1>3 DEF Accept, StoreTypeOK, NewRow
  <2>3. /\ \A t \in Submission : t # s => subs'[t] = subs[t]
        /\ subs'[s].state = "queued"
    BY <1>3, AcceptEffect
  <2>4. QED
    BY <1>2, <2>1, <2>2, <2>3
<1>4. ASSUME NEW s \in Submission, NEW to, OnlyRow(s, to), to # "absent",
             subs'[s].revision = Bump(subs[s].revision)
      PROVE  AbsentIsNoRow' /\ Counts
  BY <1>2, <1>4 DEF OnlyRow, Bump
<1>5. ASSUME NEW s \in Submission, NEW a \in Attempt, NEW src \in Source,
             Claim(s, a, src)
      PROVE  AbsentIsNoRow' /\ Counts
  <2>1. subs'[s].revision = Bump(subs[s].revision)
    BY <1>5 DEF Claim, StoreTypeOK, Row
  <2>2. QED
    BY <1>4, <1>5, <2>1, ClaimEffect
<1>6. ASSUME NEW s \in Submission, NEW a \in Attempt, NEW outcome \in Outcome,
             Finish(s, a, outcome)
      PROVE  AbsentIsNoRow' /\ Counts
  <2>1. subs'[s].revision = Bump(subs[s].revision)
    BY <1>6 DEF Finish, StoreTypeOK, Row
  <2>2. QED
    BY <1>4, <1>6, <2>1, FinishEffect DEF Outcome, Confirmed
<1>7. ASSUME NEW s \in Submission, NEW to \in {"expired", "cancelled", "failed"},
             CloseQueued(s, to)
      PROVE  AbsentIsNoRow' /\ Counts
  <2>1. subs'[s].revision = Bump(subs[s].revision)
    BY <1>7 DEF CloseQueued, StoreTypeOK, Row
  <2>2. QED
    BY <1>4, <1>7, <2>1, CloseEffect
<1>8. ASSUME NEW s \in Submission, Annotates(s)
      PROVE  AbsentIsNoRow' /\ Counts
  <2>1. subs'[s].revision = Bump(subs[s].revision)
    <3> USE DEF StoreTypeOK, Row
    <3>1. CASE \E code \in Blocker : SetBlocker(s, code)
      BY <3>1 DEF SetBlocker
    <3>2. CASE CancelRunning(s)
      BY <3>2 DEF CancelRunning
    <3>3. CASE \E p \in Patch : PatchScheduling(s, subs[s].revision, p)
      BY <3>3 DEF PatchScheduling
    <3>4. QED
      BY <1>8, <3>1, <3>2, <3>3 DEF Annotates
  <2>2. QED
    BY <1>4, <1>8, <2>1, AnnotateEffect
<1>9. ASSUME NEW s \in Submission, NEW a \in Attempt,
             MarkAttemptRunning(s, a) \/ AppendAgentEvent(s, a)
      PROVE  subs' = subs
  BY <1>9 DEF MarkAttemptRunning, AppendAgentEvent
<1>10. CASE Transaction
  <2> HIDE DEF Counts
  <2>1. PICK s \in Submission :
          \/ \E r \in Request, time \in Nat : Accept(s, r, time)
          \/ \E a \in Attempt, src \in Source : Claim(s, a, src)
          \/ \E a \in Attempt : MarkAttemptRunning(s, a) \/ AppendAgentEvent(s, a)
          \/ \E a \in Attempt, outcome \in Outcome : Finish(s, a, outcome)
          \/ \E to \in {"expired", "cancelled", "failed"} : CloseQueued(s, to)
          \/ Annotates(s)
    BY <1>10 DEF Transaction
  <2>2. subs' = subs \/ (AbsentIsNoRow' /\ Counts)
    BY <2>1, <1>3, <1>5, <1>6, <1>7, <1>8, <1>9
  <2>3. QED
    BY <1>1, <2>2 DEF Counts
<1>11. QED
  BY <1>1, <1>10 DEF storeVars

LEMMA TransactionsCount == Transactions => RevisionCountsChanges
<1> DEFINE Counts ==
      \A s \in Submission : History /\ subs'[s] # subs[s]
        => subs'[s].revision = subs[s].revision + 1
<1>1. StoreInit => AbsentIsNoRow
  <2> SUFFICES ASSUME StoreInit, NEW s \in Submission, subs[s].state = "absent"
               PROVE  subs[s] = NoRow
    BY DEF AbsentIsNoRow, Exists
  <2>1. CASE s \in Legacy
    <3>1. PICK old \in [Legacy -> Request] :
            subs = [t \in Submission |->
                     IF t \in Legacy
                     THEN [NewRow(old[t], 0) EXCEPT !.frozen = FALSE]
                     ELSE NoRow]
      BY DEF StoreInit
    <3>2. subs[s] = [NewRow(old[s], 0) EXCEPT !.frozen = FALSE]
      BY <2>1, <3>1
    <3>3. ASSUME NEW r PROVE [NewRow(r, 0) EXCEPT !.frozen = FALSE].state = "queued"
      BY DEF NewRow
    <3>4. QED
      BY <3>2, <3>3
  <2>2. QED
    BY <2>1, InitialRows
<1>2. StoreTypeOK /\ AbsentIsNoRow /\ [Transaction]_storeVars
        => AbsentIsNoRow' /\ [Counts]_storeVars
  BY RevisionStep
<1>3. QED
  BY <1>1, <1>2, TransactionsTyped, PTL DEF Transactions, RevisionCountsChanges

(* The revision an If-Match header carries names one version of the row: no
   transaction changes a row without moving its revision by one. *)
THEOREM RevisionsCount == StoreSpec => RevisionCountsChanges
BY StoreTransacts, TransactionsCount, PTL
=============================================================================
