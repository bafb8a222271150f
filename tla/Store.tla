------------------------------- MODULE Store -------------------------------
(***************************************************************************)
(* The authoritative SQLite store of the daemon                            *)
(* (crates/service/src/store.rs).  The pool holds one connection, so every *)
(* transaction runs alone: a transaction is one action.  A transaction     *)
(* that finds its precondition false, or that fails, is rolled back and    *)
(* changes nothing; it is a stuttering step here, and the modules that     *)
(* call it model what the caller does with the error.                      *)
(*                                                                         *)
(*   subs[s]  the row of table submissions ("absent": no such row)         *)
(*   atts[a]  the row of table attempts                                    *)
(*   log[s]   the rows of table events of s, in sequence order; the        *)
(*            column latest_event_sequence is Len(log[s])                  *)
(*                                                                         *)
(* Definitions named ...Bug are seeded faults for the sensitivity runs;    *)
(* nothing else uses them.                                                 *)
(***************************************************************************)
EXTENDS Naturals, Sequences

CONSTANTS
  Submission,   \* identities of submission rows (ULIDs)
  Attempt,      \* identities of attempt rows (ULIDs)
  Source,       \* capacity sources
  Request,      \* validated requests a client may submit
  Patch,        \* scheduling patches a client may send
  Blocker,      \* blocker codes the scheduler writes
  Legacy,       \* queued rows written before migration 0002: no frozen config
  None,         \* SQL NULL
  Keep,         \* a patch field the client left out
  MaxRevision,  \* bound: no blocker change or patch beyond this revision
  MaxLog,       \* bound: no agent event beyond this many events
  History       \* FALSE in instances that ask nothing of revisions and events

ASSUME NoneAssumption == /\ None \notin Nat /\ None \notin Request
                         /\ None \notin Submission /\ None \notin Source
                         /\ None \notin Blocker
                         /\ Keep \notin Nat /\ Keep # None

(* start_deadline <= not_before is refused when both are set. *)
WindowOK(nb, dl) == nb # None /\ dl # None => nb < dl

(* validate_request: what the API lets through to the store. *)
Validated(r) ==
  /\ r.writable \in BOOLEAN
  /\ r.priority \in Nat
  /\ r.not_before \in Nat \cup {None}
  /\ r.start_deadline \in Nat \cup {None}
  /\ WindowOK(r.not_before, r.start_deadline)

ASSUME RequestAssumption == \A r \in Request : Validated(r)

ASSUME PatchAssumption ==
  \A p \in Patch : /\ p.priority \in Nat \cup {Keep}
                   /\ p.not_before \in Nat \cup {None, Keep}
                   /\ p.start_deadline \in Nat \cup {None, Keep}

ASSUME BoundAssumption ==
  MaxRevision \in Nat /\ MaxLog \in Nat /\ History \in BOOLEAN

ASSUME LegacyAssumption == Legacy \subseteq Submission

VARIABLES subs, atts, log

storeVars == <<subs, atts, log>>

-----------------------------------------------------------------------------
(* Column domains. *)

Confirmed == {"completed", "failed", "cancelled"}

Outcome == Confirmed \cup {"uncertain"}

Terminal == Outcome \cup {"expired"}

SubmissionState == {"queued", "running"} \cup Terminal

ActiveAttempt == {"starting", "running"}

AttemptState == ActiveAttempt \cup Outcome

Row == [state : SubmissionState \cup {"absent"},
        revision : Nat,
        request : Request \cup {None},
        priority : Nat,
        created : Nat,
        not_before : Nat \cup {None},
        start_deadline : Nat \cup {None},
        blocker : Blocker \cup {None},
        cancel_requested : BOOLEAN,
        frozen : BOOLEAN]

AttemptRow == [state : AttemptState \cup {"absent"},
               submission : Submission \cup {None},
               source : Source \cup {None},
               capacity_held : BOOLEAN]

EventType == {"submission.created", "submission.state_changed",
              "submission.scheduling_changed", "queue.blocked",
              "cancellation.requested", "attempt.created",
              "attempt.state_changed", "agent"}

Event == [type : EventType, to : SubmissionState \cup AttemptState \cup {"-"}]

Ev(type, to) == [type |-> type, to |-> to]

NoRow == [state |-> "absent", revision |-> 0, request |-> None,
          priority |-> 0, created |-> 0, not_before |-> None, start_deadline |-> None,
          blocker |-> None, cancel_requested |-> FALSE, frozen |-> FALSE]

NoAttempt == [state |-> "absent", submission |-> None, source |-> None,
              capacity_held |-> FALSE]

NewRow(r, time) ==
  [state |-> "queued", revision |-> 1, request |-> r,
   priority |-> r.priority, created |-> time, not_before |-> r.not_before,
   start_deadline |-> r.start_deadline, blocker |-> None, cancel_requested |-> FALSE, frozen |-> TRUE]

(***************************************************************************)
(* A fresh database, or one migrated from 0001 that still holds queued     *)
(* rows whose execution snapshot columns are NULL.                         *)
(***************************************************************************)
StoreInit ==
  /\ \E old \in [Legacy -> Request] :
       /\ \A s, t \in Legacy : old[s].key = old[t].key => s = t
       /\ subs = [s \in Submission |->
                   IF s \in Legacy
                   THEN [NewRow(old[s], 0) EXCEPT !.frozen = FALSE]
                   ELSE NoRow]
  /\ atts = [a \in Attempt |-> NoAttempt]
  /\ log = [s \in Submission |->
              IF History /\ s \in Legacy THEN <<Ev("submission.created", "queued")>>
              ELSE << >>]

-----------------------------------------------------------------------------
(* Reads. *)

Exists(s) == subs[s].state # "absent"

Queued(s) == subs[s].state = "queued"

(* SQL state.terminal(). *)
IsTerminal(s) == subs[s].state \in Terminal

(* Fault: only the rows still in the queue are searched for the key. *)
KeyTakenBug(r) == \E t \in Submission : Queued(t) /\ subs[t].request.key = r.key

(* Some row already owns the idempotency key of r. *)
KeyTaken(r) == \E t \in Submission : Exists(t) /\ subs[t].request.key = r.key

(* active_for_source counts exactly these rows. *)
Held(src) == {a \in Attempt : atts[a].capacity_held /\ atts[a].source = src}

(* Fault: executions in doubt are left out. *)
HeldBug(src) ==
  {a \in Attempt : atts[a].state \in ActiveAttempt /\ atts[a].source = src}

ActiveOf(s) == {a \in Attempt : /\ atts[a].submission = s
                                /\ atts[a].state \in ActiveAttempt}

OccupiesWorkspace(t) == subs[t].state \in {"running", "uncertain"}

(* Two submissions of one canonical workspace, at least one of them writing. *)
Conflict(s, t) ==
  /\ s # t
  /\ subs[s].request.workspace # None
  /\ subs[s].request.workspace = subs[t].request.workspace
  /\ subs[s].request.writable \/ subs[t].request.writable

(* Fault: only the claimant's own access mode is looked at. *)
WorkspaceBusyBug(s) ==
  \E t \in Submission :
    OccupiesWorkspace(t) /\ Conflict(s, t) /\ subs[s].request.writable

WorkspaceBusy(s) ==
  \E t \in Submission : OccupiesWorkspace(t) /\ Conflict(s, t)

(* Fault: a field the client left out overwrites the column. *)
MergeBug(new, old) == new

(* patch.field.unwrap_or(current) *)
Merge(new, old) == IF new = Keep THEN old ELSE new

(* Fault: the fields of the patch are compared, not the resulting row. *)
PatchWindowBug(s, p) ==
  Keep \notin {p.not_before, p.start_deadline} => WindowOK(p.not_before, p.start_deadline)

(* The window the row would have after patch p. *)
PatchWindow(s, p) == WindowOK(Merge(p.not_before, subs[s].not_before),
                              Merge(p.start_deadline, subs[s].start_deadline))

-----------------------------------------------------------------------------
(* revision = revision + 1 *)
Bump(n) == IF History THEN n + 1 ELSE n

(* append_event_tx: the events are inserted by the same transaction. *)
AppendEvents(s, evs) ==
  log' = IF History THEN [log EXCEPT ![s] = @ \o evs] ELSE log

(* accept, when no row owns the idempotency key. *)
Accept(s, r, time) ==
  /\ ~Exists(s)
  /\ ~KeyTaken(r)
  /\ subs' = [subs EXCEPT ![s] = NewRow(r, time)]
  /\ AppendEvents(s, <<Ev("submission.created", "queued")>>)
  /\ UNCHANGED atts

(* Fault: the claim does not look at the state again inside its transaction. *)
ClaimGuardBug(s) == Exists(s) /\ ~WorkspaceBusy(s)

ClaimGuard(s) == Queued(s) /\ ~WorkspaceBusy(s)

Claim(s, a, src) ==
  /\ ClaimGuard(s)
  /\ atts[a].state = "absent"
  /\ atts' = [atts EXCEPT ![a] = [state |-> "starting", submission |-> s,
                                  source |-> src, capacity_held |-> TRUE]]
  /\ subs' = [subs EXCEPT ![s].state = "running", ![s].blocker = None,
                          ![s].revision = Bump(@)]
  /\ AppendEvents(s, <<Ev("attempt.created", "starting"),
                       Ev("submission.state_changed", "running")>>)

MarkAttemptRunning(s, a) ==
  /\ atts[a].submission = s /\ atts[a].state = "starting"
  /\ atts' = [atts EXCEPT ![a].state = "running"]
  /\ AppendEvents(s, <<Ev("attempt.state_changed", "running")>>)
  /\ UNCHANGED subs

(* append_agent_event: neither row's state is looked at. *)
AppendAgentEvent(s, a) ==
  /\ atts[a].submission = s
  /\ AppendEvents(s, <<Ev("agent", "-")>>)
  /\ UNCHANGED <<subs, atts>>

(* Fault: an unconfirmed stop frees the source. *)
KeepsCapacityBug(outcome) == FALSE

KeepsCapacity(outcome) == outcome = "uncertain"

CanFinish(s, a) == subs[s].state = "running" /\ a \in ActiveOf(s)

Finish(s, a, outcome) ==
  /\ CanFinish(s, a)
  /\ subs' = [subs EXCEPT ![s].state = outcome, ![s].revision = Bump(@)]
  /\ atts' = [atts EXCEPT ![a].state = outcome,
                          ![a].capacity_held = KeepsCapacity(outcome)]
  /\ AppendEvents(s, <<Ev("attempt.state_changed", outcome),
                       Ev("submission.state_changed", outcome)>>)

SetBlocker(s, code) ==
  /\ Queued(s)
  /\ subs[s].blocker # code
  /\ subs' = [subs EXCEPT ![s].blocker = code, ![s].revision = Bump(@)]
  /\ AppendEvents(s, <<Ev("queue.blocked", "-")>>)
  /\ UNCHANGED atts

(* Fault: every way out of the queue is announced as a cancellation. *)
CloseQueuedBug(s, to) ==
  /\ Queued(s)
  /\ subs' = [subs EXCEPT ![s].state = to, ![s].revision = Bump(@)]
  /\ AppendEvents(s, <<Ev("submission.state_changed", "cancelled")>>)
  /\ UNCHANGED atts

(* finish_queued and the queued branch of cancel: the blocker stays. *)
CloseQueued(s, to) ==
  /\ Queued(s)
  /\ subs' = [subs EXCEPT ![s].state = to, ![s].revision = Bump(@)]
  /\ AppendEvents(s, <<Ev("submission.state_changed", to)>>)
  /\ UNCHANGED atts

Expire(s) == CloseQueued(s, "expired")

CancelQueued(s) == CloseQueued(s, "cancelled")

(* Fault: the cancellation intent is stored without a new revision. *)
CancelRunningBug(s) ==
  /\ subs[s].state = "running" /\ ~subs[s].cancel_requested
  /\ subs' = [subs EXCEPT ![s].cancel_requested = TRUE]
  /\ AppendEvents(s, <<Ev("cancellation.requested", "-")>>)
  /\ UNCHANGED atts

(* Fault: the cancellation ends the submission under its attempt. *)
CancelAtOnceBug(s) ==
  /\ subs[s].state = "running"
  /\ subs' = [subs EXCEPT ![s].state = "cancelled", ![s].revision = Bump(@)]
  /\ AppendEvents(s, <<Ev("submission.state_changed", "cancelled")>>)
  /\ UNCHANGED atts

CancelRunning(s) ==
  /\ subs[s].state = "running" /\ ~subs[s].cancel_requested
  /\ subs' = [subs EXCEPT ![s].cancel_requested = TRUE, ![s].revision = Bump(@)]
  /\ AppendEvents(s, <<Ev("cancellation.requested", "-")>>)
  /\ UNCHANGED atts

PatchScheduling(s, expected, p) ==
  /\ Queued(s)
  /\ subs[s].revision = expected
  /\ {p.priority, p.not_before, p.start_deadline} # {Keep}
  /\ PatchWindow(s, p)
  /\ subs' = [subs EXCEPT ![s].priority = Merge(p.priority, @),
                          ![s].not_before = Merge(p.not_before, @),
                          ![s].start_deadline = Merge(p.start_deadline, @),
                          ![s].revision = Bump(@)]
  /\ AppendEvents(s, <<Ev("submission.scheduling_changed", "-")>>)
  /\ UNCHANGED atts

(* Fault: every queued row is rejected at start-up. *)
RejectUnfrozenBug(s) == CloseQueued(s, "failed")

(* One row of reject_unfrozen_queued. *)
RejectUnfrozen(s) == ~subs[s].frozen /\ CloseQueued(s, "failed")

-----------------------------------------------------------------------------
(***************************************************************************)
(* The store under the most general caller: any transaction at any time.  *)
(***************************************************************************)
StoreNext ==
  \E s \in Submission :
    \/ \E r \in Request : Accept(s, r, 0)
    \/ \E a \in Attempt, src \in Source : Claim(s, a, src)
    \/ \E a \in Attempt : MarkAttemptRunning(s, a)
    \/ \E a \in Attempt : Len(log[s]) < MaxLog /\ AppendAgentEvent(s, a)
    \/ \E a \in Attempt, outcome \in Outcome : Finish(s, a, outcome)
    \/ \E code \in Blocker : /\ subs[s].revision < MaxRevision
                             /\ SetBlocker(s, code)
    \/ Expire(s)
    \/ CancelQueued(s)
    \/ CancelRunning(s)
    \/ \E p \in Patch : /\ subs[s].revision < MaxRevision
                       /\ PatchScheduling(s, subs[s].revision, p)
    \/ RejectUnfrozen(s)

StoreSpec == StoreInit /\ [][StoreNext]_storeVars

-----------------------------------------------------------------------------
(* Properties. *)

(* Every column holds a value of its domain. *)
StoreTypeOK ==
  /\ subs \in [Submission -> Row]
  /\ atts \in [Attempt -> AttemptRow]
  /\ log \in [Submission -> Seq(Event)]

(***************************************************************************)
(* finish reports "active submission does not own the expected active      *)
(* attempt" as an internal error.  It never arises from the store's own    *)
(* transactions: a submission runs exactly when one of its attempts is     *)
(* active, it has at most one attempt, an attempt that ended gave its      *)
(* outcome to the submission, and a lease is held exactly while the        *)
(* execution is active or its end is unproven.                             *)
(***************************************************************************)
AttemptOwnership ==
  \A a \in Attempt :
    IF atts[a].state = "absent" THEN atts[a] = NoAttempt
    ELSE /\ atts[a].submission \in Submission
         /\ subs[atts[a].submission].state =
              IF atts[a].state \in ActiveAttempt THEN "running"
              ELSE atts[a].state
         /\ atts[a].capacity_held <=> atts[a].state \notin Confirmed

OneAttemptEach ==
  \A a, b \in Attempt :
    atts[a].submission = atts[b].submission /\ atts[a].submission # None
      => a = b

RunningIsOwned ==
  \A s \in Submission : subs[s].state = "running" => ActiveOf(s) # {}

(* An uncertain execution still owns its attempt, hence its lease. *)
UncertainIsHeld ==
  \A s \in Submission : subs[s].state = "uncertain" =>
     \E a \in Attempt : atts[a].submission = s /\ atts[a].state = "uncertain"

AttemptInv ==
  AttemptOwnership /\ OneAttemptEach /\ RunningIsOwned /\ UncertainIsHeld

(***************************************************************************)
(* Two submissions of the same canonical workspace, one of them writable,  *)
(* are never both running or in doubt: claim re-checks inside its          *)
(* transaction, and an uncertain execution keeps its workspace.            *)
(***************************************************************************)
WorkspaceExclusive ==
  \A s, t \in Submission :
    OccupiesWorkspace(s) /\ OccupiesWorkspace(t) => ~Conflict(s, t)

(* One row per idempotency key, whatever order the submissions arrive in. *)
KeyUnique ==
  \A s, t \in Submission :
    Exists(s) /\ Exists(t) /\ subs[s].request.key = subs[t].request.key
      => s = t

(***************************************************************************)
(* The log tells the truth: the last state event of a submission, on which *)
(* SSE clients rely, carries the state of its row.                         *)
(***************************************************************************)
StateEvents == {"submission.created", "submission.state_changed"}

LogMatchesState ==
  \A s \in Submission : History /\ Exists(s) =>
    \E i \in 1..Len(log[s]) :
      /\ log[s][i].type \in StateEvents
      /\ log[s][i].to = subs[s].state
      /\ \A j \in (i+1)..Len(log[s]) : log[s][j].type \notin StateEvents

(* A row accepted with, or patched to, both times keeps a non-empty window. *)
WindowNonEmpty ==
  \A s \in Submission : WindowOK(subs[s].not_before, subs[s].start_deadline)

(***************************************************************************)
(* A terminal row never changes again: no late cancel, patch, blocker,     *)
(* expiry or second outcome touches it, and its attempt keeps its outcome  *)
(* and its lease.                                                          *)
(***************************************************************************)
TerminalIsFinal ==
  [][\A s \in Submission : IsTerminal(s) =>
        /\ subs'[s] = subs[s]
        /\ \A a \in Attempt : atts[a].submission = s => atts'[a] = atts[a]]_storeVars

(***************************************************************************)
(* Every change of a submission's row moves its revision by exactly one,   *)
(* so an If-Match revision that still matches proves that this row is the  *)
(* one the client saw.  (Its attempts and event counter move without it.)  *)
(***************************************************************************)
RevisionCountsChanges ==
  [][\A s \in Submission :
        History /\ subs'[s] # subs[s]
          => subs'[s].revision = subs[s].revision + 1]_storeVars

-----------------------------------------------------------------------------
(***************************************************************************)
(* The store implements the documented lifecycle: the state column is the  *)
(* phase, and a submission holds a slot while one of its attempts has      *)
(* capacity_held set.                                                      *)
(***************************************************************************)
Phase == [s \in Submission |-> subs[s].state]

Leased == {s \in Submission :
             \E a \in Attempt : atts[a].submission = s /\ atts[a].capacity_held}

L == INSTANCE Lifecycle WITH Predating <- Legacy, phase <- Phase, leased <- Leased

ImplementsLifecycle == L!Spec
=============================================================================
