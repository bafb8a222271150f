# A TLA+ verification of thieving-eyes

thieving-eyes is a local execution service for coding Agents. A daemon
(`thieving-eyesd`) accepts submissions over a Unix socket, keeps them in SQLite,
and starts each one, when a capacity source has a free slot, as a sandboxed
process tree that drives an Agent. This directory holds TLA+ models of that
system, the TLC configurations that check them on small instances, and proofs
checked by TLAPS. `PROJECT.json` maps every definition to the lines it models.

## 1. The system

| component | state | operations | talks to |
|---|---|---|---|
| Store (`service/src/store.rs`) | tables `submissions`, `attempts`, `events`; a broadcast channel of 1024 events | accept, claim, mark_attempt_running, append_agent_event, finish, set_blocker, expire, cancel, patch_scheduling, recover_running_as_uncertain, reject_unfrozen_queued | everybody; one connection, so transactions are serial |
| Scheduler (`scheduler.rs`) | the snapshot of the current pass | start-up recovery; per pass: refresh capacity, read the queue, then per row expire / block / claim / register / spawn; shutdown | store, capacity manager, cancellation registry |
| Attempt tasks (`scheduler.rs`, `run_attempt`) | one task per running attempt | translate runner events into transactions, one `finish` | store, runner |
| Capacity manager (`capacity.rs`) | last observation per source, in memory | initialize, refresh_due (probe commands), available | scheduler, external probe |
| API handlers (`api.rs`) | none of their own | create, patch, cancel, events (SSE), reads | store, registry, scheduler (notify) |
| Process (`lib.rs`) | socket, lock file, shutdown flag | start, SIGINT, exit when the scheduler ends | service manager |
| Runner (`crates/runner`) | three processes, four pipes | execute (daemon side), supervisor, worker | attempt task, runtime |
| Runtime (`crates/runtime-sandbox-agent`) | one Agent session | prepare, prompt, cancel, timeouts, close | worker, Sandbox Agent |
| TypeScript client (`sdk/typescript`) | the cursor of `watch()` | watch with reconnection, run() | API handlers |
| `eyes` (`bins/eyes`) | none | `eyes run`, `eyes init` | API handlers, runtime install |
| Configuration (`config.rs`) | read once by the daemon | validate, lookups | API handlers, scheduler |

What is hard here, and what would make each part correct:

* **Interleaving.** Scheduler, attempt tasks and handlers are Tokio tasks that
  interleave between any two awaits; the scheduler decides on a snapshot of the
  queue that clients keep changing. Claims must not oversubscribe a source or a
  workspace, a cancel must reach an attempt that is only just being created, and
  no race with a client may take a result away or end the scheduler.
* **Crash and restart.** A crash leaves `running` rows nobody drives. Recovery must
  settle all of them, as `uncertain`, never with an outcome nobody saw; an
  uncertain execution keeps its slot and its workspace.
* **Delivery.** Events are broadcast after the commit: they may be reordered,
  overwritten when a reader lags, or never sent. A watching client must still see
  each event once, in order, and must learn of the end.
* **Outcome of a run.** Cancellations, timeouts, process deaths and the Agent's
  answer race through three processes. A confirmed outcome frees the slot and the
  workspace, so nothing of the attempt may be alive by then.
* **Sessions.** The runtime talks HTTP and SSE to a server that may answer late or
  never, with some timers and some requests that have none. Its stop must not depend
  on the server.
* **Configuration.** A submission outlives the configuration it was accepted with:
  its routes, policy and profile are frozen, its binary and its root are not.
* **Start-up.** Two daemons may be started on one configuration; only one may own
  the socket and settle what is running.
* **Capacity.** The free amount is computed from samples that are late, and from
  leases counted before the slot is taken.

The complete list, with lines, is under `hazards` in `PROJECT.json`.

## 2. Modules

```
Lifecycle <- refinement -- Store <- EXTENDS -- Daemon -- INSTANCE -> Capacity
                             ^                 ^     ^                  ^
                        StoreProofs            |  MCDaemon   Admission -+
                                 ^             |  MCStore       ^
                               DaemonProofs ---+

Admission, Output, Routing, Startup <- MCParts <- PartsProofs
EventStream <- EXTENDS -- ClientRun <- StreamProofs
Runner <- refinement -- Session

OutputProofs extends Output, RoutingProofs Routing, RunnerProofs Runner,
SessionProofs Session, DaemonProofs both Daemon and StoreProofs.
```

* **Lifecycle** - the abstract specification: the documented transitions of a
  submission (`docs/submission-api.md` section 6) and the slot it holds from its
  start to its confirmed end. `Predating` names rows of the schema before migration
  0002, the only ones refused out of the queue; the document does not list that
  transition.
* **Store** - one action per transaction; `subs`, `atts`, `log` are the rows of the
  three tables. The pool has one connection (`max_connections(1)`), which is what
  makes a transaction one step. A transaction whose precondition fails rolls back:
  a stutter. `Validated` is what `validate_request` lets through, `Conflict` and
  `WorkspaceBusy` the workspace query of `claim`. `StoreNext` is the most general
  caller. `History = FALSE` freezes revisions and the log in instances that ask
  nothing of them. The initial state may hold queued pre-migration rows (`Legacy`).
* **Capacity** - `Accepts`/`Observe` are `run_probe` and what `refresh_due` makes of
  its answer, `Used`, `TooOld`, `Slots`, `Available` are `available`.
* **Admission** - composes Capacity with a source that others use as well: a
  monitoring system (external) samples the true usage now and then, the probe
  answers with the last sample, scheduler passes refresh and dispatch.
* **Daemon** - composes Store and Capacity with the scheduler (`pc`, `queue`,
  `pick`, `pending`), the attempt tasks (`task`), the cancellation registry
  (`registry`), the cancel handlers (`call`) and the process (`shutdown`, `faults`).
  `shutdown` outlives the process: it tells a service that was asked to stop
  (`Stopped`) from one that failed, until the next `Boot`.
  Every step is what happens between two awaits. A pass works on `queue`, the
  snapshot of not_before and start_deadline; an error of `expire` ends the scheduler
  (`pc = "failed"`). A cancel handler may be dropped between its commit and its
  signal. `select_dispatch` is one step although it counts the leases source by
  source: leases of a source only shrink meanwhile, and each release can be moved
  after the choice. What an attempt can report (`Reportable`) is what Runner can
  return: `OutcomeIsEarned` there says the same of `outcome`, with `begun` for `task = "live"`
  and `signals > 0` for a registry entry that is TRUE. Routes are sequences of sources here; Routing has the rest of them.
* **Routing** - what a submission may run as: `Valid` is `Config::validate`,
  `Acceptable`, `Usable`, `Profiles`, `Policies` are `validate_request` and its
  lookups, `Create` freezes what they find, `Reconfigure` restarts the daemon with
  another configuration, `Dispatch`, `Blocked` and `Launch` are `select_dispatch` and
  the head of `run_attempt`. Whether a source has a slot is left open here.
* **Startup** - daemon processes beside each other and concurrent `eyes init`: the
  lock file, the socket path, the scheduler task each process spawns before it binds,
  its recovery, and the runtime binary that is downloaded, verified and renamed.
* **EventStream** - one submission's events, the shared bounded channel, one SSE
  connection at a time and `watch()`. Channel entry 0 is an event of another
  submission. A handler may be dropped between its commit and its broadcast
  (`Droppable` says at which events).
* **ClientRun** - EventStream with the client that submits, asks for the status,
  watches and reads the result: `run()` of the TypeScript client, whose caller repeats
  it with its key and the last event seen when a request is lost, and `eyes run`, which
  opens one stream and takes its end for the end of the submission.
* **Runner** - one attempt below `run_attempt`: `exec`, `sup`, `wrk` are execute,
  supervisor and worker; `rt` is the runtime task; `ctl1, ctl2, out2, out1` the
  pipes. Any process may die at any time, the daemon as well; a killed supervisor
  takes its worker with it, later (`--die-with-parent`). Timeouts may fire at any time.
  `RtNext` says what the runtime may do, a panic (`RtPanics`) included: then its task
  has ended without a terminal event, and the worker exits with an error.
* **Session** - the detail of `RtNext`: the driver (`rt`, `why`, `reply`), its prompt
  task (`post`), its event stream task (`sse`, `last`, `rx`) and the Sandbox Agent
  server (`up`, `agent`, `log`, external), one action per message, answer or timer.
  A failed event stream reaches the driver in two ways, and the selects are unbiased
  between them: as a closed channel (`StreamLost`, `StopUnconfirmed`, `GraceEnds`),
  after which the driver reports and joins the task once, or as the result of the
  task's join handle, which `drive_prompt` awaits a second time and so panics before it
  reports (`StreamJoined`, finding 5).
  `R == INSTANCE Runner WITH ...` is the refinement mapping: phases of preparation
  are grouped, and the reported event is the first terminal one sent.
* **Output** - the text of the Agent on its way to the inline result: the runtime's
  capture, chunk by chunk with a limit that is four bytes larger, and the scheduler's
  cut at a character boundary. `text`, `sent` and `hole` are history variables, the
  reference the result is compared with.
* **MCStore** - the store with two callers, told apart by `caller`: anybody
  (`StoreNext`) and the daemon (`Next`). A behaviour keeps its caller.
* **MCParts** - Admission, Output, Routing and Startup in one instance; in a behaviour
  one of them moves (`part`), so the run is the union of the four state spaces.

Definitions named `...Bug` are seeded faults: each is a plausible slip of the
definition it follows, and `mutants` in `PROJECT.json` says which property notices
it. Nothing else uses them.

## 3. Runs

| run | asks | result |
|---|---|---|
| `store` | transactions in any order, and as the daemon calls them | all invariants, TerminalIsFinal, RevisionCountsChanges and the refinement of Lifecycle hold; the daemon appends nothing after a terminal event |
| `parts` | Admission: shared source, late samples | own executions never eat the reserve; a dispatch leaves the reserve free unless outside usage grew after the sample; the sample is at most 2 * max_age old |
| | Output: any text in any chunks | the inline result is the longest prefix of whole characters that fits, and is marked exactly if the Agent wrote more |
| | Routing: requests and restarts with other configurations | an attempt runs as its submission was allowed when accepted; what was validated is not missing later |
| | Startup: processes and installs beside each other | a serving daemon owns lock, socket and a verified binary; recovery spares runs of a living daemon |
| `daemon` | scheduler, tasks, handlers, one crash or SIGINT | CapacityRespected, RunningIsDriven, FinishAccepted, CancelReaches, UnwatchedIsUncertain hold |
| `daemon_live` | liveness across crashes and shutdowns | unless the service stays stopped, every run ends and every deadline is acted on; nothing startable is left behind |
| `events` | reordered, lost, overwritten broadcasts; lost connections and requests; restart | events are seen once and in order; no result is asked for too early; run() returns |
| `runner` | cancellations, timeouts, deaths, answers in any order | a confirmed outcome means all processes are gone, was earned after a start the daemon knows of, and is the first one reported; a cancellation is answered; what a dead daemon leaves behind ends |
| `session` | HTTP, SSE, permissions and timers below Runner | every step is one of Runner's runtime; values arrive once and in order; a decided stop ends without the server; every run ends if two requests are answered |
| `expire_race` | can a client end the scheduler? | **violated** - finding 1 |
| `patch_race` | is an accepted not_before honoured? | **violated** - finding 2 |
| `event_drop` | is the terminal event delivered if its handler is dropped? | **violated** - finding 3 |
| `reply_hangs` | does the run timeout bound a run? | **violated** - finding 4 |
| `post_lost` | does the POST response close a turn that is not mirrored? | **violated** - finding 5 |

### Findings

1. `scheduler.rs:72` propagates every error of `expire`. If a client cancels a
   submission whose deadline has passed between `queued()` and its visit, `expire`
   answers `NotQueued`, the scheduler returns, and `lib.rs` exits the daemon with
   its running attempts, which the next start declares uncertain. `claim` tolerates
   the same race.
2. `claim` re-checks the state of the row, not its scheduling: a PATCH accepted
   after the snapshot does not delay the start it was meant to delay.
3. The handler of a cancel commits, then broadcasts. If its client is gone by then,
   the handler's future is dropped and the terminal event is never sent; an SSE
   stream reads the store only on a gap or a lag, and after the terminal event there
   is neither. For every other event the next broadcast repairs the gap, as the
   run `events` shows.
4. The answer to a permission reply is awaited inside an arm of the driver's
   `select!`, without a timer: while the server keeps it, neither the run timeout nor
   a cancellation is looked at.
5. `wait_for_prompt_response` (`lib.rs:738` of the runtime) and the select of
   `drive_prompt` (509) may take the result of the event stream task from its join
   handle; `drive_prompt` awaits the same handle again at 556, and a Tokio join handle
   panics when it is polled after completion. The completion of line 557 is never
   sent. With the response of the POST already received the run is lost all the same,
   where `docs/sandbox-agent-runtime.md:126` has that response close the turn. No wrong
   outcome follows: the worker exits with an error, and the run is uncertain.

Observations that contradict no document or are no behaviour of the models:

* pre-migration rows go from `queued` to `failed`; a row that leaves the queue keeps
  its last blocker;
* a cancellation that arrives after the runtime has ended turns a completed run into
  an uncertain one (`WrkControl`, `SupControl`);
* after the daemon's death a supervisor polls its closed control pipe without rest
  while its worker goes on, until the runtime's own timers end it (`LeftBehindEnds`);
* freshness of a sample counts from the receipt of the answer, and `run_probe` accepts
  samples already max_age old: the bound that holds is twice max_age
  (`SampleAgeBounded`); with `total_in_use` probes `available` takes
  `max(active, observed)`, the documented formula, which lets executions started after
  a sample hide behind the usage it already counted;
* the query of the installed agents has no timer of its own, so `RunEnds` needs an
  answer to it (`ServerAnswers`), whereas `docs/submission-api.md:312` counts the run
  timeout from the start of the attempt; a question of the Agent ends the session
  without `session/cancel` (`TakeQuestion`; compare
  `docs/sandbox-agent-runtime.md:98`);
* the scheduler is spawned before the socket is bound. When `run()` returns with an
  error the lock is released while the scheduler task of that process may still
  recover, until its runtime is dropped; `RecoverySparesTheLiving` speaks of processes
  in charge and says so;
* a configuration that drops the binary of an adapter gives the attempt up as
  uncertain, and with it the lease is kept;
* `eyes run` neither reconnects nor chooses a new key, and asks for the result when its
  stream was cut: `ResultReady` allows the refusal there.

### Bounds

* `store`: two submissions (one pre-migration), two attempts, two sources, requests
  that share a workspace with and without write access and with a start window,
  patches of one field each. Two submissions suffice for every conflict, two
  attempts for a second claim after a terminal state. `MaxRevision` and `MaxLog`
  stop blocker changes, patches and agent events, which could go on for ever. The
  daemon among its callers has a static and a probed source and may crash or be told
  to stop once, at any step; while it starts it rejects the pre-migration row, which a
  client may be cancelling. Its `MaxLog` of six leaves room for an
  agent event after the end of an attempt (five events at least), so that
  `TerminalEventIsLast` depends on the state of the task. That property is a promise of
  the daemon only: the log of the other caller has a bound of four, and it appends no
  agent event that late.
* `daemon`: two submissions over two sources with one slot each; the
  second may read the workspace the first writes, or use none, so that workspace
  conflicts happen and so do pairs that capacity alone keeps apart; a clock of two
  values (before and after every window and deadline), one crash or SIGINT
  (`MaxFaults`). The crash can fall between any two steps, so every partial
  start-up, claim and launch is reached; the restarted process then runs to its end.
  `AgeCap` and `PriorityCap` stand for 50 and 100. The log is not kept, as all that is
  asked of it is asked by `store`: an agent's event changes nothing here.
* `daemon_live`: the writer and the reader only, one probed source, one pre-migration
  row, two faults (a shutdown may be cut short by a crash), no symmetry.
* `parts`, Admission: limit 3 and reserve 1 leave two slots, so a sample can be outrun;
  a clock up to 5 lets a sample pass max_age = 2 twice. Output: limit 5 and at most 6
  characters of one to four bytes, so that a character may straddle the limit of the
  result or that of the capture, and short characters may follow a dropped one.
  Routing: six configurations, three of them invalid, and six requests, the last one
  refused; two submissions that see different ones. Startup: three processes, so that a
  third starts after the second met the first; two installers; one attempt.
* `events`: four events, a channel of one entry, one foreign event, two lost
  connections, requests or crashes; events 1 and 2 may lose their broadcast. A channel
  of one entry lags as soon as two broadcasts are unread.
* `runner`: two cancellation signals; no new output while `MaxInFlight` events are
  on their way.
* `session`: at most two values of the Agent before its response (`MaxLog`), one broken
  connection (`MaxDrops`), and a channel of one entry in place of 256 (`Window`), so
  that the event stream task waits for the driver.

Only `daemon` and `daemon_live` check deadlock: a stopped service may be started again (`Boot`),
and otherwise the daemon never stops. Elsewhere the system may:
all submissions are terminal, the client has returned, an attempt has ended, a clock or
a text has reached its bound.

### Fairness

* `daemon_live`: weak fairness of the scheduler and of each attempt task (Tokio
  polls every ready task; the interval wakes the loop every second; a run ends
  because the runtime has a run timeout and `execute` a cancellation deadline; that the
  runtime ends needs `ServerAnswers`, see `session`).
  Strong fairness of `Stop`: `select!` polls its ready branches in random order, so
  a pending shutdown is eventually taken although the interval is ready again and
  again. Weak fairness of the restart after a failure only, `~shutdown /\ Boot`:
  `Restart=on-failure` (`docs/intranet-deployment.md:268`) starts a failed process
  again, and leaves a service alone that was told to stop, also when it dies while it
  drains; whether and when somebody starts that one is open. Therefore `RunsEnd` and
  `DeadlineActs` accept a service that is `Stopped`. A clean drain leaves no run
  behind, since `Drained` waits for the attempt tasks and a running row has one
  (`RunningIsDriven`); a queued deadline waits for the next start.
  `NotLeftBehind` needs no such exception: nothing can start while the process is
  down. Clients, crashes and signals owe nothing.
* `events`: ready tasks send and stream, the client sends its next request, reads and
  reconnects. Nobody has to commit; connections and requests need not be lost.
* `runner`: `execute` is fair; `LeftBehindEnds` needs in addition that the processes
  below a dead daemon go on, and says so as its hypothesis.
* `session`: the driver's own steps and timers; the panic is not fair. Strong fairness of `SeesCancel` and
  `Timeout`: the select is biased and polls them before the event stream, but a value
  or a permission can make a step of its own in between, again and again. The server
  is not fair; `RunEnds` names the two requests it must answer.

## 4. Proofs

Every invariant and every action property that a passing run checks is also a
theorem, for any sets, limits and bounds, from the assumptions the modules state. The
runs came first: TLC checked each inductive invariant on the instance of its run
before it was proved.

| module | theorem | statement |
|---|---|---|
| `StoreProofs` | `StoreTyped` | `StoreSpec => []StoreTypeOK` |
| | `AttemptsAgree` | `StoreSpec => []AttemptInv` |
| | `WorkspacesExclusive` | `StoreSpec => []WorkspaceExclusive` |
| | `KeysUnique` | `StoreSpec => []KeyUnique` |
| | `WindowsNonEmpty` | `StoreSpec => []WindowNonEmpty` |
| | `LogTells` | `StoreSpec => []LogMatchesState` |
| | `TerminalStays` | `StoreSpec => TerminalIsFinal` |
| | `RevisionsCount` | `StoreSpec => RevisionCountsChanges` |
| | `StoreRefinesLifecycle` | `StoreSpec => ImplementsLifecycle` |
| `DaemonProofs` | `DaemonTransacts` | `Spec => Transactions` |
| | `SlotsRespected` | `Spec => []CapacityRespected` |
| | `RunsAreDriven` | `Spec => []RunningIsDriven` |
| | `FinishesAccepted` | `Spec => []FinishAccepted` |
| | `CancelsReach` | `Spec => []CancelReaches` |
| | `UnwatchedStaysOpen` | `Spec => UnwatchedIsUncertain` |
| | `LogEnds` | `Spec => TerminalEventIsLast` |
| | `DaemonExcludes`, `DaemonKeysUnique`, `DaemonTerminalStays`, `DaemonLogTells`, `DaemonRefinesLifecycle` | the theorems of the store, of the daemon's `Spec` |
| `RunnerProofs` | `GoneWhenConfirmed` | `Spec => []ConfirmedMeansGone` |
| | `ReportedWhenConfirmed` | `Spec => []ConfirmedIsReported` |
| | `EarnedWhenConfirmed` | `Spec => []OutcomeIsEarned` |
| `SessionProofs` | `OnceInOrder` | `Spec => []ReceivedOnceInOrder` |
| | `DriverRefines` | `Spec => RuntimeSteps` |
| `StreamProofs` | `EventsContiguous` | `RunFairSpec => []SeenContiguous` |
| | `WireConsistent` | `RunFairSpec => []ConnectionConsistent` |
| | `ResultsReady` | `RunFairSpec => []ResultReady` |
| `RoutingProofs` | `BoundariesFrozen` | `Spec => []FrozenBoundary` |
| | `ValidationSuffices` | `Spec => []ValidatedIsEnough` |
| `OutputProofs` | `CaptureAgrees` | `OutputSpec => []OutputInv` |
| | `MarkIsTrue` | `OutputSpec => []TruncatedMeansLonger` |
| | `PrefixIsTrue` | `OutputSpec => []ResultIsPrefix` |
| `PartsProofs` | `OwnSpares` | `A!Spec => []OwnWithinLimit` |
| | `SamplesAreRecent` | `A!Spec => SampleAgeBounded` |
| | `ReserveIsLeft` | `A!Spec => DispatchLeavesReserve`, for probes of external usage |
| | `OneDaemonServes` | `S!Spec => []ServingOwns` |
| | `RecoverySpares` | `S!Spec => RecoverySparesTheLiving` |

**Store.** The proofs are about `Transactions`: from `StoreInit`, every step is one
transaction or leaves the store alone. `StoreTransacts` says that `StoreSpec` is such a
behaviour; the daemon is another one. Each transaction has a lemma that its effect is
typed and one that says what it does to the columns the invariants are about
(`ClaimEffect`, `FinishEffect`, `CloseEffect`, `AnnotateEffect`, ...); `StoreCases`
groups the transactions by effect, so each invariant needs one step per effect.
`AttemptInv` is inductive only as the conjunction of its four parts. That a running
submission owns an active attempt (`RunningIsOwned`) survives a `finish` only if the
finished attempt was its only one (`OneAttemptEach`), which survives a `claim` only
because a queued submission owns no attempt, which follows from `AttemptOwnership`
(an attempt's state fixes its submission's). `UncertainIsHeld` is what makes the
refinement's lease exact. `WorkspaceExclusive` and `KeyUnique` are inductive by
themselves: the check and the write are in one transaction. `TerminalStays` and
the refinement use `AttemptInv`: `finish` and `mark_attempt_running` touch an active
attempt, and no terminal submission owns one. The refinement also needs that only
pre-migration rows lack a frozen configuration (`UnfrozenIsLegacy`). `LogTells` rests
on what each transaction appends: the new state last, or events that are no state events
to a row that keeps its state. `RevisionsCount` needs that a submission that is not
there has no columns yet (`AbsentIsNoRow`), so that `accept` is not mistaken for a
change. Assumed: `None` and `Keep` are no values, requests are `Validated`, patches are
typed, pre-migration rows are submissions.

**Daemon.** Every step is one transaction or none (`DaemonTransacts`), so what the store
keeps, the daemon keeps over crashes and restarts as well. The rest is about the
memory of the process, and none of it is inductive by itself. `CapacityRespected` needs
`SlotReserved`: between the count of `select_dispatch` and the `claim` nobody takes a
slot, because only `claim` does (`Quiet` names everything else) and the scheduler is the
only one that claims; clients and tasks that interleave can only free slots. The count
of leases is the cardinality of a finite set, and a lease that a claim adds is one
attempt. `RunningIsDriven`, `FinishAccepted` and `CancelReaches` follow from `DriveInv`:
`TasksRun` (a task runs a running, registered submission), `LaunchReady` (a claimed one
waits for its task, registered before its intent is read again), `RecoveryPending` (what
recovery has not settled is exactly what runs) and `CancelKnown` (a handler past its
signal has told the task). `RunningIsDriven` is itself a conjunct: the steps that end a
task and those that pick the next row need it. Assumed beyond the store: sources are as
`Config::validate` leaves them, sets of submissions and attempts are finite, an answer
is one that `run_probe` can decode, the blocker codes the scheduler writes exist.

**Runner.** A confirmed outcome comes out of `execute` after the supervisor's exit
status, the supervisor exits with 0 after the worker's: `Nested`. That what is
confirmed is what was reported first needs a statement about each pipe on the way
(`EndsAgree`): in the runtime's queue the *first* terminal event is the reported one, as a
server that exits adds a second; in the pipes above there is only that one, since
the worker stops reading after it. `StartsTold` follows the start of the session along the same
pipes: as long as `execute` reads, a good end in any of them is preceded by the start, in the
same pipe, in one nearer to `execute` or in what `run_attempt` has been given. `CancelsAsked` follows a cancellation through the
five places it may be in, and `EndsEarned` ties the reported end to the phase of the
runtime. The pipes are unbounded in the proof.

**Session.** `Contiguous` says that the received values and those in the channel are
`1..last` and that a connection that counts never runs ahead of what it skipped; the
theorem is its first conjunct. The refinement goes action by action and uses
`DriverInv` (what has been sent in each phase, and that a decided stop has one
reason) and `ResponseLast` (the Agent's response ends its log), so that the end the
mapping reads off the log of sent events, the first terminal one, is the one Runner's
action reports. `StreamJoined` sends nothing and maps to `RtPanics`; the proofs of
Runner therefore hold for a runtime that may end without a terminal event.

**Stream.** `RunInv` joins the two properties of the connection with `Published`
(whatever is on its way to the channel, or in it, is durable) and with the fact that a
client that has seen the terminal event, or a terminal status, is followed by a
database that still has it (`done => committed = Final`).

**Routing.** The strengthening says that the rows a submission was stored with are
those its request resolves to in the configuration it was accepted with; `Launch` then
finds a run timeout of one of them. `ValidationSuffices` needs in addition that the
lookups of validated defaults succeed: the latest version of a name exists because rows
are finitely many (`GreatestVersion`), and the routes that fit a plain request are ranked
without a gap, so one of them is the first (`RankTaken`, a pigeonhole argument). Assumed: rows
are finitely many with natural versions, lists are sequences, a limit is a natural
number if there is one.

**Output.** Neither property is inductive: nobody counts the bytes the Agent wrote.
`OutputInv` adds that before anything is dropped the capture is the text, and that
once something is (`hole`) the capture is longer than `Max`. The latter is where the
four extra bytes of `MaxOutputBytes` are used: a character that did not fit is at most
four bytes wide.

**Admission.** `OwnWithinLimit` is inductive with the types: the free amount subtracts
the service's own executions, whatever the probe says. The other two need
`ObservedAsSampled`, what `run_probe` guarantees of an observation when it arrives: its
sample is at most max_age old and its count is that of the sample. `ReserveIsLeft` has
the hypothesis that the probes report external usage, as in the run; for `total_in_use`
the documented formula does not give it (section 3, observations).

**Startup.** Only the holder of the lock is in charge (`ChargeLocks`), so there is one
(`OneInCharge`), and nobody else unlinks or binds the socket. Recovery spares the living
because the process in charge is the only one, and has driven nothing before its recovery
(`RecoversFirst`). `PartsAreTheParts` says that behaviours of the run `parts` are
behaviours of `A!Spec` and `S!Spec`.

Induction with an operator as the hypothesis is beyond the provers, but least elements are not:
`WFMin` and `NatLessThanWellFounded` give a non-empty set of naturals a least one.
The first terminal event of a queue and the latest version of a row are found that way.

Only model-checked: liveness, which is outside the prover's reach - `RunsEnd`,
`DeadlineActs` and `NotLeftBehind` of Daemon, `RunReturns` of ClientRun, `CancelAnswered` and
`LeftBehindEnds` of Runner, `StopBounded` and `RunEnds` of Session. That Daemon's
`Reportable` and Runner's `OutcomeIsEarned` speak of the same thing is an argument of
section 2: no module composes the two.

## 5. Not modelled

* Request validation that only looks at shapes (input size, capabilities v0.1 does not
  offer, path canonicalization), and read-only handlers and the catalog, which format
  rows.
* (De)serialization, the generated schema, SSE byte parsing, the decoding of ACP
  messages and the choice among permission options: data no state depends on.
* Sandbox construction: bubblewrap arguments, mounts and environment, set up once
  before the worker starts. `--die-with-parent` is an assumption of Runner.
* Binary entry points, and the commands of `eyes` other than `run` and the runtime
  install of `init`: single requests, or files written once. `eyes init --force`
  replaces its configuration by two renames and may be interrupted between them.
* Result texts beyond their length, prompt and usage formatting.
* Storage faults, pre-migration rows that were running when the schema changed, and two
  configurations with different sockets that share a database (the lock is taken on the
  socket path).

## 6. Plan

Done: all modules of section 2, with every invariant and action property proved.

To prove next: that `Session` without its server implements `Runner`'s whole
specification, once the worker and the pipes around it are part of its state; the
composition of `Daemon`'s attempt task with `Runner`; for the liveness properties, the safety part of their arguments (which step
each wait is for, and that it stays enabled until taken).

To model next: storage faults in the scheduler and the attempt task; the window between
the release of the lock and the end of the scheduler task of a daemon that failed to
bind.
