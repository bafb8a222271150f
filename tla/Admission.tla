----------------------------- MODULE Admission -----------------------------
(***************************************************************************)
(* Admission against a shared source: in each pass the scheduler refreshes *)
(* the observations that are due and dispatches on what Capacity says is   *)
(* free, while consumers outside the service use the same source.  The     *)
(* probe reads a monitoring system (external) that samples the true usage  *)
(* now and then and answers with its last sample.                          *)
(***************************************************************************)
EXTENDS Capacity

CONSTANTS
  Kind,      \* [Source -> UsageKind]  what the probe of a source reports
  MaxTime,   \* bound on the clock
  MaxExt     \* bound on the external usage of a source

VARIABLES
  pass,      \* the scheduler is inside a pass
  own,       \* [Source -> Nat]  executions of the service: active_for_source
  ext,       \* [Source -> Nat]  true usage by others
  sample,    \* [Source -> [own, ext, at]]  last sample of the monitoring system
  seen       \* [Source -> Nat]  history: ext in the sample obs rests on

vars == <<obs, now, pass, own, ext, sample, seen>>

Init ==
  /\ now = 0
  /\ pass = FALSE
  /\ own = [src \in Source |-> 0]
  /\ ext \in [Source -> 0..MaxExt]
  /\ sample = [src \in Source |-> [own |-> 0, ext |-> ext[src], at |-> 0]]
  /\ obs = [src \in Source |->
              IF Monitor[src] = "static" THEN StaticObservation ELSE None]
  /\ seen = [src \in Source |-> 0]

(* What the probe command prints: the last sample, a refusal, or nothing. *)
Answer(src) ==
  {None,
   [health |-> "unavailable", kind |-> None, count |-> 0,
    sampled |-> sample[src].at],
   [health |-> "healthy", kind |-> Kind[src], sampled |-> sample[src].at,
    count |-> IF Kind[src] = "total_in_use"
              THEN sample[src].own + sample[src].ext ELSE sample[src].ext]}

(* The head of a scheduler pass. *)
Refresh ==
  /\ ~pass
  /\ pass' = TRUE
  /\ \E answers \in [Source -> UNION {Answer(src) : src \in Source}] :
       /\ \A src \in Source : answers[src] \in Answer(src)
       /\ RefreshDue(answers)
  /\ seen' = [src \in Source |->
                IF src \in Due THEN sample[src].ext ELSE seen[src]]
  /\ UNCHANGED <<now, own, ext, sample>>

(* select_dispatch finds a slot for a queued submission, claim takes it. *)
Dispatch(src) ==
  /\ pass
  /\ HasSlot(src, own[src])
  /\ own' = [own EXCEPT ![src] = @ + 1]
  /\ UNCHANGED <<obs, now, pass, ext, sample, seen>>

EndPass ==
  /\ pass
  /\ pass' = FALSE
  /\ UNCHANGED <<obs, now, own, ext, sample, seen>>

(* An execution whose end is confirmed gives its slot back. *)
Release(src) ==
  /\ own[src] > 0
  /\ own' = [own EXCEPT ![src] = @ - 1]
  /\ UNCHANGED <<obs, now, pass, ext, sample, seen>>

Outside(src) ==
  /\ \E n \in 0..MaxExt : n # ext[src] /\ ext' = [ext EXCEPT ![src] = n]
  /\ UNCHANGED <<obs, now, pass, own, sample, seen>>

Sample(src) ==
  /\ sample' = [sample EXCEPT ![src] =
                  [own |-> own[src], ext |-> ext[src], at |-> now]]
  /\ UNCHANGED <<obs, now, pass, own, ext, seen>>

(* A pass takes time: its probes run one after the other. *)
Tick ==
  /\ now < MaxTime
  /\ now' = now + 1
  /\ UNCHANGED <<obs, pass, own, ext, sample, seen>>

Next ==
  \/ Refresh \/ EndPass \/ Tick
  \/ \E src \in Source :
       Dispatch(src) \/ Release(src) \/ Outside(src) \/ Sample(src)

Spec == Init /\ [][Next]_vars

-----------------------------------------------------------------------------
(* Properties. *)

(* The service's own executions never eat into the reserve, whatever the
   probes report and however late they report it. *)
OwnWithinLimit ==
  \A src \in Source : own[src] <= Limit[src] - Reserve[src]

DispatchOn(src) == own'[src] > own[src]

(***************************************************************************)
(* The available amount is meant to be conservative (architecture.md       *)
(* section 8): as long as usage outside the service has not grown since    *)
(* the sample the daemon's observation rests on, a dispatch leaves the     *)
(* reserve of the source free.                                             *)
(***************************************************************************)
DispatchLeavesReserve ==
  [][\A src \in Source :
       DispatchOn(src) /\ Monitor[src] = "command" /\ ext[src] <= seen[src]
       => own'[src] + ext[src] <= Limit[src] - Reserve[src]]_vars

(* A dispatch rests on a sample at most twice max_age old: run_probe bounds
   the age of the sample at receipt, available the age of the receipt. *)
SampleAgeBounded ==
  [][\A src \in Source :
       DispatchOn(src) /\ Monitor[src] = "command"
       => now - obs[src].sampled <= 2 * MaxAge]_vars
=============================================================================
