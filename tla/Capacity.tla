------------------------------ MODULE Capacity ------------------------------
(***************************************************************************)
(* The capacity manager (crates/service/src/capacity.rs): the last         *)
(* observation of every source and the number of slots it leaves.          *)
(* Observations live in memory and are lost with the process.              *)
(***************************************************************************)
EXTENDS Integers

CONSTANTS
  Source,     \* configured sources
  Limit,      \* [Source -> Nat]  concurrency_limit
  Reserve,    \* [Source -> Nat]  safety_reserve
  Monitor,    \* [Source -> {"static", "command"}]
  MaxAge,     \* max_age_seconds of the command monitors
  Interval,   \* interval_seconds of the command monitors
  Skew,       \* how far in the future a sample may be dated (30 s in the code)
  None

(* Config::validate refuses a source without slots, and a reserve that
   exceeds them. *)
ValidSource(src) ==
  /\ Limit[src] \in Nat \ {0}
  /\ Reserve[src] \in 0..Limit[src]
  /\ Monitor[src] \in {"static", "command"}

ASSUME SourceAssumption == \A src \in Source : ValidSource(src)

ASSUME MonitorAssumption ==
  /\ MaxAge \in Nat \ {0} /\ Interval \in Nat \ {0} /\ Skew \in Nat
  /\ None \notin Int

VARIABLES obs, now

UsageKind == {"total_in_use", "external_in_use"}

Observation ==
  [health : {"healthy", "unavailable"}, kind : UsageKind \cup {None},
   count : Nat, sampled : Int, received : Int]

(* initialize: a static source is healthy for good and reports no usage. *)
StaticObservation ==
  [health |-> "healthy", kind |-> None, count |-> 0,
   sampled |-> now, received |-> now]

Initialize ==
  obs' = [src \in Source |->
            IF Monitor[src] = "static" THEN StaticObservation ELSE None]

(***************************************************************************)
(* run_probe.  An answer is what the probe command printed, or None when   *)
(* it timed out, failed or printed something else than one small JSON      *)
(* object.  The sample must be neither too old nor from the future, and a  *)
(* healthy answer must report usage.                                       *)
(***************************************************************************)
Accepts(answer) ==
  /\ answer # None
  /\ answer.health = "healthy" => answer.kind # None
  /\ now - answer.sampled \in (-Skew)..MaxAge

(* A probe that fails in any way makes the source unavailable. *)
Observe(answer) ==
  IF Accepts(answer)
  THEN [health |-> answer.health, kind |-> answer.kind, count |-> answer.count,
        sampled |-> answer.sampled, received |-> now]
  ELSE [health |-> "unavailable", kind |-> None, count |-> 0,
        sampled |-> now, received |-> now]

Due == {src \in Source : /\ Monitor[src] = "command"
                         /\ obs[src] = None \/ obs[src].received + Interval <= now}

(* refresh_due, given what the probes of the due sources answer. *)
RefreshDue(answers) ==
  obs' = [src \in Source |->
            IF src \in Due THEN Observe(answers[src]) ELSE obs[src]]

-----------------------------------------------------------------------------
(* available *)

Larger(m, n) == IF m > n THEN m ELSE n

SatSub(m, n) == IF m > n THEN m - n ELSE 0

(* Fault: the service's own leases are left out. *)
UsedBug(o, active) == IF o.kind = None THEN active ELSE o.count

Used(o, active) ==
  CASE o.kind = None -> active
    [] o.kind = "total_in_use" -> Larger(active, o.count)
    [] o.kind = "external_in_use" -> active + o.count

(* Fault: an observation is used however long ago it was received. *)
TooOldBug(src) == FALSE

TooOld(src) == Monitor[src] = "command" /\ now - obs[src].received > MaxAge

(* Fault: the reserve is not subtracted. *)
SlotsBug(src, active) == SatSub(Limit[src], Used(obs[src], active))

Slots(src, active) ==
  SatSub(SatSub(Limit[src], Used(obs[src], active)), Reserve[src])

(* None: unknown.  0: known to be unavailable or full. *)
Available(src, active) ==
  IF obs[src] = None THEN None
  ELSE IF obs[src].health # "healthy" THEN 0
  ELSE IF TooOld(src) THEN None
  ELSE Slots(src, active)

HasSlot(src, active) == Available(src, active) \notin {None, 0}
=============================================================================
