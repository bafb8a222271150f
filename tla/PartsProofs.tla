---------------------------- MODULE PartsProofs ----------------------------
(***************************************************************************)
(* Proofs about Admission and Startup, the parts A and S of MCParts, for   *)
(* any sources with any limits, kinds of probes and clocks, and for any    *)
(* number of processes and installers.                                     *)
(***************************************************************************)
EXTENDS MCParts, TLAPS

-----------------------------------------------------------------------------
(* Admission. *)

AdmissionTyped ==
  /\ now \in Nat
  /\ own \in [Source -> Nat] /\ ext \in [Source -> Nat] /\ seen \in [Source -> Nat]
  /\ sample \in [Source -> [own : Nat, ext : Nat, at : Nat]]
  /\ obs \in [Source -> A!Observation \cup {None}]

(* An observation of a probe was fresh when it arrived and, if it tells of *)
(* usage, tells it as the probe does; seen remembers the usage by others.  *)
ObservedAsSampled ==
  \A src \in Source : Monitor[src] = "command" /\ obs[src] # None =>
    /\ obs[src].received - obs[src].sampled <= MaxAge
    /\ obs[src].health = "healthy" => obs[src].kind = Kind[src]
    /\ obs[src].health = "healthy" /\ Kind[src] = "external_in_use" =>
         obs[src].count = seen[src]

AdmissionInv == AdmissionTyped /\ ObservedAsSampled /\ OwnWithinLimit

(* The limit and the reserve of a source, as validated. *)
LEMMA LimitsTyped ==
  ASSUME NEW src \in Source
  PROVE  Limit[src] \in Nat /\ Reserve[src] \in Nat /\ Reserve[src] <= Limit[src]
BY SourceAssumption DEF ValidSource

(* Saturating subtractions that leave something. *)
LEMMA SatSubLeaves ==
  ASSUME NEW l \in Nat, NEW u \in Nat, NEW r \in Nat, A!SatSub(A!SatSub(l, u), r) # 0
  PROVE  u + r + 1 <= l
BY DEF A!SatSub

LEMMA UsedBounds ==
  ASSUME NEW o \in A!Observation, NEW active \in Nat
  PROVE  /\ A!Used(o, active) \in Nat /\ active <= A!Used(o, active)
         /\ o.kind = "external_in_use" => A!Used(o, active) = active + o.count
<1>1. /\ o.kind \in {"total_in_use", "external_in_use", None} /\ o.count \in Nat
      /\ None \notin {"total_in_use", "external_in_use"}
  BY PartsAssumption DEF A!Observation, A!UsageKind, UsageKind
<1>2. CASE o.kind = None
  BY <1>1, <1>2 DEF A!Used
<1>3. CASE o.kind # None /\ o.kind = "total_in_use"
  <2>1. A!Used(o, active) = A!Larger(active, o.count)
    BY <1>1, <1>3 DEF A!Used
  <2> QED  BY <1>1, <1>3, <2>1 DEF A!Larger
<1>4. CASE o.kind # None /\ o.kind = "external_in_use"
  <2>1. A!Used(o, active) = active + o.count
    BY <1>1, <1>4 DEF A!Used
  <2> QED  BY <1>1, <2>1
<1> QED  BY <1>1, <1>2, <1>3, <1>4

(* What available() found when it found a slot. *)
LEMMA SlotFound ==
  ASSUME AdmissionTyped, NEW src \in Source, A!HasSlot(src, own[src])
  PROVE  /\ obs[src] \in A!Observation /\ obs[src] # None
         /\ obs[src].health = "healthy" /\ ~A!TooOld(src)
         /\ own[src] + Reserve[src] + 1 <= Limit[src]
         /\ obs[src].kind = "external_in_use" =>
              own[src] + obs[src].count + Reserve[src] + 1 <= Limit[src]
<1>1. A!Available(src, own[src]) \notin {None, 0}
  BY DEF A!HasSlot
<1>2. /\ obs[src] # None /\ obs[src].health = "healthy" /\ ~A!TooOld(src)
      /\ A!Slots(src, own[src]) # 0
  BY <1>1 DEF A!Available
<1>3. obs[src] \in A!Observation /\ own[src] \in Nat
  BY <1>2 DEF AdmissionTyped
<1> DEFINE used == A!Used(obs[src], own[src])
<1>4. /\ used \in Nat /\ own[src] <= used
      /\ obs[src].kind = "external_in_use" => used = own[src] + obs[src].count
  BY <1>3, UsedBounds
<1>5. A!SatSub(A!SatSub(Limit[src], used), Reserve[src]) # 0
  BY <1>2 DEF A!Slots
<1> HIDE DEF used
<1>6. used + Reserve[src] + 1 <= Limit[src]
  BY <1>4, <1>5, LimitsTyped, SatSubLeaves
<1>7. own[src] + Reserve[src] + 1 <= Limit[src]
  BY <1>3, <1>4, <1>6, LimitsTyped
<1> QED  BY <1>2, <1>3, <1>4, <1>6, <1>7

LEMMA AdmissionInit == A!Init => AdmissionInv
<1> SUFFICES ASSUME A!Init  PROVE AdmissionInv
  OBVIOUS
<1> USE DEF A!Init
<1>1. ext \in [Source -> Nat]
  BY DEF A!Init
<1>2. AdmissionTyped
  BY <1>1 DEF AdmissionTyped, A!StaticObservation, A!Observation
<1>3. ObservedAsSampled
  BY DEF ObservedAsSampled
<1>4. ASSUME NEW src \in Source  PROVE own[src] <= Limit[src] - Reserve[src]
  <2>1. own[src] = 0
    OBVIOUS
  <2> QED  BY <2>1, LimitsTyped
<1>5. OwnWithinLimit
  BY <1>4 DEF OwnWithinLimit, A!OwnWithinLimit
<1> QED  BY <1>2, <1>3, <1>5 DEF AdmissionInv

(* An answer becomes an observation that is fresh and as it was told.      *)
LEMMA ObserveTyped ==
  ASSUME AdmissionTyped, NEW src \in Source, NEW answer \in A!Answer(src)
  PROVE  /\ A!Observe(answer) \in A!Observation
         /\ A!Observe(answer).received - A!Observe(answer).sampled <= MaxAge
         /\ A!Observe(answer).health = "healthy" =>
              /\ A!Observe(answer).kind = Kind[src]
              /\ Kind[src] = "external_in_use" => A!Observe(answer).count = sample[src].ext
<1>1. /\ now \in Nat /\ sample[src] \in [own : Nat, ext : Nat, at : Nat]
      /\ Kind[src] \in UsageKind /\ MaxAge \in Nat
  BY PartsAssumption, MonitorAssumption DEF AdmissionTyped
<1>2. CASE ~A!Accepts(answer)
  <2>1. A!Observe(answer) = [health |-> "unavailable", kind |-> None, count |-> 0,
                             sampled |-> now, received |-> now]
    BY <1>2 DEF A!Observe
  <2> QED  BY <1>1, <2>1 DEF A!Observation
<1>3. CASE A!Accepts(answer)
  <2>1. A!Observe(answer) = [health |-> answer.health, kind |-> answer.kind,
                             count |-> answer.count, sampled |-> answer.sampled,
                             received |-> now]
    BY <1>3 DEF A!Observe
  <2>2. answer # None /\ now - answer.sampled <= MaxAge
    BY <1>3 DEF A!Accepts
  <2>3. CASE answer = [health |-> "unavailable", kind |-> None, count |-> 0,
                       sampled |-> sample[src].at]
    BY <1>1, <2>1, <2>2, <2>3 DEF A!Observation
  <2>4. CASE answer = [health |-> "healthy", kind |-> Kind[src], sampled |-> sample[src].at,
                       count |-> IF Kind[src] = "total_in_use"
                                 THEN sample[src].own + sample[src].ext ELSE sample[src].ext]
    <3> DEFINE count == IF Kind[src] = "total_in_use"
                        THEN sample[src].own + sample[src].ext ELSE sample[src].ext
    <3>1. count \in Nat /\ (Kind[src] = "external_in_use" => count = sample[src].ext)
      BY <1>1
    <3>2. A!Observe(answer) = [health |-> "healthy", kind |-> Kind[src], count |-> count,
                               sampled |-> sample[src].at, received |-> now]
      BY <2>1, <2>4
    <3>3. now - sample[src].at <= MaxAge
      BY <2>2, <2>4
    <3> HIDE DEF count
    <3> QED  BY <1>1, <3>1, <3>2, <3>3 DEF A!Observation, A!UsageKind, UsageKind
  <2> QED  BY <2>2, <2>3, <2>4 DEF A!Answer
<1> QED  BY <1>2, <1>3

LEMMA RefreshPreserves ==
  ASSUME AdmissionInv, A!Refresh
  PROVE  AdmissionInv'
<1>1. PICK answers \in [Source -> UNION {A!Answer(src) : src \in Source}] :
        /\ \A src \in Source : answers[src] \in A!Answer(src)
        /\ A!RefreshDue(answers)
  BY DEF A!Refresh
<1>2. /\ obs' = [src \in Source |->
                   IF src \in A!Due THEN A!Observe(answers[src]) ELSE obs[src]]
      /\ seen' = [src \in Source |-> IF src \in A!Due THEN sample[src].ext ELSE seen[src]]
      /\ UNCHANGED <<now, own, ext, sample>>
  BY <1>1 DEF A!Refresh, A!RefreshDue
<1>3. AdmissionTyped
  BY DEF AdmissionInv
<1>4. ASSUME NEW src \in Source
      PROVE  /\ obs'[src] \in A!Observation \cup {None} /\ seen'[src] \in Nat
             /\ Monitor[src] = "command" /\ obs'[src] # None =>
                  /\ obs'[src].received - obs'[src].sampled <= MaxAge
                  /\ obs'[src].health = "healthy" => obs'[src].kind = Kind[src]
                  /\ obs'[src].health = "healthy" /\ Kind[src] = "external_in_use" =>
                       obs'[src].count = seen'[src]
  <2>1. CASE src \in A!Due
    <3>1. obs'[src] = A!Observe(answers[src]) /\ seen'[src] = sample[src].ext
      BY <1>2, <2>1
    <3>2. sample[src].ext \in Nat
      BY <1>3 DEF AdmissionTyped
    <3> QED  BY <1>1, <1>3, <3>1, <3>2, ObserveTyped
  <2>2. CASE src \notin A!Due
    <3>1. obs'[src] = obs[src] /\ seen'[src] = seen[src]
      BY <1>2, <2>2
    <3> QED  BY <3>1 DEF AdmissionInv, AdmissionTyped, ObservedAsSampled
  <2> QED  BY <2>1, <2>2
<1>5. AdmissionTyped'
  <2>1. obs' \in [Source -> A!Observation \cup {None}] /\ seen' \in [Source -> Nat]
    BY <1>2, <1>4
  <2> QED  BY <1>2, <1>3, <2>1 DEF AdmissionTyped
<1>6. ObservedAsSampled'
  BY <1>4 DEF ObservedAsSampled
<1>7. OwnWithinLimit'
  BY <1>2 DEF AdmissionInv, OwnWithinLimit, A!OwnWithinLimit
<1> QED  BY <1>5, <1>6, <1>7 DEF AdmissionInv

LEMMA DispatchPreserves ==
  ASSUME AdmissionInv, NEW src \in Source, A!Dispatch(src)
  PROVE  AdmissionInv'
<1>1. /\ own' = [own EXCEPT ![src] = @ + 1] /\ A!HasSlot(src, own[src])
      /\ UNCHANGED <<obs, now, ext, sample, seen>>
  BY DEF A!Dispatch
<1>2. AdmissionTyped'
  BY <1>1 DEF AdmissionInv, AdmissionTyped
<1>3. ObservedAsSampled'
  BY <1>1 DEF AdmissionInv, ObservedAsSampled
<1>4. own[src] + Reserve[src] + 1 <= Limit[src] /\ own[src] \in Nat
  BY <1>1, SlotFound DEF AdmissionInv, AdmissionTyped
<1>5. ASSUME NEW other \in Source  PROVE own'[other] <= Limit[other] - Reserve[other]
  <2>1. CASE other = src
    <3>1. own'[src] = own[src] + 1
      BY <1>1 DEF AdmissionInv, AdmissionTyped
    <3> QED  BY <1>4, <2>1, <3>1, LimitsTyped
  <2>2. CASE other # src
    BY <1>1, <2>2 DEF AdmissionInv, AdmissionTyped, OwnWithinLimit, A!OwnWithinLimit
  <2> QED  BY <2>1, <2>2
<1> QED  BY <1>2, <1>3, <1>5 DEF AdmissionInv, OwnWithinLimit, A!OwnWithinLimit

LEMMA ReleasePreserves ==
  ASSUME AdmissionInv, NEW src \in Source, A!Release(src)
  PROVE  AdmissionInv'
<1>1. /\ own' = [own EXCEPT ![src] = @ - 1] /\ own[src] > 0 /\ own \in [Source -> Nat]
      /\ UNCHANGED <<obs, now, ext, sample, seen>>
  BY DEF A!Release, AdmissionInv, AdmissionTyped
<1>2. own' \in [Source -> Nat]
  BY <1>1
<1>3. AdmissionTyped' /\ ObservedAsSampled'
  BY <1>1, <1>2 DEF AdmissionInv, AdmissionTyped, ObservedAsSampled
<1>4. ASSUME NEW other \in Source  PROVE own'[other] <= Limit[other] - Reserve[other]
  <2>1. own'[other] \in Nat /\ own[other] \in Nat /\ own'[other] <= own[other]
    BY <1>1, <1>2
  <2>2. own[other] <= Limit[other] - Reserve[other]
    BY DEF AdmissionInv, OwnWithinLimit, A!OwnWithinLimit
  <2> QED  BY <2>1, <2>2, LimitsTyped
<1> QED  BY <1>3, <1>4 DEF AdmissionInv, OwnWithinLimit, A!OwnWithinLimit

LEMMA OthersPreserve ==
  ASSUME AdmissionInv, NEW src \in Source,
         A!Outside(src) \/ A!Sample(src)
  PROVE  AdmissionInv'
<1>1. UNCHANGED <<obs, own, seen>>
  BY DEF A!Outside, A!Sample
<1>2. ObservedAsSampled' /\ OwnWithinLimit'
  BY <1>1 DEF AdmissionInv, ObservedAsSampled, OwnWithinLimit, A!OwnWithinLimit
<1>3. AdmissionTyped
  BY DEF AdmissionInv
<1>4. now' \in Nat
  BY <1>3 DEF AdmissionTyped, A!Outside, A!Sample
<1>5. ext' \in [Source -> Nat]
  <2>1. CASE A!Outside(src)
    <3>1. PICK n \in 0..MaxExt : ext' = [ext EXCEPT ![src] = n]
      BY <2>1 DEF A!Outside
    <3> QED  BY <1>3, <3>1 DEF AdmissionTyped
  <2>2. CASE ~A!Outside(src)
    BY <1>3, <2>2 DEF AdmissionTyped, A!Sample
  <2> QED  BY <2>1, <2>2
<1>6. sample' \in [Source -> [own : Nat, ext : Nat, at : Nat]]
  <2>1. CASE A!Sample(src)
    <3>1. [own |-> own[src], ext |-> ext[src], at |-> now] \in [own : Nat, ext : Nat, at : Nat]
      BY <1>3 DEF AdmissionTyped
    <3> QED  BY <1>3, <2>1, <3>1 DEF AdmissionTyped, A!Sample
  <2>2. CASE ~A!Sample(src)
    BY <1>3, <2>2 DEF AdmissionTyped, A!Outside
  <2> QED  BY <2>1, <2>2
<1> QED  BY <1>1, <1>2, <1>3, <1>4, <1>5, <1>6 DEF AdmissionInv, AdmissionTyped

LEMMA QuietPreserves ==
  ASSUME AdmissionInv, A!Tick \/ A!EndPass \/ UNCHANGED A!vars
  PROVE  AdmissionInv'
<1>1. UNCHANGED <<obs, own, seen, ext, sample>> /\ now' \in Nat
  BY DEF A!Tick, A!EndPass, A!vars, AdmissionInv, AdmissionTyped
<1> QED
  BY <1>1 DEF AdmissionInv, AdmissionTyped, ObservedAsSampled, OwnWithinLimit, A!OwnWithinLimit

LEMMA AdmissionStep == AdmissionInv /\ [A!Next]_A!vars => AdmissionInv'
<1> SUFFICES ASSUME AdmissionInv, [A!Next]_A!vars  PROVE AdmissionInv'
  OBVIOUS
<1>1. CASE A!Refresh
  BY <1>1, RefreshPreserves
<1>2. CASE \E src \in Source : A!Dispatch(src)
  BY <1>2, DispatchPreserves
<1>3. CASE \E src \in Source : A!Release(src)
  BY <1>3, ReleasePreserves
<1>4. CASE \E src \in Source : A!Outside(src) \/ A!Sample(src)
  BY <1>4, OthersPreserve
<1>5. CASE A!Tick \/ A!EndPass \/ UNCHANGED A!vars
  BY <1>5, QuietPreserves
<1> QED  BY <1>1, <1>2, <1>3, <1>4, <1>5 DEF A!Next

(***************************************************************************)
(* The executions of the service on a source never number more than its    *)
(* limit less its reserve, whatever its probe says and when.               *)
(***************************************************************************)
THEOREM OwnSpares == A!Spec => []OwnWithinLimit
<1>1. A!Init => AdmissionInv
  BY AdmissionInit
<1>2. AdmissionInv /\ [A!Next]_A!vars => AdmissionInv'
  BY AdmissionStep
<1>3. AdmissionInv => OwnWithinLimit
  BY DEF AdmissionInv
<1> QED  BY <1>1, <1>2, <1>3, PTL DEF A!Spec

(* Only a dispatch takes a slot. *)
LEMMA OnlyDispatchTakes ==
  ASSUME AdmissionInv, [A!Next]_A!vars, NEW src \in Source, A!DispatchOn(src)
  PROVE  A!Dispatch(src)
<1>1. own \in [Source -> Nat] /\ own'[src] > own[src]
  BY DEF AdmissionInv, AdmissionTyped, A!DispatchOn
<1>2. own' # own
  BY <1>1
<1>3. CASE \E other \in Source : A!Release(other)
  <2>1. PICK other \in Source : own' = [own EXCEPT ![other] = @ - 1]
    BY <1>3 DEF A!Release
  <2> QED  BY <1>1, <2>1
<1>4. CASE \E other \in Source : A!Dispatch(other)
  <2>1. PICK other \in Source : A!Dispatch(other)
    BY <1>4
  <2>2. other = src
    BY <1>1, <2>1 DEF A!Dispatch
  <2> QED  BY <2>1, <2>2
<1> QED
  BY <1>2, <1>3, <1>4 DEF A!Next, A!vars, A!Refresh, A!EndPass, A!Tick, A!Outside, A!Sample

(***************************************************************************)
(* A dispatch on a source with a probe rests on a sample of its usage that *)
(* is at most twice max_age old.                                           *)
(***************************************************************************)
THEOREM SamplesAreRecent == A!Spec => SampleAgeBounded
<1>1. A!Init => AdmissionInv
  BY AdmissionInit
<1>2. AdmissionInv /\ [A!Next]_A!vars => AdmissionInv'
  BY AdmissionStep
<1>3. ASSUME AdmissionInv, [A!Next]_A!vars, NEW src \in Source,
             A!DispatchOn(src), Monitor[src] = "command"
      PROVE  now - obs[src].sampled <= 2 * MaxAge
  <2>1. AdmissionTyped /\ ObservedAsSampled /\ A!HasSlot(src, own[src])
    BY <1>3, OnlyDispatchTakes DEF AdmissionInv, A!Dispatch
  <2>2. obs[src] \in A!Observation /\ obs[src] # None /\ ~A!TooOld(src)
    BY <2>1, SlotFound
  <2>3. obs[src].received - obs[src].sampled <= MaxAge
    BY <1>3, <2>1, <2>2 DEF ObservedAsSampled
  <2>4. now - obs[src].received <= MaxAge
    BY <1>3, <2>1, <2>2, MonitorAssumption DEF A!TooOld, AdmissionTyped, A!Observation
  <2> QED
    BY <2>1, <2>2, <2>3, <2>4, MonitorAssumption DEF AdmissionTyped, A!Observation
<1>4. AdmissionInv /\ [A!Next]_A!vars =>
        [\A src \in Source :
           A!DispatchOn(src) /\ Monitor[src] = "command"
           => now - obs[src].sampled <= 2 * MaxAge]_A!vars
  BY <1>3
<1> QED  BY <1>1, <1>2, <1>4, PTL DEF A!Spec, SampleAgeBounded, A!SampleAgeBounded

(***************************************************************************)
(* When the probes report external usage, a dispatch leaves the reserve    *)
(* free unless usage by others has grown since the sample.  (A probe that  *)
(* reports the total cannot give this: used is then the larger of the      *)
(* total and the service's own executions, and the total of an old sample  *)
(* does not hold the executions dispatched since.)                         *)
(***************************************************************************)
THEOREM ReserveIsLeft ==
  ASSUME \A src \in Source : Kind[src] = "external_in_use"
  PROVE  A!Spec => DispatchLeavesReserve
<1>1. A!Init => AdmissionInv
  BY AdmissionInit
<1>2. AdmissionInv /\ [A!Next]_A!vars => AdmissionInv'
  BY AdmissionStep
<1>3. ASSUME AdmissionInv, [A!Next]_A!vars, NEW src \in Source,
             A!DispatchOn(src), Monitor[src] = "command", ext[src] <= seen[src]
      PROVE  own'[src] + ext[src] <= Limit[src] - Reserve[src]
  <2>1. /\ AdmissionTyped /\ ObservedAsSampled /\ A!HasSlot(src, own[src])
        /\ own' = [own EXCEPT ![src] = @ + 1]
    BY <1>3, OnlyDispatchTakes DEF AdmissionInv, A!Dispatch
  <2>2. /\ obs[src] \in A!Observation /\ obs[src] # None /\ obs[src].health = "healthy"
        /\ obs[src].kind = "external_in_use" =>
             own[src] + obs[src].count + Reserve[src] + 1 <= Limit[src]
    BY <2>1, SlotFound
  <2>3. obs[src].kind = "external_in_use" /\ obs[src].count = seen[src]
    BY <1>3, <2>1, <2>2 DEF ObservedAsSampled
  <2>4. own[src] + seen[src] + Reserve[src] + 1 <= Limit[src]
    BY <2>2, <2>3
  <2>5. own \in [Source -> Nat] /\ ext[src] \in Nat /\ seen[src] \in Nat
    BY <2>1 DEF AdmissionTyped
  <2>6. own'[src] = own[src] + 1
    BY <2>1, <2>5
  <2> QED  BY <1>3, <2>4, <2>5, <2>6, LimitsTyped
<1>4. AdmissionInv /\ [A!Next]_A!vars =>
        [\A src \in Source :
           A!DispatchOn(src) /\ Monitor[src] = "command" /\ ext[src] <= seen[src]
           => own'[src] + ext[src] <= Limit[src] - Reserve[src]]_A!vars
  BY <1>3
<1> QED  BY <1>1, <1>2, <1>4, PTL DEF A!Spec, DispatchLeavesReserve, A!DispatchLeavesReserve

-----------------------------------------------------------------------------
(* Startup. *)

Phase == {"new", "prepared", "locked", "binding", "unlinked", "serving", "draining",
          "returned", "gone"}

StartupTyped ==
  /\ pc \in [Process -> Phase] /\ sched \in [Process -> {"off", "recover", "run"}]
  /\ runs \in [Attempt -> [state : {"none", "running", "uncertain", "ended"},
                           by : Process \cup {None}]]
  /\ file \in {"absent", "good", "bad"} /\ download \in [Installer -> {"none", "good", "bad"}]

(* The process in charge holds the lock, so there is one at most.          *)
ChargeLocks == \A p \in Process : S!InCharge(p) => lock = p

(* A process went on only with the verified binary, which stays.           *)
BinaryVerified == \A p \in Process : pc[p] \notin {"new", "gone"} => file = "good"

ServesItsSocket == \A p \in Process : pc[p] = "serving" => sock = p

(* A running attempt is some process's. *)
RunsAreOwned == \A a \in Attempt : runs[a].state = "running" => runs[a].by \in Process

(* No scheduler works before its process has the lock and the store.       *)
SchedulerAwaitsLock ==
  \A p \in Process : pc[p] \in {"new", "prepared", "locked"} => sched[p] = "off"

(* A process that has not recovered yet has driven no attempt.             *)
RecoversFirst ==
  \A p \in Process :
    pc[p] \in {"new", "prepared", "locked"} \/ sched[p] = "recover" =>
      \A a \in Attempt : runs[a].by # p

StartupInv ==
  /\ StartupTyped /\ ChargeLocks /\ BinaryVerified /\ ServesItsSocket
  /\ RunsAreOwned /\ SchedulerAwaitsLock /\ RecoversFirst

LEMMA StartupInit == S!Init => StartupInv
BY PartsAssumption
   DEF S!Init, StartupInv, StartupTyped, Phase, ChargeLocks, S!InCharge, BinaryVerified,
       ServesItsSocket, RunsAreOwned, SchedulerAwaitsLock, RecoversFirst

(* The installers touch the binary only, and leave it verified.            *)
LEMMA InstallerPreserves ==
  ASSUME StartupInv, NEW i \in Installer, S!Download(i) \/ S!Install(i) \/ S!GiveUp(i)
  PROVE  StartupInv'
<1>1. UNCHANGED <<pc, lock, sock, sched, runs>>
  BY DEF S!Download, S!Install, S!GiveUp
<1>2. /\ file' \in {"absent", "good", "bad"} /\ (file = "good" => file' = "good")
      /\ download' \in [Installer -> {"none", "good", "bad"}]
  BY DEF StartupInv, StartupTyped, S!Download, S!Install, S!Verified, S!GiveUp
<1> QED
  BY <1>1, <1>2
     DEF StartupInv, StartupTyped, ChargeLocks, S!InCharge, BinaryVerified, ServesItsSocket,
         RunsAreOwned, SchedulerAwaitsLock, RecoversFirst

(* A process passes from one phase to another. *)
LEMMA PhaseMoves ==
  ASSUME StartupTyped, NEW p \in Process, NEW from, NEW to \in Phase, S!Goto(p, from, to)
  PROVE  /\ pc[p] \in from /\ pc' \in [Process -> Phase] /\ pc'[p] = to
         /\ \A q \in Process : q # p => pc'[q] = pc[q]
BY DEF StartupTyped, S!Goto

(***************************************************************************)
(* What a step of one process keeps of the invariant, from what it does to *)
(* its own phase, its scheduler, the lock and the socket.                  *)
(***************************************************************************)
LEMMA ProcessPreserves ==
  ASSUME StartupInv, NEW p \in Process, UNCHANGED <<runs, file, download>>,
         pc' \in [Process -> Phase], sched' \in [Process -> {"off", "recover", "run"}],
         \A q \in Process : q # p => pc'[q] = pc[q] /\ sched'[q] = sched[q],
         \A q \in Process : q # p /\ S!InCharge(q) => lock' = lock,
         S!InCharge(p)' => lock' = p,
         pc'[p] \notin {"new", "gone"} => file = "good",
         \A q \in Process : q # p /\ pc[q] = "serving" => sock' = sock,
         pc'[p] = "serving" => sock' = p,
         pc'[p] \in {"new", "prepared", "locked"} =>
           sched'[p] = "off" /\ pc[p] \in {"new", "prepared", "locked"},
         sched'[p] = "recover" =>
           sched[p] = "recover" \/ pc[p] \in {"new", "prepared", "locked"}
  PROVE  StartupInv'
<1>1. StartupTyped' /\ RunsAreOwned' /\ BinaryVerified'
  BY DEF StartupInv, StartupTyped, RunsAreOwned, BinaryVerified
<1>2. ChargeLocks'
  BY DEF StartupInv, StartupTyped, ChargeLocks, S!InCharge
<1>3. ServesItsSocket'
  BY DEF StartupInv, StartupTyped, ServesItsSocket
<1>4. SchedulerAwaitsLock' /\ RecoversFirst'
  BY DEF StartupInv, StartupTyped, SchedulerAwaitsLock, RecoversFirst
<1> QED  BY <1>1, <1>2, <1>3, <1>4 DEF StartupInv

(* Only the holder of the lock is in charge. *)
LEMMA OneInCharge ==
  ASSUME StartupInv, NEW p \in Process, NEW q \in Process, S!InCharge(p), S!InCharge(q)
  PROVE  p = q
BY DEF StartupInv, ChargeLocks

LEMMA PreparePreserves ==
  ASSUME StartupInv, NEW p \in Process, S!Prepare(p) \/ S!TryLock(p)
  PROVE  StartupInv'
<1>1. StartupTyped /\ "prepared" \in Phase /\ "gone" \in Phase /\ "locked" \in Phase
  BY DEF StartupInv, Phase
<1>2. /\ pc[p] \in {"new", "prepared"} /\ pc' \in [Process -> Phase]
      /\ pc'[p] \in {"prepared", "locked", "gone"}
      /\ \A q \in Process : q # p => pc'[q] = pc[q]
      /\ pc'[p] = "prepared" => file = "good"
      /\ pc'[p] = "locked" => pc[p] = "prepared" /\ lock = None /\ lock' = p
      /\ pc'[p] # "locked" => lock' = lock
  <2>1. CASE S!Prepare(p)
    BY <1>1, <2>1, PhaseMoves DEF S!Prepare
  <2>2. CASE S!TryLock(p)
    BY <1>1, <2>2, PhaseMoves DEF S!TryLock
  <2> QED  BY <2>1, <2>2
<1>3. UNCHANGED <<sock, sched, runs, file, download>>
  BY DEF S!Prepare, S!TryLock
<1>4. sched[p] = "off" /\ (pc[p] = "prepared" => file = "good")
  BY <1>2 DEF StartupInv, SchedulerAwaitsLock, BinaryVerified
<1>5. \A q \in Process : q # p /\ S!InCharge(q) => lock' = lock
  BY <1>2, PartsAssumption DEF StartupInv, ChargeLocks
<1>6. S!InCharge(p)' => lock' = p
  BY <1>2 DEF S!InCharge
<1>7. sched' \in [Process -> {"off", "recover", "run"}]
  BY <1>3 DEF StartupInv, StartupTyped
<1> QED  BY <1>2, <1>3, <1>4, <1>5, <1>6, <1>7, ProcessPreserves

LEMMA BindPreserves ==
  ASSUME StartupInv, NEW p \in Process,
         S!SpawnScheduler(p) \/ S!Unlink(p) \/ S!Bind(p) \/ S!Interrupt(p)
  PROVE  StartupInv'
<1>1. StartupTyped /\ {"binding", "unlinked", "serving", "draining"} \subseteq Phase
  BY DEF StartupInv, Phase
<1>2. /\ S!InCharge(p) /\ pc' \in [Process -> Phase]
      /\ pc'[p] \in {"binding", "unlinked", "serving", "draining"}
      /\ \A q \in Process : q # p => pc'[q] = pc[q]
      /\ pc'[p] = "serving" => sock' = p
      /\ UNCHANGED <<lock, runs, file, download>>
  <2>1. CASE S!SpawnScheduler(p)
    BY <1>1, <2>1, PhaseMoves DEF S!SpawnScheduler, S!InCharge
  <2>2. CASE S!Unlink(p)
    BY <1>1, <2>2, PhaseMoves DEF S!Unlink, S!InCharge
  <2>3. CASE S!Bind(p)
    BY <1>1, <2>3, PhaseMoves DEF S!Bind, S!InCharge
  <2>4. CASE S!Interrupt(p)
    BY <1>1, <2>4, PhaseMoves DEF S!Interrupt, S!InCharge
  <2> QED  BY <2>1, <2>2, <2>3, <2>4
<1>3. \/ UNCHANGED sched
      \/ pc[p] = "locked" /\ sched' = [sched EXCEPT ![p] = "recover"]
  BY DEF S!SpawnScheduler, S!Goto, S!Scheduler, S!Unlink, S!Bind, S!Interrupt
<1>4. /\ sched' \in [Process -> {"off", "recover", "run"}]
      /\ \A q \in Process : q # p => sched'[q] = sched[q]
      /\ sched'[p] = "recover" =>
           sched[p] = "recover" \/ pc[p] \in {"new", "prepared", "locked"}
  BY <1>1, <1>3 DEF StartupTyped
<1>5. lock = p /\ file = "good"
  BY <1>2 DEF StartupInv, ChargeLocks, BinaryVerified, S!InCharge
<1>6. \A q \in Process : q # p /\ pc[q] = "serving" => sock' = sock
  BY <1>2, OneInCharge DEF S!InCharge
<1> QED  BY <1>2, <1>4, <1>5, <1>6, ProcessPreserves

LEMMA ReturnPreserves ==
  ASSUME StartupInv, NEW p \in Process,
         S!BindOrAcceptFails(p) \/ S!SchedulerEnded(p) \/ S!Dies(p)
  PROVE  StartupInv'
<1>1. StartupTyped /\ "returned" \in Phase /\ "gone" \in Phase
  BY DEF StartupInv, Phase
<1>2. /\ pc' \in [Process -> Phase] /\ pc'[p] \in {"returned", "gone"}
      /\ \A q \in Process : q # p => pc'[q] = pc[q]
      /\ pc[p] \notin {"new", "gone"}
      /\ lock' = (IF lock = p THEN None ELSE lock)
      /\ UNCHANGED <<sock, runs, file, download>>
  <2>1. CASE S!BindOrAcceptFails(p)
    BY <1>1, <2>1, PhaseMoves DEF S!BindOrAcceptFails, S!Return
  <2>2. CASE S!SchedulerEnded(p)
    BY <1>1, <2>2, PhaseMoves DEF S!SchedulerEnded, S!Return
  <2>3. CASE S!Dies(p)
    BY <1>1, <2>3 DEF S!Dies, StartupTyped
  <2> QED  BY <2>1, <2>2, <2>3
<1>3. UNCHANGED sched \/ sched' = [sched EXCEPT ![p] = "off"]
  BY DEF S!BindOrAcceptFails, S!SchedulerEnded, S!Dies, S!Scheduler
<1>4. /\ sched' \in [Process -> {"off", "recover", "run"}]
      /\ \A q \in Process : q # p => sched'[q] = sched[q]
      /\ sched'[p] = "recover" => sched[p] = "recover"
  BY <1>1, <1>3 DEF StartupTyped
<1>5. \A q \in Process : q # p /\ S!InCharge(q) => lock' = lock
  BY <1>2 DEF StartupInv, ChargeLocks
<1>6. file = "good"
  BY <1>2 DEF StartupInv, BinaryVerified
<1>7. ~S!InCharge(p)'
  BY <1>2 DEF S!InCharge
<1> QED  BY <1>2, <1>4, <1>5, <1>6, <1>7, ProcessPreserves

LEMMA SchedulerPreserves ==
  ASSUME StartupInv, NEW p \in Process, S!SchedulerStops(p) \/ S!SchedulerErrs(p)
  PROVE  StartupInv'
<1>1. /\ sched' = [sched EXCEPT ![p] = "off"]
      /\ UNCHANGED <<pc, lock, sock, runs, file, download>>
  BY DEF S!SchedulerStops, S!SchedulerErrs, S!Scheduler
<1> QED
  BY <1>1
     DEF StartupInv, StartupTyped, ChargeLocks, S!InCharge, BinaryVerified, ServesItsSocket,
         RunsAreOwned, SchedulerAwaitsLock, RecoversFirst

LEMMA RecoverPreserves ==
  ASSUME StartupInv, NEW p \in Process, S!Recover(p)
  PROVE  StartupInv'
<1>1. /\ sched' = [sched EXCEPT ![p] = "run"] /\ sched[p] = "recover"
      /\ runs' = [a \in Attempt |->
                   IF runs[a].state = "running" THEN [runs[a] EXCEPT !.state = "uncertain"]
                   ELSE runs[a]]
      /\ UNCHANGED <<pc, lock, sock, file, download>>
  BY DEF S!Recover, S!Scheduler
<1>2. \A a \in Attempt :
        /\ runs'[a] \in [state : {"none", "running", "uncertain", "ended"},
                         by : Process \cup {None}]
        /\ runs'[a].by = runs[a].by /\ runs'[a].state # "running"
  BY <1>1 DEF StartupInv, StartupTyped
<1>3. StartupTyped'
  <2>1. runs' \in [Attempt -> [state : {"none", "running", "uncertain", "ended"},
                               by : Process \cup {None}]]
    BY <1>1, <1>2
  <2> QED  BY <1>1, <2>1 DEF StartupInv, StartupTyped
<1>4. RunsAreOwned'
  BY <1>2 DEF RunsAreOwned
<1>5. SchedulerAwaitsLock' /\ RecoversFirst'
  BY <1>1, <1>2 DEF StartupInv, StartupTyped, SchedulerAwaitsLock, RecoversFirst
<1>6. ChargeLocks' /\ BinaryVerified' /\ ServesItsSocket'
  BY <1>1 DEF StartupInv, ChargeLocks, S!InCharge, BinaryVerified, ServesItsSocket
<1> QED  BY <1>3, <1>4, <1>5, <1>6 DEF StartupInv

LEMMA AttemptPreserves ==
  ASSUME StartupInv, NEW p \in Process, NEW a \in Attempt, S!Claim(p, a) \/ S!Finish(p, a)
  PROVE  StartupInv'
<1>1. /\ sched[p] = "run" /\ UNCHANGED <<pc, lock, sock, sched, file, download>>
      /\ \/ runs' = [runs EXCEPT ![a] = [state |-> "running", by |-> p]]
         \/ runs' = [runs EXCEPT ![a].state = "ended"]
  BY DEF S!Claim, S!Finish
<1>2. /\ runs' \in [Attempt -> [state : {"none", "running", "uncertain", "ended"},
                                by : Process \cup {None}]]
      /\ runs'[a].by \in {p, runs[a].by}
      /\ runs'[a].state = "running" => runs'[a].by = p
      /\ \A b \in Attempt : b # a => runs'[b] = runs[b]
  BY <1>1 DEF StartupInv, StartupTyped
<1>3. StartupTyped' /\ RunsAreOwned'
  BY <1>1, <1>2 DEF StartupInv, StartupTyped, RunsAreOwned
<1>4. SchedulerAwaitsLock' /\ RecoversFirst'
  BY <1>1, <1>2 DEF StartupInv, SchedulerAwaitsLock, RecoversFirst
<1>5. ChargeLocks' /\ BinaryVerified' /\ ServesItsSocket'
  BY <1>1 DEF StartupInv, ChargeLocks, S!InCharge, BinaryVerified, ServesItsSocket
<1> QED  BY <1>3, <1>4, <1>5 DEF StartupInv

LEMMA StartupStep == StartupInv /\ [S!Next]_S!vars => StartupInv'
<1> SUFFICES ASSUME StartupInv, [S!Next]_S!vars  PROVE StartupInv'
  OBVIOUS
<1>1. CASE \E i \in Installer : S!Download(i) \/ S!Install(i) \/ S!GiveUp(i)
  BY <1>1, InstallerPreserves
<1>2. CASE \E p \in Process : S!Prepare(p) \/ S!TryLock(p)
  BY <1>2, PreparePreserves
<1>3. CASE \E p \in Process :
             S!SpawnScheduler(p) \/ S!Unlink(p) \/ S!Bind(p) \/ S!Interrupt(p)
  BY <1>3, BindPreserves
<1>4. CASE \E p \in Process : S!BindOrAcceptFails(p) \/ S!SchedulerEnded(p) \/ S!Dies(p)
  BY <1>4, ReturnPreserves
<1>5. CASE \E p \in Process : S!SchedulerStops(p) \/ S!SchedulerErrs(p)
  BY <1>5, SchedulerPreserves
<1>6. CASE \E p \in Process : S!Recover(p)
  BY <1>6, RecoverPreserves
<1>7. CASE \E p \in Process, a \in Attempt : S!Claim(p, a) \/ S!Finish(p, a)
  BY <1>7, AttemptPreserves
<1>8. CASE UNCHANGED S!vars
  BY <1>8
     DEF S!vars, StartupInv, StartupTyped, ChargeLocks, S!InCharge, BinaryVerified,
         ServesItsSocket, RunsAreOwned, SchedulerAwaitsLock, RecoversFirst
<1> QED  BY <1>1, <1>2, <1>3, <1>4, <1>5, <1>6, <1>7, <1>8 DEF S!Next

(***************************************************************************)
(* A daemon that serves owns its socket path and the lock, and has a       *)
(* verified runtime binary, however many start, fail and die beside it.    *)
(***************************************************************************)
THEOREM OneDaemonServes == S!Spec => []ServingOwns
<1>1. S!Init => StartupInv
  BY StartupInit
<1>2. StartupInv /\ [S!Next]_S!vars => StartupInv'
  BY StartupStep
<1>3. StartupInv => ServingOwns
  BY DEF StartupInv, ChargeLocks, S!InCharge, BinaryVerified, ServesItsSocket, ServingOwns,
         S!ServingOwns
<1> QED  BY <1>1, <1>2, <1>3, PTL DEF S!Spec

(***************************************************************************)
(* The recovery of a daemon in charge takes no run from another daemon in  *)
(* charge: there is none, and it has started none itself.                  *)
(***************************************************************************)
THEOREM RecoverySpares == S!Spec => RecoverySparesTheLiving
<1>1. S!Init => StartupInv
  BY StartupInit
<1>2. StartupInv /\ [S!Next]_S!vars => StartupInv'
  BY StartupStep
<1>3. ASSUME StartupInv, NEW p \in Process, NEW a \in Attempt, S!InCharge(p),
             sched[p] = "recover", runs[a].state = "running"
      PROVE  ~S!InCharge(runs[a].by)
  <2>1. runs[a].by \in Process /\ runs[a].by # p
    BY <1>3 DEF StartupInv, RunsAreOwned, RecoversFirst
  <2> QED  BY <1>3, <2>1, OneInCharge
<1>4. StartupInv /\ [S!Next]_S!vars =>
        [\A p \in Process, a \in Attempt :
           /\ S!InCharge(p) /\ sched[p] = "recover"
           /\ runs[a].state = "running" /\ runs'[a].state = "uncertain"
           => ~S!InCharge(runs[a].by)]_S!vars
  BY <1>3
<1> QED
  BY <1>1, <1>2, <1>4, PTL DEF S!Spec, RecoverySparesTheLiving, S!RecoverySparesTheLiving

-----------------------------------------------------------------------------
(* In a behaviour that MCParts checks, each part behaves as it is specified. *)

LEMMA PartsAreTheParts == PartsSpec => A!Spec /\ S!Spec
<1>1. PartsInit => A!Init /\ S!Init
  BY DEF PartsInit
<1>2. [PartsNext]_partsVars => [A!Next]_A!vars
  BY DEF PartsNext, partsVars, admissionVars, A!vars
<1>3. [PartsNext]_partsVars => [S!Next]_S!vars
  BY DEF PartsNext, partsVars, startupVars, S!vars
<1> QED  BY <1>1, <1>2, <1>3, PTL DEF PartsSpec, A!Spec, S!Spec

=============================================================================
