---------------------------- MODULE RoutingProofs ----------------------------
(***************************************************************************)
(* Proofs about Routing, for any configurations and requests.              *)
(***************************************************************************)
EXTENDS Routing, FiniteSetTheorems, WellFoundedInduction, TLAPS

Row ==
  [request : Request, at : { c \in Config : Valid(c) },
   profile : UNION { c.profiles : c \in Config },
   policy : UNION { c.policies : c \in Config },
   routes : { Usable(c, r) : c \in Config, r \in Request },
   blocker : {Nothing, "route_unsatisfied", "capacity_unknown", "capacity_unavailable"}]

TryStates == {"claimed", "launched", "uncertain", "no_binary"}

RowOK(row) ==
  /\ row \in Row
  /\ row.routes = Usable(row.at, row.request) /\ row.routes # << >>
  /\ row.blocker # "route_unsatisfied"
  /\ row.policy \in Policies(row.at, row.request)

(* An attempt is a record, and its run timeout is bounded already. *)
TryOK(row, try) ==
  /\ try = [state |-> try.state, route |-> try.route, adapter |-> try.adapter,
            source |-> try.source, run |-> try.run, model |-> try.model]
  /\ Allowed(row, try)

(* What Create resolved stays what it was, and attempts stay within it. *)
RoutingInv ==
  /\ config \in { c \in Config : Valid(c) }
  /\ subs = [s \in Submission |-> subs[s]] /\ tries = [s \in Submission |-> tries[s]]
  /\ \A s \in Submission :
       /\ subs[s] # Nothing => RowOK(subs[s])
       /\ tries[s] # Nothing => subs[s] # Nothing /\ TryOK(subs[s], tries[s])

LEMMA InitRouting == Init => RoutingInv
BY DEF Init, RoutingInv

(* A policy that was found is one of its configuration, with a timeout. *)
LEMMA PolicyTimeout ==
  ASSUME NEW c, Valid(c), NEW r, NEW policy \in Policies(c, r)
  PROVE  policy \in c.policies /\ policy.run \in Nat
<1>1. policy \in c.policies
  BY DEF Policies, Select, Find
<1> QED
  BY <1>1 DEF Valid

LEMMA CreatePreserves ==
  ASSUME RoutingInv, NEW s \in Submission, NEW r \in Request, Create(s, r)
  PROVE  RoutingInv'
<1>1. PICK profile \in Profiles(config, r), policy \in Policies(config, r) :
        subs' = [subs EXCEPT ![s] =
                   [request |-> r, profile |-> profile, policy |-> policy,
                    routes |-> Usable(config, r), blocker |-> Nothing, at |-> config]]
  BY DEF Create
<1> DEFINE row == [request |-> r, profile |-> profile, policy |-> policy,
                   routes |-> Usable(config, r), blocker |-> Nothing, at |-> config]
<1>2. profile \in config.profiles /\ policy \in config.policies /\ config \in Config
  BY DEF Profiles, Policies, Select, Find, RoutingInv
<1>3. row \in Row
  BY <1>2 DEF Row, RoutingInv
<1>4. RowOK(row)
  BY <1>3, NothingAssumption DEF RowOK, Create, Acceptable
<1> HIDE DEF row
<1>5. subs' = [subs EXCEPT ![s] = row] /\ UNCHANGED <<config, tries>>
  BY <1>1 DEF Create, row
<1>6. tries[s] = Nothing
  BY DEF RoutingInv, Create
<1>7. subs'[s] = row /\ \A t \in Submission \ {s} : subs'[t] = subs[t]
  BY <1>5 DEF RoutingInv
<1>8. subs' = [t \in Submission |-> subs'[t]] /\ tries' = [t \in Submission |-> tries'[t]]
  BY <1>5 DEF RoutingInv
<1>9. ASSUME NEW t \in Submission
      PROVE  /\ subs'[t] # Nothing => RowOK(subs'[t])
             /\ tries'[t] # Nothing => subs'[t] # Nothing /\ TryOK(subs'[t], tries'[t])
  <2>1. CASE t = s
    BY <2>1, <1>4, <1>5, <1>6, <1>7
  <2>2. CASE t # s
    BY <2>2, <1>5, <1>7 DEF RoutingInv
  <2> QED
    BY <2>1, <2>2
<1> QED
  BY <1>5, <1>8, <1>9 DEF RoutingInv

LEMMA ReconfigurePreserves ==
  ASSUME RoutingInv, Reconfigure
  PROVE  RoutingInv'
<1>1. config' \in { c \in Config : Valid(c) } /\ subs' = subs
  BY DEF Reconfigure
<1>2. tries' = [s \in Submission |-> tries'[s]]
  BY DEF Reconfigure
<1>3. ASSUME NEW s \in Submission, tries'[s] # Nothing
      PROVE  subs[s] # Nothing /\ TryOK(subs[s], tries'[s])
  <2>1. tries'[s] \in {tries[s], [tries[s] EXCEPT !.state = "uncertain"]} /\ tries[s] # Nothing
    BY <1>3 DEF Reconfigure
  <2>2. subs[s] # Nothing /\ TryOK(subs[s], tries[s])
    BY <2>1 DEF RoutingInv
  <2>3. TryOK(subs[s], [tries[s] EXCEPT !.state = "uncertain"])
    BY <2>2 DEF TryOK, Allowed
  <2> QED
    BY <2>1, <2>2, <2>3
<1> QED
  BY <1>1, <1>2, <1>3 DEF RoutingInv

LEMMA DispatchPreserves ==
  ASSUME RoutingInv, NEW s \in Submission, Dispatch(s)
  PROVE  RoutingInv'
<1>1. subs[s] # Nothing /\ RowOK(subs[s]) /\ UNCHANGED <<config, subs>>
  BY DEF Dispatch, Queued, RoutingInv
<1> DEFINE routes == Usable(subs[s].at, subs[s].request)
           r == subs[s].request
<1>2. Frozen(s) = routes
  BY <1>1 DEF Frozen, RowOK
<1> HIDE DEF routes
<1>3. PICK i \in DOMAIN routes : \E j \in DOMAIN routes[i].sources :
        tries' = [tries EXCEPT ![s] =
                    [state |-> "claimed", route |-> routes[i].id,
                     adapter |-> routes[i].adapter,
                     source |-> routes[i].sources[j], run |-> 0,
                     model |-> IF r.model # Nothing THEN r.model ELSE routes[i].model]]
  BY <1>2 DEF Dispatch
<1>4. PICK j \in DOMAIN routes[i].sources :
        tries' = [tries EXCEPT ![s] =
                    [state |-> "claimed", route |-> routes[i].id,
                     adapter |-> routes[i].adapter,
                     source |-> routes[i].sources[j], run |-> 0,
                     model |-> IF r.model # Nothing THEN r.model ELSE routes[i].model]]
  BY <1>3
<1> DEFINE try == [state |-> "claimed", route |-> routes[i].id,
                   adapter |-> routes[i].adapter,
                   source |-> routes[i].sources[j], run |-> 0,
                   model |-> IF r.model # Nothing THEN r.model ELSE routes[i].model]
<1>5. try.run <= subs[s].policy.run
  <2>1. Valid(subs[s].at)
    BY <1>1 DEF RowOK, Row
  <2>2. subs[s].policy.run \in Nat
    BY <1>1, <2>1, PolicyTimeout DEF RowOK
  <2> QED
    BY <2>2
<1>6. Allowed(subs[s], try)
  BY <1>1, <1>5 DEF Allowed, RowOK, Listed, routes
<1>7. TryOK(subs[s], try)
  BY <1>6 DEF TryOK
<1> HIDE DEF try
<1>8. tries' = [tries EXCEPT ![s] = try]
  BY <1>4 DEF try
<1> QED
  BY <1>1, <1>7, <1>8 DEF RoutingInv

LEMMA BlockedPreserves ==
  ASSUME RoutingInv, NEW s \in Submission, Blocked(s)
  PROVE  RoutingInv'
<1>0. subs[s] # Nothing /\ RowOK(subs[s])
  BY DEF Blocked, Queued, RoutingInv
<1>1. PICK blocker \in {"capacity_unknown", "capacity_unavailable"} :
        subs' = [subs EXCEPT ![s].blocker = blocker]
  BY <1>0 DEF Blocked, Frozen, RowOK
<1> DEFINE row == [subs[s] EXCEPT !.blocker = blocker]
<1>2. RowOK(subs[s]) /\ tries[s] = Nothing /\ UNCHANGED <<config, tries>>
  BY DEF Blocked, Queued, RoutingInv
<1>3. RowOK(row)
  BY <1>2 DEF RowOK, Row
<1> HIDE DEF row
<1>4. subs' = [subs EXCEPT ![s] = row]
  BY <1>1 DEF row
<1> QED
  BY <1>2, <1>3, <1>4 DEF RoutingInv

LEMMA LaunchPreserves ==
  ASSUME RoutingInv, NEW s \in Submission, Launch(s)
  PROVE  RoutingInv'
<1>1. tries[s] # Nothing /\ UNCHANGED <<config, subs>>
  BY DEF Launch
<1>2. subs[s] # Nothing /\ RowOK(subs[s]) /\ TryOK(subs[s], tries[s])
  BY <1>1 DEF RoutingInv
<1> DEFINE launched == [state |-> "launched", route |-> tries[s].route,
                        adapter |-> tries[s].adapter, source |-> tries[s].source,
                        run |-> RunTimeout(s), model |-> tries[s].model]
           lost == [tries[s] EXCEPT !.state = "no_binary"]
<1>3. RunTimeout(s) <= subs[s].policy.run
  <2>1. Valid(subs[s].at) /\ subs[s].request.run \in Nat \cup {Nothing}
    BY <1>2, RequestAssumption DEF RowOK, Row
  <2>2. subs[s].policy.run \in Nat
    BY <1>2, <2>1, PolicyTimeout DEF RowOK
  <2> QED
    BY <2>1, <2>2 DEF RunTimeout
<1>4. [tries[s] EXCEPT !.state = "launched", !.run = RunTimeout(s)] = launched
  <2> DEFINE t == tries[s]
  <2>1. t = [state |-> t.state, route |-> t.route, adapter |-> t.adapter,
             source |-> t.source, run |-> t.run, model |-> t.model]
    BY <1>2 DEF TryOK
  <2> HIDE DEF t
  <2>2. PICK state, route, adapter, source, run, model :
          t = [state |-> state, route |-> route, adapter |-> adapter,
               source |-> source, run |-> run, model |-> model]
    BY <2>1
  <2>3. [t EXCEPT !.state = "launched", !.run = RunTimeout(s)]
        = [state |-> "launched", route |-> route, adapter |-> adapter,
           source |-> source, run |-> RunTimeout(s), model |-> model]
    <3>1. [t EXCEPT !.state = "launched", !.run = RunTimeout(s)]
          = [[t EXCEPT !.state = "launched"] EXCEPT !.run = RunTimeout(s)]
      BY ONLY <2>2
    <3>2. [t EXCEPT !.state = "launched"]
          = [state |-> "launched", route |-> route, adapter |-> adapter,
             source |-> source, run |-> run, model |-> model]
      BY <2>2
    <3>3. [[state |-> "launched", route |-> route, adapter |-> adapter,
            source |-> source, run |-> run, model |-> model]
              EXCEPT !.run = RunTimeout(s)]
          = [state |-> "launched", route |-> route, adapter |-> adapter,
             source |-> source, run |-> RunTimeout(s), model |-> model]
      OBVIOUS
    <3> QED
      BY <3>1, <3>2, <3>3
  <2>4. t.route = route /\ t.adapter = adapter /\ t.source = source /\ t.model = model
    BY <2>2
  <2> QED
    BY <2>3, <2>4 DEF t
<1>5. TryOK(subs[s], launched)
  BY <1>2, <1>3 DEF TryOK, Allowed, RowOK
<1>6. TryOK(subs[s], lost)
  BY <1>2 DEF TryOK, Allowed
<1> HIDE DEF launched, lost
<1>7. \E try \in {launched, lost} : tries' = [tries EXCEPT ![s] = try]
  BY <1>4 DEF Launch, launched, lost
<1> QED
  BY <1>1, <1>2, <1>5, <1>6, <1>7 DEF RoutingInv

LEMMA RoutingHolds == Spec => []RoutingInv
<1>1. RoutingInv /\ [Next]_vars => RoutingInv'
  <2> SUFFICES ASSUME RoutingInv, [Next]_vars PROVE RoutingInv'
    OBVIOUS
  <2>1. CASE UNCHANGED vars
    BY <2>1 DEF vars, RoutingInv
  <2>2. CASE Reconfigure
    BY <2>2, ReconfigurePreserves
  <2>3. ASSUME NEW s \in Submission, NEW r \in Request, Create(s, r) PROVE RoutingInv'
    BY <2>3, CreatePreserves
  <2>4. ASSUME NEW s \in Submission, Dispatch(s) PROVE RoutingInv'
    BY <2>4, DispatchPreserves
  <2>5. ASSUME NEW s \in Submission, Blocked(s) PROVE RoutingInv'
    BY <2>5, BlockedPreserves
  <2>6. ASSUME NEW s \in Submission, Launch(s) PROVE RoutingInv'
    BY <2>6, LaunchPreserves
  <2> QED
    BY <2>1, <2>2, <2>3, <2>4, <2>5, <2>6 DEF Next
<1> QED
  BY InitRouting, <1>1, PTL DEF Spec

(***************************************************************************)
(* Whatever configuration the daemon comes back with, an attempt stays     *)
(* within what its submission was allowed when it was accepted.            *)
(***************************************************************************)
THEOREM BoundariesFrozen == Spec => []FrozenBoundary
<1>1. RoutingInv => FrozenBoundary
  BY DEF RoutingInv, FrozenBoundary, TryOK
<1> QED
  BY RoutingHolds, <1>1, PTL

-----------------------------------------------------------------------------
(* What validation finds. *)

(* Among finitely many rows with versions, some row has the greatest one.  *)
(* By the least number of rows for which none has.                         *)
LEMMA GreatestVersion ==
  ASSUME NEW rows, IsFiniteSet(rows), rows # {},
         \A row \in rows : row.version \in Nat
  PROVE  \E row \in rows : \A other \in rows : other.version <= row.version
<1> DEFINE Greatest(V) == \E row \in V : \A other \in V : other.version <= row.version
           Wrong == {n \in Nat : \E V \in SUBSET rows :
                                   V # {} /\ Cardinality(V) = n /\ ~Greatest(V)}
<1>1. SUFFICES ASSUME ~Greatest(rows)  PROVE FALSE
  OBVIOUS
<1>2. Cardinality(rows) \in Wrong
  BY <1>1, FS_CardinalityType
<1>3. PICK n \in Wrong : \A m \in Wrong : <<m, n>> \notin OpToRel(<, Nat)
  <2>1. Wrong \subseteq Nat /\ Wrong # {}
    BY <1>2
  <2> HIDE DEF Wrong
  <2> QED  BY <2>1, NatLessThanWellFounded, WFMin
<1>4. PICK V \in SUBSET rows : V # {} /\ Cardinality(V) = n /\ ~Greatest(V)
  BY <1>3
<1>5. PICK x \in V : TRUE
  BY <1>4
<1> DEFINE W == V \ {x}
<1>6. IsFiniteSet(V) /\ IsFiniteSet(W) /\ Cardinality(W) = n - 1 /\ n \in Nat
  BY <1>3, <1>4, FS_Subset, FS_RemoveElement
<1>7. \A row \in V : row.version \in Nat
  BY <1>4
<1>8. CASE W = {}
  <2>1. \A other \in V : other = x
    BY <1>8
  <2> QED  BY <1>4, <1>7, <2>1
<1>9. CASE W # {} /\ Greatest(W)
  <2>1. PICK m \in W : \A other \in W : other.version <= m.version
    BY <1>9
  <2>2. m.version \in Nat /\ x.version \in Nat /\ m \in V
    BY <1>7
  <2>3. CASE x.version <= m.version
    <3>1. \A other \in V : other.version <= m.version
      BY <2>1, <2>3
    <3> QED  BY <1>4, <2>2, <3>1
  <2>4. CASE ~(x.version <= m.version)
    <3>1. \A other \in V : other.version <= x.version
      BY <1>7, <2>1, <2>2, <2>4
    <3> QED  BY <1>4, <3>1
  <2> QED  BY <2>3, <2>4
<1>10. CASE W # {} /\ ~Greatest(W)
  <2>1. n - 1 \in Nat
    BY <1>6, FS_CardinalityType
  <2>2. n - 1 \in Wrong
    BY <1>6, <1>10, <2>1
  <2>3. n - 1 < n
    BY <2>1
  <2> QED  BY <1>3, <1>6, <2>1, <2>2, <2>3 DEF OpToRel
<1> QED  BY <1>8, <1>9, <1>10

(* The latest version of an id that is there is found. *)
LEMMA LatestFound ==
  ASSUME NEW rows, IsFiniteSet(rows), \A row \in rows : row.version \in Nat,
         NEW id \in Ids(rows)
  PROVE  Find(rows, id, Nothing) # {}
<1> DEFINE same == {row \in rows : row.id = id}
<1>1. same # {} /\ IsFiniteSet(same) /\ \A row \in same : row.version \in Nat
  BY FS_Subset DEF Ids
<1>2. PICK row \in same : \A other \in same : other.version <= row.version
  BY <1>1, GreatestVersion
<1>3. row \in Find(rows, id, Nothing)
  BY <1>2 DEF Find
<1> QED  BY <1>3
(* In a finite set of naturals every rank is taken: otherwise two elements *)
(* had the same one.                                                       *)
LEMMA RankTaken ==
  ASSUME NEW S \in SUBSET Nat, IsFiniteSet(S), NEW k \in 1..Cardinality(S)
  PROVE  \E i \in S : Cardinality({j \in S : j <= i}) = k
<1> DEFINE upto(i) == {j \in S : j <= i}
           n == Cardinality(S)
           T == (1..n) \ {k}
           f == [i \in S |-> Cardinality(upto(i))]
<1>1. SUFFICES ASSUME \A i \in S : Cardinality(upto(i)) # k  PROVE FALSE
  OBVIOUS
<1>2. n \in Nat /\ IsFiniteSet(T) /\ Cardinality(T) = n - 1
  <2>1. n \in Nat
    BY FS_CardinalityType
  <2>2. IsFiniteSet(1..n) /\ Cardinality(1..n) = n
    BY <2>1, FS_Interval
  <2>3. IsFiniteSet((1..n) \ {k}) /\ Cardinality((1..n) \ {k}) = Cardinality(1..n) - 1
    <3>1. k \in 1..n
      OBVIOUS
    <3> HIDE DEF n
    <3> QED  BY <2>2, <3>1, FS_RemoveElement
  <2> QED  BY <2>1, <2>2, <2>3
<1>3. \A i \in S : IsFiniteSet(upto(i)) /\ Cardinality(upto(i)) \in 1..n
  <2> SUFFICES ASSUME NEW i \in S  PROVE IsFiniteSet(upto(i)) /\ Cardinality(upto(i)) \in 1..n
    OBVIOUS
  <2>1. upto(i) \in SUBSET S /\ i \in upto(i)
    OBVIOUS
  <2>2. IsFiniteSet(upto(i)) /\ Cardinality(upto(i)) <= n /\ Cardinality(upto(i)) \in Nat
    BY <2>1, FS_Subset, FS_CardinalityType
  <2>3. Cardinality(upto(i)) # 0
    BY <2>1, <2>2, FS_EmptySet
  <2> QED  BY <1>2, <2>2, <2>3
<1>4. f \in [S -> T]
  BY <1>1, <1>3
<1>5. PICK x \in S, y \in S : x # y /\ f[x] = f[y]
  <2>1. Cardinality(T) < Cardinality(S)
    BY <1>2
  <2> HIDE DEF f, T
  <2> QED  BY <1>2, <1>4, <2>1, FS_PigeonHole
<1>6. Cardinality(upto(x)) = Cardinality(upto(y))
  BY <1>5
<1>7. ASSUME NEW a \in S, NEW b \in S, a < b, Cardinality(upto(a)) = Cardinality(upto(b))
      PROVE  FALSE
  <2>0. a \in Nat /\ b \in Nat /\ \A j \in S : j \in Nat /\ (j <= a => j <= b)
    BY <1>7
  <2>1. b \in upto(b) /\ b \notin upto(a)
    BY <1>7, <2>0
  <2>2. upto(a) \in SUBSET upto(b)
    BY <2>0
  <2>3. IsFiniteSet(upto(b)) /\ Cardinality(upto(a)) = Cardinality(upto(b))
    BY <1>3, <1>7
  <2>4. upto(a) = upto(b)
    <3> HIDE DEF upto
    <3> QED  BY <2>2, <2>3, FS_Subset
  <2> QED  BY <2>1, <2>4
<1> QED  BY <1>5, <1>6, <1>7

(* The list of ids a request leaves to choose from is finite. *)
LEMMA RouteIdsFinite ==
  ASSUME NEW c \in Config, NEW r \in Request
  PROVE  DOMAIN RouteIds(c, r) \in SUBSET Nat /\ IsFiniteSet(DOMAIN RouteIds(c, r))
<1>1. \E n \in Nat : DOMAIN RouteIds(c, r) = 1..n
  <2>1. CASE r.routes # Nothing
    <3>1. r.routes \in Seq(Listed(r.routes))
      BY <2>1, RequestAssumption
    <3>2. DOMAIN r.routes = 1..Len(r.routes) /\ Len(r.routes) \in Nat
      BY <3>1
    <3> QED  BY <2>1, <3>2 DEF RouteIds
  <2>2. CASE r.routes = Nothing /\ (r.adapter # Nothing \/ r.model # Nothing)
    <3>1. c.routes \in Seq(Listed(c.routes))
      BY ConfigAssumption
    <3>2. DOMAIN c.routes = 1..Len(c.routes) /\ Len(c.routes) \in Nat
      BY <3>1
    <3> QED  BY <2>2, <3>2 DEF RouteIds
  <2>3. CASE r.routes = Nothing /\ r.adapter = Nothing /\ r.model = Nothing
    BY <2>3 DEF RouteIds
  <2> QED  BY <2>1, <2>2, <2>3
<1> QED  BY <1>1, FS_Interval

(* What Usable lists are routes of the configuration. *)
LEMMA UsableListed ==
  ASSUME NEW c \in Config, NEW r \in Request, NEW k \in DOMAIN Usable(c, r)
  PROVE  Usable(c, r)[k] \in Listed(c.routes)
<1> DEFINE ids == RouteIds(c, r)
           Matches(i) == { route \in Listed(c.routes) : route.id = ids[i] /\ Fits(r, route) }
           hits == { i \in DOMAIN ids : Matches(i) # {} }
           Rank(i) == Cardinality({ j \in hits : j <= i })
           chosen == CHOOSE i \in hits : Rank(i) = k
<1>1. k \in 1..Cardinality(hits)
  BY DEF Usable
<1>2. Usable(c, r)[k] = CHOOSE route \in Matches(chosen) : TRUE
  BY <1>1 DEF Usable
<1>3. hits \in SUBSET Nat /\ IsFiniteSet(hits)
  BY RouteIdsFinite, FS_Subset
<1>4. \E i \in hits : Rank(i) = k
  <2> HIDE DEF hits
  <2> QED  BY <1>1, <1>3, RankTaken
<1>5. chosen \in hits
  <2> HIDE DEF hits, Rank
  <2> QED  BY <1>4
<1>6. Matches(chosen) # {}
  <2> HIDE DEF chosen, Matches
  <2> QED  BY <1>5
<1>7. (CHOOSE route \in Matches(chosen) : TRUE) \in Matches(chosen)
  <2> HIDE DEF Matches, chosen
  <2> QED  BY <1>6
<1> QED  BY <1>2, <1>7

(* The default route of a valid configuration suits a plain request. *)
LEMMA PlainUsable ==
  ASSUME NEW c \in Config, Valid(c), NEW r \in Request, Plain(r)
  PROVE  Usable(c, r) # << >>
<1> DEFINE ids == RouteIds(c, r)
           Matches(i) == { route \in Listed(c.routes) : route.id = ids[i] /\ Fits(r, route) }
           hits == { i \in DOMAIN ids : Matches(i) # {} }
<1>1. ids = << c.defaults.route >>
  BY DEF Plain, RouteIds
<1>2. PICK route \in Listed(c.routes) : route.id = c.defaults.route
  BY DEF Valid, Ids
<1>3. Fits(r, route)
  BY DEF Fits, Plain
<1>4. 1 \in hits
  BY <1>1, <1>2, <1>3
<1>5. IsFiniteSet(hits) /\ Cardinality(hits) \in Nat /\ Cardinality(hits) # 0
  <2>1. IsFiniteSet(hits)
    BY RouteIdsFinite, FS_Subset
  <2> HIDE DEF hits
  <2> QED  BY <1>4, <2>1, FS_CardinalityType, FS_EmptySet
<1>6. DOMAIN Usable(c, r) = 1..Cardinality(hits)
  BY DEF Usable
<1>7. 1 \in DOMAIN Usable(c, r)
  BY <1>5, <1>6
<1> QED  BY <1>7

(* A valid configuration accepts every request that leaves all to it. *)
LEMMA PlainAccepted ==
  ASSUME NEW c \in Config, Valid(c), NEW r \in Request, Plain(r)
  PROVE  Acceptable(c, r)
<1>1. /\ IsFiniteSet(c.profiles) /\ \A row \in c.profiles : row.version \in Nat
      /\ IsFiniteSet(c.policies) /\ \A row \in c.policies : row.version \in Nat
  BY ConfigAssumption
<1>2. Profiles(c, r) # {}
  BY <1>1, LatestFound DEF Profiles, Select, Plain, Valid
<1>3. Policies(c, r) # {}
  BY <1>1, LatestFound DEF Policies, Select, Plain, Valid
<1>4. SelectorOK(r) /\ WorkspaceOK(c, r)
  BY DEF SelectorOK, WorkspaceOK, Plain
<1> QED  BY <1>2, <1>3, <1>4, PlainUsable DEF Acceptable

(***************************************************************************)
(* What is validated once is enough later: a plain request is accepted, no *)
(* queued submission lacks a route, and an attempt misses its binary only  *)
(* if the configuration has changed since its submission was accepted.     *)
(***************************************************************************)
THEOREM ValidationSuffices == Spec => []ValidatedIsEnough
<1>1. RoutingInv => ValidatedIsEnough
  <2> SUFFICES ASSUME RoutingInv  PROVE ValidatedIsEnough
    OBVIOUS
  <2>1. config \in Config /\ Valid(config)
    BY DEF RoutingInv
  <2>2. \A r \in Request : Plain(r) => Acceptable(config, r)
    BY <2>1, PlainAccepted
  <2>3. ASSUME NEW s \in Submission, subs[s] # Nothing
        PROVE  subs[s].blocker # "route_unsatisfied"
    BY <2>3 DEF RoutingInv, RowOK
  <2>4. ASSUME NEW s \in Submission, subs[s] # Nothing, tries[s] # Nothing,
               config = subs[s].at
        PROVE  HasBinary(config, tries[s].adapter)
    <3>1. subs[s].request \in Request /\ Allowed(subs[s], tries[s])
      BY <2>4 DEF RoutingInv, RowOK, Row, TryOK
    <3>2. PICK i \in DOMAIN Usable(config, subs[s].request) :
            tries[s].adapter = Usable(config, subs[s].request)[i].adapter
      BY <2>4, <3>1 DEF Allowed
    <3>3. Usable(config, subs[s].request)[i] \in Listed(config.routes)
      BY <2>1, <3>1, <3>2, UsableListed
    <3>4. \A route \in Listed(config.routes) : HasBinary(config, route.adapter)
      BY <2>1 DEF Valid, RouteOK, Listed
    <3> QED  BY <3>2, <3>3, <3>4
  <2> QED  BY <2>2, <2>3, <2>4 DEF ValidatedIsEnough
<1> QED
  BY RoutingHolds, <1>1, PTL
=============================================================================
