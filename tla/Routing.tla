------------------------------- MODULE Routing -------------------------------
(***************************************************************************)
(* What a submission may run as.  A configuration is validated when the    *)
(* daemon starts (config.rs), a request against it when it is accepted     *)
(* (validate_request of api.rs); the profile, policy and routes found are  *)
(* stored with the submission.  The daemon may be restarted with another   *)
(* configuration before the submission is dispatched (select_dispatch) and *)
(* its attempt is started (run_attempt).                                   *)
(*                                                                         *)
(* Whether a source has a free slot is the subject of Admission; here it   *)
(* may or may not.                                                         *)
(***************************************************************************)
EXTENDS Naturals, Sequences, FiniteSets

CONSTANTS
  Config,      \* configurations an administrator may write
  Request,     \* requests a client may send, of the kinds v0.1 offers
  Submission,
  Nothing

VARIABLES
  config,   \* the configuration the daemon runs with
  subs,     \* [Submission -> row, or Nothing]
  tries     \* [Submission -> attempt, or Nothing]

vars == <<config, subs, tries>>

Ids(rows) == { row.id : row \in rows }

Listed(q) == { q[i] : i \in DOMAIN q }

(* Rows are finitely many and carry versions, lists are Vecs. *)
ASSUME ConfigAssumption == \A c \in Config :
  /\ c.routes \in Seq(Listed(c.routes))
  /\ \A rows \in {c.profiles, c.policies} :
       IsFiniteSet(rows) /\ \A row \in rows : row.version \in Nat

(* The limit of a request is a number of seconds, if there is one. *)
ASSUME RequestAssumption == \A r \in Request :
  /\ r.routes = Nothing \/ r.routes \in Seq(Listed(r.routes))
  /\ r.run \in Nat \cup {Nothing}

(* The None of an Option is no reason to wait. *)
ASSUME NothingAssumption == Nothing # "route_unsatisfied"

-----------------------------------------------------------------------------
(* config.rs *)

(* agent_binary: the entry of the adapter, or the legacy OpenCode fields. *)
HasBinary(c, adapter) ==
  adapter \in c.binaries \/ (adapter = "opencode" /\ c.legacy)

(* Fault: only the adapter of the default route needs its binary. *)
RouteOKBug(c, route) ==
  /\ route.id = c.defaults.route => HasBinary(c, route.adapter)
  /\ route.sources # << >> /\ Listed(route.sources) \subseteq c.sources

RouteOK(c, route) ==
  /\ HasBinary(c, route.adapter)
  /\ route.sources # << >> /\ Listed(route.sources) \subseteq c.sources

(* Config::validate.  The rows of a source are checked in Capacity; a binary
   is one whose paths and digests are well formed. *)
Valid(c) ==
  /\ c.sources # {} /\ c.routes # << >> /\ c.roots # {}
  /\ c.defaults.profile \in Ids(c.profiles)
  /\ c.defaults.policy \in Ids(c.policies)
  /\ c.defaults.route \in Ids(Listed(c.routes))
  /\ \A i, j \in DOMAIN c.routes : c.routes[i].id = c.routes[j].id => i = j
  /\ \A i \in DOMAIN c.routes : RouteOK(c, c.routes[i])
  /\ \A policy \in c.policies : policy.run \in Nat \ {0}
  /\ \A rows \in {c.profiles, c.policies} : \A row, other \in rows :
       row.id = other.id /\ row.version = other.version => row = other

(* profile() and policy(): the version asked for, or the greatest one.
   Versions are compared as strings; here they are numbered in that order. *)
Find(rows, id, version) ==
  { row \in rows :
      /\ row.id = id
      /\ IF version = Nothing
         THEN \A other \in rows : other.id = id => other.version <= row.version
         ELSE row.version = version }

-----------------------------------------------------------------------------
(* validate_request of api.rs *)

RouteIds(c, r) ==
  IF r.routes # Nothing THEN r.routes
  ELSE IF r.adapter # Nothing \/ r.model # Nothing
  THEN [i \in DOMAIN c.routes |-> c.routes[i].id]
  ELSE << c.defaults.route >>

Fits(r, route) ==
  /\ r.adapter \in {Nothing, route.adapter}
  /\ r.model = Nothing \/ route.model \in {Nothing, r.model}

(* The routes of these ids that fit, in this order. *)
Usable(c, r) ==
  LET ids == RouteIds(c, r)
      Matches(i) == { route \in Listed(c.routes) : route.id = ids[i] /\ Fits(r, route) }
      hits == { i \in DOMAIN ids : Matches(i) # {} }
      Rank(i) == Cardinality({ j \in hits : j <= i })
  IN [k \in 1..Cardinality(hits) |->
        CHOOSE route \in Matches(CHOOSE i \in hits : Rank(i) = k) : TRUE]

(* The default, in its latest version, or the one the request names. *)
Select(rows, default, ref) ==
  IF ref = Nothing THEN Find(rows, default, Nothing) ELSE Find(rows, ref.id, ref.version)

Profiles(c, r) == Select(c.profiles, c.defaults.profile, r.profile)

Policies(c, r) == Select(c.policies, c.defaults.policy, r.policy)

(* validate_nonempty_unique *)
SelectorOK(r) ==
  r.routes # Nothing =>
    /\ r.routes # << >>
    /\ \A i, j \in DOMAIN r.routes : r.routes[i] = r.routes[j] => i = j

(* validate_workspace, and the conflict with read_only side effects. *)
WorkspaceOK(c, r) ==
  r.root # Nothing =>
    /\ \E root \in c.roots : root.id = r.root /\ (r.writable => root.writable)
    /\ ~(r.writable /\ r.read_only)

Acceptable(c, r) ==
  /\ Profiles(c, r) # {} /\ Policies(c, r) # {}
  /\ SelectorOK(r)
  /\ Usable(c, r) # << >>
  /\ WorkspaceOK(c, r)

-----------------------------------------------------------------------------

Init ==
  /\ config \in { c \in Config : Valid(c) }
  /\ subs = [s \in Submission |-> Nothing]
  /\ tries = [s \in Submission |-> Nothing]

(* create_submission.  at is history: the configuration of the time. *)
Create(s, r) ==
  /\ subs[s] = Nothing /\ Acceptable(config, r)
  /\ \E profile \in Profiles(config, r), policy \in Policies(config, r) :
       subs' = [subs EXCEPT ![s] =
                  [request |-> r, profile |-> profile, policy |-> policy,
                   routes |-> Usable(config, r), blocker |-> Nothing, at |-> config]]
  /\ UNCHANGED <<config, tries>>

(* The daemon comes back with another configuration.  Recovery declares what
   runs uncertain; how an attempt ends otherwise is left to Daemon. *)
Reconfigure ==
  /\ config' \in { c \in Config : Valid(c) }
  /\ tries' = [s \in Submission |->
                 IF tries[s] = Nothing THEN Nothing
                 ELSE IF tries[s].state \in {"claimed", "launched"}
                 THEN [tries[s] EXCEPT !.state = "uncertain"] ELSE tries[s]]
  /\ UNCHANGED subs

Queued(s) == subs[s] # Nothing /\ tries[s] = Nothing

(* A source of a frozen route that the configuration still has. *)
Known(src) == src \in config.sources

(* Fault: the route is looked up again under its id. *)
FrozenBug(s) ==
  [i \in DOMAIN subs[s].routes |->
     LET same == { route \in Listed(config.routes) : route.id = subs[s].routes[i].id }
     IN IF same = {} THEN subs[s].routes[i] ELSE CHOOSE route \in same : TRUE]

Frozen(s) == subs[s].routes

(* select_dispatch and claim: the first free source in route order. *)
Dispatch(s) ==
  /\ Queued(s)
  /\ \E free \in SUBSET config.sources : \E i \in DOMAIN Frozen(s) :
       LET route == Frozen(s)[i]
           r == subs[s].request
       IN \E j \in DOMAIN route.sources :
            /\ route.sources[j] \in free
            /\ \A k \in 1..(j-1) : route.sources[k] \notin free
            /\ \A k \in 1..(i-1) : Listed(Frozen(s)[k].sources) \cap free = {}
            /\ tries' = [tries EXCEPT ![s] =
                 [state |-> "claimed", route |-> route.id, adapter |-> route.adapter,
                  source |-> route.sources[j], run |-> 0,
                  model |-> IF r.model # Nothing THEN r.model ELSE route.model]]
  /\ UNCHANGED <<config, subs>>

(* select_dispatch finds no slot: set_blocker. *)
Blocked(s) ==
  /\ Queued(s)
  /\ \E blocker \in
       IF Frozen(s) = << >> THEN {"route_unsatisfied"}
       ELSE IF \E i \in DOMAIN Frozen(s) :
                 \E src \in Listed(Frozen(s)[i].sources) : ~Known(src)
       THEN {"capacity_unknown"} ELSE {"capacity_unknown", "capacity_unavailable"} :
       subs' = [subs EXCEPT ![s].blocker = blocker]
  /\ UNCHANGED <<config, tries>>

(* The limit of the request cannot exceed that of its policy. *)
RunTimeout(s) ==
  LET asked == subs[s].request.run
      most == subs[s].policy.run
  IN IF asked = Nothing \/ asked > most THEN most ELSE asked

(* run_attempt: the binary is looked up in the configuration of the day;
   without it the attempt is given up as uncertain. *)
Launch(s) ==
  /\ tries[s] # Nothing /\ tries[s].state = "claimed"
  /\ tries' = [tries EXCEPT ![s] =
       IF HasBinary(config, @.adapter)
       THEN [@ EXCEPT !.state = "launched", !.run = RunTimeout(s)]
       ELSE [@ EXCEPT !.state = "no_binary"]]
  /\ UNCHANGED <<config, subs>>

Next ==
  \/ Reconfigure
  \/ \E s \in Submission :
       \/ \E r \in Request : Create(s, r)
       \/ Dispatch(s) \/ Blocked(s) \/ Launch(s)

Spec == Init /\ [][Next]_vars

-----------------------------------------------------------------------------
(* Properties. *)

(* An attempt runs as a row allowed when it was accepted. *)
Allowed(row, try) ==
  /\ \E i \in DOMAIN Usable(row.at, row.request) :
       LET route == Usable(row.at, row.request)[i]
       IN /\ try.route = route.id /\ try.adapter = route.adapter
          /\ try.source \in Listed(route.sources)
          /\ try.model = IF row.request.model # Nothing THEN row.request.model
                         ELSE route.model
  /\ \E policy \in Policies(row.at, row.request) : try.run <= policy.run

(***************************************************************************)
(* Configuration changes do not move the boundaries of an accepted         *)
(* submission (submission-api.md section 3): whatever configuration the    *)
(* daemon came back with, an attempt uses a route, adapter, model, source  *)
(* and run timeout that its request was allowed when it was accepted.      *)
(***************************************************************************)
FrozenBoundary ==
  \A s \in Submission : tries[s] # Nothing => subs[s] # Nothing /\ Allowed(subs[s], tries[s])

(* A request that leaves everything to the configuration. *)
Plain(r) ==
  /\ r.profile = Nothing /\ r.policy = Nothing /\ r.routes = Nothing
  /\ r.adapter = Nothing /\ r.model = Nothing /\ r.root = Nothing

(***************************************************************************)
(* What is validated once is enough later: a configuration the daemon      *)
(* starts with accepts every plain request, a queued submission never      *)
(* lacks a route, and an attempt misses its binary only if the             *)
(* configuration has changed since its submission was accepted.            *)
(***************************************************************************)
ValidatedIsEnough ==
  /\ \A r \in Request : Plain(r) => Acceptable(config, r)
  /\ \A s \in Submission : subs[s] # Nothing =>
       /\ subs[s].blocker # "route_unsatisfied"
       /\ tries[s] # Nothing /\ tries[s].state = "claimed" /\ config = subs[s].at
            => HasBinary(config, tries[s].adapter)
=============================================================================
