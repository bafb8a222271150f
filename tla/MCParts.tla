------------------------------ MODULE MCParts ------------------------------
(***************************************************************************)
(* Components whose state spaces are small, each checked on its own: in a  *)
(* behaviour exactly one of them moves.                                    *)
(***************************************************************************)
EXTENDS Capacity, Routing, Output

CONSTANTS Kind, MaxTime, MaxExt, Process, Installer, Attempt

VARIABLES
  part,   \* the component that moves
  pass, own, ext, sample, seen,   \* of Admission
  pc, lock, sock, sched, runs, file, download   \* of Startup

(* Admission: one command source, room for two executions above its reserve. *)
MCLimit == [src \in Source |-> 3]
MCReserve == [src \in Source |-> 1]
MCMonitor == [src \in Source |-> "command"]
MCKind == [src \in Source |-> "external_in_use"]

(* A probe reports usage of one kind; None is neither a kind nor a process. *)
ASSUME PartsAssumption ==
  /\ Kind \in [Source -> UsageKind]
  /\ None \notin UsageKind /\ None \notin Process

A == INSTANCE Admission

OwnWithinLimit == A!OwnWithinLimit

DispatchLeavesReserve == A!DispatchLeavesReserve

SampleAgeBounded == A!SampleAgeBounded

-----------------------------------------------------------------------------
(* Routing: an opencode and a codex route, and what an administrator may
   make of them. *)

Route(id, adapter, model, sources) ==
  [id |-> id, adapter |-> adapter, model |-> model, sources |-> sources]

Base ==
  [sources |-> {"a", "b"},
   routes |-> << Route("r1", "opencode", Nothing, << "a", "b" >>),
                 Route("r2", "codex", "m", << "b" >>) >>,
   roots |-> {[id |-> "w", writable |-> TRUE]},
   profiles |-> {[id |-> "p", version |-> 1]},
   policies |-> {[id |-> "q", version |-> 1, run |-> 2]},
   binaries |-> {"codex"}, legacy |-> TRUE,
   defaults |-> [profile |-> "p", policy |-> "q", route |-> "r1"]]

MCConfig ==
  {Base,
   (* new versions, the source of r1 changes, writing is forbidden *)
   [Base EXCEPT !.policies = @ \cup {[id |-> "q", version |-> 2, run |-> 1]},
                !.profiles = @ \cup {[id |-> "p", version |-> 2]},
                !.routes = << Route("r1", "opencode", "n", << "b" >>) >>,
                !.roots = {[id |-> "w", writable |-> FALSE]}],
   (* codex only: r1 and its source are gone *)
   [Base EXCEPT !.sources = {"b"}, !.legacy = FALSE, !.defaults.route = "r2",
                !.routes = << Route("r2", "codex", "m", << "b" >>) >>],
   (* no binary for r2; no such default; no timeout *)
   [Base EXCEPT !.binaries = {}],
   [Base EXCEPT !.defaults.route = "r3"],
   [Base EXCEPT !.policies = {[id |-> "q", version |-> 1, run |-> 0]}]}

Ask ==
  [profile |-> Nothing, policy |-> Nothing, routes |-> Nothing, adapter |-> Nothing, model |-> Nothing,
   root |-> Nothing, writable |-> FALSE, read_only |-> FALSE, run |-> Nothing]

MCRequest ==
  {Ask,
   [Ask EXCEPT !.adapter = "codex", !.run = 3],
   [Ask EXCEPT !.model = "m", !.run = 1],
   [Ask EXCEPT !.routes = << "r2", "r1" >>],
   [Ask EXCEPT !.policy = [id |-> "q", version |-> 1], !.root = "w", !.writable = TRUE],
   [Ask EXCEPT !.routes = << "r2", "r2" >>]}

-----------------------------------------------------------------------------
(* Startup *)

S == INSTANCE Startup WITH part <- download

ServingOwns == S!ServingOwns

RecoverySparesTheLiving == S!RecoverySparesTheLiving

-----------------------------------------------------------------------------

admissionVars == <<obs, now, pass, own, ext, sample, seen>>

startupVars == <<pc, lock, sock, sched, runs, file, download>>

partsVars == <<part, admissionVars, outputVars, vars, startupVars>>

PartsInit ==
  /\ part \in {"admission", "output", "routing", "startup"}
  /\ A!Init /\ (part # "admission" => \A src \in Source : ext[src] = 0)
  /\ Init /\ (part # "routing" => config = Base)
  /\ OutputInit /\ S!Init

PartsNext ==
  \/ part = "admission" /\ A!Next
     /\ UNCHANGED <<part, outputVars, vars, startupVars>>
  \/ part = "output" /\ OutputNext
     /\ UNCHANGED <<part, admissionVars, vars, startupVars>>
  \/ part = "routing" /\ Next
     /\ UNCHANGED <<part, admissionVars, outputVars, startupVars>>
  \/ part = "startup" /\ S!Next
     /\ UNCHANGED <<part, admissionVars, outputVars, vars>>

PartsSpec == PartsInit /\ [][PartsNext]_partsVars
=============================================================================
