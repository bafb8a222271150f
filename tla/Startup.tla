------------------------------- MODULE Startup -------------------------------
(***************************************************************************)
(* Daemon processes that start and end beside each other on one            *)
(* configuration (crates/service/src/lib.rs), and setup commands that      *)
(* install the runtime binary (ensure_binary of the runtime): who holds    *)
(* the lock file, who owns the socket path, whose scheduler acts on the    *)
(* database.  Daemon models what one such process does in between.         *)
(***************************************************************************)
CONSTANTS
  Process,    \* daemon processes, a new one for each start
  Installer,  \* processes of eyes init
  Attempt,
  None

VARIABLES
  pc,      \* [Process -> phase of run()]
  lock,    \* process that holds the lock on the lock file, or None
  sock,    \* process that bound the socket path last, or None
  sched,   \* [Process -> "off", "recover" or "run"]  its scheduler task
  runs,    \* [Attempt -> [state, by]]  rows of attempts
  file,    \* runtime binary at its destination: "absent", "good" or "bad"
  part     \* [Installer -> its partial download]

vars == <<pc, lock, sock, sched, runs, file, part>>

Init ==
  /\ pc = [p \in Process |-> "new"]
  /\ lock = None /\ sock = None
  /\ sched = [p \in Process |-> "off"]
  /\ runs = [a \in Attempt |-> [state |-> "none", by |-> None]]
  /\ file = "absent"
  /\ part = [i \in Installer |-> "none"]

Goto(p, from, to) == pc[p] \in from /\ pc' = [pc EXCEPT ![p] = to]

Scheduler(p, s) == sched' = [sched EXCEPT ![p] = s]

-----------------------------------------------------------------------------
(* ensure_binary with downloads allowed.  The partial file has a name of its
   own, so concurrent and interrupted downloads do not meet. *)

Download(i) ==
  /\ part[i] = "none" /\ file = "absent"
  /\ \E content \in {"good", "bad"} : part' = [part EXCEPT ![i] = content]
  /\ UNCHANGED <<pc, lock, sock, sched, runs, file>>

(* Fault: the digest is checked where the file has been installed. *)
VerifiedBug(i) == part[i] # "none"

Verified(i) == part[i] = "good"

Install(i) ==
  /\ Verified(i)
  /\ file' = part[i] /\ part' = [part EXCEPT ![i] = "none"]
  /\ UNCHANGED <<pc, lock, sock, sched, runs>>

(* A failed check removes the partial file, a crash leaves it where nobody
   looks. *)
GiveUp(i) ==
  /\ part[i] # "none" /\ part' = [part EXCEPT ![i] = "none"]
  /\ UNCHANGED <<pc, lock, sock, sched, runs, file>>

-----------------------------------------------------------------------------
(* run(): prepare, lock, open the store, start the scheduler, bind. *)

(* The configuration is valid and the digests match, or the process ends. *)
Prepare(p) ==
  /\ IF file = "good" THEN Goto(p, {"new"}, "prepared") ELSE Goto(p, {"new"}, "gone")
  /\ UNCHANGED <<lock, sock, sched, runs, file, part>>

(* Fault: a held lock is reported and ignored. *)
TryLockBug(p) ==
  /\ Goto(p, {"prepared"}, "locked")
  /\ lock' = p
  /\ UNCHANGED <<sock, sched, runs, file, part>>

(* try_lock_exclusive *)
TryLock(p) ==
  /\ IF lock = None
     THEN lock' = p /\ Goto(p, {"prepared"}, "locked")
     ELSE UNCHANGED lock /\ Goto(p, {"prepared"}, "gone")
  /\ UNCHANGED <<sock, sched, runs, file, part>>

(* Store::open; the scheduler task is spawned before the socket is bound. *)
SpawnScheduler(p) ==
  /\ Goto(p, {"locked"}, "binding") /\ Scheduler(p, "recover")
  /\ UNCHANGED <<lock, sock, runs, file, part>>

Unlink(p) ==
  /\ Goto(p, {"binding"}, "unlinked")
  /\ sock' = None
  /\ UNCHANGED <<lock, sched, runs, file, part>>

Bind(p) ==
  /\ sock = None /\ Goto(p, {"unlinked"}, "serving")
  /\ sock' = p
  /\ UNCHANGED <<lock, sched, runs, file, part>>

(* run() returns: the lock is released with its last local variable.  The
   tasks of the process go on until the Tokio runtime is dropped. *)
Return(p, from) ==
  /\ Goto(p, from, "returned")
  /\ lock' = IF lock = p THEN None ELSE lock
  /\ UNCHANGED <<sock, runs, file, part>>

(* The path is not a socket, or is taken; later, accept() fails. *)
BindOrAcceptFails(p) ==
  Return(p, {"binding", "unlinked", "serving"}) /\ UNCHANGED sched

(* Fault: the lock is released as soon as nobody can connect any more. *)
InterruptBug(p) ==
  /\ Goto(p, {"serving"}, "draining")
  /\ lock' = None
  /\ UNCHANGED <<sock, sched, runs, file, part>>

(* SIGINT: no connection is accepted any more. *)
Interrupt(p) ==
  /\ Goto(p, {"serving"}, "draining")
  /\ UNCHANGED <<lock, sock, sched, runs, file, part>>

Drives(p, a) == runs[a].by = p /\ runs[a].state = "running"

(* The scheduler stops once its attempts have ended. *)
SchedulerStops(p) ==
  /\ pc[p] \in {"draining", "returned"} /\ sched[p] = "run"
  /\ \A a \in Attempt : ~Drives(p, a)
  /\ Scheduler(p, "off")
  /\ UNCHANGED <<pc, lock, sock, runs, file, part>>

(* An error ends it at once and aborts its attempts. *)
SchedulerErrs(p) ==
  /\ sched[p] # "off" /\ Scheduler(p, "off")
  /\ UNCHANGED <<pc, lock, sock, runs, file, part>>

(* The end of the scheduler ends run(), expected or not. *)
SchedulerEnded(p) ==
  sched[p] = "off" /\ Return(p, {"serving", "draining"}) /\ UNCHANGED sched

(* main() returns and drops the runtime, or the process is killed. *)
Dies(p) ==
  /\ pc[p] \notin {"new", "gone"} /\ pc' = [pc EXCEPT ![p] = "gone"]
  /\ lock' = IF lock = p THEN None ELSE lock
  /\ Scheduler(p, "off")
  /\ UNCHANGED <<sock, runs, file, part>>

-----------------------------------------------------------------------------
(* The scheduler task. *)

Recover(p) ==
  /\ sched[p] = "recover" /\ Scheduler(p, "run")
  /\ runs' = [a \in Attempt |->
                IF runs[a].state = "running" THEN [runs[a] EXCEPT !.state = "uncertain"]
                ELSE runs[a]]
  /\ UNCHANGED <<pc, lock, sock, file, part>>

Claim(p, a) ==
  /\ sched[p] = "run" /\ runs[a].state = "none"
  /\ runs' = [runs EXCEPT ![a] = [state |-> "running", by |-> p]]
  /\ UNCHANGED <<pc, lock, sock, sched, file, part>>

(* An attempt task finishes its attempt. *)
Finish(p, a) ==
  /\ sched[p] = "run" /\ Drives(p, a)
  /\ runs' = [runs EXCEPT ![a].state = "ended"]
  /\ UNCHANGED <<pc, lock, sock, sched, file, part>>

-----------------------------------------------------------------------------

Next ==
  \/ \E i \in Installer : Download(i) \/ Install(i) \/ GiveUp(i)
  \/ \E p \in Process :
       \/ Prepare(p) \/ TryLock(p) \/ SpawnScheduler(p) \/ Unlink(p) \/ Bind(p)
       \/ BindOrAcceptFails(p) \/ Interrupt(p) \/ SchedulerStops(p)
       \/ SchedulerErrs(p) \/ SchedulerEnded(p) \/ Dies(p) \/ Recover(p)
       \/ \E a \in Attempt : Claim(p, a) \/ Finish(p, a)

Spec == Init /\ [][Next]_vars

-----------------------------------------------------------------------------
(* Properties. *)

InCharge(p) == pc[p] \in {"locked", "binding", "unlinked", "serving", "draining"}

(***************************************************************************)
(* A daemon that serves is the one clients reach: no other process has     *)
(* taken the socket path or the lock from under it, and the runtime binary *)
(* its attempts start has been verified.                                   *)
(***************************************************************************)
ServingOwns ==
  \A p \in Process : pc[p] = "serving" => sock = p /\ lock = p /\ file = "good"

(***************************************************************************)
(* Only one daemon is in authority (architecture.md section 1): the        *)
(* recovery of a daemon in charge declares a run uncertain only when the   *)
(* process that drives it has left run() or is gone, even when a second    *)
(* daemon is started while the first one serves, drains or fails.          *)
(* Not covered: the scheduler task of a process that has left run()        *)
(* because it could not bind may still recover, until its runtime is       *)
(* dropped.                                                                *)
(***************************************************************************)
RecoverySparesTheLiving ==
  [][\A p \in Process, a \in Attempt :
       /\ InCharge(p) /\ sched[p] = "recover"
       /\ runs[a].state = "running" /\ runs'[a].state = "uncertain"
       => ~InCharge(runs[a].by)]_vars
=============================================================================
