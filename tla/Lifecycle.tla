----------------------------- MODULE Lifecycle -----------------------------
(***************************************************************************)
(* What the service promises about one submission (docs/submission-api.md, *)
(* "allowed transitions" and "cancellation and uncertain"), with nothing   *)
(* of how it is stored or scheduled:                                       *)
(*                                                                         *)
(*   queued  -> running | cancelled | expired                              *)
(*   running -> completed | failed | cancelled | uncertain                 *)
(*                                                                         *)
(* A submission takes a slot of a source when it starts and gives it back  *)
(* only with a confirmed end; one whose end is uncertain keeps it.  The    *)
(* documented retry, running -> queued, is not implemented.  The set       *)
(* Predating names the rows of an older schema, the only ones that may be  *)
(* refused out of the queue.                                               *)
(***************************************************************************)
CONSTANTS Submission, Predating

VARIABLES phase, leased

Init ==
  /\ phase = [s \in Submission |-> IF s \in Predating THEN "queued" ELSE "absent"]
  /\ leased = {}

Submit(s) ==
  /\ phase[s] = "absent"
  /\ phase' = [phase EXCEPT ![s] = "queued"]
  /\ UNCHANGED leased

Start(s) ==
  /\ phase[s] = "queued"
  /\ phase' = [phase EXCEPT ![s] = "running"]
  /\ leased' = leased \cup {s}

Drop(s, end) ==
  /\ phase[s] = "queued"
  /\ phase' = [phase EXCEPT ![s] = end]
  /\ UNCHANGED leased

End(s, end) ==
  /\ phase[s] = "running"
  /\ phase' = [phase EXCEPT ![s] = end]
  /\ leased' = IF end = "uncertain" THEN leased ELSE leased \ {s}

Next ==
  \E s \in Submission :
    \/ Submit(s)
    \/ Start(s)
    \/ \E end \in {"cancelled", "expired"} : Drop(s, end)
    \/ s \in Predating /\ Drop(s, "failed")
    \/ \E end \in {"completed", "failed", "cancelled", "uncertain"} : End(s, end)

Spec == Init /\ [][Next]_<<phase, leased>>
=============================================================================
