------------------------------ MODULE ClientRun ------------------------------
(***************************************************************************)
(* A client that runs one submission to its end: run() of the TypeScript   *)
(* client and `eyes run`.  Both submit, watch and read the result over     *)
(* EventStream.  run() asks for the status before it watches, and watch()  *)
(* reconnects; its caller runs it again, with its key and the last event   *)
(* it has seen, when a request fails.  `eyes run` opens one stream and     *)
(* takes its end for the end of the submission.                            *)
(***************************************************************************)
EXTENDS EventStream

VARIABLES
  kind,   \* "sdk" or "eyes"
  phase   \* what the client does, or how it ended

runVars == <<vars, kind, phase>>

RunInit == Init /\ kind \in {"sdk", "eyes"} /\ phase = "submit"

-----------------------------------------------------------------------------
(* Requests. *)

(* The first POST creates the submission, and its first event; another one
   with the same key is answered with what is there. *)
Submit ==
  /\ phase = "submit"
  /\ phase' = IF kind = "sdk" THEN "status" ELSE "watch"
  /\ IF committed = 0 THEN Commit("handler", 1) ELSE UNCHANGED vars
  /\ UNCHANGED kind

(* Fault: the status is not looked at. *)
StatusBug ==
  /\ phase = "status"
  /\ phase' = "watch" /\ done' = FALSE
  /\ UNCHANGED <<serverVars, conn, last, next, wire, cursor, seen, breaks, kind>>

(* A terminal submission is not watched: a caller that has seen its last
   event would wait for another one. *)
Status ==
  /\ phase = "status"
  /\ IF committed = Final THEN phase' = "result" /\ UNCHANGED done
     ELSE phase' = "watch" /\ done' = FALSE
  /\ UNCHANGED <<serverVars, conn, last, next, wire, cursor, seen, breaks, kind>>

(* 409 result_not_ready until the submission is terminal. *)
Result ==
  /\ phase = "result"
  /\ phase' = IF committed = Final THEN "returned" ELSE "refused"
  /\ UNCHANGED <<vars, kind>>

(* A request or its answer is lost. *)
RequestLost ==
  /\ phase \in {"submit", "status", "result"}
  /\ breaks < MaxBreaks /\ breaks' = breaks + 1
  /\ phase' = IF kind = "sdk" THEN "submit" ELSE "failed"
  /\ UNCHANGED <<serverVars, conn, last, next, wire, clientVars, kind>>

-----------------------------------------------------------------------------
(* The stream. *)

Watching ==
  /\ phase = "watch" /\ StreamStep
  /\ phase' = IF done' THEN "result" ELSE phase
  /\ UNCHANGED kind

(* An open stream ends with an error or like a complete answer. *)
StreamEnds ==
  /\ Break \/ Crash
  /\ phase' \in IF kind = "eyes" /\ phase = "watch"
                THEN {"failed"} \cup IF conn # "none" THEN {"result"} ELSE {}
                ELSE {phase}
  /\ UNCHANGED kind

(* The others: tasks and handlers that change the submission. *)
Progress ==
  /\ \/ committed > 0 /\ (Commit("task", 1) \/ Commit("task", 2) \/ Commit("handler", 1))
     \/ \E tx \in unsent : Send(tx) \/ DropHandler(tx)
     \/ SendOther
  /\ UNCHANGED <<kind, phase>>

ClientStep == Submit \/ Status \/ Result

RunNext == ClientStep \/ RequestLost \/ Watching \/ StreamEnds \/ Progress

RunFairSpec ==
  /\ RunInit /\ [][RunNext]_runVars
  /\ WF_runVars(ClientStep) /\ WF_runVars(Watching)
  /\ WF_runVars(UNCHANGED <<kind, phase>> /\ \E tx \in unsent : Send(tx))

-----------------------------------------------------------------------------
(* Properties. *)

(***************************************************************************)
(* Neither client asks for a result that is not there: a terminal event    *)
(* and a terminal status are durable before the client acts on them.  Only *)
(* `eyes run` is refused, after its stream was cut.                        *)
(***************************************************************************)
ResultReady == phase = "refused" => kind = "eyes" /\ breaks > 0

Ended == IF kind = "sdk" THEN {"returned"} ELSE {"returned", "refused", "failed"}

(***************************************************************************)
(* Once the submission is terminal run() returns its result, through       *)
(* lagging streams, lost connections, restarts and repeated calls that go  *)
(* on after the last event seen; `eyes run` ends too.                      *)
(***************************************************************************)
RunReturns == (committed = Final) ~> (phase \in Ended)
=============================================================================
