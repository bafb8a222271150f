----------------------------- MODULE EventStream -----------------------------
(***************************************************************************)
(* How the events of one submission reach a watching client.  A            *)
(* transaction of store.rs commits its events and broadcasts them          *)
(* afterwards; the SSE handler of api.rs subscribes, replays what is       *)
(* stored and then follows the bounded broadcast channel, which all        *)
(* submissions share; watch() of the TypeScript client reconnects from its *)
(* cursor until it sees the terminal event.                                *)
(*                                                                         *)
(* An event is its sequence number: 1..Final, the last one announces the   *)
(* terminal state (Daemon shows that nothing follows it).  0 in the        *)
(* channel stands for an event of another submission.                      *)
(***************************************************************************)
EXTENDS Integers, Sequences

CONSTANTS
  Final,         \* number of events of the submission
  Capacity,      \* of the broadcast channel (1024 in the code)
  Droppable,     \* events whose API handler may be dropped before it sends
  MaxOther,      \* bound: events of other submissions
  MaxBreaks      \* bound: lost connections and daemon crashes

ASSUME StreamAssumption ==
  /\ Final \in Nat \ {0} /\ Capacity \in Nat \ {0}
  /\ Droppable \subseteq 1..Final
  /\ MaxOther \in Nat /\ MaxBreaks \in Nat

VARIABLES
  committed,  \* events in the database
  unsent,     \* transactions whose events are not broadcast yet
  chan,       \* everything broadcast since the process started
  others,     \* events of other submissions so far
  conn,       \* phase of the SSE connection, "none" when there is none
  last,       \* last_sequence of the SSE handler
  next,       \* position of its receiver in chan
  wire,       \* events yielded and not yet read by the client
  cursor,     \* cursor of watch()
  seen,       \* events watch() has yielded
  done,       \* watch() has returned
  breaks      \* lost connections and crashes so far

serverVars == <<committed, unsent, chan, others>>

clientVars == <<cursor, seen, done>>

vars == <<serverVars, conn, last, next, wire, clientVars, breaks>>

Init ==
  /\ committed = 0 /\ unsent = {} /\ chan = << >> /\ others = 0
  /\ conn = "none" /\ last = 0 /\ next = 1 /\ wire = << >>
  /\ cursor = 0 /\ seen = << >> /\ done = FALSE
  /\ breaks = 0

-----------------------------------------------------------------------------
(* The database and the channel. *)

(* A transaction of a daemon task (claim and finish write two events, the
   others one) or of an API handler commits. *)
Commit(by, n) ==
  /\ committed + n <= Final
  /\ committed' = committed + n
  /\ unsent' = unsent \cup {[by |-> by, evs |-> [i \in 1..n |-> committed + i]]}
  /\ UNCHANGED <<chan, others, conn, last, next, wire, clientVars, breaks>>

(* The task resumes after commit().await and sends its events in order;
   another task may commit and send in between. *)
Send(tx) ==
  /\ chan' = Append(chan, Head(tx.evs))
  /\ unsent' = (unsent \ {tx}) \cup
       (IF Len(tx.evs) > 1 THEN {[tx EXCEPT !.evs = Tail(@)]} ELSE {})
  /\ UNCHANGED <<committed, others, conn, last, next, wire, clientVars, breaks>>

SendOther ==
  /\ others < MaxOther
  /\ others' = others + 1
  /\ chan' = Append(chan, 0)
  /\ UNCHANGED <<committed, unsent, conn, last, next, wire, clientVars, breaks>>

(* The caller of the handler disconnects while it awaits its commit: the
   row is durable, the handler's future is gone. *)
DropHandler(tx) ==
  /\ tx.by = "handler" /\ Head(tx.evs) \in Droppable
  /\ unsent' = unsent \ {tx}
  /\ UNCHANGED <<committed, chan, others, conn, last, next, wire, clientVars, breaks>>

-----------------------------------------------------------------------------
(* The SSE handler. *)

(* watch() opens /events?after_sequence=cursor; the handler subscribes first. *)
Connect ==
  /\ conn = "none" /\ ~done
  /\ conn' = "replay" /\ last' = cursor /\ next' = Len(chan) + 1 /\ wire' = << >>
  /\ UNCHANGED <<serverVars, clientVars, breaks>>

(* Fault: recovery reads the events from the beginning. *)
ReplayBug ==
  /\ conn = "replay"
  /\ conn' = "live"
  /\ wire' = wire \o [i \in 1..committed |-> i]
  /\ last' = committed
  /\ UNCHANGED <<serverVars, next, clientVars, breaks>>

(* events_after(last): the initial read, and the recovery of a gap or lag. *)
Replay ==
  /\ conn = "replay"
  /\ conn' = "live"
  /\ wire' = wire \o [i \in 1..(committed - last) |-> last + i]
  /\ last' = committed
  /\ UNCHANGED <<serverVars, next, clientVars, breaks>>

(* RecvError::Lagged: the oldest unread values were overwritten. *)
Lagged == Len(chan) - next + 1 > Capacity

(* Fault: a lagging receiver goes on with the oldest value still there. *)
RecvLaggedBug ==
  /\ conn = "live" /\ Lagged
  /\ next' = Len(chan) - Capacity + 1
  /\ UNCHANGED <<serverVars, conn, last, wire, clientVars, breaks>>

RecvLagged ==
  /\ conn = "live" /\ Lagged
  /\ next' = Len(chan) - Capacity + 1
  /\ conn' = "replay"
  /\ UNCHANGED <<serverVars, last, wire, clientVars, breaks>>

(* Fault: any newer event is yielded, a gap is not noticed. *)
FollowsBug(e) == e > last

(* The event that comes right after the last one yielded. *)
Follows(e) == e = last + 1

(* The next event is yielded, a later one makes the handler read the store,
   an older one and those of other submissions are passed over. *)
Recv ==
  /\ conn = "live" /\ ~Lagged /\ next <= Len(chan)
  /\ next' = next + 1
  /\ \/ /\ Follows(chan[next])
        /\ wire' = Append(wire, chan[next]) /\ last' = chan[next]
        /\ UNCHANGED conn
     \/ /\ chan[next] > last /\ ~Follows(chan[next])
        /\ conn' = "replay" /\ UNCHANGED <<wire, last>>
     \/ /\ chan[next] <= last
        /\ UNCHANGED <<wire, last, conn>>
  /\ UNCHANGED <<serverVars, clientVars, breaks>>

-----------------------------------------------------------------------------
(* The client and what goes wrong. *)

NoConnection == conn' = "none" /\ last' = 0 /\ next' = 1 /\ wire' = << >>

(* Fault: every change of state counts, the one before last too. *)
IsTerminalEventBug(e) == e >= Final - 1

IsTerminalEvent(e) == e = Final

(* watch() passes over what it has already yielded. *)
Skips(e) == e <= cursor

Deliver ==
  /\ wire # << >>
  /\ IF Skips(Head(wire))
     THEN /\ wire' = Tail(wire)
          /\ UNCHANGED <<conn, last, next, clientVars>>
     ELSE /\ cursor' = Head(wire) /\ seen' = Append(seen, Head(wire))
          /\ done' = IsTerminalEvent(Head(wire))
          /\ IF done' THEN NoConnection
             ELSE wire' = Tail(wire) /\ UNCHANGED <<conn, last, next>>
  /\ UNCHANGED <<serverVars, breaks>>

(* The connection is lost with what was on its way. *)
Break ==
  /\ conn # "none"
  /\ breaks < MaxBreaks /\ breaks' = breaks + 1
  /\ NoConnection
  /\ UNCHANGED <<serverVars, clientVars>>

(* The daemon dies and comes back: only the database survives. *)
Crash ==
  /\ breaks < MaxBreaks /\ breaks' = breaks + 1
  /\ unsent' = {} /\ chan' = << >>
  /\ NoConnection
  /\ UNCHANGED <<committed, others, clientVars>>

-----------------------------------------------------------------------------

StreamStep == Connect \/ Replay \/ RecvLagged \/ Recv \/ Deliver

Next ==
  \/ Commit("task", 1) \/ Commit("task", 2) \/ Commit("handler", 1)
  \/ \E tx \in unsent : Send(tx) \/ DropHandler(tx)
  \/ SendOther
  \/ StreamStep
  \/ Break \/ Crash

Spec == Init /\ [][Next]_vars

(* Ready tasks run, the client keeps reading and reconnects after its delay;
   nobody has to commit anything. *)
FairSpec ==
  Spec /\ WF_vars(StreamStep) /\ WF_vars(\E tx \in unsent : Send(tx))

-----------------------------------------------------------------------------
(* Properties. *)

(***************************************************************************)
(* What is on its way is exactly what the client misses next: the events   *)
(* on the wire continue the client's cursor without a gap and end at       *)
(* last_sequence, which is never ahead of the database.                    *)
(***************************************************************************)
ConnectionConsistent ==
  conn # "none" =>
    /\ last = cursor + Len(wire) /\ last <= committed
    /\ \A i \in 1..Len(wire) : wire[i] = cursor + i

(***************************************************************************)
(* Across replays, reordered or lost broadcasts, lags, lost connections    *)
(* and restarts, watch() yields every event once and in order, and what it *)
(* has yielded is durable.                                                 *)
(***************************************************************************)
SeenContiguous ==
  /\ cursor = Len(seen) /\ cursor <= committed
  /\ \A i \in 1..Len(seen) : seen[i] = i

(***************************************************************************)
(* Once the terminal event is committed, watch({untilTerminal}) returns:   *)
(* events are delivered at least once (submission-api.md section 8).       *)
(***************************************************************************)
WatchReturns == (committed = Final) ~> done
=============================================================================
