---------------------------- MODULE StreamProofs ----------------------------
(***************************************************************************)
(* Proofs about ClientRun and the EventStream under it, for any number of  *)
(* events, any capacity of the channel, and any number of other events,    *)
(* lost connections and restarts.                                          *)
(***************************************************************************)
EXTENDS ClientRun, TLAPS

StreamTypeOK ==
  /\ committed \in 0..Final /\ others \in Nat /\ breaks \in Nat
  /\ conn \in {"none", "replay", "live"}
  /\ last \in Nat /\ next \in Nat \ {0} /\ cursor \in Nat /\ done \in BOOLEAN
  /\ chan \in Seq(Nat) /\ wire \in Seq(Nat) /\ seen \in Seq(Nat)

(* A transaction whose events are on their way to the channel. *)
TxOK(tx, durable) ==
  /\ tx = [by |-> tx.by, evs |-> tx.evs]
  /\ tx.evs \in Seq(Nat) /\ tx.evs # << >>
  /\ \A i \in 1..Len(tx.evs) : tx.evs[i] <= durable

(* Nothing is broadcast that is not committed. *)
Published ==
  /\ \A tx \in unsent : TxOK(tx, committed)
  /\ \A i \in 1..Len(chan) : chan[i] <= committed

(* The client knows only what is durable; no connection, no wire. *)
StreamInv ==
  /\ StreamTypeOK /\ Published
  /\ ConnectionConsistent /\ SeenContiguous
  /\ conn = "none" => wire = << >>
  /\ done => committed = Final

RunInv ==
  /\ StreamInv
  /\ kind \in {"sdk", "eyes"}
  /\ phase = "result" => committed = Final \/ (kind = "eyes" /\ breaks > 0)
  /\ ResultReady

USE StreamAssumption

-----------------------------------------------------------------------------

LEMMA StreamStart == Init => StreamInv
<1> SUFFICES ASSUME Init PROVE StreamInv
  OBVIOUS
<1>1. StreamTypeOK
  <2>1. 0 \in 0..Final /\ 0 \in Nat /\ 1 \in Nat \ {0}
    BY StreamAssumption
  <2>2. << >> \in Seq(Nat)
    OBVIOUS
  <2> QED
    BY <2>1, <2>2 DEF Init, StreamTypeOK
<1>2. Published /\ ConnectionConsistent /\ SeenContiguous
  BY DEF Init, Published, ConnectionConsistent, SeenContiguous
<1>3. ~done /\ wire = << >>
  BY DEF Init
<1> QED
  BY <1>1, <1>2, <1>3 DEF StreamInv

LEMMA TxStays ==
  ASSUME NEW c \in Nat, NEW d \in Nat, c <= d, NEW tx, TxOK(tx, c)
  PROVE  TxOK(tx, d)
<1>1. ASSUME NEW i \in 1..Len(tx.evs) PROVE tx.evs[i] <= d
  <2>1. tx.evs[i] \in Nat /\ tx.evs[i] <= c
    BY DEF TxOK
  <2> QED
    BY <2>1
<1> QED
  BY <1>1 DEF TxOK

(* The stream and the client are where they were, the database went on. *)
LEMMA ClientKept ==
  ASSUME StreamInv, committed' \in 0..Final, committed <= committed',
         UNCHANGED <<conn, last, next, wire, clientVars>>
  PROVE  /\ ConnectionConsistent' /\ SeenContiguous'
         /\ conn' = "none" => wire' = << >>
         /\ done' => committed' = Final
         /\ conn' \in {"none", "replay", "live"}
         /\ last' \in Nat /\ next' \in Nat \ {0} /\ cursor' \in Nat /\ done' \in BOOLEAN
         /\ wire' \in Seq(Nat) /\ seen' \in Seq(Nat)
BY DEF StreamInv, StreamTypeOK, ConnectionConsistent, SeenContiguous, clientVars

LEMMA AppendBounded ==
  ASSUME NEW q \in Seq(Nat), NEW c \in Nat, NEW e \in Nat, e <= c,
         \A i \in 1..Len(q) : q[i] <= c
  PROVE  /\ Append(q, e) \in Seq(Nat)
         /\ \A i \in 1..Len(Append(q, e)) : Append(q, e)[i] <= c
OBVIOUS

LEMMA CommitStep ==
  ASSUME StreamInv, NEW by, NEW n \in {1, 2}, Commit(by, n)
  PROVE  StreamInv'
<1> DEFINE evs == [i \in 1..n |-> committed + i]
           new == [by |-> by, evs |-> evs]
<1>1. /\ committed' = committed + n /\ committed' \in 0..Final /\ committed \in Nat
      /\ unsent' = unsent \cup {new}
      /\ UNCHANGED <<chan, others, conn, last, next, wire, clientVars, breaks>>
  BY DEF Commit, StreamInv, StreamTypeOK
<1>2. /\ evs \in Seq(Nat) /\ Len(evs) = n
      /\ \A i \in 1..n : evs[i] <= committed'
  BY <1>1
<1> HIDE DEF evs
<1>3. TxOK(new, committed')
  <2>1. evs # << >>
    BY <1>2
  <2> QED
    BY <1>2, <2>1 DEF TxOK
<1> HIDE DEF new
<1>4. Published'
  <2>1. \A tx \in unsent : TxOK(tx, committed')
    BY <1>1, TxStays DEF StreamInv, Published
  <2>2. \A i \in 1..Len(chan) : chan[i] <= committed'
    BY <1>1 DEF StreamInv, StreamTypeOK, Published
  <2> QED
    BY <2>1, <2>2, <1>1, <1>3 DEF Published
<1>5. committed' \in 0..Final /\ committed <= committed'
  BY <1>1
<1>6. StreamTypeOK'
  BY <1>1, <1>5, ClientKept DEF StreamInv, StreamTypeOK
<1> QED
  BY <1>1, <1>4, <1>5, <1>6, ClientKept DEF StreamInv

LEMMA TailNotEmpty ==
  ASSUME NEW s \in Seq(Nat), Len(s) > 1
  PROVE  Tail(s) # << >>
<1>1. Len(Tail(s)) = Len(s) - 1 /\ Len(s) \in Nat
  OBVIOUS
<1> QED
  BY <1>1

LEMMA SendStep ==
  ASSUME StreamInv, NEW tx \in unsent, Send(tx)
  PROVE  StreamInv'
<1> DEFINE rest == [tx EXCEPT !.evs = Tail(tx.evs)]
<1>1. /\ TxOK(tx, committed) /\ chan \in Seq(Nat)
      /\ UNCHANGED <<committed, others, conn, last, next, wire, clientVars, breaks>>
  BY DEF Send, StreamInv, StreamTypeOK, Published
<1>2. chan' = Append(chan, Head(tx.evs))
  BY DEF Send
<1>3. Head(tx.evs) \in Nat /\ Head(tx.evs) <= committed
  BY <1>1 DEF TxOK
<1>4. ASSUME Len(tx.evs) > 1
      PROVE  TxOK(rest, committed)
  <2>1. rest = [by |-> tx.by, evs |-> Tail(tx.evs)]
    <3>1. tx = [by |-> tx.by, evs |-> tx.evs]
      BY <1>1 DEF TxOK
    <3>2. ASSUME NEW a, NEW b, NEW c, tx = [by |-> a, evs |-> b]
          PROVE  [tx EXCEPT !.evs = c] = [by |-> a, evs |-> c]
      BY <3>2
    <3> QED
      BY <3>1, <3>2
  <2>2. Tail(tx.evs) \in Seq(Nat) /\ Len(Tail(tx.evs)) = Len(tx.evs) - 1 /\ Len(tx.evs) \in Nat
    BY <1>1, <1>4 DEF TxOK
  <2>3. ASSUME NEW s \in Seq(Nat), s # << >>, NEW i \in 1..Len(Tail(s))
        PROVE  Tail(s)[i] = s[i + 1] /\ i + 1 \in 1..Len(s)
    BY <2>3
  <2>4. ASSUME NEW i \in 1..Len(Tail(tx.evs))
        PROVE  Tail(tx.evs)[i] <= committed
    <3>1. /\ tx.evs \in Seq(Nat) /\ tx.evs # << >>
          /\ \A j \in 1..Len(tx.evs) : tx.evs[j] <= committed
      BY <1>1 DEF TxOK
    <3>2. Tail(tx.evs)[i] = tx.evs[i + 1] /\ i + 1 \in 1..Len(tx.evs)
      BY <2>3, <3>1
    <3> QED
      BY <3>1, <3>2
  <2>5. Tail(tx.evs) # << >>
    <3>1. tx.evs \in Seq(Nat)
      BY <1>1 DEF TxOK
    <3> QED
      BY <1>4, <3>1, TailNotEmpty
  <2> HIDE DEF rest
  <2> QED
    BY <2>1, <2>2, <2>4, <2>5 DEF TxOK
<1>5. \A t \in unsent' : t \in unsent \/ (Len(tx.evs) > 1 /\ t = rest)
  BY DEF Send
<1> HIDE DEF rest
<1>6. \A i \in 1..Len(chan') : chan'[i] <= committed
  BY <1>1, <1>2, <1>3 DEF StreamInv, Published
<1>7. Published'
  <2>1. \A t \in unsent' : TxOK(t, committed)
    BY <1>4, <1>5 DEF StreamInv, Published
  <2> QED
    BY <1>1, <1>6, <2>1 DEF Published
<1>8. chan' \in Seq(Nat)
  BY <1>1, <1>2, <1>3
<1>9. committed' \in 0..Final /\ committed <= committed'
  BY <1>1 DEF StreamInv, StreamTypeOK
<1>10. StreamTypeOK'
  BY <1>1, <1>8, <1>9, ClientKept DEF StreamInv, StreamTypeOK
<1> QED
  BY <1>1, <1>7, <1>9, <1>10, ClientKept DEF StreamInv

LEMMA OthersStep ==
  ASSUME StreamInv,
         SendOther \/ \E tx \in unsent : DropHandler(tx)
  PROVE  StreamInv'
<1>1. /\ UNCHANGED <<committed, conn, last, next, wire, clientVars, breaks>>
      /\ unsent' \subseteq unsent /\ chan' \in {chan, Append(chan, 0)} /\ others' \in Nat
  <2>1. others \in Nat
    BY DEF StreamInv, StreamTypeOK
  <2>2. CASE SendOther
    <3>1. others' \in Nat
      BY <2>1, <2>2 DEF SendOther
    <3> QED
      BY <2>2, <3>1 DEF SendOther
  <2>3. ASSUME NEW tx \in unsent, DropHandler(tx)
        PROVE  /\ UNCHANGED <<committed, conn, last, next, wire, clientVars, breaks>>
               /\ unsent' \subseteq unsent /\ chan' = chan /\ others' \in Nat
    BY <2>1, <2>3 DEF DropHandler
  <2> QED
    BY <2>2, <2>3
<1>2. chan' \in Seq(Nat) /\ \A i \in 1..Len(chan') : chan'[i] <= committed
  <2>1. /\ chan \in Seq(Nat) /\ committed \in Nat /\ 0 \in Nat /\ 0 <= committed
        /\ \A i \in 1..Len(chan) : chan[i] <= committed
    BY DEF StreamInv, StreamTypeOK, Published
  <2>2. CASE chan' = chan
    BY <2>1, <2>2
  <2>3. CASE chan' = Append(chan, 0)
    <3> HIDE <1>1
    <3> QED
      BY <2>1, <2>3, AppendBounded
  <2> QED
    BY <1>1, <2>2, <2>3
<1>3. Published'
  BY <1>1, <1>2 DEF StreamInv, Published
<1>4. chan' \in Seq(Nat)
  BY <1>2
<1>5. committed' \in 0..Final /\ committed <= committed'
  BY <1>1 DEF StreamInv, StreamTypeOK
<1>6. StreamTypeOK'
  BY <1>1, <1>4, <1>5, ClientKept DEF StreamInv, StreamTypeOK
<1> QED
  BY <1>1, <1>3, <1>5, <1>6, ClientKept DEF StreamInv

-----------------------------------------------------------------------------
(* Steps of the connection leave the database and the channel alone. *)

LEMMA ServerKept ==
  ASSUME StreamInv, UNCHANGED serverVars
  PROVE  Published'
BY DEF StreamInv, Published, serverVars

LEMMA ConnectStep ==
  ASSUME StreamInv, Connect
  PROVE  StreamInv'
<1>1. StreamTypeOK' /\ ConnectionConsistent' /\ SeenContiguous'
  BY DEF Connect, StreamInv, StreamTypeOK, ConnectionConsistent, SeenContiguous,
         serverVars, clientVars
<1> QED
  BY <1>1, ServerKept DEF Connect, StreamInv, serverVars, clientVars

LEMMA ReplayStep ==
  ASSUME StreamInv, Replay
  PROVE  StreamInv'
<1> DEFINE more == [i \in 1..(committed - last) |-> last + i]
<1>1. /\ last = cursor + Len(wire) /\ last <= committed /\ wire \in Seq(Nat)
      /\ \A i \in 1..Len(wire) : wire[i] = cursor + i
      /\ committed \in Nat /\ last \in Nat /\ cursor \in Nat
  BY DEF Replay, StreamInv, StreamTypeOK, ConnectionConsistent
<1>2. more \in Seq(Nat) /\ Len(more) = committed - last
      /\ \A i \in 1..(committed - last) : more[i] = last + i
  BY <1>1
<1>3. /\ wire' = wire \o more /\ last' = committed /\ conn' = "live"
      /\ UNCHANGED <<serverVars, next, clientVars, breaks>>
  BY DEF Replay
<1> HIDE DEF more
<1>4. wire' \in Seq(Nat) /\ Len(wire') = committed - cursor
  BY <1>1, <1>2, <1>3
<1>5. ASSUME NEW i \in 1..Len(wire') PROVE wire'[i] = cursor + i
  <2>1. CASE i <= Len(wire)
    BY <2>1, <1>1, <1>2, <1>3
  <2>2. CASE i > Len(wire)
    <3>1. wire'[i] = more[i - Len(wire)] /\ i - Len(wire) \in 1..(committed - last)
      BY <2>2, <1>1, <1>2, <1>3, <1>4
    <3> QED
      BY <3>1, <1>1, <1>2
  <2> QED
    BY <2>1, <2>2, <1>1
<1>6. ConnectionConsistent'
  BY <1>1, <1>3, <1>4, <1>5 DEF ConnectionConsistent, serverVars, clientVars
<1>7. StreamTypeOK' /\ SeenContiguous'
  BY <1>3, <1>4 DEF StreamInv, StreamTypeOK, SeenContiguous, serverVars, clientVars
<1> QED
  BY <1>3, <1>6, <1>7, ServerKept DEF StreamInv, serverVars, clientVars

LEMMA LagStep ==
  ASSUME StreamInv, RecvLagged
  PROVE  StreamInv'
<1>1. next' \in Nat \ {0}
  BY DEF RecvLagged, Lagged, StreamInv, StreamTypeOK
<1>2. StreamTypeOK' /\ ConnectionConsistent' /\ SeenContiguous'
  BY <1>1 DEF RecvLagged, StreamInv, StreamTypeOK, ConnectionConsistent, SeenContiguous,
         serverVars, clientVars
<1> QED
  BY <1>2, ServerKept DEF RecvLagged, StreamInv, serverVars, clientVars

LEMMA RecvStep ==
  ASSUME StreamInv, Recv
  PROVE  StreamInv'
<1>1. /\ conn = "live" /\ next \in 1..Len(chan) /\ next' = next + 1
      /\ UNCHANGED <<serverVars, clientVars, breaks>>
      /\ chan[next] \in Nat /\ chan[next] <= committed
  BY DEF Recv, StreamInv, StreamTypeOK, Published
<1>2. CASE Follows(chan[next]) /\ wire' = Append(wire, chan[next])
           /\ last' = chan[next] /\ UNCHANGED conn
  <2>1. ConnectionConsistent'
    <3>1. /\ last = cursor + Len(wire) /\ wire \in Seq(Nat) /\ cursor \in Nat
          /\ \A i \in 1..Len(wire) : wire[i] = cursor + i
      BY <1>1 DEF StreamInv, StreamTypeOK, ConnectionConsistent
    <3>2. /\ last' = last + 1 /\ wire' = Append(wire, last + 1) /\ last' <= committed
          /\ cursor' = cursor /\ committed' = committed
      BY <1>1, <1>2 DEF Follows, serverVars, clientVars
    <3>3. last \in Nat
      BY <3>1
    <3>4. /\ Len(wire') = Len(wire) + 1
          /\ \A i \in 1..Len(wire') : wire'[i] = IF i = Len(wire) + 1 THEN last + 1 ELSE wire[i]
      BY <3>1, <3>2, <3>3
    <3>5. \A i \in 1..Len(wire') : wire'[i] = cursor + i
      BY <3>1, <3>4
    <3> QED
      BY <3>1, <3>2, <3>4, <3>5 DEF ConnectionConsistent
  <2>2. StreamTypeOK' /\ SeenContiguous'
    BY <1>1, <1>2 DEF StreamInv, StreamTypeOK, SeenContiguous, serverVars, clientVars
  <2> QED
    BY <1>1, <1>2, <2>1, <2>2, ServerKept DEF StreamInv, serverVars, clientVars
<1>3. CASE conn' \in {"replay", "live"} /\ UNCHANGED <<wire, last>>
  <2>1. StreamTypeOK' /\ ConnectionConsistent' /\ SeenContiguous'
    BY <1>1, <1>3 DEF StreamInv, StreamTypeOK, ConnectionConsistent, SeenContiguous,
                      serverVars, clientVars
  <2> QED
    BY <1>1, <1>3, <2>1, ServerKept DEF StreamInv, serverVars, clientVars
<1> QED
  BY <1>1, <1>2, <1>3 DEF Recv

(* What the client reads is the event after its cursor, and it is durable. *)
LEMMA DeliverStep ==
  ASSUME StreamInv, Deliver
  PROVE  StreamInv'
<1>1. /\ conn # "none" /\ wire \in Seq(Nat) /\ Len(wire) > 0
      /\ Head(wire) = cursor + 1 /\ cursor + Len(wire) <= committed
      /\ cursor \in Nat /\ committed \in 0..Final
  BY DEF Deliver, StreamInv, StreamTypeOK, ConnectionConsistent
<1>2. ~Skips(Head(wire))
  BY <1>1 DEF Skips
<1>3. /\ cursor' = cursor + 1 /\ seen' = Append(seen, cursor + 1)
      /\ done' = (cursor + 1 = Final)
      /\ UNCHANGED <<serverVars, breaks>>
      /\ IF done' THEN NoConnection ELSE wire' = Tail(wire) /\ UNCHANGED <<conn, last, next>>
  BY <1>1, <1>2 DEF Deliver, IsTerminalEvent
<1>4. SeenContiguous'
  BY <1>1, <1>3 DEF StreamInv, StreamTypeOK, SeenContiguous, serverVars
<1>5. ConnectionConsistent' /\ (conn' = "none" => wire' = << >>)
  <2>1. CASE done'
    BY <1>3, <2>1 DEF NoConnection, ConnectionConsistent
  <2>2. CASE ~done'
    <3>1. /\ wire' = Tail(wire) /\ UNCHANGED <<conn, last, committed>>
          /\ Len(wire') = Len(wire) - 1
          /\ \A i \in 1..Len(wire') : wire'[i] = wire[i + 1]
      BY <1>1, <1>3, <2>2 DEF serverVars
    <3>2. /\ last = cursor + Len(wire) /\ last <= committed
          /\ \A i \in 1..Len(wire) : wire[i] = cursor + i
          /\ conn' # "none"
      BY <1>1, <3>1 DEF StreamInv, ConnectionConsistent
    <3>3. \A i \in 1..Len(wire') : i + 1 \in 1..Len(wire)
      BY <1>1, <3>1
    <3>4. \A i \in 1..Len(wire') : wire'[i] = cursor' + i
      BY <1>1, <1>3, <3>1, <3>2, <3>3
    <3>5. last' = cursor' + Len(wire') /\ last' <= committed'
      <4>1. cursor' = cursor + 1 /\ last' = last /\ committed' = committed
        BY <1>3, <3>1
      <4>2. Len(wire) \in Nat /\ cursor \in Nat
        BY <1>1
      <4>3. cursor + Len(wire) = (cursor + 1) + (Len(wire) - 1)
        BY <4>2
      <4>4. last' = cursor' + Len(wire')
        BY <3>1, <3>2, <4>1, <4>3, Zenon
      <4> QED
        BY <3>2, <4>1, <4>4, Zenon
    <3> QED
      BY <3>2, <3>4, <3>5 DEF ConnectionConsistent
  <2> QED
    BY <2>1, <2>2
<1>6. StreamTypeOK'
  <2>1. /\ conn' \in {"none", "replay", "live"} /\ last' \in Nat /\ next' \in Nat \ {0}
        /\ wire' \in Seq(Nat)
    <3>1. /\ conn \in {"none", "replay", "live"} /\ last \in Nat /\ next \in Nat \ {0}
          /\ 0 \in Nat /\ 1 \in Nat \ {0} /\ << >> \in Seq(Nat) /\ Tail(wire) \in Seq(Nat)
      BY <1>1 DEF StreamInv, StreamTypeOK
    <3>2. CASE done'
      <4>1. NoConnection
        BY <1>3, <3>2
      <4> QED
        BY <3>1, <4>1 DEF NoConnection
    <3>3. CASE ~done'
      <4>1. wire' = Tail(wire) /\ conn' = conn /\ last' = last /\ next' = next
        BY <1>3, <3>3
      <4> QED
        BY <3>1, <4>1
    <3> QED
      BY <3>2, <3>3
  <2>2. cursor' \in Nat /\ seen' \in Seq(Nat)
    <3>1. cursor' = cursor + 1 /\ seen' = Append(seen, cursor + 1) /\ seen \in Seq(Nat)
      BY <1>3 DEF StreamInv, StreamTypeOK
    <3> QED
      BY <1>1, <3>1
  <2>3. done' \in BOOLEAN
    BY <1>3
  <2>4. /\ committed' \in 0..Final /\ others' \in Nat /\ breaks' \in Nat /\ chan' \in Seq(Nat)
    BY <1>3 DEF StreamInv, StreamTypeOK, serverVars
  <2> QED
    BY <2>1, <2>2, <2>3, <2>4 DEF StreamTypeOK
<1>7. done' => committed' = Final
  <2>1. ASSUME cursor + 1 = Final PROVE committed = Final
    <3>1. Len(wire) \in Nat
      BY <1>1
    <3> QED
      BY <1>1, <2>1, <3>1
  <2>2. committed' = committed /\ done' = (cursor + 1 = Final)
    BY <1>3 DEF serverVars
  <2> QED
    BY <2>1, <2>2
<1> QED
  BY <1>3, <1>4, <1>5, <1>6, <1>7, ServerKept DEF StreamInv

LEMMA WatchStep ==
  ASSUME StreamInv, StreamStep
  PROVE  StreamInv' /\ UNCHANGED serverVars
<1>1. StreamInv'
  BY ConnectStep, ReplayStep, LagStep, RecvStep, DeliverStep DEF StreamStep
<1>2. UNCHANGED serverVars
  BY DEF StreamStep, Connect, Replay, RecvLagged, Recv, Deliver
<1> QED
  BY <1>1, <1>2

LEMMA FaultStep ==
  ASSUME StreamInv, Break \/ Crash
  PROVE  StreamInv' /\ committed' = committed /\ breaks' = breaks + 1
<1>1. /\ NoConnection /\ breaks' = breaks + 1 /\ UNCHANGED <<committed, others, clientVars>>
      /\ unsent' \subseteq unsent /\ chan' \in {chan, << >>}
  BY DEF Break, Crash, serverVars
<1>2. Published'
  BY <1>1 DEF StreamInv, Published
<1>3. /\ conn' = "none" /\ last' = 0 /\ next' = 1 /\ wire' = << >>
      /\ cursor' = cursor /\ seen' = seen /\ done' = done /\ committed' = committed
      /\ others' = others /\ breaks' = breaks + 1
  BY <1>1 DEF NoConnection, clientVars
<1>4. ConnectionConsistent' /\ SeenContiguous'
  BY <1>3 DEF StreamInv, ConnectionConsistent, SeenContiguous
<1>5. StreamTypeOK'
  <2>1. /\ 0 \in Nat /\ 1 \in Nat \ {0} /\ << >> \in Seq(Nat) /\ breaks + 1 \in Nat
    BY DEF StreamInv, StreamTypeOK
  <2>2. chan' \in Seq(Nat)
    BY <1>1, <2>1 DEF StreamInv, StreamTypeOK
  <2> QED
    BY <1>3, <2>1, <2>2 DEF StreamInv, StreamTypeOK
<1> QED
  BY <1>2, <1>3, <1>4, <1>5 DEF StreamInv

-----------------------------------------------------------------------------

LEMMA StreamKept ==
  ASSUME StreamInv, UNCHANGED vars
  PROVE  StreamInv'
<1>1. Published'
  BY ServerKept DEF vars
<1> QED
  BY <1>1 DEF StreamInv, StreamTypeOK, ConnectionConsistent, SeenContiguous, vars,
              serverVars, clientVars

(* The client's requests. *)
LEMMA RequestStep ==
  ASSUME RunInv, ClientStep \/ RequestLost
  PROVE  RunInv'
<1>1. CASE Submit
  <2>1. StreamInv'
    BY <1>1, CommitStep, StreamKept DEF RunInv, Submit
  <2> QED
    BY <1>1, <2>1 DEF RunInv, Submit, ResultReady
<1>2. CASE Status
  <2>1. StreamInv' /\ UNCHANGED <<committed, breaks, kind>>
    <3>1. StreamTypeOK' /\ ConnectionConsistent' /\ SeenContiguous' /\ (done' => done)
      BY <1>2 DEF Status, RunInv, StreamInv, StreamTypeOK, ConnectionConsistent,
                  SeenContiguous, serverVars
    <3> QED
      BY <1>2, <3>1, ServerKept DEF Status, RunInv, StreamInv, serverVars
  <2> QED
    BY <1>2, <2>1 DEF Status, RunInv, ResultReady
<1>3. CASE Result
  <2>1. StreamInv' /\ UNCHANGED <<breaks, kind>>
    BY <1>3, StreamKept DEF RunInv, Result, vars
  <2> QED
    BY <1>3, <2>1 DEF Result, RunInv, ResultReady
<1>4. CASE RequestLost
  <2>1. StreamInv'
    <3>1. StreamTypeOK' /\ ConnectionConsistent' /\ SeenContiguous'
      BY <1>4 DEF RequestLost, RunInv, StreamInv, StreamTypeOK, ConnectionConsistent,
                  SeenContiguous, serverVars, clientVars
    <3> QED
      BY <1>4, <3>1, ServerKept DEF RequestLost, RunInv, StreamInv, serverVars, clientVars
  <2> QED
    BY <1>4, <2>1 DEF RequestLost, RunInv, ResultReady
<1> QED
  BY <1>1, <1>2, <1>3, <1>4 DEF ClientStep

LEMMA RunStep ==
  ASSUME RunInv, [RunNext]_runVars
  PROVE  RunInv'
<1>1. CASE ClientStep \/ RequestLost
  BY <1>1, RequestStep
<1>2. CASE Watching
  <2>1. /\ StreamInv' /\ UNCHANGED <<serverVars, kind>>
        /\ phase' \in {"watch", "result"} /\ (phase' = "result" => done')
    BY <1>2, WatchStep DEF Watching, RunInv
  <2> QED
    BY <2>1 DEF RunInv, StreamInv, ResultReady
<1>3. CASE StreamEnds
  <2>1. /\ StreamInv' /\ committed' = committed /\ breaks' = breaks + 1 /\ breaks \in Nat
        /\ kind' = kind
        /\ phase' = phase \/ phase' = "failed" \/ (kind = "eyes" /\ phase' = "result")
    BY <1>3, FaultStep DEF StreamEnds, RunInv, StreamInv, StreamTypeOK
  <2> QED
    BY <2>1 DEF RunInv, ResultReady
<1>4. CASE Progress
  <2>1. StreamInv'
    BY <1>4, CommitStep, SendStep, OthersStep DEF Progress, RunInv
  <2>2. UNCHANGED <<kind, phase, breaks>> /\ (committed = Final => committed' = Final)
    BY <1>4 DEF Progress, Commit, Send, SendOther, DropHandler, RunInv, StreamInv,
                StreamTypeOK
  <2> QED
    BY <2>1, <2>2 DEF RunInv, ResultReady
<1>5. CASE UNCHANGED runVars
  <2>1. StreamInv' /\ UNCHANGED <<committed, breaks, kind, phase>>
    BY <1>5, StreamKept DEF RunInv, runVars, vars, serverVars
  <2> QED
    BY <2>1 DEF RunInv, ResultReady
<1> QED
  BY <1>1, <1>2, <1>3, <1>4, <1>5 DEF RunNext

LEMMA RunInvariant == RunFairSpec => []RunInv
<1>1. RunInit => RunInv
  BY StreamStart DEF RunInit, RunInv, ResultReady
<1> QED
  BY <1>1, RunStep, PTL DEF RunFairSpec

(***************************************************************************)
(* A client is given every event once and in order, and only what is       *)
(* durable, whatever the channel, the connection and the daemon do.        *)
(***************************************************************************)
THEOREM EventsContiguous == RunFairSpec => []SeenContiguous
<1>1. RunInv => SeenContiguous
  BY DEF RunInv, StreamInv
<1> QED
  BY <1>1, RunInvariant, PTL

(* What is on the wire is exactly what the client misses next. *)
THEOREM WireConsistent == RunFairSpec => []ConnectionConsistent
<1>1. RunInv => ConnectionConsistent
  BY DEF RunInv, StreamInv
<1> QED
  BY <1>1, RunInvariant, PTL

(* run() never asks for a result that is not there. *)
THEOREM ResultsReady == RunFairSpec => []ResultReady
<1>1. RunInv => ResultReady
  BY DEF RunInv
<1> QED
  BY <1>1, RunInvariant, PTL
=============================================================================
