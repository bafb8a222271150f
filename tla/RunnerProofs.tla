---------------------------- MODULE RunnerProofs ----------------------------
(***************************************************************************)
(* What execute() confirms, proved of every behaviour of Runner: whatever  *)
(* number of signals and of events in flight, and at whatever point each   *)
(* of the four processes is lost.                                          *)
(***************************************************************************)
EXTENDS Runner, WellFoundedInduction, TLAPS

Event == Terminal \cup {"started", "output"}

(* What the processes, the pipes and the history variable may hold. *)
TypeOK ==
  /\ signals \in Nat
  /\ exec \in {"spawn", "loop", "wait", "done", "gone"}
  /\ sup \in {"none", "start", "loop"} \cup Dead
  /\ wrk \in {"none", "loop", "ending"} \cup Dead
  /\ reported \in Terminal \cup {None}
  /\ rtq \in Seq(Event) /\ out1 \in Seq(Event) /\ out2 \in Seq(Event)
  /\ ctl1 \in Seq({"cancel"}) /\ ctl2 \in Seq({"cancel"})

(* A supervisor starts one worker, leaves without an error only after it   *)
(* and is what execute() waits for before it confirms an end.              *)
Nested ==
  /\ exec = "spawn" => sup = "none"
  /\ sup \in {"none", "start"} => wrk = "none"
  /\ sup = "exit0" => wrk = "exit0"
  /\ outcome \in Confirmed => sup = "exit0"

HasTerminal(q) == \E i \in DOMAIN q : q[i] \in Terminal

(* Every terminal event of q is e. *)
OnlyEnd(q, e) == \A i \in DOMAIN q : q[i] \in Terminal => q[i] = e

(* The first terminal event of q, if it has one, is e. *)
FirstEnd(q, e) ==
  \A i \in DOMAIN q :
    q[i] \in Terminal /\ (\A j \in 1..(i-1) : q[j] \notin Terminal) => q[i] = e

(* The first end reported comes first on its way up, while the worker      *)
(* still reads it, and it is the only one that leaves the worker.          *)
EndsAgree ==
  /\ wrk = "none" => rtq = << >> /\ reported = None
  /\ wrk = "loop" => (HasTerminal(rtq) <=> reported # None)
  /\ wrk = "loop" => FirstEnd(rtq, reported)
  /\ OnlyEnd(out2, reported)
  /\ OnlyEnd(out1, reported)
  /\ exec = "wait" => held \in Terminal /\ held = reported
  /\ outcome \in Confirmed => outcome = reported

(* A cancellation anywhere below the daemon was sent by it. *)
CancelsAsked ==
  unseen \/ ctl1 # << >> \/ ctl2 # << >> \/ rtcancel \/ why = "cancel" => signals > 0

(* The runtime reports an end once, and a good one after the answer. *)
EndsEarned ==
  /\ reported # None => rt \in {"closing", "ok", "err"}
  /\ rt = "grace" => agent = "answered"
  /\ reported = "cancelled" => signals > 0 /\ agent = "answered"
  /\ reported = "completed" => agent = "answered"

Earned == {"completed", "cancelled"}

Kinds(q) == {q[i] : i \in DOMAIN q}

(* Every good end in q comes after a start, in q or among those seen.      *)
StartsFirst(q, seen) ==
  \A i \in DOMAIN q :
    q[i] \in Earned => "started" \in seen \/ \E j \in 1..(i-1) : q[j] = "started"

Told == IF begun THEN {"started"} ELSE {}

(* Whatever is on its way to execute() follows the start of the session.   *)
StartsOnTheWay ==
  /\ StartsFirst(out1, Told)
  /\ StartsFirst(out2, Told \cup Kinds(out1))
  /\ wrk = "loop" => StartsFirst(rtq, Told \cup Kinds(out1) \cup Kinds(out2))
  /\ wrk = "loop" /\ rt \in {"session", "prompt", "grace", "stopping"} =>
       "started" \in Told \cup Kinds(out1) \cup Kinds(out2) \cup Kinds(rtq)

(* As long as execute() reads events, and of the end it has read last.     *)
StartsTold ==
  /\ exec \in {"spawn", "loop"} => StartsOnTheWay
  /\ exec = "wait" /\ held \in Earned => begun
  /\ outcome \in Earned => begun

Inv == TypeOK /\ Nested /\ EndsAgree /\ CancelsAsked /\ EndsEarned /\ StartsTold

-----------------------------------------------------------------------------
(* The pipes. *)

(* A non-empty set of naturals has a least element. *)
LEMMA LeastNat ==
  ASSUME NEW T, T \subseteq Nat, T # {}
  PROVE  \E x \in T : \A y \in T : ~(y < x)
<1>1. PICK x \in T : \A y \in T : <<y, x>> \notin OpToRel(<, Nat)
  BY NatLessThanWellFounded, WFMin
<1>2. ASSUME NEW y \in T  PROVE ~(y < x)
  BY <1>1 DEF OpToRel
<1> QED  BY <1>2

(* A queue of events with a terminal event has a first one. *)
LEMMA FirstExists ==
  ASSUME NEW q \in Seq(Event), HasTerminal(q)
  PROVE  /\ FirstTerminal(q) \in DOMAIN q
         /\ q[FirstTerminal(q)] \in Terminal
         /\ \A j \in 1..(FirstTerminal(q) - 1) : q[j] \notin Terminal
<1> DEFINE T == {i \in DOMAIN q : q[i] \in Terminal}
<1>1. DOMAIN q = 1..Len(q) /\ Len(q) \in Nat
  OBVIOUS
<1>2. T \subseteq Nat /\ T # {}
  BY <1>1 DEF HasTerminal
<1>3. PICK x \in T : \A y \in T : ~(y < x)
  BY <1>2, LeastNat
<1>4. x \in 1..Len(q)
  BY <1>1
<1>5. ASSUME NEW j \in 1..(x-1)  PROVE q[j] \notin Terminal
  <2>1. j \in DOMAIN q /\ j < x
    BY <1>1, <1>4
  <2> QED  BY <2>1, <1>3
<1>6. \E i \in DOMAIN q : q[i] \in Terminal /\ \A j \in 1..(i-1) : q[j] \notin Terminal
  BY <1>5
<1> HIDE DEF T
<1> QED  BY <1>6, Zenon DEF FirstTerminal

(* An event that ends nothing moves through a pipe. *)
LEMMA AppendPlain ==
  ASSUME NEW q \in Seq(Event), NEW e \in Event, e \notin Terminal, NEW v
  PROVE  /\ Append(q, e) \in Seq(Event)
         /\ HasTerminal(Append(q, e)) <=> HasTerminal(q)
         /\ FirstEnd(q, v) => FirstEnd(Append(q, e), v)
         /\ OnlyEnd(q, v) => OnlyEnd(Append(q, e), v)
<1> DEFINE a == Append(q, e)
<1>1. /\ a \in Seq(Event) /\ Len(q) \in Nat /\ DOMAIN q = 1..Len(q)
      /\ DOMAIN a = 1..(Len(q) + 1) /\ a[Len(q) + 1] = e
      /\ \A i \in 1..Len(q) : a[i] = q[i]
  OBVIOUS
<1> HIDE DEF a
<1>2. \A i \in DOMAIN a : a[i] \in Terminal => i \in DOMAIN q /\ a[i] = q[i]
  BY <1>1
<1>3. HasTerminal(a) <=> HasTerminal(q)
  BY <1>1, <1>2 DEF HasTerminal
<1>4. ASSUME FirstEnd(q, v)  PROVE FirstEnd(a, v)
  <2> SUFFICES ASSUME NEW i \in DOMAIN a, a[i] \in Terminal,
                      \A j \in 1..(i-1) : a[j] \notin Terminal
               PROVE  a[i] = v
    BY DEF FirstEnd
  <2>1. i \in 1..Len(q) /\ a[i] = q[i]
    BY <1>1, <1>2
  <2>2. \A j \in 1..(i-1) : q[j] \notin Terminal
    BY <2>1, <1>1
  <2> QED  BY <1>1, <1>4, <2>1, <2>2 DEF FirstEnd
<1>5. ASSUME OnlyEnd(q, v)  PROVE OnlyEnd(a, v)
  BY <1>2, <1>5 DEF OnlyEnd
<1> QED  BY <1>1, <1>3, <1>4, <1>5 DEF a

(* A terminal event joins a queue: it is the first one or changes nothing. *)
LEMMA AppendEnd ==
  ASSUME NEW q \in Seq(Event), NEW e \in Terminal, NEW v
  PROVE  /\ Append(q, e) \in Seq(Event)
         /\ HasTerminal(Append(q, e))
         /\ HasTerminal(q) /\ FirstEnd(q, v) => FirstEnd(Append(q, e), v)
         /\ ~HasTerminal(q) => FirstEnd(Append(q, e), e)
         /\ OnlyEnd(q, e) => OnlyEnd(Append(q, e), e)
<1> DEFINE a == Append(q, e)
<1>1. /\ a \in Seq(Event) /\ Len(q) \in Nat /\ DOMAIN q = 1..Len(q)
      /\ DOMAIN a = 1..(Len(q) + 1) /\ a[Len(q) + 1] = e
      /\ \A i \in 1..Len(q) : a[i] = q[i]
  BY DEF Event
<1> HIDE DEF a
<1>2. HasTerminal(a)
  BY <1>1 DEF HasTerminal
<1>3. ASSUME HasTerminal(q), FirstEnd(q, v)  PROVE FirstEnd(a, v)
  <2> SUFFICES ASSUME NEW i \in DOMAIN a, a[i] \in Terminal,
                      \A j \in 1..(i-1) : a[j] \notin Terminal
               PROVE  a[i] = v
    BY DEF FirstEnd
  <2>1. PICK k \in 1..Len(q) : q[k] \in Terminal
    BY <1>1, <1>3 DEF HasTerminal
  <2>2. i \in 1..Len(q) /\ a[i] = q[i]
    <3>1. a[k] \in Terminal
      BY <1>1, <2>1
    <3>2. i # Len(q) + 1
      BY <3>1, <2>1, <1>1
    <3> QED  BY <3>2, <1>1
  <2>3. \A j \in 1..(i-1) : q[j] \notin Terminal
    BY <2>2, <1>1
  <2> QED  BY <1>1, <1>3, <2>2, <2>3 DEF FirstEnd
<1>4. ASSUME ~HasTerminal(q)  PROVE FirstEnd(a, e)
  BY <1>1, <1>4 DEF HasTerminal, FirstEnd
<1>5. ASSUME OnlyEnd(q, e)  PROVE OnlyEnd(a, e)
  BY <1>1, <1>5 DEF OnlyEnd
<1> QED  BY <1>1, <1>2, <1>3, <1>4, <1>5 DEF a

(* The head of a pipe is read. *)
LEMMA TailEnds ==
  ASSUME NEW q \in Seq(Event), q # << >>, NEW v
  PROVE  /\ Head(q) \in Event /\ Tail(q) \in Seq(Event)
         /\ OnlyEnd(q, v) => OnlyEnd(Tail(q), v)
         /\ OnlyEnd(q, v) /\ Head(q) \in Terminal => Head(q) = v
         /\ FirstEnd(q, v) /\ Head(q) \in Terminal => Head(q) = v
         /\ Head(q) \notin Terminal => (HasTerminal(Tail(q)) <=> HasTerminal(q))
         /\ Head(q) \notin Terminal /\ FirstEnd(q, v) => FirstEnd(Tail(q), v)
<1> DEFINE t == Tail(q)
           h == Head(q)
<1>1. /\ t \in Seq(Event) /\ Len(q) \in Nat /\ Len(q) >= 1 /\ DOMAIN q = 1..Len(q)
      /\ DOMAIN t = 1..(Len(q) - 1) /\ h = q[1] /\ h \in Event
      /\ \A i \in 1..(Len(q) - 1) : t[i] = q[i + 1]
  OBVIOUS
<1> HIDE DEF t, h
<1>2. ASSUME OnlyEnd(q, v)  PROVE OnlyEnd(t, v)
  BY <1>1, <1>2 DEF OnlyEnd
<1>3. ASSUME OnlyEnd(q, v) \/ FirstEnd(q, v), h \in Terminal  PROVE h = v
  BY <1>1, <1>3 DEF OnlyEnd, FirstEnd
<1>4. ASSUME h \notin Terminal  PROVE HasTerminal(t) <=> HasTerminal(q)
  <2>1. ASSUME NEW i \in DOMAIN q, q[i] \in Terminal
        PROVE  i - 1 \in DOMAIN t /\ t[i - 1] = q[i]
    <3>1. i \in 1..Len(q) /\ i # 1
      BY <1>1, <1>4, <2>1
    <3>2. i - 1 \in 1..(Len(q) - 1) /\ (i - 1) + 1 = i
      BY <3>1, <1>1
    <3> QED  BY <3>2, <1>1
  <2>2. ASSUME NEW i \in DOMAIN t  PROVE i + 1 \in DOMAIN q /\ t[i] = q[i + 1]
    BY <1>1
  <2> QED  BY <2>1, <2>2 DEF HasTerminal
<1>5. ASSUME h \notin Terminal, FirstEnd(q, v)  PROVE FirstEnd(t, v)
  <2> SUFFICES ASSUME NEW i \in DOMAIN t, t[i] \in Terminal,
                      \A j \in 1..(i-1) : t[j] \notin Terminal
               PROVE  t[i] = v
    BY DEF FirstEnd
  <2>1. i \in 1..(Len(q) - 1) /\ i + 1 \in 1..Len(q) /\ t[i] = q[i + 1]
    BY <1>1
  <2>2. ASSUME NEW j \in 1..((i + 1) - 1)  PROVE q[j] \notin Terminal
    <3>1. CASE j = 1
      BY <3>1, <1>1, <1>5
    <3>2. CASE j # 1
      <4>1. j - 1 \in 1..(i - 1) /\ j - 1 \in 1..(Len(q) - 1) /\ (j - 1) + 1 = j
        BY <3>2, <2>1, <1>1
      <4> QED  BY <4>1, <1>1
    <3> QED  BY <3>1, <3>2
  <2> QED  BY <1>1, <1>5, <2>1, <2>2 DEF FirstEnd
<1> QED  BY <1>1, <1>2, <1>3, <1>4, <1>5 DEF t, h

(* The worker drains the channel of its runtime up to the first end. *)
LEMMA DrainEnds ==
  ASSUME NEW p \in Seq(Event), NEW q \in Seq(Event), NEW v,
         HasTerminal(q), FirstEnd(q, v), OnlyEnd(p, v)
  PROVE  /\ p \o SubSeq(q, 1, FirstTerminal(q)) \in Seq(Event)
         /\ OnlyEnd(p \o SubSeq(q, 1, FirstTerminal(q)), v)
<1> DEFINE n == FirstTerminal(q)
           s == SubSeq(q, 1, n)
           c == p \o s
<1>1. /\ n \in 1..Len(q) /\ Len(q) \in Nat /\ DOMAIN q = 1..Len(q)
      /\ q[n] \in Terminal /\ \A j \in 1..(n-1) : q[j] \notin Terminal
  BY FirstExists
<1> HIDE DEF n
<1>2. /\ s \in Seq(Event) /\ Len(s) = n
      /\ \A i \in 1..n : s[i] = q[i]
  BY <1>1
<1> HIDE DEF s
<1>3. /\ c \in Seq(Event) /\ Len(p) \in Nat /\ DOMAIN p = 1..Len(p)
      /\ DOMAIN c = 1..(Len(p) + n)
      /\ \A i \in 1..(Len(p) + n) : c[i] = IF i <= Len(p) THEN p[i] ELSE s[i - Len(p)]
  BY <1>2, <1>1
<1> HIDE DEF c
<1>4. q[n] = v
  BY <1>1 DEF FirstEnd
<1>5. ASSUME NEW i \in DOMAIN c, c[i] \in Terminal  PROVE c[i] = v
  <2>1. CASE i <= Len(p)
    BY <2>1, <1>3, <1>5 DEF OnlyEnd
  <2>2. CASE ~(i <= Len(p))
    <3>1. i - Len(p) \in 1..n
      BY <2>2, <1>3, <1>1
    <3>2. c[i] = q[i - Len(p)]
      BY <2>2, <3>1, <1>2, <1>3
    <3>3. i - Len(p) = n
      BY <3>1, <3>2, <1>1, <1>5
    <3> QED  BY <3>2, <3>3, <1>4
  <2> QED  BY <2>1, <2>2
<1> QED  BY <1>3, <1>5 DEF OnlyEnd, c, s, n
-----------------------------------------------------------------------------
(* A start among the events. *)

LEMMA StartAppend ==
  ASSUME NEW q \in Seq(Event), NEW e \in Event, NEW seen
  PROVE  /\ Kinds(Append(q, e)) = Kinds(q) \cup {e}
         /\ StartsFirst(q, seen) /\ (e \in Earned => "started" \in seen \cup Kinds(q)) =>
              StartsFirst(Append(q, e), seen)
<1> DEFINE a == Append(q, e)
<1>1. /\ Len(q) \in Nat /\ DOMAIN q = 1..Len(q)
      /\ DOMAIN a = 1..(Len(q) + 1) /\ a[Len(q) + 1] = e
      /\ \A i \in 1..Len(q) : a[i] = q[i]
  OBVIOUS
<1> HIDE DEF a
<1>2. Kinds(a) = Kinds(q) \cup {e}
  <2>1. 1..(Len(q) + 1) = (1..Len(q)) \cup {Len(q) + 1}
    BY <1>1
  <2> QED  BY <1>1, <2>1 DEF Kinds
<1>3. ASSUME StartsFirst(q, seen), e \in Earned => "started" \in seen \cup Kinds(q),
             NEW i \in DOMAIN a, a[i] \in Earned, "started" \notin seen
      PROVE  \E j \in 1..(i-1) : a[j] = "started"
  <2>1. CASE i \in 1..Len(q)
    <3>1. q[i] \in Earned
      BY <1>1, <1>3, <2>1
    <3>2. PICK j \in 1..(i-1) : q[j] = "started"
      BY <1>1, <1>3, <2>1, <3>1 DEF StartsFirst
    <3>3. j \in 1..Len(q)
      BY <1>1, <2>1
    <3> QED  BY <1>1, <3>2, <3>3
  <2>2. CASE i = Len(q) + 1
    <3>1. PICK j \in 1..Len(q) : q[j] = "started"
      BY <1>1, <1>3, <2>2 DEF Kinds
    <3> QED  BY <1>1, <2>2, <3>1
  <2> QED  BY <1>1, <2>1, <2>2
<1> QED  BY <1>2, <1>3 DEF StartsFirst, a

LEMMA StartTail ==
  ASSUME NEW q \in Seq(Event), q # << >>, NEW seen
  PROVE  /\ Head(q) \in Event /\ Kinds(q) = {Head(q)} \cup Kinds(Tail(q))
         /\ StartsFirst(q, seen) => StartsFirst(Tail(q), seen \cup {Head(q)})
         /\ StartsFirst(q, seen) /\ Head(q) \in Earned => "started" \in seen
<1> DEFINE t == Tail(q)
           h == Head(q)
<1>1. /\ Len(q) \in Nat /\ Len(q) >= 1 /\ DOMAIN q = 1..Len(q)
      /\ DOMAIN t = 1..(Len(q) - 1) /\ h = q[1] /\ h \in Event
      /\ \A i \in 1..(Len(q) - 1) : t[i] = q[i + 1]
  OBVIOUS
<1> HIDE DEF t, h
<1>2. ASSUME NEW i \in 1..Len(q), i # 1
      PROVE  i - 1 \in 1..(Len(q) - 1) /\ t[i - 1] = q[i]
  <2>1. i - 1 \in 1..(Len(q) - 1) /\ (i - 1) + 1 = i
    BY <1>1, <1>2
  <2> QED  BY <1>1, <2>1
<1>3. Kinds(q) = {h} \cup Kinds(t)
  <2>1. ASSUME NEW i \in DOMAIN q  PROVE q[i] \in {h} \cup Kinds(t)
    BY <1>1, <1>2 DEF Kinds
  <2>2. ASSUME NEW i \in DOMAIN t  PROVE t[i] \in Kinds(q)
    <3>1. i + 1 \in 1..Len(q)
      BY <1>1
    <3> QED  BY <1>1, <3>1 DEF Kinds
  <2>3. h \in Kinds(q)
    BY <1>1 DEF Kinds
  <2> QED  BY <2>1, <2>2, <2>3 DEF Kinds
<1>4. ASSUME StartsFirst(q, seen), h \in Earned  PROVE "started" \in seen
  <2>1. 1 \in DOMAIN q /\ 1..(1-1) = {}
    BY <1>1
  <2> QED  BY <1>1, <1>4, <2>1 DEF StartsFirst
<1>5. ASSUME StartsFirst(q, seen), NEW i \in DOMAIN t, t[i] \in Earned,
             "started" \notin seen \cup {h}
      PROVE  \E j \in 1..(i-1) : t[j] = "started"
  <2>1. i \in 1..(Len(q) - 1) /\ i + 1 \in DOMAIN q /\ q[i + 1] \in Earned
    BY <1>1, <1>5
  <2>2. PICK j \in 1..((i + 1) - 1) : q[j] = "started"
    BY <1>5, <2>1 DEF StartsFirst
  <2>3. j \in 1..Len(q) /\ j # 1
    BY <1>1, <1>5, <2>1, <2>2
  <2>4. j - 1 \in 1..(i - 1)
    BY <2>1, <2>3
  <2> QED  BY <1>2, <2>2, <2>3, <2>4
<1> QED  BY <1>1, <1>3, <1>4, <1>5 DEF StartsFirst, t, h

LEMMA StartSeen ==
  ASSUME NEW q, NEW seen, NEW more, "started" \in seen => "started" \in more,
         StartsFirst(q, seen)
  PROVE  StartsFirst(q, more)
BY DEF StartsFirst

LEMMA StartDrain ==
  ASSUME NEW p \in Seq(Event), NEW q \in Seq(Event), NEW seen, NEW n \in 1..Len(q),
         StartsFirst(p, seen), StartsFirst(q, seen \cup Kinds(p))
  PROVE  StartsFirst(p \o SubSeq(q, 1, n), seen)
<1> DEFINE r == SubSeq(q, 1, n)
           c == p \o r
<1>1. /\ r \in Seq(Event) /\ Len(r) = n /\ Len(q) \in Nat /\ DOMAIN q = 1..Len(q)
      /\ \A i \in 1..n : r[i] = q[i]
  OBVIOUS
<1> HIDE DEF r
<1>2. /\ Len(p) \in Nat /\ DOMAIN p = 1..Len(p) /\ DOMAIN c = 1..(Len(p) + n)
      /\ \A i \in 1..(Len(p) + n) : c[i] = IF i <= Len(p) THEN p[i] ELSE r[i - Len(p)]
  BY <1>1
<1> HIDE DEF c
<1>3. ASSUME NEW k \in 1..n  PROVE Len(p) + k \in 1..(Len(p) + n) /\ c[Len(p) + k] = q[k]
  <2>1. Len(p) + k \in 1..(Len(p) + n) /\ ~(Len(p) + k <= Len(p)) /\ (Len(p) + k) - Len(p) = k
    BY <1>2
  <2> QED  BY <1>1, <1>2, <2>1
<1>4. ASSUME NEW k \in 1..Len(p)  PROVE c[k] = p[k] /\ k \in 1..(Len(p) + n)
  BY <1>2
<1>5. ASSUME NEW i \in DOMAIN c, c[i] \in Earned, "started" \notin seen
      PROVE  \E j \in 1..(i-1) : c[j] = "started"
  <2>1. CASE i <= Len(p)
    <3>1. i \in 1..Len(p) /\ p[i] \in Earned
      BY <1>2, <1>4, <1>5, <2>1
    <3>2. PICK j \in 1..(i-1) : p[j] = "started"
      BY <1>2, <1>5, <3>1 DEF StartsFirst
    <3>3. j \in 1..Len(p)
      BY <1>2, <3>1
    <3> QED  BY <1>4, <3>2, <3>3
  <2>2. CASE ~(i <= Len(p))
    <3> DEFINE k == i - Len(p)
    <3>1. k \in 1..n /\ i = Len(p) + k /\ k \in DOMAIN q
      BY <1>1, <1>2, <2>2
    <3> HIDE DEF k
    <3>2. q[k] \in Earned
      BY <1>3, <1>5, <3>1
    <3>3. CASE \E j \in 1..Len(p) : p[j] = "started"
      <4>1. PICK j \in 1..Len(p) : p[j] = "started"
        BY <3>3
      <4>2. j \in 1..(i-1)
        BY <1>2, <3>1
      <4> QED  BY <1>4, <4>1, <4>2
    <3>4. CASE \E j \in 1..(k-1) : q[j] = "started"
      <4>1. PICK j \in 1..(k-1) : q[j] = "started"
        BY <3>4
      <4>2. j \in 1..n /\ Len(p) + j \in 1..(i-1)
        BY <1>2, <3>1
      <4> QED  BY <1>3, <4>1, <4>2
    <3> QED  BY <1>2, <1>5, <3>1, <3>2, <3>3, <3>4 DEF StartsFirst, Kinds
  <2> QED  BY <2>1, <2>2
<1> QED  BY <1>5 DEF StartsFirst, c, r
-----------------------------------------------------------------------------
(* The steps. *)

(* A step of the runtime touches nothing of the other processes, needs the *)
(* worker and sends at most one event.                                     *)
LEMMA RuntimeStep ==
  ASSUME RtNext
  PROVE  /\ Alive
         /\ UNCHANGED <<execVars, sup, wrk, ctl1, ctl2, out2, out1>>
         /\ \/ UNCHANGED <<rtq, reported>>
            \/ \E e \in Event \ Terminal : rtq' = Append(rtq, e) /\ reported' = reported
            \/ \E e \in Terminal :
                 rtq' = Append(rtq, e) /\ reported' = IF reported = None THEN e ELSE reported
<1> USE DEF RtMove
<1>1. CASE RtSpawnFails \/ RtPrompt \/ AgentAnswers \/ RtCancel \/ RtTimeout
           \/ RtPostAnswered \/ RtPanics \/ RtClose
  BY <1>1 DEF RtSpawnFails, RtPrompt, AgentAnswers, RtCancel, RtTimeout, RtPostAnswered,
     RtPanics, RtClose
<1>2. CASE RtStarted
  <2>1. "started" \in Event \ Terminal
    BY DEF Event, Terminal, Confirmed
  <2> QED  BY <1>2, <2>1 DEF RtStarted
<1>3. CASE RtOutput
  <2>1. "output" \in Event \ Terminal
    BY DEF Event, Terminal, Confirmed
  <2> QED  BY <1>3, <2>1 DEF RtOutput
<1>4. CASE RtPrepareFails \/ RtQuestion \/ RtStreamLost \/ RtStopUnconfirmed \/ RtError
  <2>1. "failed" \in Terminal /\ "uncertain" \in Terminal
    BY DEF Terminal, Confirmed
  <2>2. CASE RtPrepareFails \/ RtQuestion
    BY <2>1, <2>2 DEF RtPrepareFails, RtQuestion, Report, Send
  <2>3. CASE RtStreamLost \/ RtStopUnconfirmed \/ RtError
    BY <2>1, <2>3 DEF RtStreamLost, RtStopUnconfirmed, RtError, Report, Send
  <2> QED  BY <1>4, <2>2, <2>3
<1>5. CASE RtAnswered \/ RtGraceEnds
  <2>1. Completion \subseteq Terminal
    BY DEF Completion, Terminal, Confirmed
  <2> QED  BY <1>5, <2>1 DEF RtAnswered, RtGraceEnds, Report, Send
<1>6. CASE RtStopped
  <2>1. (IF why = "cancel" THEN "cancelled" ELSE "failed") \in Terminal
    BY DEF Terminal, Confirmed
  <2> QED  BY <1>6, <2>1 DEF RtStopped, Report, Send
<1> QED  BY <1>1, <1>2, <1>3, <1>4, <1>5, <1>6 DEF RtNext

(* The same for a queue of the runtime whose type is known. *)
LEMMA RuntimeQueue ==
  ASSUME RtNext, TypeOK
  PROVE  rtq' \in Seq(Event) /\ reported' \in Terminal \cup {None}
<1>1. rtq \in Seq(Event) /\ reported \in Terminal \cup {None}
  BY DEF TypeOK
<1>2. ASSUME NEW e \in Event  PROVE Append(rtq, e) \in Seq(Event)
  BY <1>1
<1>3. Terminal \subseteq Event
  BY DEF Event
<1> QED  BY <1>1, <1>2, <1>3, RuntimeStep

(* A control pipe is read or written. *)
LEMMA ControlPipe ==
  ASSUME NEW c \in Seq({"cancel"}), NEW d \in Seq({"cancel"})
  PROVE  /\ Append(c, "cancel") \in Seq({"cancel"})
         /\ c # << >> => /\ Tail(c) \in Seq({"cancel"})
                         /\ Append(d, Head(c)) \in Seq({"cancel"})
OBVIOUS

(* Events move from one pipe to the next. *)
LEMMA EventPipe ==
  ASSUME NEW q \in Seq(Event), q # << >>, NEW p \in Seq(Event)
  PROVE  Tail(q) \in Seq(Event) /\ Append(p, Head(q)) \in Seq(Event)
OBVIOUS

LEMMA TypeStep == Inv /\ [Next]_vars => TypeOK'
<1> SUFFICES ASSUME Inv, [Next]_vars  PROVE TypeOK'
  OBVIOUS
<1> USE DEF Inv
<1>1. /\ signals \in Nat
      /\ exec \in {"spawn", "loop", "wait", "done", "gone"}
      /\ sup \in {"none", "start", "loop"} \cup Dead
      /\ wrk \in {"none", "loop", "ending"} \cup Dead
      /\ reported \in Terminal \cup {None}
      /\ rtq \in Seq(Event) /\ out1 \in Seq(Event) /\ out2 \in Seq(Event)
      /\ ctl1 \in Seq({"cancel"}) /\ ctl2 \in Seq({"cancel"})
  BY DEF TypeOK
<1> USE DEF Dead
<1>2. CASE UNCHANGED vars
  BY <1>1, <1>2 DEF vars, execVars, rtVars, TypeOK
<1>3. CASE Signal \/ DaemonDies \/ ExecSpawn
  BY <1>1, <1>3 DEF Signal, DaemonDies, ExecSpawn, rtVars, execVars, TypeOK
<1>4. CASE ExecSpawnFails \/ ExecCancelFails \/ ExecDeadline \/ ExecEof \/ ExecExit
           \/ ExecExitTimeout
  BY <1>1, <1>4 DEF ExecSpawnFails, ExecCancelFails, ExecDeadline, ExecEof, ExecExit,
     ExecExitTimeout, Return, rtVars, execVars, TypeOK
<1>5. CASE ExecCancel
  BY <1>1, <1>5, ControlPipe DEF ExecCancel, rtVars, execVars, TypeOK
<1>6. CASE ExecTerminal \/ ExecEvent
  BY <1>1, <1>6, EventPipe DEF ExecTerminal, ExecEvent, rtVars, execVars, TypeOK
<1>7. CASE SupStart \/ SupFails \/ SupEof \/ WrkFails \/ WrkEnd
  BY <1>1, <1>7 DEF SupStart, SupFails, SupEof, WrkFails, WrkEnd, rtVars, execVars, TypeOK
<1>8. CASE SupControl
  BY <1>1, <1>8, ControlPipe DEF SupControl, rtVars, execVars, TypeOK
<1>9. CASE SupForward
  BY <1>1, <1>9, EventPipe DEF SupForward, rtVars, execVars, TypeOK
<1>10. CASE WrkControl
  BY <1>1, <1>10, ControlPipe DEF WrkControl, rtVars, execVars, TypeOK
<1>11. CASE WrkEvent
  BY <1>1, <1>11, EventPipe DEF WrkEvent, rtVars, execVars, TypeOK
<1>12. CASE WrkJoin
  <2>1. CASE HasTerminal(rtq)
    <3>1. wrk = "loop" /\ FirstEnd(rtq, reported) /\ OnlyEnd(out2, reported)
      BY <1>12 DEF WrkJoin, EndsAgree
    <3>2. out2 \o SubSeq(rtq, 1, FirstTerminal(rtq)) \in Seq(Event)
      BY <1>1, <2>1, <3>1, DrainEnds
    <3> QED  BY <1>1, <1>12, <3>2 DEF WrkJoin, rtVars, execVars, TypeOK
  <2>2. CASE ~HasTerminal(rtq)
    BY <1>1, <1>12, <2>2 DEF HasTerminal, WrkJoin, rtVars, execVars, TypeOK
  <2> QED  BY <2>1, <2>2
<1>13. CASE RtNext
  BY <1>1, <1>13, RuntimeStep, RuntimeQueue DEF execVars, TypeOK
<1> QED
  BY <1>2, <1>3, <1>4, <1>5, <1>6, <1>7, <1>8, <1>9, <1>10, <1>11, <1>12, <1>13 DEF Next

LEMMA NestedStep == Inv /\ [Next]_vars => Nested'
<1> SUFFICES ASSUME Inv, [Next]_vars  PROVE Nested'
  OBVIOUS
<1>1. /\ exec = "spawn" => sup = "none"
      /\ sup \in {"none", "start"} => wrk = "none"
      /\ sup = "exit0" => wrk = "exit0"
      /\ outcome \in Confirmed => sup = "exit0"
  BY DEF Inv, Nested
<1> USE DEF Dead
<1>2. CASE UNCHANGED <<sup, wrk, outcome>> /\ (exec' = "spawn" => exec = "spawn")
  BY <1>1, <1>2 DEF Nested
<1>3. CASE ExecSpawn
  BY <1>1, <1>3 DEF ExecSpawn, Nested
<1>4. CASE ExecSpawnFails \/ ExecCancelFails \/ ExecDeadline \/ ExecEof \/ ExecExitTimeout
  <2>1. exec' = "done" /\ outcome' = "uncertain" /\ UNCHANGED <<sup, wrk>>
    BY <1>4 DEF ExecSpawnFails, ExecCancelFails, ExecDeadline, ExecEof, ExecExitTimeout, Return
  <2> QED  BY <1>1, <2>1 DEF Nested, Confirmed
<1>5. CASE ExecExit
  <2>1. /\ exec' = "done" /\ UNCHANGED <<sup, wrk>>
        /\ outcome' = IF sup = "exit0" THEN held ELSE "uncertain"
    BY <1>5 DEF ExecExit, Return
  <2>2. outcome' \in Confirmed => sup = "exit0"
    BY <2>1 DEF Confirmed
  <2> QED  BY <1>1, <2>1, <2>2 DEF Nested
<1>6. CASE SupStart \/ SupFails
  <2>1. /\ UNCHANGED <<exec, outcome>> /\ sup \in {"start", "loop"}
        /\ sup' \in {"loop", "exit1"}
    BY <1>6 DEF SupStart, SupFails, execVars
  <2> QED  BY <1>1, <2>1 DEF Nested
<1>7. CASE SupControl \/ SupForward
  <2>1. /\ UNCHANGED <<exec, outcome, wrk>> /\ sup = "loop" /\ sup' \in {"loop", "exit1"}
    BY <1>7 DEF SupControl, SupForward, execVars
  <2> QED  BY <1>1, <2>1 DEF Nested
<1>8. CASE SupEof
  <2>1. /\ UNCHANGED <<exec, outcome, wrk>> /\ sup = "loop" /\ sup' = wrk /\ wrk \in Dead
    BY <1>8 DEF SupEof, execVars
  <2> QED  BY <1>1, <2>1 DEF Nested
<1>9. CASE WrkFails \/ WrkControl \/ WrkEvent \/ WrkEnd \/ WrkJoin
  <2>1. UNCHANGED <<exec, outcome, sup>> /\ wrk \in {"loop", "ending"}
    BY <1>9 DEF WrkFails, WrkControl, WrkEvent, WrkEnd, WrkJoin, execVars
  <2> QED  BY <1>1, <2>1 DEF Nested
<1>10. CASE UNCHANGED vars \/ Signal \/ DaemonDies \/ ExecCancel \/ ExecTerminal \/ ExecEvent
  BY <1>10, <1>2 DEF vars, execVars, Signal, DaemonDies, ExecCancel, ExecTerminal, ExecEvent
<1>11. CASE RtNext
  BY <1>11, <1>2, RuntimeStep DEF execVars
<1> QED
  BY <1>3, <1>4, <1>5, <1>6, <1>7, <1>8, <1>9, <1>10, <1>11 DEF Next

LEMMA EndsStep == Inv /\ [Next]_vars => EndsAgree'
<1> SUFFICES ASSUME Inv, [Next]_vars  PROVE EndsAgree'
  OBVIOUS
<1>1. /\ rtq \in Seq(Event) /\ out1 \in Seq(Event) /\ out2 \in Seq(Event)
      /\ reported \in Terminal \cup {None}
  BY DEF Inv, TypeOK
<1>2. /\ wrk = "none" => rtq = << >> /\ reported = None
      /\ wrk = "loop" => (HasTerminal(rtq) <=> reported # None)
      /\ wrk = "loop" => FirstEnd(rtq, reported)
      /\ OnlyEnd(out2, reported)
      /\ OnlyEnd(out1, reported)
      /\ exec = "wait" => held \in Terminal /\ held = reported
      /\ outcome \in Confirmed => outcome = reported
  BY DEF Inv, EndsAgree
<1>3. CASE UNCHANGED vars \/ Signal \/ ExecCancel
  BY <1>2, <1>3 DEF vars, execVars, rtVars, Signal, ExecCancel, EndsAgree
<1>4. CASE DaemonDies \/ ExecSpawn
  BY <1>2, <1>4 DEF DaemonDies, ExecSpawn, rtVars, EndsAgree
<1>5. CASE ExecSpawnFails \/ ExecCancelFails \/ ExecDeadline \/ ExecEof \/ ExecExitTimeout
  <2>1. /\ exec' = "done" /\ outcome' = "uncertain"
        /\ UNCHANGED <<held, wrk, rtq, reported, out1, out2>>
    BY <1>5 DEF ExecSpawnFails, ExecCancelFails, ExecDeadline, ExecEof, ExecExitTimeout,
       Return, rtVars
  <2>2. outcome' \notin Confirmed
    BY <2>1 DEF Confirmed
  <2> QED  BY <1>2, <2>1, <2>2 DEF EndsAgree
<1>6. CASE ExecExit
  <2>1. /\ exec = "wait" /\ exec' = "done" /\ outcome' \in {held, "uncertain"}
        /\ UNCHANGED <<held, wrk, rtq, reported, out1, out2>>
    BY <1>6 DEF ExecExit, Return, rtVars
  <2>2. outcome' \in Confirmed => outcome' = reported'
    BY <1>2, <2>1 DEF Confirmed
  <2> QED  BY <1>2, <2>1, <2>2 DEF EndsAgree
<1>7. CASE ExecTerminal
  <2>1. /\ exec' = "wait" /\ held' = Head(out1) /\ out1' = Tail(out1) /\ out1 # << >>
        /\ Head(out1) \in Terminal
        /\ UNCHANGED <<outcome, wrk, rtq, reported, out2>>
    BY <1>7 DEF ExecTerminal, rtVars
  <2>2. Head(out1) = reported /\ OnlyEnd(Tail(out1), reported)
    BY <1>1, <1>2, <2>1, TailEnds
  <2> QED  BY <1>2, <2>1, <2>2 DEF EndsAgree
<1>8. CASE ExecEvent
  <2>1. /\ out1' = Tail(out1) /\ out1 # << >>
        /\ UNCHANGED <<exec, held, outcome, wrk, rtq, reported, out2>>
    BY <1>8 DEF ExecEvent, execVars, rtVars
  <2>2. OnlyEnd(Tail(out1), reported)
    BY <1>1, <1>2, <2>1, TailEnds
  <2> QED  BY <1>2, <2>1, <2>2 DEF EndsAgree
<1>9. CASE SupStart
  <2>1. wrk = "none" /\ wrk' = "loop" /\ UNCHANGED <<exec, held, outcome, rtq, reported, out1, out2>>
    BY <1>9 DEF SupStart, execVars, Inv, Nested
  <2>2. ~HasTerminal(<< >>) /\ FirstEnd(<< >>, reported)
    BY DEF HasTerminal, FirstEnd
  <2> QED  BY <1>2, <2>1, <2>2 DEF EndsAgree
<1>10. CASE SupFails \/ SupControl \/ SupEof
  BY <1>2, <1>10 DEF SupFails, SupControl, SupEof, execVars, rtVars, EndsAgree
<1>11. CASE SupForward
  <2>1. /\ out2 # << >> /\ out2' = Tail(out2)
        /\ \/ UNCHANGED out1
           \/ out1' = Append(out1, Head(out2))
        /\ UNCHANGED <<exec, held, outcome, wrk, rtq, reported>>
    BY <1>11 DEF SupForward, execVars, rtVars
  <2>2. /\ OnlyEnd(Tail(out2), reported) /\ Head(out2) \in Event
        /\ Head(out2) \in Terminal => Head(out2) = reported
    BY <1>1, <1>2, <2>1, TailEnds
  <2>3. OnlyEnd(Append(out1, Head(out2)), reported)
    BY <1>1, <1>2, <2>2, AppendPlain, AppendEnd
  <2>4. OnlyEnd(out1', reported)
    BY <1>2, <2>1, <2>3
  <2> QED  BY <1>2, <2>1, <2>2, <2>4 DEF EndsAgree
<1>12. CASE WrkFails \/ WrkControl \/ WrkEnd
  <2>1. /\ wrk' \in {"loop", "exit0", "exit1"} /\ (wrk' = "loop" => wrk = "loop")
        /\ UNCHANGED <<exec, held, outcome, rtq, reported, out1, out2>>
    BY <1>12 DEF WrkFails, WrkControl, WrkEnd, execVars, rtVars
  <2> QED  BY <1>2, <2>1 DEF EndsAgree
<1>13. CASE WrkEvent
  <2>1. /\ wrk = "loop" /\ rtq # << >> /\ rtq' = Tail(rtq)
        /\ out2' = Append(out2, Head(rtq))
        /\ wrk' = IF Head(rtq) \in Terminal THEN "ending" ELSE "loop"
        /\ UNCHANGED <<exec, held, outcome, reported, out1>>
    BY <1>13 DEF WrkEvent, execVars
  <2>2. Head(rtq) \in Event /\ (Head(rtq) \in Terminal => Head(rtq) = reported)
    BY <1>1, <1>2, <2>1, TailEnds
  <2>3. OnlyEnd(Append(out2, Head(rtq)), reported)
    BY <1>1, <1>2, <2>2, AppendPlain, AppendEnd
  <2>4. CASE Head(rtq) \in Terminal
    BY <1>2, <2>1, <2>3, <2>4 DEF EndsAgree
  <2>5. CASE Head(rtq) \notin Terminal
    <3>1. (HasTerminal(Tail(rtq)) <=> reported # None) /\ FirstEnd(Tail(rtq), reported)
      BY <1>1, <1>2, <2>1, <2>5, TailEnds
    <3> QED  BY <1>2, <2>1, <2>3, <2>5, <3>1 DEF EndsAgree
  <2> QED  BY <2>4, <2>5
<1>14. CASE WrkJoin
  <2>1. /\ wrk = "loop" /\ wrk' \in {"exit0", "exit1"}
        /\ UNCHANGED <<exec, held, outcome, rtq, reported, out1>>
        /\ \/ UNCHANGED out2
           \/ /\ HasTerminal(rtq)
              /\ out2' = out2 \o SubSeq(rtq, 1, FirstTerminal(rtq))
    BY <1>14 DEF WrkJoin, execVars, rtVars, HasTerminal
  <2>2. OnlyEnd(out2', reported)
    BY <1>1, <1>2, <2>1, DrainEnds
  <2> QED  BY <1>2, <2>1, <2>2 DEF EndsAgree
<1>15. CASE RtNext
  <2>1. /\ wrk \in {"loop", "ending"} /\ UNCHANGED <<exec, held, outcome, wrk, out1, out2>>
    BY <1>15, RuntimeStep DEF execVars, Alive
  <2>2. CASE UNCHANGED <<rtq, reported>>
    BY <1>2, <2>1, <2>2 DEF EndsAgree
  <2>3. ASSUME NEW e \in Event \ Terminal, rtq' = Append(rtq, e), reported' = reported
        PROVE  EndsAgree'
    <3>1. /\ HasTerminal(Append(rtq, e)) <=> HasTerminal(rtq)
          /\ FirstEnd(rtq, reported) => FirstEnd(Append(rtq, e), reported)
      BY <1>1, AppendPlain
    <3> QED  BY <1>2, <2>1, <2>3, <3>1 DEF EndsAgree
  <2>4. ASSUME NEW e \in Terminal, rtq' = Append(rtq, e), reported # None, reported' = reported
        PROVE  EndsAgree'
    <3>1. /\ HasTerminal(Append(rtq, e))
          /\ HasTerminal(rtq) /\ FirstEnd(rtq, reported) => FirstEnd(Append(rtq, e), reported)
      BY <1>1, AppendEnd
    <3> QED  BY <1>2, <2>1, <2>4, <3>1 DEF EndsAgree
  <2>5. ASSUME NEW e \in Terminal, rtq' = Append(rtq, e), reported = None, reported' = e
        PROVE  EndsAgree'
    <3>1. /\ HasTerminal(Append(rtq, e))
          /\ ~HasTerminal(rtq) => FirstEnd(Append(rtq, e), e)
      BY <1>1, AppendEnd
    <3>2. e # None /\ None \notin Terminal /\ None \notin Confirmed
      BY NoneAssumption DEF Terminal
    <3>3. OnlyEnd(out1, e) /\ OnlyEnd(out2, e)
      BY <1>2, <2>5, <3>2 DEF OnlyEnd
    <3> QED  BY <1>2, <2>1, <2>5, <3>1, <3>2, <3>3 DEF EndsAgree
  <2> QED  BY <1>15, RuntimeStep, <2>2, <2>3, <2>4, <2>5
<1> QED
  BY <1>3, <1>4, <1>5, <1>6, <1>7, <1>8, <1>9, <1>10, <1>11, <1>12, <1>13, <1>14, <1>15 DEF Next

LEMMA AskedStep == Inv /\ [Next]_vars => CancelsAsked'
<1> SUFFICES ASSUME Inv, [Next]_vars  PROVE CancelsAsked'
  OBVIOUS
<1>1. /\ signals \in Nat
      /\ unseen \/ ctl1 # << >> \/ ctl2 # << >> \/ rtcancel \/ why = "cancel" => signals > 0
  BY DEF Inv, TypeOK, CancelsAsked
<1>2. CASE Signal
  BY <1>1, <1>2 DEF Signal, CancelsAsked
<1>3. CASE UNCHANGED signals /\ signals > 0
  BY <1>3 DEF CancelsAsked
<1>4. CASE UNCHANGED <<signals, unseen, ctl1, ctl2, rtcancel, why>>
  BY <1>1, <1>4 DEF CancelsAsked
<1>5. CASE ExecCancel \/ SupControl \/ WrkControl \/ RtCancel
  <2>1. UNCHANGED signals
    BY <1>5 DEF ExecCancel, SupControl, WrkControl, RtCancel, RtMove, execVars
  <2>2. signals > 0
    BY <1>1, <1>5 DEF ExecCancel, SupControl, WrkControl, RtCancel
  <2> QED  BY <2>1, <2>2, <1>3
<1>6. CASE RtTimeout
  <2>1. why' = "timeout" /\ UNCHANGED <<signals, unseen, ctl1, ctl2, rtcancel>>
    BY <1>6 DEF RtTimeout, RtMove, execVars
  <2> QED  BY <1>1, <2>1 DEF CancelsAsked
<1>7. CASE RtNext /\ ~RtCancel /\ ~RtTimeout
  BY <1>4, <1>7 DEF RtNext, RtSpawnFails, RtStarted, RtPrompt, RtPrepareFails, RtOutput,
     AgentAnswers, RtAnswered, RtPostAnswered, RtGraceEnds, RtQuestion, RtStreamLost,
     RtStopped, RtStopUnconfirmed, RtError, RtPanics, RtClose, RtMove, Report, Send, execVars
<1>8. CASE UNCHANGED vars \/ DaemonDies \/ ExecSpawn \/ ExecSpawnFails \/ ExecCancelFails
           \/ ExecDeadline \/ ExecTerminal \/ ExecEvent \/ ExecEof \/ ExecExit \/ ExecExitTimeout
  BY <1>4, <1>8 DEF vars, DaemonDies, ExecSpawn, ExecSpawnFails, ExecCancelFails,
     ExecDeadline, ExecTerminal, ExecEvent, ExecEof, ExecExit, ExecExitTimeout, Return,
     execVars, rtVars
<1>9. CASE SupStart \/ SupFails \/ SupForward \/ SupEof \/ WrkFails \/ WrkEvent \/ WrkEnd
           \/ WrkJoin
  BY <1>4, <1>9 DEF SupStart, SupFails, SupForward, SupEof, WrkFails, WrkEvent, WrkEnd,
     WrkJoin, execVars, rtVars
<1> QED  BY <1>2, <1>5, <1>6, <1>7, <1>8, <1>9 DEF Next

LEMMA EarnedStep == Inv /\ [Next]_vars => EndsEarned'
<1> SUFFICES ASSUME Inv, [Next]_vars  PROVE EndsEarned'
  OBVIOUS
<1>1. /\ signals \in Nat /\ reported \in Terminal \cup {None}
      /\ reported # None => rt \in {"closing", "ok", "err"}
      /\ rt = "grace" => agent = "answered"
      /\ reported = "cancelled" => signals > 0 /\ agent = "answered"
      /\ reported = "completed" => agent = "answered"
      /\ why = "cancel" => signals > 0
  BY DEF Inv, TypeOK, EndsEarned, CancelsAsked
<1>2. None # "cancelled" /\ None # "completed"
  BY NoneAssumption DEF Terminal, Confirmed
<1>3. CASE UNCHANGED <<rt, agent, reported>> /\ (signals' = signals \/ signals' = signals + 1)
  BY <1>1, <1>3 DEF EndsEarned
<1>4. CASE SupStart
  <2>1. /\ reported = None /\ rt' = "prepare" /\ UNCHANGED <<signals, agent, reported>>
    BY <1>4 DEF SupStart, Inv, Nested, EndsAgree, execVars
  <2> QED  BY <1>2, <2>1 DEF EndsEarned
<1>5. CASE RtStarted \/ RtPrompt \/ RtOutput \/ RtCancel \/ RtTimeout \/ RtPostAnswered
           \/ RtPanics \/ RtClose \/ RtSpawnFails
  <2>1. UNCHANGED <<signals, reported>>
    BY <1>5 DEF RtStarted, RtPrompt, RtOutput, RtCancel, RtTimeout, RtPostAnswered, RtClose,
       RtPanics, RtSpawnFails, RtMove, execVars
  <2>2. CASE RtStarted \/ RtPrompt \/ RtCancel \/ RtTimeout
    <3>1. reported = None /\ rt' # "grace"
      BY <1>1, <2>2 DEF RtStarted, RtPrompt, RtCancel, RtTimeout, RtMove
    <3> QED  BY <1>2, <2>1, <3>1 DEF EndsEarned
  <2>3. CASE RtOutput
    <3>1. reported = None /\ rt' = rt /\ agent' = agent
      BY <1>1, <2>3 DEF RtOutput, RtMove
    <3> QED  BY <1>1, <1>2, <2>1, <3>1 DEF EndsEarned
  <2>4. CASE RtPostAnswered
    <3>1. reported = None /\ agent = "answered" /\ agent' = agent
      BY <1>1, <2>4 DEF RtPostAnswered, RtMove
    <3> QED  BY <1>2, <2>1, <3>1 DEF EndsEarned
  <2>5. CASE RtPanics \/ RtClose \/ RtSpawnFails
    <3>1. rt' \in {"ok", "err"} /\ agent' = agent
      BY <2>5 DEF RtPanics, RtClose, RtSpawnFails, RtMove
    <3> QED  BY <1>1, <2>1, <3>1 DEF EndsEarned
  <2> QED  BY <1>5, <2>2, <2>3, <2>4, <2>5
<1>6. CASE AgentAnswers
  <2>1. UNCHANGED <<signals, reported, rt>> /\ agent' = "answered"
    BY <1>6 DEF AgentAnswers, RtMove, execVars
  <2> QED  BY <1>1, <2>1 DEF EndsEarned
<1>7. CASE RtPrepareFails \/ RtQuestion \/ RtStreamLost \/ RtStopUnconfirmed \/ RtError
  <2>1. /\ rt' \in {"closing", "err"} /\ UNCHANGED <<signals, agent>>
        /\ reported' \in {reported, "failed", "uncertain"}
    BY <1>7 DEF RtPrepareFails, RtQuestion, RtStreamLost, RtStopUnconfirmed, RtError, Report,
       Send, RtMove, execVars
  <2>2. reported' \in {"cancelled", "completed"} => reported' = reported
    BY <2>1
  <2> QED  BY <1>1, <2>1, <2>2 DEF EndsEarned
<1>8. CASE RtAnswered \/ RtGraceEnds
  <2>1. /\ rt' = "closing" /\ UNCHANGED <<signals, agent>> /\ agent = "answered"
        /\ reported' \in {reported, "completed", "failed"}
    BY <1>1, <1>8 DEF RtAnswered, RtGraceEnds, Report, Send, RtMove, execVars, Completion
  <2> QED  BY <1>1, <2>1 DEF EndsEarned
<1>9. CASE RtStopped
  <2>1. /\ rt' = "closing" /\ UNCHANGED <<signals, agent>> /\ agent = "answered"
        /\ reported' \in {reported, IF why = "cancel" THEN "cancelled" ELSE "failed"}
    BY <1>9 DEF RtStopped, Stopped, Report, Send, RtMove, execVars
  <2>2. reported' = "cancelled" => signals > 0
    BY <1>1, <2>1
  <2> QED  BY <1>1, <2>1, <2>2 DEF EndsEarned
<1>10. CASE RtNext
  BY <1>5, <1>6, <1>7, <1>8, <1>9, <1>10 DEF RtNext
<1>11. CASE UNCHANGED vars \/ Signal \/ DaemonDies \/ ExecSpawn \/ ExecSpawnFails
            \/ ExecCancel \/ ExecCancelFails \/ ExecDeadline \/ ExecTerminal \/ ExecEvent
            \/ ExecEof \/ ExecExit \/ ExecExitTimeout
  BY <1>3, <1>11 DEF vars, Signal, DaemonDies, ExecSpawn, ExecSpawnFails, ExecCancel,
     ExecCancelFails, ExecDeadline, ExecTerminal, ExecEvent, ExecEof, ExecExit,
     ExecExitTimeout, Return, execVars, rtVars
<1>12. CASE SupFails \/ SupControl \/ SupForward \/ SupEof \/ WrkFails \/ WrkControl
            \/ WrkEvent \/ WrkEnd \/ WrkJoin
  BY <1>3, <1>12 DEF SupFails, SupControl, SupForward, SupEof, WrkFails, WrkControl,
     WrkEvent, WrkEnd, WrkJoin, execVars, rtVars
<1> QED  BY <1>4, <1>10, <1>11, <1>12 DEF Next

(* A step of the runtime sends the start before it can report a good end.  *)
LEMMA RuntimeStarts ==
  ASSUME RtNext
  PROVE  \/ /\ UNCHANGED rtq
            /\ rt' \in {"session", "prompt", "grace", "stopping"} =>
                 rt \in {"session", "prompt", "grace", "stopping"}
         \/ rtq' = Append(rtq, "started")
         \/ /\ rtq' = Append(rtq, "output") /\ rt' = rt
         \/ \E e \in Terminal :
              /\ rtq' = Append(rtq, e) /\ rt' \in {"closing", "err"}
              /\ e \in Earned => rt \in {"session", "prompt", "grace", "stopping"}
<1> USE DEF RtMove
<1>1. CASE RtSpawnFails \/ RtPrompt \/ AgentAnswers \/ RtCancel \/ RtTimeout
           \/ RtPostAnswered \/ RtPanics \/ RtClose
  BY <1>1 DEF RtSpawnFails, RtPrompt, AgentAnswers, RtCancel, RtTimeout, RtPostAnswered,
     RtPanics, RtClose
<1>2. CASE RtStarted \/ RtOutput
  BY <1>2 DEF RtStarted, RtOutput
<1>3. CASE RtPrepareFails \/ RtQuestion \/ RtStreamLost \/ RtStopUnconfirmed \/ RtError
  <2>1. /\ "failed" \in Terminal \ Earned /\ "uncertain" \in Terminal \ Earned
    BY DEF Terminal, Confirmed, Earned
  <2>2. CASE RtPrepareFails \/ RtQuestion
    BY <2>1, <2>2 DEF RtPrepareFails, RtQuestion, Report, Send
  <2>3. CASE RtStreamLost \/ RtStopUnconfirmed \/ RtError
    BY <2>1, <2>3 DEF RtStreamLost, RtStopUnconfirmed, RtError, Report, Send
  <2> QED  BY <1>3, <2>2, <2>3
<1>4. CASE RtAnswered \/ RtGraceEnds
  <2>1. Completion \subseteq Terminal
    BY DEF Completion, Terminal, Confirmed
  <2> QED  BY <1>4, <2>1 DEF RtAnswered, RtGraceEnds, Report, Send
<1>5. CASE RtStopped
  <2>1. (IF why = "cancel" THEN "cancelled" ELSE "failed") \in Terminal
    BY DEF Terminal, Confirmed
  <2> QED  BY <1>5, <2>1 DEF RtStopped, Report, Send
<1> QED  BY <1>1, <1>2, <1>3, <1>4, <1>5 DEF RtNext

LEMMA StartedStep == Inv /\ [Next]_vars => StartsTold'
<1> SUFFICES ASSUME Inv, [Next]_vars  PROVE StartsTold'
  OBVIOUS
<1>1. /\ rtq \in Seq(Event) /\ out1 \in Seq(Event) /\ out2 \in Seq(Event)
      /\ Terminal \subseteq Event /\ {"started", "output"} \subseteq Event
  BY DEF Inv, TypeOK, Event
<1>2. StartsTold
  BY DEF Inv
<1>3. /\ Earned \subseteq Terminal /\ "uncertain" \notin Earned
      /\ "started" \notin Earned /\ "output" \notin Earned
  BY DEF Earned, Terminal, Confirmed
(* Nothing moves, or execute() reads no more. *)
<1>4. ASSUME UNCHANGED begun, exec' \in {"spawn", "loop"} => exec \in {"spawn", "loop"},
             exec' \in {"spawn", "loop"} =>
               /\ UNCHANGED <<rt, rtq, out1, out2>>
               /\ wrk' = "loop" => wrk = "loop",
             exec' = "wait" => exec = "wait" /\ held' = held,
             outcome' \in Earned => outcome' = outcome \/ (exec = "wait" /\ outcome' = held)
      PROVE  StartsTold'
  <2>1. Told' = Told
    BY <1>4 DEF Told
  <2>2. exec' \in {"spawn", "loop"} => StartsOnTheWay'
    BY <1>2, <1>4, <2>1 DEF StartsTold, StartsOnTheWay
  <2> QED  BY <1>2, <1>4, <2>2 DEF StartsTold
<1>5. CASE UNCHANGED vars \/ Signal \/ ExecCancel \/ DaemonDies \/ ExecSpawn
  <2>1. /\ UNCHANGED <<begun, rt, rtq, out1, out2, wrk, held, outcome>>
        /\ exec' = exec \/ exec' = "gone" \/ (exec = "spawn" /\ exec' = "loop")
    BY <1>5 DEF vars, Signal, ExecCancel, DaemonDies, ExecSpawn, execVars, rtVars
  <2> QED  BY <1>4, <2>1
<1>6. CASE ExecSpawnFails \/ ExecCancelFails \/ ExecDeadline \/ ExecEof \/ ExecExitTimeout
           \/ ExecExit
  <2>1. /\ UNCHANGED begun /\ exec' = "done"
        /\ outcome' = "uncertain" \/ (exec = "wait" /\ outcome' = held)
    BY <1>6 DEF ExecSpawnFails, ExecCancelFails, ExecDeadline, ExecEof, ExecExitTimeout,
       ExecExit, Return
  <2> QED  BY <1>3, <1>4, <2>1
<1>7. CASE SupFails \/ SupControl \/ SupEof \/ WrkFails \/ WrkControl \/ WrkEnd
  <2>1. /\ UNCHANGED <<begun, exec, held, outcome, rt, rtq, out1, out2>>
        /\ wrk' = "loop" => wrk = "loop"
    BY <1>7 DEF SupFails, SupControl, SupEof, WrkFails, WrkControl, WrkEnd, execVars, rtVars
  <2> QED  BY <1>4, <2>1
<1>8. CASE ExecTerminal
  <2>1. /\ exec = "loop" /\ exec' = "wait" /\ out1 # << >> /\ held' = Head(out1)
        /\ UNCHANGED <<outcome, begun>>
    BY <1>8 DEF ExecTerminal
  <2>2. StartsFirst(out1, Told)
    BY <1>2, <2>1 DEF StartsTold, StartsOnTheWay
  <2>3. Head(out1) \in Earned => "started" \in Told
    BY <1>1, <2>1, <2>2, StartTail
  <2>4. held' \in Earned => begun'
    BY <2>1, <2>3 DEF Told
  <2> QED  BY <1>2, <2>1, <2>4 DEF StartsTold
<1>9. CASE ExecEvent
  <2>1. /\ exec = "loop" /\ out1 # << >> /\ out1' = Tail(out1)
        /\ UNCHANGED <<exec, held, outcome, wrk, rt, rtq, out2>>
    BY <1>9 DEF ExecEvent, rtVars
  <2>2. begun' = (begun \/ Head(out1) = "started")
    BY <1>9 DEF ExecEvent
  <2>3. "started" \in Told \cup {Head(out1)} => "started" \in Told'
    BY <2>2 DEF Told
  <2>4. StartsOnTheWay
    BY <1>2, <2>1 DEF StartsTold
  <2>5. /\ StartsFirst(Tail(out1), Told \cup {Head(out1)})
        /\ Kinds(out1) = {Head(out1)} \cup Kinds(Tail(out1))
    BY <1>1, <2>1, <2>4, StartTail DEF StartsOnTheWay
  <2>6. StartsFirst(out1', Told')
    BY <2>1, <2>3, <2>5, StartSeen
  <2>7. StartsFirst(out2', Told' \cup Kinds(out1)')
    <3>1. Kinds(out1)' = Kinds(Tail(out1))
      BY <2>1 DEF Kinds
    <3> QED  BY <2>1, <2>3, <2>4, <2>5, <3>1, StartSeen DEF StartsOnTheWay
  <2>8. /\ Kinds(out1)' = Kinds(Tail(out1)) /\ Kinds(out2)' = Kinds(out2)
        /\ Kinds(rtq)' = Kinds(rtq)
    BY <2>1 DEF Kinds
  <2>9. "started" \in Told \cup Kinds(out1) \cup Kinds(out2) =>
          "started" \in Told' \cup Kinds(out1)' \cup Kinds(out2)'
    BY <2>3, <2>5, <2>8
  <2>10. wrk' = "loop" => StartsFirst(rtq', Told' \cup Kinds(out1)' \cup Kinds(out2)')
    BY <2>1, <2>4, <2>9, StartSeen DEF StartsOnTheWay
  <2>11. StartsOnTheWay'
    BY <2>1, <2>4, <2>6, <2>7, <2>8, <2>9, <2>10 DEF StartsOnTheWay
  <2>12. begun => begun'
    BY <2>2
  <2> QED  BY <1>2, <2>1, <2>11, <2>12 DEF StartsTold
<1>10. CASE SupStart
  <2>1. /\ wrk = "none" /\ rt' = "prepare" /\ rtq = << >>
        /\ UNCHANGED <<begun, exec, held, outcome, rtq, out1, out2>>
    BY <1>10 DEF SupStart, execVars, Inv, Nested, EndsAgree
  <2>2. Told' = Told /\ \A seen : StartsFirst(<< >>, seen)
    BY <2>1 DEF Told, StartsFirst
  <2>3. exec' \in {"spawn", "loop"} => StartsOnTheWay'
    BY <1>2, <2>1, <2>2 DEF StartsTold, StartsOnTheWay
  <2> QED  BY <1>2, <2>1, <2>3 DEF StartsTold
<1>11. CASE SupForward
  <2>1. /\ out2 # << >> /\ out2' = Tail(out2)
        /\ UNCHANGED <<begun, exec, held, outcome, wrk, rt, rtq>>
    BY <1>11 DEF SupForward, execVars, rtVars
  <2>2. exec \in {"spawn", "loop"} => out1' = Append(out1, Head(out2))
    BY <1>11 DEF SupForward
  <2>3. Told' = Told
    BY <2>1 DEF Told
  <2>4. ASSUME exec \in {"spawn", "loop"}  PROVE StartsOnTheWay'
    <3>1. StartsOnTheWay
      BY <1>2, <2>4 DEF StartsTold
    <3>2. /\ Head(out2) \in Event /\ Kinds(out2) = {Head(out2)} \cup Kinds(Tail(out2))
          /\ StartsFirst(Tail(out2), (Told \cup Kinds(out1)) \cup {Head(out2)})
          /\ Head(out2) \in Earned => "started" \in Told \cup Kinds(out1)
      BY <1>1, <2>1, <3>1, StartTail DEF StartsOnTheWay
    <3>3. /\ Kinds(out1)' = Kinds(out1) \cup {Head(out2)}
          /\ StartsFirst(out1', Told)
      <4>1. StartsFirst(out1, Told)
        BY <3>1 DEF StartsOnTheWay
      <4>2. /\ Kinds(Append(out1, Head(out2))) = Kinds(out1) \cup {Head(out2)}
            /\ StartsFirst(Append(out1, Head(out2)), Told)
        BY <1>1, <3>2, <4>1, StartAppend
      <4>3. Kinds(out1)' = Kinds(Append(out1, Head(out2)))
        BY <2>2, <2>4 DEF Kinds
      <4> QED  BY <2>2, <2>4, <4>2, <4>3
    <3>4. Kinds(out2)' = Kinds(Tail(out2)) /\ Kinds(rtq)' = Kinds(rtq)
      BY <2>1 DEF Kinds
    <3>5. Told \cup Kinds(out1) \cup Kinds(out2) = Told' \cup Kinds(out1)' \cup Kinds(out2)'
      BY <2>3, <3>2, <3>3, <3>4
    <3>6. (Told \cup Kinds(out1)) \cup {Head(out2)} = Told' \cup Kinds(out1)'
      BY <2>3, <3>3
    <3> QED  BY <2>1, <2>3, <3>1, <3>2, <3>3, <3>4, <3>5, <3>6 DEF StartsOnTheWay
  <2> QED  BY <1>2, <2>1, <2>4 DEF StartsTold
<1>12. CASE WrkEvent
  <2>1. /\ wrk = "loop" /\ rtq # << >> /\ rtq' = Tail(rtq) /\ out2' = Append(out2, Head(rtq))
        /\ UNCHANGED <<begun, exec, held, outcome, rt, out1>>
    BY <1>12 DEF WrkEvent, execVars
  <2>2. Told' = Told
    BY <2>1 DEF Told
  <2>3. ASSUME exec \in {"spawn", "loop"}  PROVE StartsOnTheWay'
    <3>1. StartsOnTheWay
      BY <1>2, <2>3 DEF StartsTold
    <3> DEFINE seen == Told \cup Kinds(out1)
    <3>2. StartsFirst(out2, seen) /\ StartsFirst(rtq, seen \cup Kinds(out2))
      BY <2>1, <3>1 DEF StartsOnTheWay
    <3>3. /\ Head(rtq) \in Event /\ Kinds(rtq) = {Head(rtq)} \cup Kinds(Tail(rtq))
          /\ StartsFirst(Tail(rtq), (seen \cup Kinds(out2)) \cup {Head(rtq)})
          /\ Head(rtq) \in Earned => "started" \in seen \cup Kinds(out2)
      BY <1>1, <2>1, <3>2, StartTail
    <3>4. /\ Kinds(Append(out2, Head(rtq))) = Kinds(out2) \cup {Head(rtq)}
          /\ StartsFirst(Append(out2, Head(rtq)), seen)
      BY <1>1, <3>2, <3>3, StartAppend
    <3>5. /\ Kinds(out2)' = Kinds(out2) \cup {Head(rtq)} /\ Kinds(rtq)' = Kinds(Tail(rtq))
          /\ seen' = seen
      BY <2>1, <2>2, <3>4 DEF Kinds
    <3>6. (seen \cup Kinds(out2)) \cup {Head(rtq)} = Told' \cup Kinds(out1)' \cup Kinds(out2)'
      BY <3>5
    <3>7. StartsFirst(out1', Told') /\ StartsFirst(out2', Told' \cup Kinds(out1)')
      BY <2>1, <2>2, <3>1, <3>4, <3>5 DEF StartsOnTheWay
    <3>8. StartsFirst(rtq', Told' \cup Kinds(out1)' \cup Kinds(out2)')
      BY <2>1, <3>3, <3>6
    <3>9. seen \cup Kinds(out2) \cup Kinds(rtq)
            = Told' \cup Kinds(out1)' \cup Kinds(out2)' \cup Kinds(rtq)'
      BY <3>3, <3>5, <3>6
    <3> QED  BY <2>1, <3>1, <3>7, <3>8, <3>9 DEF StartsOnTheWay
  <2> QED  BY <1>2, <2>1, <2>3 DEF StartsTold
<1>13. CASE WrkJoin
  <2>1. /\ wrk = "loop" /\ wrk' # "loop"
        /\ UNCHANGED <<begun, exec, held, outcome, out1>>
        /\ \/ UNCHANGED out2
           \/ HasTerminal(rtq) /\ out2' = out2 \o SubSeq(rtq, 1, FirstTerminal(rtq))
    BY <1>13 DEF WrkJoin, execVars, rtVars, HasTerminal
  <2>2. Told' = Told /\ Kinds(out1)' = Kinds(out1)
    BY <2>1 DEF Told, Kinds
  <2>3. ASSUME exec \in {"spawn", "loop"}  PROVE StartsOnTheWay'
    <3>1. StartsOnTheWay
      BY <1>2, <2>3 DEF StartsTold
    <3> DEFINE seen == Told \cup Kinds(out1)
    <3>2. StartsFirst(out2, seen) /\ StartsFirst(rtq, seen \cup Kinds(out2))
      BY <2>1, <3>1 DEF StartsOnTheWay
    <3>3. ASSUME HasTerminal(rtq)
          PROVE  StartsFirst(out2 \o SubSeq(rtq, 1, FirstTerminal(rtq)), seen)
      <4>1. FirstTerminal(rtq) \in 1..Len(rtq)
        BY <1>1, <3>3, FirstExists
      <4> QED  BY <1>1, <3>2, <4>1, StartDrain
    <3>4. StartsFirst(out2', seen)
      BY <2>1, <3>2, <3>3
    <3> QED  BY <2>1, <2>2, <3>1, <3>4 DEF StartsOnTheWay
  <2> QED  BY <1>2, <2>1, <2>3 DEF StartsTold
<1>14. CASE RtNext
  <2>1. UNCHANGED <<begun, exec, held, outcome, wrk, out1, out2>>
    BY <1>14, RuntimeStep DEF execVars
  <2>2. /\ Told' = Told /\ Kinds(out1)' = Kinds(out1) /\ Kinds(out2)' = Kinds(out2)
    BY <2>1 DEF Told, Kinds
  <2>3. ASSUME exec \in {"spawn", "loop"}  PROVE StartsOnTheWay'
    <3>1. StartsOnTheWay
      BY <1>2, <2>3 DEF StartsTold
    <3> DEFINE seen == Told \cup Kinds(out1) \cup Kinds(out2)
    <3>2. /\ StartsFirst(out1, Told)' /\ StartsFirst(out2, Told \cup Kinds(out1))'
          /\ seen' = seen /\ wrk' = wrk
          /\ wrk = "loop" => StartsFirst(rtq, seen)
          /\ wrk = "loop" /\ rt \in {"session", "prompt", "grace", "stopping"} =>
               "started" \in seen \cup Kinds(rtq)
      BY <2>1, <2>2, <3>1 DEF StartsOnTheWay
    <3>3. ASSUME /\ wrk = "loop" => StartsFirst(rtq', seen)
                 /\ wrk = "loop" /\ rt' \in {"session", "prompt", "grace", "stopping"} =>
                      "started" \in seen \cup Kinds(rtq)'
          PROVE  StartsOnTheWay'
      BY <3>2, <3>3 DEF StartsOnTheWay
    <3> HIDE DEF seen
    <3>4. CASE /\ UNCHANGED rtq
               /\ rt' \in {"session", "prompt", "grace", "stopping"} =>
                    rt \in {"session", "prompt", "grace", "stopping"}
      <4>1. Kinds(rtq)' = Kinds(rtq)
        BY <3>4 DEF Kinds
      <4> QED  BY <3>2, <3>3, <3>4, <4>1
    <3>5. ASSUME NEW e \in Event, rtq' = Append(rtq, e),
                 e \in Earned => rt \in {"session", "prompt", "grace", "stopping"},
                 rt' \in {"session", "prompt", "grace", "stopping"} =>
                   e = "started" \/ rt' = rt
          PROVE  StartsOnTheWay'
      <4>1. Kinds(rtq)' = Kinds(rtq) \cup {e}
        <5>1. Kinds(Append(rtq, e)) = Kinds(rtq) \cup {e}
          BY <1>1, StartAppend
        <5> QED  BY <3>5, <5>1 DEF Kinds
      <4>2. wrk = "loop" => StartsFirst(Append(rtq, e), seen)
        BY <1>1, <3>2, <3>5, StartAppend
      <4> QED  BY <3>2, <3>3, <3>5, <4>1, <4>2
    <3> QED  BY <1>1, <1>3, <1>14, <3>4, <3>5, RuntimeStarts
  <2> QED  BY <1>2, <2>1, <2>3 DEF StartsTold
<1> QED
  BY <1>5, <1>6, <1>7, <1>8, <1>9, <1>10, <1>11, <1>12, <1>13, <1>14 DEF Next

-----------------------------------------------------------------------------
(* The results. *)

LEMMA InvInit == Init => Inv
<1> SUFFICES ASSUME Init  PROVE Inv
  OBVIOUS
<1> USE DEF Init
<1>1. None \notin Confirmed /\ None # "cancel" /\ None # "cancelled" /\ None # "completed"
  BY NoneAssumption DEF Terminal, Confirmed
<1>2. TypeOK
  BY DEF TypeOK
<1>3. Nested
  BY <1>1 DEF Nested
<1>4. OnlyEnd(<< >>, reported)
  BY DEF OnlyEnd
<1>5. EndsAgree
  BY <1>1, <1>4 DEF EndsAgree
<1>6. CancelsAsked /\ EndsEarned
  BY <1>1 DEF CancelsAsked, EndsEarned
<1>7. StartsTold
  <2>1. \A seen : StartsFirst(<< >>, seen)
    BY DEF StartsFirst
  <2>2. None \notin Earned
    BY NoneAssumption DEF Earned, Terminal, Confirmed
  <2> QED  BY <2>1, <2>2 DEF StartsTold, StartsOnTheWay
<1> QED  BY <1>2, <1>3, <1>5, <1>6, <1>7 DEF Inv

LEMMA InvHolds == Spec => []Inv
<1>1. Inv /\ [Next]_vars => Inv'
  BY TypeStep, NestedStep, EndsStep, AskedStep, EarnedStep, StartedStep DEF Inv
<1> QED  BY InvInit, <1>1, PTL DEF Spec

(* An outcome that frees the slot and the workspace of an attempt is told  *)
(* only after its supervisor and its sandboxed worker are gone.            *)
THEOREM GoneWhenConfirmed == Spec => []ConfirmedMeansGone
<1>1. Inv => ConfirmedMeansGone
  BY DEF Inv, Nested, ConfirmedMeansGone, Dead
<1> QED  BY InvHolds, <1>1, PTL

(* What execute() confirms is the first end the runtime reported, whatever *)
(* follows it through the pipes and whichever process is lost meanwhile.   *)
THEOREM ReportedWhenConfirmed == Spec => []ConfirmedIsReported
<1>1. Inv => ConfirmedIsReported
  BY DEF Inv, EndsAgree, ConfirmedIsReported
<1> QED  BY InvHolds, <1>1, PTL

(* "completed" and "cancelled" are never told before the Agent answered    *)
(* and run_attempt knows of the start, "cancelled" only if it was asked    *)
(* for: what an attempt of Daemon may report is what Runner can return.    *)
THEOREM EarnedWhenConfirmed == Spec => []OutcomeIsEarned
<1>1. Inv => OutcomeIsEarned
  <2> SUFFICES ASSUME Inv  PROVE OutcomeIsEarned
    OBVIOUS
  <2>1. outcome \in Confirmed => outcome = reported
    BY DEF Inv, EndsAgree
  <2>2. /\ reported = "cancelled" => signals > 0 /\ agent = "answered"
        /\ reported = "completed" => agent = "answered"
    BY DEF Inv, EndsEarned
  <2>3. outcome \in Earned => begun
    BY DEF Inv, StartsTold
  <2> QED  BY <2>1, <2>2, <2>3 DEF OutcomeIsEarned, Confirmed, Earned
<1> QED  BY InvHolds, <1>1, PTL
=============================================================================
