---------------------------- MODULE OutputProofs ----------------------------
(***************************************************************************)
(* Proofs about Output, for every limit and every text.                    *)
(***************************************************************************)
EXTENDS Output, TLAPS

(* The runtime's limit leaves room for one more character of any width. *)
LEMMA LimitFact == MaxOutputBytes = Max + 4 /\ MaxOutputBytes \in Nat /\ Max \in Nat
BY MaxAssumption DEF MaxOutputBytes

(* Append keeps the old entries and adds one at the end. *)
LEMMA AppendFact ==
  ASSUME NEW S, NEW q \in Seq(S), NEW e \in S
  PROVE  /\ Append(q, e) \in Seq(S)
         /\ Len(q) \in Nat /\ Len(Append(q, e)) = Len(q) + 1
         /\ DOMAIN q = 1..Len(q) /\ DOMAIN Append(q, e) = 1..(Len(q) + 1)
         /\ \A i \in DOMAIN q : Append(q, e)[i] = q[i]
         /\ Append(q, e)[Len(q) + 1] = e
OBVIOUS

LEMMA InitOutputInv == OutputInit => OutputInv
<1> SUFFICES ASSUME OutputInit PROVE OutputInv
  OBVIOUS
<1>1. text = << >> /\ output = << >> /\ size = 0 /\ sent = 0 /\ ~cut /\ ~hole
  BY DEF OutputInit
<1>2. OutputTypeOK
  <2>1. << >> \in Seq(Nat) /\ << >> \in Seq(Captured)
    OBVIOUS
  <2>2. cut = FALSE /\ hole = FALSE
    BY DEF OutputInit
  <2> QED
    BY <1>1, <2>1, <2>2 DEF OutputTypeOK
<1>3. DOMAIN text = {} /\ DOMAIN output = {} /\ Len(text) = Len(output)
  BY <1>1
<1>4. SizesAgree /\ EndsWithin /\ AgreesUpToMax
  BY <1>1, <1>3 DEF SizesAgree, EndsWithin, AgreesUpToMax
<1> QED
  BY <1>2, <1>4 DEF OutputInv

(* The types, and the two sequences as the functions the steps work on. *)
LEMMA TypeFact ==
  ASSUME OutputInv
  PROVE  /\ text \in Seq(Nat) /\ sent \in Nat /\ size \in Nat
         /\ output \in Seq(Captured)
         /\ Len(text) \in Nat /\ Len(output) \in Nat
         /\ DOMAIN text = 1..Len(text) /\ DOMAIN output = 1..Len(output)
         /\ \A i \in DOMAIN text : text[i] \in Nat
         /\ \A i \in DOMAIN output : output[i].char \in Nat /\ output[i].end \in Nat
<1>1. /\ text \in Seq(Nat) /\ sent \in Nat /\ size \in Nat
      /\ output \in Seq(Captured)
  BY DEF OutputInv, OutputTypeOK
<1>2. /\ Len(text) \in Nat /\ DOMAIN text = 1..Len(text)
      /\ \A i \in DOMAIN text : text[i] \in Nat
  BY <1>1
<1>3. /\ Len(output) \in Nat /\ DOMAIN output = 1..Len(output)
      /\ \A i \in DOMAIN output : output[i] \in Captured
  BY <1>1
<1> QED
  BY <1>1, <1>2, <1>3 DEF Captured

(***************************************************************************)
(* A character that is kept, at its own place while nothing is missing.    *)
(***************************************************************************)
LEMMA KeepPreserves ==
  ASSUME OutputInv, NEW w \in Width, Keep(w)
  PROVE  OutputInv'
<1> DEFINE c == [char |-> Len(text) + 1, end |-> size + w]
<1>1. w \in Nat /\ w >= 1 /\ ~cut
  BY DEF Width, Keep
<1>2. /\ text' = Append(text, sent + w) /\ sent' = sent + w
      /\ output' = Append(output, c) /\ size' = size + w
      /\ cut' = cut /\ hole' = hole
  BY DEF Keep
<1>3. sent + w \in Nat /\ c \in Captured
  BY TypeFact, <1>1 DEF Captured
<1>4. /\ text' \in Seq(Nat) /\ DOMAIN text' = 1..(Len(text) + 1)
      /\ Len(text') = Len(text) + 1
      /\ \A i \in DOMAIN text : text'[i] = text[i]
      /\ text'[Len(text) + 1] = sent + w
  BY <1>2, <1>3, TypeFact, AppendFact
<1>5. /\ output' \in Seq(Captured) /\ DOMAIN output' = 1..(Len(output) + 1)
      /\ Len(output') = Len(output) + 1
      /\ \A i \in DOMAIN output : output'[i] = output[i]
      /\ output'[Len(output) + 1] = c
  BY <1>2, <1>3, TypeFact, AppendFact
<1>6. c.char = Len(text) + 1 /\ c.end = size + w
  OBVIOUS
<1> HIDE DEF c
<1>7. OutputTypeOK'
  BY <1>1, <1>2, <1>4, <1>5, TypeFact DEF OutputTypeOK, OutputInv
<1>8. SizesAgree'
  BY <1>1, <1>2, <1>4, <1>5, TypeFact, LimitFact DEF SizesAgree, OutputInv
<1>9. EndsWithin'
  BY <1>1, <1>2, <1>4, <1>5, <1>6, TypeFact DEF EndsWithin, OutputInv
<1>10. \A i \in DOMAIN text \cap DOMAIN output : SamePlace(i) => SamePlace(i)'
  BY <1>4, <1>5, TypeFact DEF SamePlace
<1>11. \A i \in Nat : ~hole /\ i = Len(text) + 1 => SamePlace(i)'
  BY <1>2, <1>4, <1>5, <1>6, TypeFact DEF SamePlace, SizesAgree, OutputInv
<1>12. \A i \in DOMAIN text' : text'[i] <= Max => SamePlace(i)'
  <2> SUFFICES ASSUME NEW i \in DOMAIN text', text'[i] <= Max PROVE SamePlace(i)'
    OBVIOUS
  <2>1. CASE i \in DOMAIN text
    BY <2>1, <1>4, <1>10 DEF OutputInv, AgreesUpToMax, SamePlace
  <2>2. CASE i = Len(text) + 1
    <3>1. sent + w <= Max
      BY <2>2, <1>4
    <3>2. ~hole
      BY <3>1, <1>1, TypeFact, LimitFact DEF OutputInv, SizesAgree
    <3> QED
      BY <2>2, <3>2, <1>11, TypeFact
  <2> QED
    BY <2>1, <2>2, <1>4, TypeFact
<1>13. \A i \in DOMAIN output' : output'[i].end <= Max => SamePlace(i)'
  <2> SUFFICES ASSUME NEW i \in DOMAIN output', output'[i].end <= Max PROVE SamePlace(i)'
    OBVIOUS
  <2>1. CASE i \in DOMAIN output
    BY <2>1, <1>5, <1>10 DEF OutputInv, AgreesUpToMax, SamePlace
  <2>2. CASE i = Len(output) + 1
    <3>1. size + w <= Max
      BY <2>2, <1>5, <1>6
    <3>2. ~hole
      BY <3>1, <1>1, TypeFact, LimitFact DEF OutputInv, SizesAgree
    <3> QED
      BY <2>2, <3>2, <1>11, TypeFact DEF OutputInv, SizesAgree
  <2> QED
    BY <2>1, <2>2, <1>5, TypeFact
<1>14. ~hole' => \A i \in DOMAIN output' : SamePlace(i)'
  <2> SUFFICES ASSUME ~hole, NEW i \in DOMAIN output' PROVE SamePlace(i)'
    BY <1>2
  <2>1. CASE i \in DOMAIN output
    BY <2>1, <1>10 DEF OutputInv, AgreesUpToMax, SamePlace
  <2>2. CASE i = Len(output) + 1
    BY <2>2, <1>11, TypeFact DEF OutputInv, SizesAgree
  <2> QED
    BY <2>1, <2>2, <1>5, TypeFact
<1>15. AgreesUpToMax'
  BY <1>12, <1>13, <1>14 DEF AgreesUpToMax
<1> QED
  BY <1>7, <1>8, <1>9, <1>15 DEF OutputInv

(***************************************************************************)
(* A character that is dropped: output is longer than Max by then, because *)
(* MaxOutputBytes leaves room for any character.                           *)
(***************************************************************************)
LEMMA DropPreserves ==
  ASSUME OutputInv, NEW w \in Width, Drop(w)
  PROVE  OutputInv'
<1>1. w \in Nat /\ w >= 1 /\ w <= 4
  BY DEF Width
<1>2. /\ text' = Append(text, sent + w) /\ sent' = sent + w
      /\ output' = output /\ size' = size /\ cut' = TRUE /\ hole' = TRUE
  BY DEF Drop
<1>3. /\ text' \in Seq(Nat) /\ DOMAIN text' = 1..(Len(text) + 1)
      /\ \A i \in DOMAIN text : text'[i] = text[i]
      /\ text'[Len(text) + 1] = sent + w
  BY <1>1, <1>2, TypeFact, AppendFact
<1>4. size > Max
  BY <1>1, TypeFact, LimitFact DEF Drop, OutputInv, SizesAgree
<1>5. OutputTypeOK'
  BY <1>1, <1>2, <1>3, TypeFact DEF OutputTypeOK
<1>6. SizesAgree'
  BY <1>1, <1>2, <1>4, TypeFact DEF SizesAgree, OutputInv
<1>7. EndsWithin'
  BY <1>1, <1>2, <1>3, TypeFact DEF EndsWithin, OutputInv
<1>8. \A i \in DOMAIN text : SamePlace(i) => SamePlace(i)'
  BY <1>2, <1>3, TypeFact DEF SamePlace
<1>9. sent + w > Max
  BY <1>1, <1>4, TypeFact, LimitFact DEF OutputInv, SizesAgree
<1>10. AgreesUpToMax'
  <2>1. \A i \in DOMAIN text' : text'[i] <= Max => i \in DOMAIN text
    BY <1>3, <1>9, TypeFact, LimitFact
  <2>2. \A i \in DOMAIN text' : text'[i] <= Max => SamePlace(i)'
    BY <2>1, <1>3, <1>8 DEF OutputInv, AgreesUpToMax
  <2>3. \A i \in DOMAIN output' : output'[i].end <= Max => SamePlace(i)'
    BY <1>2, <1>8 DEF OutputInv, AgreesUpToMax, SamePlace
  <2> QED
    BY <1>2, <2>2, <2>3 DEF AgreesUpToMax
<1> QED
  BY <1>5, <1>6, <1>7, <1>10 DEF OutputInv

LEMMA NextChunkPreserves ==
  ASSUME OutputInv, NextChunk
  PROVE  OutputInv'
BY DEF NextChunk, OutputInv, OutputTypeOK, SizesAgree, EndsWithin, AgreesUpToMax, SamePlace

(***************************************************************************)
(* Captured text and the Agent's text agree up to Max in every reachable   *)
(* state, whatever the limit and the chunks are.                           *)
(***************************************************************************)
THEOREM CaptureAgrees == OutputSpec => []OutputInv
<1>1. OutputInv /\ [OutputNext]_outputVars => OutputInv'
  <2> SUFFICES ASSUME OutputInv, [OutputNext]_outputVars PROVE OutputInv'
    OBVIOUS
  <2>1. CASE UNCHANGED outputVars
    BY <2>1 DEF outputVars, OutputInv, OutputTypeOK, SizesAgree, EndsWithin, AgreesUpToMax,
                SamePlace
  <2>2. CASE NextChunk
    BY <2>2, NextChunkPreserves
  <2>3. ASSUME NEW w \in Width, Keep(w) PROVE OutputInv'
    BY <2>3, KeepPreserves
  <2>4. ASSUME NEW w \in Width, Drop(w) PROVE OutputInv'
    BY <2>4, DropPreserves
  <2> QED
    BY <2>1, <2>2, <2>3, <2>4 DEF OutputNext
<1> QED
  BY InitOutputInv, <1>1, PTL DEF OutputSpec

(* truncate_output: the mark on the inline result is about the whole text. *)
LEMMA InvMark == OutputInv => TruncatedMeansLonger
BY TypeFact, LimitFact DEF OutputInv, SizesAgree, TruncatedMeansLonger, Truncated

(* truncate_output: a boundary never lets text behind a hole through. *)
LEMMA InvPrefix == OutputInv => ResultIsPrefix
<1> SUFFICES ASSUME OutputInv PROVE ResultIsPrefix
  OBVIOUS
<1>1. CASE Truncated
  <2>1. \A i \in DOMAIN output : i \in Result <=> output[i].end <= Max
    BY <1>1 DEF Result, InResult
  <2>2. \A i \in DOMAIN text : i \in Result => text[i] <= Max
    BY <2>1 DEF Result, OutputInv, AgreesUpToMax, SamePlace
  <2>3. \A i \in DOMAIN text : text[i] <= Max => i \in Result
    BY <2>1 DEF OutputInv, AgreesUpToMax, SamePlace
  <2>4. \A i \in Result : output[i].char = i
    BY <2>1 DEF Result, OutputInv, AgreesUpToMax, SamePlace
  <2> QED
    BY <2>2, <2>3, <2>4 DEF ResultIsPrefix
<1>2. CASE ~Truncated
  <2>1. ~hole /\ sent <= Max
    BY <1>2, TypeFact, LimitFact DEF Truncated, OutputInv, SizesAgree
  <2>2. Result = DOMAIN output /\ DOMAIN output = DOMAIN text
    BY <1>2, <2>1, TypeFact DEF Result, OutputInv, SizesAgree
  <2>3. \A i \in DOMAIN text : text[i] <= Max
    BY <2>1, TypeFact, LimitFact DEF OutputInv, EndsWithin
  <2> QED
    BY <2>1, <2>2, <2>3 DEF ResultIsPrefix, OutputInv, AgreesUpToMax, SamePlace
<1> QED
  BY <1>1, <1>2

(***************************************************************************)
(* An inline result is marked as truncated exactly if the Agent wrote more *)
(* than max_inline_output_bytes.                                           *)
(***************************************************************************)
THEOREM MarkIsTrue == OutputSpec => []TruncatedMeansLonger
BY CaptureAgrees, InvMark, PTL

(***************************************************************************)
(* The inline result is the longest prefix of whole characters that fits.  *)
(***************************************************************************)
THEOREM PrefixIsTrue == OutputSpec => []ResultIsPrefix
BY CaptureAgrees, InvPrefix, PTL
=============================================================================
