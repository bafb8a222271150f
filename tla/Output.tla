-------------------------------- MODULE Output --------------------------------
(***************************************************************************)
(* How the text of an Agent becomes the inline result of a submission.     *)
(* The runtime captures at most MaxOutputBytes, chunk by chunk             *)
(* (handle_inbound, truncate_to_bytes); the scheduler cuts what was        *)
(* captured to Max bytes and marks it (truncate_output).  Both cut between *)
(* characters.  The runtime sees only the end of the Agent's text that     *)
(* still fits, yet the mark must be about the whole text.                  *)
(*                                                                         *)
(* A character is its UTF-8 width.  A chunk is taken character by          *)
(* character: the longest prefix of it that fits is what is kept when each *)
(* character is kept as long as it fits and none after one that does not.  *)
(***************************************************************************)
EXTENDS Naturals, Sequences

CONSTANTS
  Max,      \* daemon.max_inline_output_bytes
  MaxChars  \* bound: characters the Agent writes

ASSUME MaxAssumption == Max \in Nat

VARIABLES
  text,    \* history: the offset at which each character of the Agent ends
  sent,    \* history: bytes of the Agent's text
  output,  \* captured characters: number in the text and end in output
  size,    \* output.len()
  cut,     \* the rest of the current chunk is dropped
  hole     \* history: some character has been dropped

outputVars == <<text, sent, output, size, cut, hole>>

Width == 1..4

Captured == [char : Nat, end : Nat]

(* Fault: room for three more bytes. *)
MaxOutputBytesBug == Max + 3

(* max_output_bytes of the runner request *)
MaxOutputBytes == Max + 4

OutputInit ==
  /\ text = << >> /\ sent = 0
  /\ output = << >> /\ size = 0 /\ cut = FALSE /\ hole = FALSE

(* The next character of the chunk fits. *)
Keep(w) ==
  /\ Len(text) < MaxChars /\ ~cut /\ size + w <= MaxOutputBytes
  /\ text' = Append(text, sent + w) /\ sent' = sent + w
  /\ output' = Append(output, [char |-> Len(text) + 1, end |-> size + w])
  /\ size' = size + w
  /\ UNCHANGED <<cut, hole>>

(* It does not, or it follows one that did not. *)
Drop(w) ==
  /\ Len(text) < MaxChars /\ (cut \/ size + w > MaxOutputBytes)
  /\ text' = Append(text, sent + w) /\ sent' = sent + w
  /\ cut' = TRUE /\ hole' = TRUE
  /\ UNCHANGED <<output, size>>

(* The chunk ends: shorter characters of the next one may fit again. *)
NextChunk ==
  /\ cut /\ cut' = FALSE
  /\ UNCHANGED <<text, sent, output, size, hole>>

OutputNext == NextChunk \/ \E w \in Width : Keep(w) \/ Drop(w)

OutputSpec == OutputInit /\ [][OutputNext]_outputVars

-----------------------------------------------------------------------------
(* truncate_output, whenever the run ends. *)

Truncated == size > Max

(* Fault: the character the boundary falls into stays. *)
InResultBug(c) == c.end <= Max + 3

(* The characters before the boundary. *)
InResult(c) == c.end <= Max

Result == { i \in DOMAIN output : Truncated => InResult(output[i]) }

-----------------------------------------------------------------------------
(* Properties. *)

OutputTypeOK ==
  /\ text \in Seq(Nat) /\ sent \in Nat
  /\ output \in Seq(Captured) /\ size \in Nat
  /\ cut \in BOOLEAN /\ hole \in BOOLEAN

(***************************************************************************)
(* The inline result is marked as truncated exactly if the Agent wrote     *)
(* more than the limit, although nobody counts what it wrote.              *)
(***************************************************************************)
TruncatedMeansLonger == Truncated <=> sent > Max

(***************************************************************************)
(* The inline result is the longest prefix of whole characters that fits:  *)
(* captured text with a hole in it never reaches the result.               *)
(***************************************************************************)
ResultIsPrefix ==
  /\ \A i \in Result : output[i].char = i
  /\ \A i \in DOMAIN text : i \in Result <=> text[i] <= Max

(***************************************************************************)
(* The inductive invariant: before a hole output is the text; once there   *)
(* is one, output is longer than Max, so all the differences are beyond    *)
(* the cut.                                                                *)
(***************************************************************************)
SizesAgree ==
  /\ size <= sent
  /\ ~hole => size = sent /\ Len(output) = Len(text)
  /\ hole => size > Max
  /\ cut => hole

EndsWithin ==
  /\ \A i \in DOMAIN text : text[i] <= sent
  /\ \A i \in DOMAIN output : output[i].end <= size

SamePlace(i) == i \in DOMAIN text /\ i \in DOMAIN output
                /\ output[i].char = i /\ output[i].end = text[i]

AgreesUpToMax ==
  /\ \A i \in DOMAIN text : text[i] <= Max => SamePlace(i)
  /\ \A i \in DOMAIN output : output[i].end <= Max => SamePlace(i)
  /\ ~hole => \A i \in DOMAIN output : SamePlace(i)

OutputInv == OutputTypeOK /\ SizesAgree /\ EndsWithin /\ AgreesUpToMax
=============================================================================
