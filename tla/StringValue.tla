---------------------------- MODULE StringValue ----------------------------
(***************************************************************************)
(* What a String object promises its users (the public functions of        *)
(* string.c): a text of at most MaxLength characters that can be changed   *)
(* by chunks and truncated, but not while another object has it locked.    *)
(***************************************************************************)
EXTENDS Integers, Sequences

CONSTANTS
  Char,       \* characters users store
  Space,      \* the blank that fills gaps
  MaxLength,  \* INT32_MAX
  MaxChunk    \* STRING_MAX_SET_CHUNK_BUFFER_LENGTH

VARIABLES made, text, locks

Chunk == UNION {[1..n -> Char] : n \in 0..MaxChunk}

Init == made = FALSE /\ text = <<>> /\ locks = 0

\* The text after chunk c is written at offset: what is between the old end
\* and the offset becomes blank, what follows the chunk stays.
Overwritten(t, offset, c) ==
  [i \in 1..(IF offset + Len(c) > Len(t) THEN offset + Len(c) ELSE Len(t)) |->
     IF i > offset /\ i <= offset + Len(c) THEN c[i - offset]
     ELSE IF i <= Len(t) THEN t[i] ELSE Space]

\* A string is made from nothing, once.
Make ==
  /\ ~ made
  /\ made' = TRUE
  /\ text' \in Seq(Char) /\ Len(text') <= MaxLength
  /\ locks' = locks

SetChunk ==
  /\ made
  /\ locks = 0
  /\ \E offset \in 0..MaxLength, c \in Chunk :
       /\ c # <<>>
       /\ offset + Len(c) <= MaxLength
       /\ text' = Overwritten(text, offset, c)
  /\ UNCHANGED <<made, locks>>

Truncate ==
  /\ made
  /\ locks = 0
  /\ \E n \in 0..(Len(text) - 1) : text' = SubSeq(text, 1, n)
  /\ UNCHANGED <<made, locks>>

Lock   == made /\ locks' = locks + 1 /\ UNCHANGED <<made, text>>
Unlock == locks > 0 /\ locks' = locks - 1 /\ UNCHANGED <<made, text>>

Next == Make \/ SetChunk \/ Truncate \/ Lock \/ Unlock

Spec == Init /\ [][Next]_<<made, text, locks>>
=============================================================================
