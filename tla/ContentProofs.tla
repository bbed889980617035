--------------------------- MODULE ContentProofs ---------------------------
(***************************************************************************)
(* The contents of strings and files.                                      *)
(*                                                                         *)
(* Part 1: the buffer of string.c, for every length, chunk size and        *)
(* granularity of the allocation: in which case alone the text loses its   *)
(* terminator, and that the buffer implements the text that StringValue    *)
(* promises.                                                               *)
(*                                                                         *)
(* Part 2: the safety properties of FileIO for any size of the file, any   *)
(* length of a read and any set of lengths users ask for.                  *)
(*                                                                         *)
(* The two specifications have no variable, constant or operator in        *)
(* common; Spec is that of StringBuffer, FileSpec that of FileIO.          *)
(***************************************************************************)
EXTENDS StringBuffer, FileIO, SequenceTheorems, TLAPS

-----------------------------------------------------------------------------
(* Part 1: strings                                                         *)

-----------------------------------------------------------------------------
(* Allocation and chunks                                                   *)

\* Rounding up to a multiple of the granularity.
LEMMA GrownRoundsUp ==
  ASSUME NEW n \in Nat
  PROVE  Grown(n) \in Nat /\ Grown(n) >= n
<1>1. Unit \in Nat /\ Unit >= 1
  BY StringAssumption
<1> DEFINE q == (n + Unit - 1) \div Unit
<1>2. q \in Int /\ q * Unit <= n + Unit - 1 /\ n + Unit - 1 < (q + 1) * Unit
  BY <1>1
<1> HIDE DEF q
<1>3. (q + 1) * Unit = q * Unit + Unit /\ q * Unit \in Int
  BY <1>1, <1>2
<1> QED
  BY <1>1, <1>2, <1>3 DEF Grown, q

\* A larger text never gets a smaller buffer.
LEMMA GrownMonotone ==
  ASSUME NEW n \in Nat, NEW m \in Nat, n <= m
  PROVE  Grown(n) <= Grown(m)
<1>1. Unit \in Nat /\ Unit >= 1
  BY StringAssumption
<1> DEFINE q == (n + Unit - 1) \div Unit
           r == (m + Unit - 1) \div Unit
<1>2. /\ q \in Int /\ q * Unit <= n + Unit - 1
      /\ r \in Int /\ m + Unit - 1 < (r + 1) * Unit
  BY <1>1
<1> HIDE DEF q, r
<1>3. q * Unit < (r + 1) * Unit
  BY <1>1, <1>2
<1>4. q <= r
  BY <1>1, <1>2, <1>3
<1>5. q * Unit <= r * Unit
  BY <1>1, <1>2, <1>4
<1> QED
  BY <1>5 DEF Grown, q, r

\* Every text fits the bytes of the model, with a terminator behind it.
LEMMA BytesSuffice ==
  /\ Grown(MaxLength + 1) \in Nat
  /\ \A i \in 0..MaxLength : i \in Byte
<1>1. MaxLength + 1 \in Nat /\ MaxLength \in Nat
  BY StringAssumption
<1>2. Grown(MaxLength + 1) \in Nat /\ Grown(MaxLength + 1) >= MaxLength + 1
  BY <1>1, GrownRoundsUp
<1> QED
  BY <1>1, <1>2 DEF Byte

\* Chunks are sequences of characters.
LEMMA ChunkIsText ==
  ASSUME NEW c \in Chunk
  PROVE  /\ c \in Seq(Char) /\ Len(c) \in Nat /\ DOMAIN c = 1..Len(c)
         /\ \A i \in 1..Len(c) : c[i] \in Char
<1>1. PICK n \in 0..MaxChunk : c \in [1..n -> Char]
  BY DEF Chunk
<1>2. n \in Nat
  BY StringAssumption
<1>3. c \in Seq(Char) /\ Len(c) = n
  BY <1>1, <1>2
<1> QED
  BY <1>1, <1>2, <1>3

\* Two functions on the same positions.
LEMMA SameFunction ==
  ASSUME NEW D, NEW f, NEW g, f = [x \in D |-> f[x]], g = [x \in D |-> g[x]],
         \A x \in D : f[x] = g[x]
  PROVE  f = g
<1>1. [x \in D |-> f[x]] = [x \in D |-> g[x]]
  OBVIOUS
<1> QED
  BY <1>1

-----------------------------------------------------------------------------
(* The inductive invariant                                                 *)

\* The text is text: no byte of it is a terminator or fresh memory.
TextIsText == \A i \in 0..(length - 1) : buffer[i] \in Char

\* A string that does not exist has no text, one that does is terminated, if
\* there is room.
StringInv ==
  /\ TypeOK
  /\ ~ made => length = 0 /\ allocated = 0
  /\ made => /\ length <= allocated
             /\ length < allocated => buffer[length] = Nul
  /\ TextIsText

-----------------------------------------------------------------------------
(* One lemma per operation                                                 *)

\* A new buffer of n bytes that holds c.
LEMMA FilledInv ==
  ASSUME StringInv, NEW c \in Chunk, Len(c) <= MaxLength,
         NEW n \in 0..Grown(MaxLength + 1), Len(c) < n,
         made' = TRUE, allocated' = n, length' = Len(c), locks' = locks,
         buffer' = [Copied(Fresh, 0, c) EXCEPT ![Len(c)] = Nul]
  PROVE  StringInv'
<1>1. /\ Len(c) \in Nat /\ MaxLength \in Nat
      /\ \A i \in 1..Len(c) : c[i] \in Char
  BY ChunkIsText, StringAssumption
<1>2. Len(c) \in Byte /\ \A i \in 0..(Len(c) - 1) : i \in Byte
  BY <1>1, BytesSuffice
<1>3. \A i \in Byte : Copied(Fresh, 0, c)[i] = IF i >= 0 /\ i < Len(c) THEN c[i + 1] ELSE Junk
  BY <1>1 DEF Copied, Fresh, Byte
<1>4. buffer' \in [Byte -> Char \cup {Nul, Junk}]
  <2>1. \A i \in Byte : Copied(Fresh, 0, c)[i] \in Char \cup {Nul, Junk}
    BY <1>1, <1>3, BytesSuffice DEF Byte
  <2>2. Copied(Fresh, 0, c) \in [Byte -> Char \cup {Nul, Junk}]
    BY <2>1 DEF Copied
  <2> QED
    BY <2>2
<1>5. buffer'[Len(c)] = Nul
  BY <1>2 DEF Copied
<1>6. \A i \in 0..(Len(c) - 1) : buffer'[i] \in Char
  <2> SUFFICES ASSUME NEW i \in 0..(Len(c) - 1) PROVE buffer'[i] \in Char
    OBVIOUS
  <2>1. i \in Byte /\ i # Len(c) /\ i >= 0 /\ i < Len(c) /\ i + 1 \in 1..Len(c)
    BY <1>1, <1>2
  <2>2. buffer'[i] = Copied(Fresh, 0, c)[i]
    BY <2>1 DEF Copied
  <2> QED
    BY <1>1, <1>3, <2>1, <2>2
<1>7. TypeOK'
  BY <1>1, <1>4 DEF StringInv, TypeOK
<1>8. TextIsText'
  BY <1>6 DEF TextIsText
<1> QED
  BY <1>5, <1>7, <1>8 DEF StringInv

\* string_allocate leaves a text with its terminator, whatever was reserved.
LEMMA StringAllocateInv ==
  ASSUME StringInv, NEW r \in 0..MaxLength, NEW c \in Chunk, StringAllocate(r, c)
  PROVE  StringInv'
<1> DEFINE room == IF r < Len(c) THEN Len(c) ELSE r
<1>1. Len(c) \in Nat /\ MaxLength \in Nat
  BY ChunkIsText, StringAssumption
<1>2. /\ room <= MaxLength /\ made' = TRUE /\ allocated' = Grown(room + 1) /\ length' = Len(c)
      /\ buffer' = [Copied(Fresh, 0, c) EXCEPT ![Len(c)] = Nul] /\ locks' = locks
  BY DEF StringAllocate
<1>3. room \in Nat /\ Len(c) <= room
  BY <1>1
<1> HIDE DEF room
<1>4. Grown(room + 1) \in 0..Grown(MaxLength + 1) /\ Len(c) < Grown(room + 1)
  <2>1. Grown(room + 1) \in Nat /\ Grown(room + 1) >= room + 1
    BY <1>3, GrownRoundsUp, SMTT(20)
  <2>2. Grown(room + 1) <= Grown(MaxLength + 1)
    BY <1>1, <1>2, <1>3, GrownMonotone
  <2> QED
    BY <1>1, <1>3, <2>1, <2>2, BytesSuffice
<1> QED
  BY <1>1, <1>2, <1>3, <1>4, FilledInv, SMTT(20)

\* So does string_wrap.
LEMMA StringWrapInv ==
  ASSUME StringInv, NEW c \in Chunk, StringWrap(c)
  PROVE  StringInv'
<1>1. StringAllocate(Len(c), c)
  BY DEF StringWrap
<1>2. Len(c) \in 0..MaxLength
  BY <1>1, ChunkIsText DEF StringAllocate
<1> QED
  BY <1>1, <1>2, StringAllocateInv

\* string_asprintf does, with a buffer of the text and one byte.
LEMMA StringAsprintfInv ==
  ASSUME StringInv, NEW c \in Chunk, StringAsprintf(c)
  PROVE  StringInv'
<1>1. /\ Len(c) <= MaxLength /\ made' = TRUE /\ allocated' = Len(c) + 1 /\ length' = Len(c)
      /\ buffer' = [Copied(Fresh, 0, c) EXCEPT ![Len(c)] = Nul] /\ locks' = locks
  BY DEF StringAsprintf
<1>2. Len(c) \in Nat /\ MaxLength \in Nat
  BY ChunkIsText, StringAssumption
<1>3. Grown(MaxLength + 1) \in Nat /\ Grown(MaxLength + 1) >= MaxLength + 1
  BY <1>2, GrownRoundsUp
<1>4. Len(c) + 1 \in 0..Grown(MaxLength + 1) /\ Len(c) < Len(c) + 1
  BY <1>1, <1>2, <1>3
<1> QED
  BY <1>1, <1>4, FilledInv

\* string_truncate moves the terminator to the new end.
LEMMA StringTruncateInv ==
  ASSUME StringInv, NEW n \in 0..MaxLength, StringTruncate(n)
  PROVE  StringInv'
<1>1. /\ made /\ made' = made /\ n < length /\ length' = n /\ allocated' = allocated /\ locks' = locks
      /\ buffer' = [buffer EXCEPT ![n] = Nul]
  BY DEF StringTruncate
<1>2. length \in Nat /\ allocated \in Nat /\ MaxLength \in Nat
  BY StringAssumption, BytesSuffice DEF StringInv, TypeOK
<1>3. n \in Byte /\ \A i \in 0..(n - 1) : i \in Byte
  BY <1>2, BytesSuffice
<1>4. TypeOK'
  BY <1>1 DEF StringInv, TypeOK
<1>5. TextIsText'
  <2> SUFFICES ASSUME NEW i \in 0..(n - 1) PROVE buffer'[i] \in Char
    BY <1>1 DEF TextIsText
  <2>1. i # n /\ i \in 0..(length - 1) /\ i \in Byte
    BY <1>1, <1>2, <1>3
  <2>2. buffer'[i] = buffer[i]
    BY <1>1, <2>1 DEF StringInv, TypeOK
  <2> QED
    BY <2>1, <2>2 DEF StringInv, TextIsText
<1>6. buffer'[n] = Nul
  BY <1>1, <1>3 DEF StringInv, TypeOK
<1> QED
  BY <1>1, <1>2, <1>4, <1>5, <1>6 DEF StringInv

\* The bytes of the new text, byte by byte: the chunk, the blanks of the gap,
\* and what was there before.
LEMMA ChunkBytes ==
  ASSUME StringInv, NEW offset \in 0..MaxLength, NEW c \in Chunk, StringSetChunk(offset, c)
  PROVE  /\ \A i \in 0..(length' - 1) :
              buffer'[i] = IF i >= offset /\ i < offset + Len(c) THEN c[i - offset + 1]
                           ELSE IF i >= length THEN Space ELSE buffer[i]
         /\ length' < allocated' => buffer'[length'] = Nul
         /\ buffer' \in [Byte -> Char \cup {Nul, Junk}]
         /\ length' \in 0..MaxLength /\ allocated' \in 0..Grown(MaxLength + 1)
         /\ length' <= allocated'
         /\ length' = IF offset + Len(c) > length THEN offset + Len(c) ELSE length
<1> DEFINE end == offset + Len(c)
           pre == Prepared(offset, RoomFor(end))
           b   == Copied(pre, offset, c)
<1>1. /\ made /\ end <= MaxLength /\ Len(c) > 0 /\ allocated' = RoomFor(end)
      /\ length' = IF end > length THEN end ELSE length
      /\ buffer' = IF end > length THEN [b EXCEPT ![end] = Nul] ELSE b
  BY DEF StringSetChunk
<1>2. /\ Len(c) \in Nat /\ MaxLength \in Nat /\ offset \in Nat /\ end \in Nat
      /\ length \in Nat /\ length <= MaxLength /\ allocated \in Nat /\ length <= allocated
      /\ allocated <= Grown(MaxLength + 1)
      /\ Space \in Char
  BY <1>1, ChunkIsText, StringAssumption, BytesSuffice DEF StringInv, TypeOK
<1>3. /\ RoomFor(end) \in Nat /\ RoomFor(end) >= allocated /\ RoomFor(end) >= end
      /\ RoomFor(end) <= Grown(MaxLength + 1)
  <2>1. /\ end + 1 \in Nat /\ MaxLength + 1 \in Nat /\ end + 1 <= MaxLength + 1
    BY <1>1, <1>2
  <2>2. Grown(end + 1) \in Nat /\ Grown(end + 1) >= end + 1 /\ Grown(end + 1) <= Grown(MaxLength + 1)
    BY <2>1, GrownRoundsUp, GrownMonotone
  <2> HIDE DEF end
  <2> QED
    BY <1>2, <2>2 DEF RoomFor, Reserved
<1>4. RoomFor(end) > allocated => end > length
  BY <1>2 DEF RoomFor
<1> HIDE DEF end
<1>5. \A i \in Byte : i \in Nat /\ buffer[i] \in Char \cup {Nul, Junk}
  BY BytesSuffice DEF Byte, StringInv, TypeOK
<1>6. \A i \in Byte : pre[i] = IF i >= length /\ i < offset THEN Space
                               ELSE IF i >= allocated /\ RoomFor(end) > allocated THEN Junk
                               ELSE buffer[i]
  BY DEF Prepared
<1> HIDE DEF pre
<1>7. \A i \in Byte : b[i] = IF i >= offset /\ i < end THEN c[i - offset + 1] ELSE pre[i]
  BY DEF Copied, end
<1>8. \A i \in Byte : i >= offset /\ i < end => i - offset + 1 \in 1..Len(c) /\ c[i - offset + 1] \in Char
  BY <1>2, <1>5, ChunkIsText DEF end
<1>9. b \in [Byte -> Char \cup {Nul, Junk}]
  <2>1. \A i \in Byte : b[i] \in Char \cup {Nul, Junk}
    BY <1>2, <1>5, <1>6, <1>7, <1>8
  <2> QED
    BY <2>1 DEF Copied
<1> HIDE DEF b
<1>10. buffer' \in [Byte -> Char \cup {Nul, Junk}]
  BY <1>1, <1>9
<1>11. /\ length' \in 0..MaxLength /\ allocated' \in 0..Grown(MaxLength + 1)
       /\ length' <= allocated'
  BY <1>1, <1>2, <1>3, BytesSuffice
<1>12. length' < allocated' => buffer'[length'] = Nul
  <2>1. CASE end > length
    <3>1. end \in Byte
      BY <1>1, <1>2, BytesSuffice
    <3> QED
      BY <1>1, <1>9, <2>1, <3>1
  <2>2. CASE ~ (end > length)
    <3>1. allocated' = allocated /\ length' = length /\ buffer' = b
      BY <1>1, <1>2, <1>3, <1>4, <2>2
    <3>2. length \in Byte /\ ~ (length < end) /\ ~ (length < offset) /\ ~ (RoomFor(end) > allocated)
      BY <1>1, <1>2, <1>3, <1>4, <2>2, BytesSuffice DEF end
    <3>3. b[length] = buffer[length]
      BY <1>6, <1>7, <3>2
    <3> QED
      BY <1>1, <3>1, <3>3 DEF StringInv
  <2> QED
    BY <2>1, <2>2
<1>13. \A i \in 0..(length' - 1) :
              buffer'[i] = IF i >= offset /\ i < end THEN c[i - offset + 1]
                           ELSE IF i >= length THEN Space ELSE buffer[i]
  <2> DEFINE n == length'
  <2> SUFFICES ASSUME NEW i \in 0..(n - 1)
               PROVE  buffer'[i] = IF i >= offset /\ i < end THEN c[i - offset + 1]
                                   ELSE IF i >= length THEN Space ELSE buffer[i]
    OBVIOUS
  <2>a. n \in Nat /\ n <= MaxLength
    BY <1>2, <1>11
  <2> HIDE DEF n
  <2>b. i \in 0..MaxLength /\ i < n
    BY <1>2, <2>a
  <2>0. i \in 0..MaxLength /\ i < length'
    BY <2>b DEF n
  <2>1. i \in Nat /\ i < length' /\ i \in Byte
    BY <1>2, <2>0, BytesSuffice
  <2>2. buffer'[i] = b[i]
    BY <1>1, <1>2, <1>9, <2>1
  <2>3. CASE i >= offset /\ i < end
    BY <1>7, <2>1, <2>2, <2>3
  <2>4. CASE ~ (i >= offset /\ i < end)
    <3>1. b[i] = pre[i]
      BY <1>7, <2>1, <2>4
    <3>2. CASE i >= length
      <4>1. i < offset
        BY <1>1, <1>2, <2>1, <2>4, <3>2
      <4> QED
        BY <1>6, <2>1, <2>2, <2>4, <3>1, <3>2, <4>1
    <3>3. CASE ~ (i >= length)
      <4>1. ~ (i >= allocated)
        BY <1>2, <2>1, <3>3
      <4> QED
        BY <1>6, <2>1, <2>2, <2>4, <3>1, <3>3, <4>1
    <3> QED
      BY <3>2, <3>3
  <2> QED
    BY <2>3, <2>4
<1> QED
  BY <1>1, <1>10, <1>11, <1>12, <1>13 DEF end

\* string_set_chunk leaves the invariant: the bytes below the new length are text.
LEMMA StringSetChunkInv ==
  ASSUME StringInv, NEW offset \in 0..MaxLength, NEW c \in Chunk, StringSetChunk(offset, c)
  PROVE  StringInv'
<1>1. /\ \A i \in 0..(length' - 1) :
           buffer'[i] = IF i >= offset /\ i < offset + Len(c) THEN c[i - offset + 1]
                        ELSE IF i >= length THEN Space ELSE buffer[i]
      /\ length' < allocated' => buffer'[length'] = Nul
      /\ buffer' \in [Byte -> Char \cup {Nul, Junk}]
      /\ length' \in 0..MaxLength /\ allocated' \in 0..Grown(MaxLength + 1)
      /\ length' <= allocated'
  BY ChunkBytes
<1>2. made /\ made' = made /\ locks' = locks
  BY DEF StringSetChunk
<1>3. TypeOK'
  BY <1>1, <1>2 DEF StringInv, TypeOK
<1>4. TextIsText'
  <2> SUFFICES ASSUME NEW i \in 0..(length' - 1) PROVE buffer'[i] \in Char
    BY DEF TextIsText
  <2>1. Len(c) \in Nat /\ offset \in Nat /\ length \in Nat /\ i \in Nat /\ Space \in Char
    BY <1>1, ChunkIsText, StringAssumption DEF StringInv, TypeOK
  <2>2. CASE i >= offset /\ i < offset + Len(c)
    <3>1. i - offset + 1 \in 1..Len(c)
      BY <2>1, <2>2
    <3>2. c[i - offset + 1] \in Char
      BY <3>1, ChunkIsText
    <3> QED
      BY <1>1, <2>2, <3>2
  <2>3. CASE ~ (i >= offset /\ i < offset + Len(c)) /\ i >= length
    BY <1>1, <2>1, <2>3
  <2>4. CASE ~ (i >= offset /\ i < offset + Len(c)) /\ ~ (i >= length)
    <3>1. i \in 0..(length - 1)
      BY <2>1, <2>4
    <3> QED
      BY <1>1, <2>4, <3>1 DEF StringInv, TextIsText
  <2> QED
    BY <2>2, <2>3, <2>4
<1> QED
  BY <1>1, <1>2, <1>3, <1>4 DEF StringInv

\* Locks leave the buffer alone.
LEMMA LockUnlockInv ==
  ASSUME StringInv, Lock \/ Unlock
  PROVE  StringInv'
<1>1. UNCHANGED <<made, buffer, length, allocated>>
  BY DEF Lock, Unlock
<1>2. locks' \in 0..MaxLocks
  BY StringAssumption DEF Lock, Unlock, StringInv, TypeOK
<1> QED
  BY <1>1, <1>2 DEF StringInv, TypeOK, TextIsText

-----------------------------------------------------------------------------
(* The theorems                                                            *)

\* There is no string yet.
LEMMA StringInitInv == Init => StringInv
<1> SUFFICES ASSUME Init PROVE StringInv
  OBVIOUS
<1>1. /\ made = FALSE /\ length = 0 /\ allocated = 0 /\ locks = 0 /\ buffer = [i \in Byte |-> Junk]
  BY DEF Init, Fresh
<1>2. TypeOK
  <2>1. length \in 0..MaxLength /\ allocated \in 0..Grown(MaxLength + 1) /\ locks \in 0..MaxLocks
    BY <1>1, StringAssumption, BytesSuffice
  <2>2. buffer \in [Byte -> Char \cup {Nul, Junk}] /\ made \in BOOLEAN
    BY <1>1
  <2> QED
    BY <2>1, <2>2 DEF TypeOK
<1>3. TextIsText
  BY <1>1 DEF TextIsText
<1> QED
  BY <1>1, <1>2, <1>3 DEF StringInv

\* Every operation keeps the invariant.
LEMMA StringNextInv == StringInv /\ [Next]_vars => StringInv'
<1> SUFFICES ASSUME StringInv, [Next]_vars PROVE StringInv'
  OBVIOUS
<1>1. ASSUME NEW c \in Chunk, StringWrap(c) \/ StringAsprintf(c) PROVE StringInv'
  BY <1>1, StringWrapInv, StringAsprintfInv
<1>2. ASSUME NEW c \in Chunk, NEW r \in 0..MaxLength, StringAllocate(r, c) PROVE StringInv'
  BY <1>2, StringAllocateInv
<1>3. ASSUME NEW n \in 0..MaxLength, StringTruncate(n) PROVE StringInv'
  BY <1>3, StringTruncateInv
<1>4. ASSUME NEW offset \in 0..MaxLength, NEW c \in Chunk, StringSetChunk(offset, c) PROVE StringInv'
  BY <1>4, StringSetChunkInv
<1>5. CASE UNCHANGED vars
  BY <1>5 DEF vars, StringInv, TypeOK, TextIsText
<1> QED
  BY <1>1, <1>2, <1>3, <1>4, <1>5, LockUnlockInv DEF Next

\* Whatever chunks, gaps and truncations came before.
THEOREM StringInvariance == Spec => []StringInv
BY StringInitInv, StringNextInv, PTL DEF Spec

\* What is left to know of the terminator is whether the buffer has room for it.
LEMMA RoomTerminates ==
  ASSUME StringInv
  PROVE  Terminated <=> (made => length < allocated)
BY DEF StringInv, Terminated

\* A chunk that makes the text longer ends at the last byte of the old buffer,
\* or leaves room behind it.
LEMMA ChunkRoom ==
  ASSUME StringInv, StringInv', NEW offset \in 0..MaxLength, NEW c \in Chunk, StringSetChunk(offset, c)
  PROVE  /\ length' > length => (length' < allocated' <=> length' # allocated)
         /\ length' <= length => length' = length /\ allocated' = allocated
<1> DEFINE end == offset + Len(c)
<1>1. /\ made /\ allocated' = RoomFor(end) /\ end <= MaxLength
      /\ length' = IF end > length THEN end ELSE length
  BY DEF StringSetChunk
<1>2. /\ end \in Nat /\ length \in Nat /\ allocated \in Nat /\ length <= allocated
  BY <1>1, ChunkIsText, StringAssumption, BytesSuffice DEF StringInv, TypeOK
<1> HIDE DEF end
<1>3. Grown(end + 1) \in Nat /\ Grown(end + 1) >= end + 1
  BY <1>2, GrownRoundsUp
<1>4. end <= allocated => RoomFor(end) = allocated
  BY <1>2 DEF RoomFor
<1>5. end > allocated => RoomFor(end) = Grown(end + 1)
  BY <1>2 DEF RoomFor, Reserved
<1> QED
  BY <1>1, <1>2, <1>3, <1>4, <1>5

\* In which case alone a text loses its terminator, and when it gets one back.
THEOREM TerminatorLost == Spec => TerminatorKept
<1> DEFINE Kept == /\ length' <= allocated'
                   /\ ~ Terminated' <=> \/ length < length' /\ length' = allocated
                                        \/ ~ Terminated /\ length' = length
<1>1. ASSUME StringInv, StringInv', Next
      PROVE  Kept
  <2>1. /\ length \in Nat /\ length' \in Nat /\ allocated \in Nat /\ allocated' \in Nat
        /\ length <= allocated /\ length' <= allocated'
    BY <1>1, StringAssumption, BytesSuffice DEF StringInv, TypeOK
  <2>2. /\ Terminated <=> (made => length < allocated)
        /\ Terminated' <=> (made' => length' < allocated')
    BY <1>1, RoomTerminates DEF StringInv, Terminated
  <2>3. ASSUME NEW c \in Chunk,
               StringWrap(c) \/ StringAsprintf(c) \/ \E r \in 0..MaxLength : StringAllocate(r, c)
        PROVE  Kept
    <3>1. Len(c) \in Nat
      BY ChunkIsText
    <3>2. /\ ~ made /\ length = 0 /\ allocated = 0 /\ length' = Len(c)
      BY <1>1, <2>3 DEF StringInv, StringWrap, StringAsprintf, StringAllocate
    <3>3. Len(c) < allocated'
      <4>1. CASE StringAsprintf(c)
        BY <3>1, <4>1 DEF StringAsprintf
      <4>2. ASSUME NEW r \in Nat, StringAllocate(r, c) PROVE Len(c) < allocated'
        <5> DEFINE room == IF r < Len(c) THEN Len(c) ELSE r
        <5>1. room \in Nat /\ room >= Len(c)
          BY <3>1
        <5>2. allocated' = Grown(room + 1)
          BY <4>2 DEF StringAllocate
        <5> HIDE DEF room
        <5>3. Grown(room + 1) \in Nat /\ Grown(room + 1) >= room + 1
          BY <5>1, GrownRoundsUp
        <5> QED
          BY <3>1, <5>1, <5>2, <5>3
      <4> QED
        BY <2>3, <3>1, <4>1, <4>2, StringAssumption DEF StringWrap
    <3> QED
      BY <2>1, <2>2, <3>1, <3>2, <3>3
  <2>4. ASSUME NEW n \in 0..MaxLength, StringTruncate(n) PROVE Kept
    <3>1. made /\ n < length /\ length' = n /\ allocated' = allocated
      BY <2>4 DEF StringTruncate
    <3> QED
      BY <2>1, <2>2, <3>1
  <2>5. ASSUME NEW offset \in 0..MaxLength, NEW c \in Chunk, StringSetChunk(offset, c) PROVE Kept
    <3>1. made /\ made'
      BY <2>5 DEF StringSetChunk
    <3>2. /\ length' > length => (length' < allocated' <=> length' # allocated)
          /\ length' <= length => length' = length /\ allocated' = allocated
      BY <1>1, <2>5, ChunkRoom
    <3> QED
      BY <2>1, <2>2, <3>1, <3>2
  <2>6. CASE Lock \/ Unlock
    <3>1. UNCHANGED <<made, length, allocated>>
      BY <2>6 DEF Lock, Unlock
    <3> QED
      BY <2>1, <2>2, <3>1
  <2> QED
    BY <1>1, <2>3, <2>4, <2>5, <2>6 DEF Next
<1>2. StringInv /\ StringInv' /\ [Next]_vars => [Kept]_vars
  BY <1>1
<1> QED
  BY <1>2, StringInvariance, PTL DEF Spec, TerminatorKept

-----------------------------------------------------------------------------
(* The buffer implements the text                                          *)

\* The first n bytes of a buffer, as a text.
LEMMA TextOfBytes ==
  ASSUME NEW n \in Nat, NEW b, \A i \in 0..(n - 1) : b[i] \in Char
  PROVE  /\ [i \in 1..n |-> b[i - 1]] \in Seq(Char)
         /\ Len([i \in 1..n |-> b[i - 1]]) = n
<1>1. \A i \in 1..n : b[i - 1] \in Char
  OBVIOUS
<1>2. [i \in 1..n |-> b[i - 1]] \in [1..n -> Char]
  BY <1>1
<1> QED
  BY <1>2

\* The text before and after a step.
LEMMA TextOfBuffer ==
  ASSUME StringInv, StringInv'
  PROVE  /\ length \in Nat /\ length <= MaxLength /\ length' \in Nat /\ length' <= MaxLength
         /\ Text \in Seq(Char) /\ Len(Text) = length
         /\ Text' \in Seq(Char) /\ Len(Text') = length'
<1>1. length \in Nat /\ length <= MaxLength /\ length' \in Nat /\ length' <= MaxLength
  BY StringAssumption DEF StringInv, TypeOK
<1>2. Text \in Seq(Char) /\ Len(Text) = length
  BY <1>1, TextOfBytes DEF Text, StringInv, TextIsText
<1>3. Text' \in Seq(Char) /\ Len(Text') = length'
  BY <1>1, TextOfBytes DEF Text, StringInv, TextIsText
<1> QED
  BY <1>1, <1>2, <1>3

\* A string is made with the text of the chunk.
LEMMA MakeStep ==
  ASSUME StringInv, StringInv', NEW c \in Chunk,
         StringWrap(c) \/ StringAsprintf(c) \/ \E r \in 0..MaxLength : StringAllocate(r, c)
  PROVE  Value!Make
<1>1. ~ made /\ made' = TRUE /\ locks' = locks
  BY DEF StringWrap, StringAsprintf, StringAllocate
<1>2. Text' \in Seq(Char) /\ Len(Text') <= MaxLength
  BY TextOfBuffer
<1> QED
  BY <1>1, <1>2 DEF Value!Make

\* The text is cut, and nothing else changes.
LEMMA TruncateStep ==
  ASSUME StringInv, StringInv', NEW n \in 0..MaxLength, StringTruncate(n)
  PROVE  Value!Truncate
<1>1. /\ made /\ made' = made /\ locks = 0 /\ locks' = locks /\ n < length /\ length' = n
      /\ buffer' = [buffer EXCEPT ![n] = Nul]
  BY DEF StringTruncate
<1>2. length \in Nat /\ n \in Nat /\ Text \in Seq(Char) /\ Len(Text) = length /\ length <= MaxLength
  BY <1>1, TextOfBuffer
<1>3. n \in 0..(Len(Text) - 1)
  BY <1>1, <1>2
<1>4. ASSUME NEW i \in 1..n
      PROVE  buffer'[i - 1] = Text[i]
  <2>1. i \in 1..length /\ i - 1 # n /\ i - 1 \in 0..MaxLength
    BY <1>1, <1>2, StringAssumption
  <2>2. Text[i] = buffer[i - 1]
    BY <2>1 DEF Text
  <2>3. buffer'[i - 1] = buffer[i - 1]
    BY <1>1, <2>1, BytesSuffice DEF StringInv, TypeOK
  <2> QED
    BY <2>2, <2>3
<1>5. Text' = [i \in 1..n |-> Text[i]]
  BY <1>1, <1>4 DEF Text
<1>6. SubSeq(Text, 1, n) = [i \in 1..n |-> Text[i]]
  BY <1>2
<1> QED
  BY <1>1, <1>3, <1>5, <1>6 DEF Value!Truncate

\* The chunk overwrites the text: no byte of the old buffer behind the text,
\* and none of fresh memory, becomes part of it.
LEMMA SetChunkStep ==
  ASSUME StringInv, StringInv', NEW offset \in 0..MaxLength, NEW c \in Chunk, StringSetChunk(offset, c)
  PROVE  Value!SetChunk
<1> DEFINE end == offset + Len(c)
<1>1. made /\ made' = made /\ locks = 0 /\ locks' = locks /\ end <= MaxLength /\ Len(c) > 0
  BY DEF StringSetChunk
<1>2. /\ length \in Nat /\ length' \in Nat /\ offset \in Nat /\ Len(c) \in Nat /\ c \in Seq(Char)
      /\ Len(Text) = length
  BY TextOfBuffer, ChunkIsText
<1>3. /\ \A i \in 0..(length' - 1) :
           buffer'[i] = IF i >= offset /\ i < offset + Len(c) THEN c[i - offset + 1]
                        ELSE IF i >= length THEN Space ELSE buffer[i]
      /\ length' = IF offset + Len(c) > length THEN offset + Len(c) ELSE length
  BY ChunkBytes
<1>4. \A i \in 1..length' :
             buffer'[i - 1] = IF i > offset /\ i <= offset + Len(c) THEN c[i - offset]
                              ELSE IF i <= Len(Text) THEN Text[i] ELSE Space
  <2> DEFINE n == length'
  <2> SUFFICES ASSUME NEW i \in 1..n
               PROVE  buffer'[i - 1] = IF i > offset /\ i <= offset + Len(c) THEN c[i - offset]
                                       ELSE IF i <= Len(Text) THEN Text[i] ELSE Space
    OBVIOUS
  <2>a. n \in Nat
    BY <1>2
  <2> HIDE DEF n
  <2>b. i \in Nat /\ i >= 1 /\ i - 1 \in 0..(n - 1)
    BY <2>a
  <2>1. i \in Nat /\ i >= 1 /\ i - 1 \in 0..(length' - 1)
    BY <2>b DEF n
  <2>2. buffer'[i - 1] = IF i - 1 >= offset /\ i - 1 < offset + Len(c) THEN c[(i - 1) - offset + 1]
                         ELSE IF i - 1 >= length THEN Space ELSE buffer[i - 1]
    BY <1>3, <2>1
  <2>3. /\ (i - 1) - offset + 1 = i - offset
        /\ (i - 1 >= offset /\ i - 1 < offset + Len(c)) <=> (i > offset /\ i <= offset + Len(c))
        /\ (i - 1 >= length) <=> ~ (i <= length)
    BY <1>2, <2>1
  <2>4. i <= length => Text[i] = buffer[i - 1]
    BY <1>2, <2>1 DEF Text
  <2> QED
    BY <1>2, <2>2, <2>3, <2>4
<1>5. Text' = Value!Overwritten(Text, offset, c)
  BY <1>2, <1>3, <1>4 DEF Text, Value!Overwritten
<1>6. c \in Value!Chunk /\ c # <<>>
  BY <1>1, <1>2 DEF Value!Chunk, Chunk
<1> QED
  BY <1>1, <1>5, <1>6 DEF Value!SetChunk

\* Locking does not touch the text.
LEMMA LockStep ==
  ASSUME StringInv, Lock \/ Unlock
  PROVE  Value!Lock \/ Value!Unlock
BY DEF Lock, Unlock, Value!Lock, Value!Unlock, Text

\* Every operation on the buffer is an operation on the text.
LEMMA NextStep ==
  ASSUME StringInv, StringInv', [Next]_vars
  PROVE  [Value!Next]_<<made, Text, locks>>
<1>1. ASSUME NEW c \in Chunk,
             StringWrap(c) \/ StringAsprintf(c) \/ \E r \in 0..MaxLength : StringAllocate(r, c)
      PROVE  Value!Make
  BY <1>1, MakeStep
<1>2. ASSUME NEW n \in 0..MaxLength, StringTruncate(n) PROVE Value!Truncate
  BY <1>2, TruncateStep
<1>3. ASSUME NEW offset \in 0..MaxLength, NEW c \in Chunk, StringSetChunk(offset, c)
      PROVE  Value!SetChunk
  BY <1>3, SetChunkStep
<1>4. CASE UNCHANGED vars
  BY <1>4 DEF vars, Text
<1> QED
  BY <1>1, <1>2, <1>3, <1>4, LockStep DEF Next, Value!Next

\* The buffer of string.c implements the text that StringValue promises to the
\* users of a String object.
THEOREM Implementation == Spec => ImplementsValue
<1>1. Init => Value!Init
  <2> SUFFICES ASSUME Init PROVE Value!Init
    OBVIOUS
  <2>1. made = FALSE /\ locks = 0 /\ length = 0
    BY DEF Init
  <2>2. Text = <<>>
    BY <2>1 DEF Text
  <2> QED
    BY <2>1, <2>2 DEF Value!Init
<1>2. StringInv /\ StringInv' /\ [Next]_vars => [Value!Next]_<<made, Text, locks>>
  BY NextStep
<1> QED
  BY <1>1, <1>2, StringInvariance, PTL DEF Spec, ImplementsValue, Value!Spec

-----------------------------------------------------------------------------
(* Part 2: files                                                           *)

\* A user who waits has a reference to the file.
Waited == client.active => shared

FileInv == AsyncReadIsIntact /\ SourcesMatch /\ Waited

-----------------------------------------------------------------------------
(* Reading                                                                 *)

\* A read returns no more than it was asked for, and ends within the file.
LEMMA AvailableBytes ==
  ASSUME FileTypeOK, NEW n \in Nat
  PROVE  /\ Available(n) \in Nat /\ Available(n) <= n
         /\ pos + Available(n) \in 0..MaxSize
BY FileAssumption DEF FileTypeOK, Available, Least

\* What a callback that does not end the read of a user leaves of it.
LEMMA SendAsyncReadType ==
  ASSUME FileTypeOK, Waited, NEW code, NEW n \in 0..MaxRead, NEW atEnd,
         client.active => n <= client.left,
         SendAsyncRead(code, n, atEnd)
  PROVE  /\ client' \in [active : BOOLEAN, at : Nat, left : Nat]
         /\ told'.length \in 0..MaxRead
         /\ client'.active => client.active
         /\ client'.active /\ code # "invalid_operation" =>
              /\ code = "success" /\ n # 0 /\ n # client.left
              /\ client'.at = client.at + n /\ client'.left = client.left - n
         /\ code = "invalid_operation" => client' = client
<1>1. client \in [active : BOOLEAN, at : Nat, left : Nat] /\ n \in Nat
  BY FileAssumption DEF FileTypeOK
<1>2. told'.length \in 0..MaxRead
  BY DEF FileTypeOK, SendAsyncRead
<1>3. CASE ~ shared \/ ~ client.active \/ code = "invalid_operation"
  <2>1. client' = client
    BY <1>3 DEF SendAsyncRead
  <2>2. ~ (client'.active /\ code # "invalid_operation")
    BY <1>3, <2>1 DEF Waited
  <2> QED
    BY <1>1, <1>2, <2>1, <2>2
<1>4. CASE /\ shared /\ client.active /\ code # "invalid_operation"
           /\ code # "success" \/ n = 0 \/ n = client.left
  <2>1. client' = Nobody
    BY <1>4 DEF SendAsyncRead
  <2>2. Nobody \in [active : BOOLEAN, at : Nat, left : Nat] /\ ~ Nobody.active
    BY DEF Nobody
  <2> QED
    BY <1>2, <1>4, <2>1, <2>2
<1>5. CASE /\ shared /\ client.active /\ code # "invalid_operation"
           /\ ~ (code # "success" \/ n = 0 \/ n = client.left)
  <2>1. client' = [client EXCEPT !.at = @ + n, !.left = @ - n]
    BY <1>5 DEF SendAsyncRead
  <2>2. client.left - n \in Nat /\ client.at + n \in Nat
    BY <1>1, <1>5
  <2>3. client' \in [active : BOOLEAN, at : Nat, left : Nat]
    BY <1>1, <2>1, <2>2
  <2>4. client'.at = client.at + n /\ client'.left = client.left - n
    BY <1>1, <2>1
  <2> QED
    BY <1>2, <1>5, <2>3, <2>4
<1> QED
  BY <1>3, <1>4, <1>5

\* A callback without data refuses a read or ends it.
LEMMA NothingRead ==
  ASSUME FileInv, NEW code, SendAsyncRead(code, 0, FALSE)
  PROVE  /\ client' \in [active : BOOLEAN, at : Nat, left : Nat]
         /\ told'.length \in 0..MaxRead
         /\ client'.active => client.active
         /\ code = "invalid_operation" => client' = client
         /\ code # "invalid_operation" => ~ client'.active
<1>1. FileTypeOK /\ Waited
  BY DEF FileInv, AsyncReadIsIntact
<1>2. 0 \in 0..MaxRead
  BY FileAssumption
<1>3. client.active => 0 <= client.left
  BY <1>1 DEF FileTypeOK
<1> QED
  BY <1>1, <1>2, <1>3, SendAsyncReadType

-----------------------------------------------------------------------------
(* One lemma per operation                                                 *)

\* What the operations that start or refuse a read leave alone.
LEMMA ReadAsyncInv ==
  ASSUME FileInv, NEW n \in Lengths, NEW fails \in BOOLEAN, ReadAsync(n, fails),
         UNCHANGED <<type, nonBlocking>>
  PROVE  FileInv'
<1>1. FileTypeOK /\ n \in Nat /\ MaxRead \in Nat /\ MaxRead >= 1
  BY FileAssumption DEF FileInv, AsyncReadIsIntact
<1>2. open /\ UNCHANGED <<open, shared, pos, size, events>>
  BY DEF ReadAsync
<1>3. CASE inProgress
  <2>1. SendAsyncRead("invalid_operation", 0, FALSE) /\ UNCHANGED <<inProgress, left, sources>>
    BY <1>3 DEF ReadAsync
  <2>2. client' = client /\ told'.length \in 0..MaxRead
    BY <2>1, NothingRead
  <2>3. FileTypeOK'
    BY <1>1, <1>2, <2>1, <2>2 DEF FileTypeOK
  <2> QED
    BY <1>2, <2>1, <2>2, <2>3 DEF FileInv, AsyncReadIsIntact, SourcesMatch, Waited
<1>4. CASE ~ inProgress /\ fails
  <2>1. SendAsyncRead("internal_error", 0, FALSE) /\ sources' = sources /\ inProgress' = TRUE /\ left' = n
    BY <1>4 DEF ReadAsync
  <2>2. ~ client.active
    BY <1>4 DEF FileInv, AsyncReadIsIntact
  <2>3. ~ client'.active /\ told'.length \in 0..MaxRead /\ client' \in [active : BOOLEAN, at : Nat, left : Nat]
    BY <2>1, <2>2, NothingRead
  <2>4. FileTypeOK'
    BY <1>1, <1>2, <2>1, <2>3 DEF FileTypeOK
  <2> QED
    BY <1>2, <2>1, <2>3, <2>4 DEF FileInv, AsyncReadIsIntact, SourcesMatch, Waited
<1>5. CASE ~ inProgress /\ ~ fails
  <2>1. /\ sources' = sources \cup {"async"} /\ inProgress' = TRUE /\ left' = n
        /\ client' = [active |-> shared, at |-> pos, left |-> n] /\ told' = told
    BY <1>5 DEF ReadAsync
  <2>2. /\ client' \in [active : BOOLEAN, at : Nat, left : Nat]
        /\ client'.active = shared /\ client'.at = pos /\ client'.left = n
    BY <1>1, <2>1 DEF FileTypeOK
  <2>3. FileTypeOK'
    BY <1>1, <1>2, <2>1, <2>2 DEF FileTypeOK
  <2>4. AsyncReadIsIntact'
    BY <1>2, <2>1, <2>2, <2>3 DEF AsyncReadIsIntact
  <2>5. SourcesMatch'
    BY <1>1, <1>2, <2>1 DEF FileInv, SourcesMatch, FileTypeOK
  <2>6. Waited'
    BY <1>2, <2>2 DEF Waited
  <2> QED
    BY <2>4, <2>5, <2>6 DEF FileInv
<1> QED
  BY <1>3, <1>4, <1>5

\* The refused asynchronous read tells its caller and starts nothing.
LEMMA ReadAsyncOutOfRangeInv ==
  ASSUME FileInv, ReadAsyncOutOfRange, UNCHANGED <<type, nonBlocking>>
  PROVE  FileInv'
<1>1. FileTypeOK /\ MaxRead \in Nat /\ 0 \in 0..MaxRead /\ client.left \in Nat
  BY FileAssumption DEF FileInv, AsyncReadIsIntact, FileTypeOK
<1>2. UNCHANGED <<open, shared, pos, size, inProgress, left, events, sources>>
  BY DEF ReadAsyncOutOfRange
<1>3. ~ client'.active /\ told'.length \in 0..MaxRead /\ client' \in [active : BOOLEAN, at : Nat, left : Nat]
  <2>1. SendAsyncRead("out_of_range", 0, FALSE) /\ "out_of_range" # "invalid_operation"
    BY DEF ReadAsyncOutOfRange
  <2> QED
    BY <2>1, NothingRead
<1>4. FileTypeOK'
  BY <1>1, <1>2, <1>3 DEF FileTypeOK
<1> QED
  BY <1>2, <1>3, <1>4 DEF FileInv, AsyncReadIsIntact, SourcesMatch, Waited

\* file_handle_async_read(): the position moves by what the user is told of.
LEMMA HandleAsyncReadInv ==
  ASSUME FileInv, HandleAsyncRead, UNCHANGED <<type, nonBlocking>>
  PROVE  FileInv'
<1> DEFINE n == Available(Least(MaxRead, left))
<1>1. FileTypeOK /\ left \in Nat /\ MaxRead \in Nat
  BY FileAssumption DEF FileInv, AsyncReadIsIntact, FileTypeOK
<1>2. Least(MaxRead, left) \in Nat /\ Least(MaxRead, left) <= MaxRead /\ Least(MaxRead, left) <= left
  BY <1>1 DEF Least
<1>3. n \in Nat /\ n <= Least(MaxRead, left) /\ pos + n \in 0..MaxSize
  BY <1>1, <1>2, AvailableBytes
<1>4. n \in 0..MaxRead /\ n <= left
  BY <1>1, <1>2, <1>3
<1>5. /\ open /\ "async" \in sources /\ pos' = pos + n
      /\ left' = IF n = 0 THEN 0 ELSE left - n
      /\ inProgress' = (left' # 0)
      /\ sources' = IF left' = 0 THEN sources \ {"async"} ELSE sources
      /\ SendAsyncRead("success", n, type = "file" /\ left > 0 /\ n = 0)
      /\ UNCHANGED <<open, shared, size, events>>
  BY DEF HandleAsyncRead
<1> HIDE DEF n
<1>6. client.active => client.left = left /\ client.at = pos
  BY DEF FileInv, AsyncReadIsIntact
<1>7. /\ client' \in [active : BOOLEAN, at : Nat, left : Nat] /\ told'.length \in 0..MaxRead
      /\ client'.active => /\ client.active /\ n # 0 /\ n # client.left
                           /\ client'.at = client.at + n /\ client'.left = client.left - n
  BY <1>1, <1>4, <1>5, <1>6, SendAsyncReadType DEF FileInv
<1>8. left' \in Nat /\ inProgress' \in BOOLEAN
  BY <1>1, <1>4, <1>5
<1>9. FileTypeOK'
  BY <1>1, <1>3, <1>5, <1>7, <1>8 DEF FileTypeOK
<1>10. client'.active => /\ left' = left - n /\ left' # 0
                         /\ inProgress' /\ "async" \in sources'
  BY <1>1, <1>4, <1>5, <1>6, <1>7
<1>11. AsyncReadIsIntact'
  BY <1>5, <1>6, <1>7, <1>9, <1>10 DEF AsyncReadIsIntact
<1>12. SourcesMatch'
  BY <1>5 DEF FileInv, SourcesMatch
<1>13. Waited'
  BY <1>5, <1>7 DEF FileInv, Waited
<1> QED
  BY <1>11, <1>12, <1>13 DEF FileInv

\* The read fails, or the user aborts it: it is over, and the user told.
LEMMA ReadIsOverInv ==
  ASSUME FileInv, NEW code \in {"error", "operation_aborted"}, SendAsyncRead(code, 0, FALSE),
         open, inProgress' = FALSE, left' = 0, sources' = sources \ {"async"},
         UNCHANGED <<type, nonBlocking, open, shared, pos, size, events>>
  PROVE  FileInv'
<1>1. FileTypeOK /\ MaxRead \in Nat /\ 0 \in 0..MaxRead /\ client.left \in Nat
  BY FileAssumption DEF FileInv, AsyncReadIsIntact, FileTypeOK
<1>2. ~ client'.active /\ told'.length \in 0..MaxRead /\ client' \in [active : BOOLEAN, at : Nat, left : Nat]
  BY NothingRead
<1>3. FileTypeOK'
  BY <1>1, <1>2 DEF FileTypeOK
<1>4. AsyncReadIsIntact' /\ Waited'
  BY <1>2, <1>3 DEF AsyncReadIsIntact, Waited
<1>5. SourcesMatch'
  BY DEF FileInv, SourcesMatch
<1> QED
  BY <1>4, <1>5 DEF FileInv

\* A failing read ends the asynchronous read.
LEMMA HandleAsyncReadErrorInv ==
  ASSUME FileInv, HandleAsyncReadError, UNCHANGED <<type, nonBlocking>>
  PROVE  FileInv'
BY ReadIsOverInv DEF HandleAsyncReadError

\* file_abort_async_read ends the asynchronous read.
LEMMA AbortAsyncReadInv ==
  ASSUME FileInv, AbortAsyncRead, UNCHANGED <<type, nonBlocking>>
  PROVE  FileInv'
BY ReadIsOverInv DEF AbortAsyncRead

\* A synchronous operation, or another process: the position moves only while
\* nobody waits.
LEMMA DataInv ==
  ASSUME FileInv, pos' \in 0..MaxSize, size' \in 0..MaxSize, pos' = pos \/ ~ inProgress,
         UNCHANGED <<type, nonBlocking, open, shared, inProgress, left, events, sources, client, told>>
  PROVE  FileInv'
<1>1. FileTypeOK'
  BY DEF FileInv, AsyncReadIsIntact, FileTypeOK
<1>2. AsyncReadIsIntact'
  BY <1>1 DEF FileInv, AsyncReadIsIntact
<1> QED
  BY <1>2 DEF FileInv, SourcesMatch, Waited

\* A synchronous read moves the position only where no asynchronous read runs.
LEMMA ReadInv ==
  ASSUME FileInv, NEW n \in 0..MaxRead, Read(n), UNCHANGED <<type, nonBlocking>>
  PROVE  FileInv'
<1>1. FileTypeOK /\ n \in Nat
  BY FileAssumption DEF FileInv, AsyncReadIsIntact
<1>2. pos + Available(n) \in 0..MaxSize
  BY <1>1, AvailableBytes
<1> QED
  BY <1>1, <1>2, DataInv DEF Read, FileTypeOK

\* So does a write, which may make the file longer.
LEMMA WriteInv ==
  ASSUME FileInv, NEW n \in 0..MaxRead, Write(n), UNCHANGED <<type, nonBlocking>>
  PROVE  FileInv'
<1>1. FileTypeOK /\ n \in Nat /\ MaxSize \in Nat
  BY FileAssumption DEF FileInv, AsyncReadIsIntact
<1>2. pos \in Nat /\ size \in Nat /\ pos <= MaxSize /\ size <= MaxSize /\ size' <= MaxSize
  BY <1>1 DEF FileTypeOK, Write
<1>3. CASE type = "pipe"
  <2>1. size' = size + n /\ pos' = pos
    BY <1>3 DEF Write
  <2>2. size' \in 0..MaxSize /\ pos' \in 0..MaxSize
    BY <1>1, <1>2, <2>1
  <2> QED
    BY <2>2, DataInv DEF Write
<1>4. CASE type # "pipe"
  <2>1. pos' = pos + n /\ size' = Greatest(size, pos + n)
    BY <1>4 DEF Write
  <2>2. size' \in 0..MaxSize /\ pos' \in 0..MaxSize
    BY <1>1, <1>2, <2>1 DEF Greatest
  <2> QED
    BY <2>2, DataInv DEF Write
<1> QED
  BY <1>3, <1>4

\* So does a seek.
LEMMA SetPositionInv ==
  ASSUME FileInv, NEW p \in 0..MaxSize, SetPosition(p), UNCHANGED <<type, nonBlocking>>
  PROVE  FileInv'
BY DataInv DEF SetPosition, FileInv, AsyncReadIsIntact, FileTypeOK

\* What another process writes moves no position.
LEMMA ProduceInv ==
  ASSUME FileInv, Produce, UNCHANGED <<type, nonBlocking>>
  PROVE  FileInv'
<1>1. pos \in 0..MaxSize /\ size + 1 \in 0..MaxSize
  BY FileAssumption DEF Produce, FileInv, AsyncReadIsIntact, FileTypeOK
<1> QED
  BY <1>1, DataInv DEF Produce

\* file_set_events() and the one-shot events: wishes and sources change
\* together, and the asynchronous read keeps its source.
LEMMA EventsInv ==
  ASSUME FileInv, open, events' \subseteq {"readable", "writable"},
         sources' \subseteq {"readable", "writable", "async"},
         sources' \ {"async"} = events', "async" \in sources' <=> "async" \in sources,
         UNCHANGED <<type, nonBlocking, open, shared, pos, size, inProgress, left, client, told>>
  PROVE  FileInv'
<1>1. FileTypeOK'
  BY DEF FileInv, AsyncReadIsIntact, FileTypeOK
<1>2. AsyncReadIsIntact'
  BY <1>1 DEF FileInv, AsyncReadIsIntact
<1> QED
  BY <1>2 DEF FileInv, SourcesMatch, Waited

\* file_set_events changes the events and the watched sources alike, also when an add fails.
LEMMA SetEventsInv ==
  ASSUME FileInv, NEW wanted \in SUBSET {"readable", "writable"},
         NEW failing \in {"none", "readable", "writable"}, SetEvents(wanted, failing),
         UNCHANGED <<type, nonBlocking>>
  PROVE  FileInv'
<1>1. PICK added \in SUBSET {"readable", "writable"}, removed \in SUBSET {"readable", "writable"} :
        events' = (events \ removed) \cup added /\ sources' = (sources \ removed) \cup added
  <2> DEFINE failsFirst == failing = "readable" /\ "readable" \in wanted \ events
             added   == IF failsFirst THEN {} ELSE (wanted \ events) \ {failing}
             removed == IF failsFirst THEN {} ELSE events \ wanted
  <2>1. added \in SUBSET {"readable", "writable"} /\ removed \in SUBSET {"readable", "writable"}
    BY DEF FileInv, AsyncReadIsIntact, FileTypeOK
  <2>2. events' = (events \ removed) \cup added /\ sources' = (sources \ removed) \cup added
    BY DEF SetEvents
  <2> QED
    BY <2>1, <2>2
<1>2. open /\ UNCHANGED <<open, shared, pos, size, inProgress, left, client, told>>
  BY DEF SetEvents
<1>3. /\ events \subseteq {"readable", "writable"} /\ sources \subseteq {"readable", "writable", "async"}
      /\ sources \ {"async"} = events
  BY <1>2 DEF FileInv, AsyncReadIsIntact, FileTypeOK, SourcesMatch
<1>4. /\ events' \subseteq {"readable", "writable"} /\ sources' \subseteq {"readable", "writable", "async"}
      /\ sources' \ {"async"} = events' /\ ("async" \in sources' <=> "async" \in sources)
  BY <1>1, <1>3
<1> QED
  BY <1>2, <1>4, EventsInv

\* An event that is told is taken from the events and from the watched sources.
LEMMA HandleEventInv ==
  ASSUME FileInv, NEW e \in {"readable", "writable"}, HandleEvent(e), UNCHANGED <<type, nonBlocking>>
  PROVE  FileInv'
<1>1. /\ open /\ sources' = sources \ {e} /\ events' = events \ {e}
      /\ UNCHANGED <<open, shared, pos, size, inProgress, left, client, told>>
  BY DEF HandleEvent
<1>2. /\ events \subseteq {"readable", "writable"} /\ sources \subseteq {"readable", "writable", "async"}
      /\ sources \ {"async"} = events
  BY <1>1 DEF FileInv, AsyncReadIsIntact, FileTypeOK, SourcesMatch
<1>3. /\ events' \subseteq {"readable", "writable"} /\ sources' \subseteq {"readable", "writable", "async"}
      /\ sources' \ {"async"} = events' /\ ("async" \in sources' <=> "async" \in sources)
  BY <1>1, <1>2
<1> QED
  BY <1>1, <1>3, EventsInv

\* References come and go; with the last one goes whoever waited.
LEMMA ShareReleaseInv ==
  ASSUME FileInv, Share \/ Release, UNCHANGED <<type, nonBlocking>>
  PROVE  FileInv'
<1>1. /\ UNCHANGED <<open, pos, size, inProgress, left, events, sources, told>>
      /\ shared' \in BOOLEAN /\ client' \in {client, Nobody}
      /\ shared' = FALSE => client' = Nobody
  BY DEF Share, Release
<1>2. Nobody \in [active : BOOLEAN, at : Nat, left : Nat] /\ ~ Nobody.active
  BY DEF Nobody
<1>3. FileTypeOK'
  BY <1>1, <1>2 DEF FileInv, AsyncReadIsIntact, FileTypeOK
<1>4. AsyncReadIsIntact'
  BY <1>1, <1>2, <1>3 DEF FileInv, AsyncReadIsIntact
<1>5. SourcesMatch' /\ Waited'
  BY <1>1, <1>2 DEF FileInv, SourcesMatch, Waited
<1> QED
  BY <1>4, <1>5 DEF FileInv

\* file_destroy(): nobody has a reference, so nobody waits, and no source of
\* the file stays.
LEMMA DestroyInv ==
  ASSUME FileInv, Destroy, UNCHANGED <<type, nonBlocking>>
  PROVE  FileInv'
<1>1. /\ open /\ ~ shared /\ open' = FALSE
      /\ sources' = sources \ (events \cup (IF inProgress THEN {"async"} ELSE {}))
      /\ UNCHANGED <<shared, pos, size, inProgress, left, events, client, told>>
  BY DEF Destroy
<1>2. ~ client.active
  BY <1>1 DEF FileInv, Waited
<1>3. sources' = {}
  BY <1>1 DEF FileInv, SourcesMatch
<1>4. FileTypeOK'
  BY <1>1, <1>3 DEF FileInv, AsyncReadIsIntact, FileTypeOK
<1> QED
  BY <1>1, <1>2, <1>3, <1>4 DEF FileInv, AsyncReadIsIntact, SourcesMatch, Waited

-----------------------------------------------------------------------------
(* The theorems                                                            *)

\* A file that was just opened.
LEMMA FileInitInv == FileInit => FileInv
<1> SUFFICES ASSUME FileInit PROVE FileInv
  OBVIOUS
<1>1. /\ client \in [active : BOOLEAN, at : Nat, left : Nat] /\ ~ client.active
      /\ told.length = 0
  BY DEF FileInit, Nobody
<1>2. pos \in 0..MaxSize /\ size \in 0..MaxSize /\ 0 \in 0..MaxRead
  BY FileAssumption DEF FileInit
<1>3. open \in BOOLEAN /\ shared \in BOOLEAN /\ inProgress \in BOOLEAN
  BY DEF FileInit
<1>4. /\ type \in {"file", "pipe"} /\ nonBlocking \in BOOLEAN /\ left \in Nat
      /\ events = {} /\ sources = {}
  BY DEF FileInit
<1>5. FileTypeOK
  BY <1>1, <1>2, <1>3, <1>4 DEF FileTypeOK
<1> QED
  BY <1>1, <1>4, <1>5 DEF FileInv, AsyncReadIsIntact, SourcesMatch, Waited

\* Every operation keeps the invariant.
LEMMA FileNextInv == FileInv /\ [FileNext]_fileVars => FileInv'
<1> SUFFICES ASSUME FileInv, [FileNext]_fileVars PROVE FileInv'
  OBVIOUS
<1>1. CASE UNCHANGED fileVars
  BY <1>1 DEF fileVars, FileInv, AsyncReadIsIntact, SourcesMatch, Waited, FileTypeOK
<1>2. CASE FileNext
  <2>0. UNCHANGED <<type, nonBlocking>> /\ Step
    BY <1>2 DEF FileNext
  <2>1. ASSUME NEW n \in Lengths, NEW fails \in BOOLEAN, ReadAsync(n, fails) PROVE FileInv'
    BY <2>0, <2>1, ReadAsyncInv
  <2>2. ASSUME NEW n \in 0..MaxRead, Read(n) \/ Write(n) PROVE FileInv'
    BY <2>0, <2>2, ReadInv, WriteInv
  <2>3. ASSUME NEW p \in 0..MaxSize, SetPosition(p) PROVE FileInv'
    BY <2>0, <2>3, SetPositionInv
  <2>4. ASSUME NEW wanted \in SUBSET {"readable", "writable"},
               NEW failing \in {"none", "readable", "writable"}, SetEvents(wanted, failing)
        PROVE  FileInv'
    BY <2>0, <2>4, SetEventsInv
  <2>5. ASSUME NEW e \in {"readable", "writable"}, HandleEvent(e) PROVE FileInv'
    BY <2>0, <2>5, HandleEventInv
  <2> QED
    BY <2>0, <2>1, <2>2, <2>3, <2>4, <2>5, ReadAsyncOutOfRangeInv, HandleAsyncReadInv,
       HandleAsyncReadErrorInv, AbortAsyncReadInv, ProduceInv, ShareReleaseInv, DestroyInv
       DEF Step, AsyncRead
<1> QED
  BY <1>1, <1>2

\* Over all interleavings of users, the event loop and other processes.
THEOREM FileInvariance == FileSpec => []FileInv
BY FileInitInv, FileNextInv, PTL DEF FileSpec

\* Who waits for an asynchronous read gets the bytes in order and without a
\* gap: the checks of async_read_in_progress in file.c keep everybody else
\* from moving the position.
THEOREM ReadsAreIntact == FileSpec => []AsyncReadIsIntact
<1>1. FileInv => AsyncReadIsIntact
  BY DEF FileInv
<1> QED
  BY <1>1, FileInvariance, PTL

\* The event loop never holds a file that was destroyed, and otherwise
\* watches it for exactly what it wants to be told of.
THEOREM SourcesAreWanted == FileSpec => []SourcesMatch
<1>1. FileInv => SourcesMatch
  BY DEF FileInv
<1> QED
  BY <1>1, FileInvariance, PTL
=============================================================================
