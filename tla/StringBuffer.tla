---------------------------- MODULE StringBuffer ----------------------------
(***************************************************************************)
(* A String object as string.c stores it: a heap buffer of "allocated"     *)
(* bytes that is grown in steps, a length without terminator, and a NUL    *)
(* after the text.  The module shows that the buffer operations implement  *)
(* StringValue, and where the terminator ends up.                          *)
(***************************************************************************)
EXTENDS Integers, Sequences

CONSTANTS
  Char, Space,
  Nul,         \* the terminator
  Junk,        \* a byte of fresh heap memory
  MaxLength,   \* INT32_MAX
  MaxChunk,    \* STRING_MAX_SET_CHUNK_BUFFER_LENGTH, ..._ALLOCATE_...
  Unit,        \* the granularity of GROW_ALLOCATION
  MaxLocks     \* bound on lock_count

ASSUME StringAssumption ==
  /\ MaxLength \in Nat /\ MaxChunk \in Nat /\ MaxLocks \in Nat
  /\ Unit \in Nat /\ Unit >= 1
  /\ Space \in Char
  /\ Nul \notin Char /\ Junk \notin Char /\ Nul # Junk

VARIABLES
  made,       \* the object exists
  buffer,     \* bytes from the start of the buffer, index 0 first
  length,
  allocated,
  locks       \* lock_count

vars == <<made, buffer, length, allocated, locks>>

Chunk == UNION {[1..n -> Char] : n \in 0..MaxChunk}

\* GROW_ALLOCATION of daemonlib
Grown(n) == ((n + Unit - 1) \div Unit) * Unit

\* Bytes of the model: as many as a buffer can have, and the one behind it.
Byte == 0..Grown(MaxLength + 1)

Fresh == [i \in Byte |-> Junk]

\* memcpy(buffer + offset, c, Len(c))
Copied(b, offset, c) ==
  [i \in Byte |-> IF i >= offset /\ i < offset + Len(c) THEN c[i - offset + 1] ELSE b[i]]

Init ==
  /\ made      = FALSE
  /\ buffer    = Fresh
  /\ length    = 0
  /\ allocated = 0
  /\ locks     = 0

\* string_allocate and string_create: at least the requested room, and always
\* one byte for the terminator.
StringAllocate(reserve, c) ==
  LET room == IF reserve < Len(c) THEN Len(c) ELSE reserve IN
    /\ ~ made
    /\ room <= MaxLength
    /\ made'      = TRUE
    /\ allocated' = Grown(room + 1)
    /\ length'    = Len(c)
    /\ buffer'    = [Copied(Fresh, 0, c) EXCEPT ![Len(c)] = Nul]
    /\ locks'     = locks

\* string_wrap: the text of a C string is copied to a new buffer.
StringWrap(c) == StringAllocate(Len(c), c)

\* string_asprintf: the string takes over the buffer of vasprintf, which has no
\* byte to spare.
StringAsprintf(c) ==
  /\ ~ made
  /\ Len(c) <= MaxLength
  /\ made'      = TRUE
  /\ allocated' = Len(c) + 1
  /\ length'    = Len(c)
  /\ buffer'    = [Copied(Fresh, 0, c) EXCEPT ![Len(c)] = Nul]
  /\ locks'     = locks

\* Faulty: the terminator is not moved.
StringTruncateLength(n) ==
  /\ made
  /\ locks = 0
  /\ n < length
  /\ length' = n
  /\ UNCHANGED <<made, buffer, allocated, locks>>

StringTruncate(n) ==
  /\ made
  /\ locks = 0
  /\ n < length
  /\ length' = n
  /\ buffer' = [buffer EXCEPT ![n] = Nul]
  /\ UNCHANGED <<made, allocated, locks>>

\* string_reserve: what "allocated" becomes for a text of n bytes.
Reserved(n) == IF n + 1 <= allocated THEN allocated ELSE Grown(n + 1)

\* Room is reserved only if the text itself does not fit.
RoomFor(n) == IF n > allocated THEN Reserved(n) ELSE allocated

\* Faulty: the bytes between the old end and the offset are not filled.
PreparedUnfilled(offset, room) ==
  [i \in Byte |-> IF i >= allocated /\ room > allocated THEN Junk ELSE buffer[i]]

\* The bytes before the chunk is copied: realloc keeps those of the old buffer,
\* the gap between the old end and the offset is filled.
Prepared(offset, room) ==
  [i \in Byte |-> IF i >= length /\ i < offset THEN Space
                  ELSE IF i >= allocated /\ room > allocated THEN Junk
                  ELSE buffer[i]]

\* string_set_chunk: a longer text is terminated at its new end.
StringSetChunk(offset, c) ==
  LET end == offset + Len(c)
      b   == Copied(Prepared(offset, RoomFor(end)), offset, c)
  IN /\ made
     /\ locks = 0
     /\ end <= MaxLength
     /\ Len(c) > 0
     /\ allocated' = RoomFor(end)
     /\ length' = IF end > length THEN end ELSE length
     /\ buffer' = IF end > length THEN [b EXCEPT ![end] = Nul] ELSE b
     /\ UNCHANGED <<made, locks>>

\* string_acquire_and_lock and string_unlock_and_release by other objects
Lock ==
  /\ made
  /\ locks < MaxLocks
  /\ locks' = locks + 1
  /\ UNCHANGED <<made, buffer, length, allocated>>

Unlock ==
  /\ locks > 0
  /\ locks' = locks - 1
  /\ UNCHANGED <<made, buffer, length, allocated>>

Next ==
  \/ \E c \in Chunk : StringWrap(c) \/ StringAsprintf(c)
  \/ \E r \in 0..MaxLength, c \in Chunk : StringAllocate(r, c)
  \/ \E n \in 0..MaxLength : StringTruncate(n)
  \/ \E offset \in 0..MaxLength, c \in Chunk : StringSetChunk(offset, c)
  \/ Lock
  \/ Unlock

Spec == Init /\ [][Next]_vars

-----------------------------------------------------------------------------
TypeOK ==
  /\ made \in BOOLEAN
  /\ buffer \in [Byte -> Char \cup {Nul, Junk}]
  /\ length \in 0..MaxLength
  /\ allocated \in 0..Grown(MaxLength + 1)
  /\ locks \in 0..MaxLocks

\* The bytes users see: string_get_chunk at offset 0.
Text == [i \in 1..length |-> buffer[i - 1]]

Value == INSTANCE StringValue WITH text <- Text

\* The buffer operations implement the text operations: no byte of fresh
\* memory or of a text that was truncated before ever becomes readable, and
\* a locked string keeps its text.
ImplementsValue == Value!Spec

\* "buffer is always NULL-terminated", "allocated ... includes NULL-terminator"
\* (string.h:34-36): the terminator follows the text, in the buffer.
Terminated == made => length < allocated /\ buffer[length] = Nul

\* A text loses its terminator in exactly one case, whatever chunks, gaps,
\* growth and truncations came before: a chunk that ends at the last byte of
\* the buffer (string_set_chunk makes no room for the terminator then).  It
\* gets one back as soon as its length changes again.  No text ever exceeds
\* its buffer.  Every other module passes "buffer" on as a C string.
TerminatorKept ==
  [][/\ length' <= allocated'
     /\ ~ Terminated' <=> \/ length < length' /\ length' = allocated
                          \/ ~ Terminated /\ length' = length]_vars
=============================================================================
