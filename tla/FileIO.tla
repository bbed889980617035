------------------------------- MODULE FileIO -------------------------------
(***************************************************************************)
(* Input and output of one File object, a file or a pipe (file.c):         *)
(* synchronous reads, writes and seeks, the asynchronous read that is      *)
(* driven by the event loop, and one-shot file events.                     *)
(*                                                                         *)
(* Bytes are told apart by their offset: "pos" is the position of the next *)
(* byte to read, "size" how many there are so far.  "client" is what a     *)
(* user who started an asynchronous read makes of the callbacks; it is no  *)
(* state of the daemon.                                                    *)
(***************************************************************************)
EXTENDS Integers

CONSTANTS
  MaxSize,     \* bound on the bytes of the file
  MaxRead,     \* FILE_MAX_READ_ASYNC_BUFFER_LENGTH and the like
  Lengths      \* lengths users ask to read asynchronously

ASSUME FileAssumption ==
  /\ MaxSize \in Nat
  /\ MaxRead \in Nat /\ MaxRead >= 1
  /\ Lengths \subseteq Nat

VARIABLES
  type,        \* "file" or "pipe"
  nonBlocking, \* other files refuse to read and write
  open,        \* the object exists
  shared,      \* it has an external reference
  pos, size,
  inProgress,  \* async_read_in_progress
  left,        \* length_to_read_async
  events,      \* file->events
  sources,     \* handles of this file in the event loop
  client,      \* [active, at, left]: the asynchronous read as its user sees it
  told         \* the last async_file_read callback: [code, length, atEnd]

fileVars == <<type, nonBlocking, open, shared, pos, size, inProgress, left, events,
              sources, client, told>>

Least(a, b)    == IF a < b THEN a ELSE b
Greatest(a, b) == IF a > b THEN a ELSE b

Nobody == [active |-> FALSE, at |-> 0, left |-> 0]

FileInit ==
  /\ type        \in {"file", "pipe"}
  /\ nonBlocking \in BOOLEAN
  /\ open       = TRUE
  /\ shared     = TRUE
  /\ pos        = 0
  /\ size       \in 0..MaxSize
  /\ inProgress = FALSE
  /\ left       = 0
  /\ events     = {}
  /\ sources    = {}
  /\ client     = Nobody
  /\ told       = [code |-> "none", length |-> 0, atEnd |-> FALSE]

\* Bytes a read of n bytes can return; 0 at the end of a file, or when an
\* empty pipe would block, which is treated alike.
Available(n) == Least(n, IF pos < size THEN size - pos ELSE 0)

-----------------------------------------------------------------------------
(* Callbacks: sent only if there is an external reference.                 *)

\* What the user makes of a callback: data continues the read; no data, an
\* error, or the last byte ends it.  INVALID_OPERATION refuses a second read.
SendAsyncRead(code, n, atEnd) ==
  /\ told' = IF shared THEN [code |-> code, length |-> n, atEnd |-> atEnd] ELSE told
  /\ client' = IF ~ shared \/ ~ client.active \/ code = "invalid_operation" THEN client
               ELSE IF code # "success" \/ n = 0 \/ n = client.left THEN Nobody
               ELSE [client EXCEPT !.at = @ + n, !.left = @ - n]

\* file_read_async.  If the event source cannot be added the user gets an
\* error, but the read stays marked as in progress.
ReadAsync(n, fails) ==
  /\ open
  /\ IF inProgress
     THEN /\ SendAsyncRead("invalid_operation", 0, FALSE)
          /\ UNCHANGED <<inProgress, left, sources>>
     ELSE /\ inProgress' = TRUE
          /\ left' = n
          /\ IF fails
             THEN /\ SendAsyncRead("internal_error", 0, FALSE)
                  /\ UNCHANGED sources
             ELSE /\ sources' = sources \cup {"async"}
                  /\ client' = [active |-> shared, at |-> pos, left |-> n]
                  /\ UNCHANGED told
  /\ UNCHANGED <<open, shared, pos, size, events>>

\* file_read_async with more than INT64_MAX bytes
ReadAsyncOutOfRange ==
  /\ open
  /\ SendAsyncRead("out_of_range", 0, FALSE)
  /\ UNCHANGED <<open, shared, pos, size, inProgress, left, events, sources>>

\* Faulty: an empty read does not end the asynchronous read.
HandleAsyncReadEmpty ==
  LET n == Available(Least(MaxRead, left)) IN
    /\ open
    /\ "async" \in sources
    /\ nonBlocking
    /\ pos' = pos + n
    /\ left' = left - n
    /\ inProgress' = (left' # 0)
    /\ sources' = IF left' = 0 THEN sources \ {"async"} ELSE sources
    /\ IF n = 0 THEN UNCHANGED <<told, client>> ELSE SendAsyncRead("success", n, FALSE)
    /\ UNCHANGED <<open, shared, size, events>>

\* file_handle_async_read, called by the event loop for as long as the source
\* is there.  An interrupted read changes nothing.
HandleAsyncRead ==
  LET n == Available(Least(MaxRead, left)) IN
    /\ open
    /\ "async" \in sources
    /\ nonBlocking
    /\ pos'        = pos + n
    /\ left'       = IF n = 0 THEN 0 ELSE left - n
    /\ inProgress' = (left' # 0)
    /\ sources'    = IF left' = 0 THEN sources \ {"async"} ELSE sources
    /\ SendAsyncRead("success", n, type = "file" /\ left > 0 /\ n = 0)
    /\ UNCHANGED <<open, shared, size, events>>

\* The same handler when the read fails.
HandleAsyncReadError ==
  /\ open
  /\ "async" \in sources
  /\ left'       = 0
  /\ inProgress' = FALSE
  /\ sources'    = sources \ {"async"}
  /\ SendAsyncRead("error", 0, FALSE)
  /\ UNCHANGED <<open, shared, pos, size, events>>

\* Faulty: the event source stays in the event loop.
AbortAsyncReadKeeping ==
  /\ open
  /\ inProgress
  /\ left'       = 0
  /\ inProgress' = FALSE
  /\ SendAsyncRead("operation_aborted", 0, FALSE)
  /\ UNCHANGED <<open, shared, pos, size, events, sources>>

AbortAsyncRead ==
  /\ open
  /\ inProgress
  /\ left'       = 0
  /\ inProgress' = FALSE
  /\ sources'    = sources \ {"async"}
  /\ SendAsyncRead("operation_aborted", 0, FALSE)
  /\ UNCHANGED <<open, shared, pos, size, events>>

-----------------------------------------------------------------------------
(* Synchronous operations, refused while an asynchronous read runs         *)

\* Faulty: allowed at any time.
ReadAnytime(n) ==
  /\ open
  /\ nonBlocking
  /\ pos' = pos + Available(n)
  /\ UNCHANGED <<open, shared, size, inProgress, left, events, sources, client, told>>

\* file_read_
Read(n) ==
  /\ open
  /\ ~ inProgress
  /\ nonBlocking
  /\ pos' = pos + Available(n)
  /\ UNCHANGED <<open, shared, size, inProgress, left, events, sources, client, told>>

\* file_write_, file_write_unchecked and file_write_async; a write can fail or
\* write less.
Write(n) ==
  /\ open
  /\ ~ inProgress
  /\ nonBlocking
  /\ IF type = "pipe"
     THEN size' = size + n /\ pos' = pos
     ELSE pos' = pos + n /\ size' = Greatest(size, pos + n)
  /\ size' <= MaxSize
  /\ UNCHANGED <<open, shared, inProgress, left, events, sources, client, told>>

\* file_set_position; a pipe cannot seek.
SetPosition(p) ==
  /\ open
  /\ ~ inProgress
  /\ type = "file"
  /\ pos' = p
  /\ UNCHANGED <<open, shared, size, inProgress, left, events, sources, client, told>>

\* Another process writes to the file or into the pipe.
Produce ==
  /\ size < MaxSize
  /\ size' = size + 1
  /\ UNCHANGED <<open, shared, pos, inProgress, left, events, sources, client, told>>

-----------------------------------------------------------------------------
(* File events of a pipe: "readable" is set and its handle watched, or     *)
(* neither.                                                                *)

\* file_set_events: readable first, then writable; a source that cannot be
\* added ends the function.
SetEvents(wanted, failing) ==
  LET failsFirst == failing = "readable" /\ "readable" \in wanted \ events
      added   == IF failsFirst THEN {} ELSE (wanted \ events) \ {failing}
      removed == IF failsFirst THEN {} ELSE events \ wanted
  IN /\ open
     /\ type = "pipe"
     /\ events'  = (events \ removed) \cup added
     /\ sources' = (sources \ removed) \cup added
     /\ UNCHANGED <<open, shared, pos, size, inProgress, left, client, told>>

\* file_handle_readable_event and file_handle_writable_event: once
HandleEvent(e) ==
  /\ open
  /\ e \in sources
  /\ e = "readable" => pos < size
  /\ sources' = sources \ {e}
  /\ events'  = events \ {e}
  /\ UNCHANGED <<open, shared, pos, size, inProgress, left, client, told>>

-----------------------------------------------------------------------------
\* The last session gives up its reference, or one gets it anew (from a
\* process that still uses the file).
Release ==
  /\ open /\ shared
  /\ shared' = FALSE
  /\ client' = Nobody
  /\ UNCHANGED <<open, pos, size, inProgress, left, events, sources, told>>

Share ==
  /\ open /\ ~ shared
  /\ shared' = TRUE
  /\ UNCHANGED <<open, pos, size, inProgress, left, events, sources, client, told>>

\* file_destroy
Destroy ==
  /\ open /\ ~ shared
  /\ open' = FALSE
  /\ sources' = sources \ (events \cup (IF inProgress THEN {"async"} ELSE {}))
  /\ UNCHANGED <<shared, pos, size, inProgress, left, events, client, told>>

AsyncRead == HandleAsyncRead \/ HandleAsyncReadError

Step ==
  \/ \E n \in Lengths, fails \in BOOLEAN : ReadAsync(n, fails)
  \/ ReadAsyncOutOfRange
  \/ AsyncRead
  \/ AbortAsyncRead
  \/ \E n \in 0..MaxRead : Read(n) \/ Write(n)
  \/ \E p \in 0..MaxSize : SetPosition(p)
  \/ Produce
  \/ \E wanted \in SUBSET {"readable", "writable"},
        failing \in {"none", "readable", "writable"} : SetEvents(wanted, failing)
  \/ \E e \in {"readable", "writable"} : HandleEvent(e)
  \/ Release \/ Share \/ Destroy

\* What the file was opened as stays.
FileNext == Step /\ UNCHANGED <<type, nonBlocking>>

FileSpec == FileInit /\ [][FileNext]_fileVars

\* The event loop calls the handler of a readable eventfd.
FairFileSpec == FileSpec /\ WF_fileVars(AsyncRead /\ UNCHANGED <<type, nonBlocking>>)

-----------------------------------------------------------------------------
FileTypeOK ==
  /\ type \in {"file", "pipe"} /\ nonBlocking \in BOOLEAN
  /\ open \in BOOLEAN /\ shared \in BOOLEAN /\ inProgress \in BOOLEAN
  /\ pos \in 0..MaxSize /\ size \in 0..MaxSize
  /\ left \in Nat
  /\ events \subseteq {"readable", "writable"}
  /\ sources \subseteq {"readable", "writable", "async"}
  /\ client \in [active : BOOLEAN, at : Nat, left : Nat]
  /\ told.length \in 0..MaxRead

\* A user who waits for an asynchronous read gets the bytes of the file in
\* order and without a gap, no more than it asked for, and the daemon is still
\* reading for it: nobody else moves the position meanwhile (the checks of
\* async_read_in_progress) and every way the read ends is told.
AsyncReadIsIntact ==
  /\ FileTypeOK
  /\ client.active => /\ open /\ inProgress /\ "async" \in sources
                      /\ client.at = pos
                      /\ client.left = left

\* The event loop holds a pointer to the file exactly for what the file wants
\* to be told of, and none to a file that was destroyed: no add is forgotten
\* or removed twice, over aborts, errors, one-shot events and failing adds.
SourcesMatch ==
  /\ ~ open => sources = {}
  /\ open => sources \ {"async"} = events
  /\ "async" \in sources => inProgress

\* What a user who was waiting for data is told at the end of the read: an
\* error or the abort, the last bytes asked for, or nothing although there was
\* no error, and then there is indeed nothing left to read.
EndIsTold ==
  \/ told'.code \in {"error", "operation_aborted", "out_of_range"}
  \/ told'.code = "success" /\ told'.length = client.left
  \/ told'.code = "success" /\ told'.length = 0 /\ size <= pos

\* Every asynchronous read comes to an end, and its user is told how it ended
\* (or gave up the file).  The end of a file has no code of its own.
AsyncReadEnds ==
  /\ client.active ~> ~ client.active
  /\ [][client.active /\ ~ client'.active /\ shared' => EndIsTold]_fileVars

\* "error_code == NO_MORE_DATA means end-of-file" (api.txt:174)
EndOfFileIsTold == told.atEnd => told.code = "no_more_data"
=============================================================================
