# Verification of the RED Brick API daemon (redapid)

`redapid` runs on the RED Brick and offers its file system, processes and
programs to remote users. Requests come in through the Brick Daemon, which is
connected over a UNIX domain socket; every request names an object (string,
list, file, directory, process, program) or a session by a 16 bit id. This
project models the daemon in TLA+, checks the models with TLC, and proves with
TLAPS nearly all of the safety properties, and both refinements, for every value
of the parameters. Sources are named relative to `src/src/redapid/`.

## 1. The system

### Execution model

The daemon is one event loop. A handler (of a request, a timer, a readable
pipe or socket) runs to its end before the next one starts, so in all modules a
handler is one action, except where its inside is the point (the destruction
cascade, the expiry loop, the loop over the packets of one read, the loops that
call several schedulers, the error paths). There is real concurrency at these places only:

- one wait thread per process object (`process_wait`), which talks to the
  event loop through a pipe;
- child processes, which die, stop and continue at any time;
- `crond`, whose commands connect to the daemon whenever they like and outlive
  a daemon that crashed;
- other processes that write to files and pipes the daemon reads.

### Components

| Component | State | Operations | Interacts with |
|---|---|---|---|
| Object (`object.c`) | internal, external and lock count, list of external reference nodes | create, add/remove internal and external reference, lock, unlock, destroy | session (shares the reference nodes), inventory |
| Session (`session.c`) | lifetime timer, list of external reference nodes | create, expire (request, timer, exit), keep alive | object |
| Inventory (`inventory.c`) | arrays of sessions and of objects by type, stock strings, id counters | add, remove, look up, stock strings, exit | everything |
| String (`string.c`) | buffer, length, allocated | allocate, wrap, truncate, set/get chunk | held and locked by all others |
| List (`list.c`) | items | append, remove, get item, type check | holds objects |
| File, pipe (`file.c`) | position, asynchronous read, file events | open, create pipe, read, write, seek, asynchronous read, abort, set events | event loop, holds its name |
| Directory (`directory.c`) | directory stream | open, next entry, rewind | holds its name |
| Process (`process.c`) | state, pid, wait thread, state change pipe | spawn, kill, report | holds command and stdio, calls the scheduler |
| Program (`program.c`) | identifier, configuration, scheduler | define, load, purge, set command/stdio/schedule, start, continue | scheduler, configuration file |
| Program scheduler (`program_scheduler.c`) | state, timer, cron and observer flags, last process | start, stop, update, shutdown, spawn; handlers of timer, cron, observer, process | timer, cron, process monitor, process |
| Process monitor (`process_monitor.c`) | observations of `/proc` with a timer each | add, remove observer | scheduler callbacks |
| Cron (`cron.c`, `socat.c`) | entries, cookie, files in `/etc/cron.d`, connections | add, remove, notify | crond, scheduler callbacks |
| Network (`network.c`, `brickd.c`) | connection of the Brick Daemon, request buffer, socat connections | accept, reassemble requests, send responses, cleanup | API dispatch, schedulers |
| API (`api.c`, `api_packet.h`) | none | unpack, look up, call, respond | all objects |
| Program configuration (`program_config.c`) | configuration file | load, save | program |

### What is hard

- **Reference counts with cascades.** Destroying an object releases others,
  also in the middle of the loop that strips a session of its references.
- **Checks that must stay true.** A process checks the item types of its
  argument list once and relies on the lock afterwards.
- **Five sources of spawns** (timer, cron, observer, Brick Daemon, user) and
  reports that are still in a pipe when the next spawn is decided.
- **Failures in the middle**: almost every step of the scheduler can fail and
  stops the schedule, including failures while stopping.
- **Pointers handed out** to the event loop, cron, the process monitor and
  processes; each must be withdrawn before its target is freed.
- **Crashes and restarts** with cron files and commands of an older instance.
- **Limits**: 16 bit ids that run out, the last byte of a string buffer, full lists, 32 bit
  intervals.
- **Pieces**: requests and notifications arrive cut at any byte, with a lost
  connection in between.
- **Cleanup switches**: more than thirty functions acquire several resources
  and count in `phase` how far they got.
- **Memory and disk**: a configuration is changed in memory, saved, put back if
  saving fails, and read again after a crash.

### What makes the components correct

Object model: counters equal the references that exist, nothing used is
destroyed, nothing unused is kept, a held list or string is not modified, exit
destroys users before what they use. Inventory: unique ids, late reuse, armed
timers. Scheduler: at most one child, a running schedule has its next trigger,
a stopped one has no cron entry and no armed timer, an "always" program comes
back. Cron: only own notifications count, entries and schedules agree, orphaned
files vanish. String: implements a text, with its terminator behind it. File: an
asynchronous read delivers bytes in order and ends, event sources match the file.
Requests: served in order, once and whole, answered as the API promises, a lost
connection is replaced. Process monitor: nobody is called after it is gone, nobody
is forgotten. Configuration: exact references, the file gives back what is in
memory, what is in memory can be used. Error paths: nothing lost, nothing released
twice, success only if it is one. `PROJECT.json` lists the hazards at their lines
with the properties that cover them.

## 2. Modules

| Module | Models | Remarks |
|---|---|---|
| `ObjectGraph` | `object.c`, `session.c`, `inventory.c`, `list.c`, object life of `string.c`, `file.c`, `process.c` | core; proved |
| `MCObjectGraph` | | symmetry for TLC |
| `ObjectGraphProofs` | | counting lemmas, inductive invariant, theorems |
| `Inventory` | id allocation, both reference counts, failing `object_create`, session timer | |
| `ProgramScheduler` | `program_scheduler.c`, `program.c`, child side of `process.c` | one program |
| `Cron` | `cron.c`, `socat.c`, cron half of `network.c` | crond and sockets external |
| `StringValue` | the abstract text of a String | specification only |
| `StringBuffer` | `string.c` | implements `StringValue` |
| `FileIO` | `file.c` | one file or pipe |
| `RequestService` | what the API promises about requests and answers | specification only |
| `Requests`, `MCRequests` | `brickd.c`, `api.c`, Brick Daemon half of `network.c` | implements `RequestService` |
| `ProcessMonitor` | `process_monitor.c` with the schedulers of several programs | composes monitor, schedulers and connection |
| `ProgramConfig`, `MCProgramConfig` | `program_config.c`, the setters of `program.c`, loading in `inventory.c` | one program, its file, crashes and restarts |
| `InventoryProofs`, `ProgramSchedulerProofs`, `CronProofs`, `RequestsProofs`, `ProcessMonitorProofs`, `ProgramConfigProofs` | | inductive invariants and theorems of the module each is named after |
| `ContentProofs` | | the same for `StringBuffer` and `FileIO` |
| `ErrorPaths` | the error paths of 36 functions of all files | a table and the machine that executes it |
| `MCCreation`, `MCContents` | | `Inventory` beside `ErrorPaths`, `StringBuffer` beside `FileIO`, for TLC |

Operators named `Faulty: ...` in a comment are variants of the definition below
them with a plausible mistake; they are used by no specification and serve to
show that the properties notice the mistake.

### ObjectGraph

Objects live at addresses. `kind` is the object type (`"free"`: no object),
`intRefs`, `extRefs` and `locks` are the three counters, `count[o][s]` is the
`count` of the external reference node that links object `o` and session `s`,
`slot[h][k]` is what object `h` holds at place `k`. A list's places are its
items, a file's first place is its name, a process has an executable (standing
for the working directory as well), an argument list (and environment) and a
stdio file. `running` are the processes whose `release_on_death` reference is
still there, `stock` the inventory's stock strings.

`stack` is the C call stack of running `destroy` functions. `DestroyRelease`
and `DestroyFree` are one release and the final `free` of the innermost one;
`ExpireReference` is one round of the loop in
`session_remove_external_references`. Every other action is a whole handler and
needs an idle event loop. `InventoryExit`, `ExitNextArray`, `ExitReleaseStock`
and `ExitDestroy` are `inventory_exit` with its order of arrays.

Abstractions: one place stands for several that are treated alike; list items
are places, so removing one leaves a gap that the next append fills, where the
array closes up - which item is where decides nothing about references; a
directory is a file; a handler that returns an error is a stuttering step,
because the code releases what it acquired so far. Exhaustion of ids, where
that is not so, is in `Inventory`; the error paths where it is not so either are
in `ErrorPaths` and `ProgramConfig`. Programs hold objects the same way (strings,
lists and a process) and have their own modules.

### Inventory

`NextId` is the search loop of both `inventory_get_next_..._id` functions as a
recursive function over its rounds (`Round`), with `Wrapped` for the 16 bit
counter.
`ObjectCreate` is `calloc`, `object_create` and the callers' cleanup, with an
internal reference, an external one or both: the node is added before the id is
known. `internal` and `external` are the two counts, `nodes` the nodes that are
in the list of an object and of a session; `objId[a] # 0` says that the object at
`a` is in the inventory, which the two actions that remove a reference change
only when `LastReference` sees both counts at zero. A node that a failed creation
left behind is `loose`: it is in the list of its session only and points to an
address that was freed and may be another object's by now. `Expire` runs
`session_remove_external_references` over both kinds of nodes: a loose one takes
a count from whatever object it points to and destroys it if none is left.
What happens after such a write depends on memory the model does not have, so
the behaviour ends there (`overwritten`). An address that is free then is written
to as well, which concerns no object. A second reference of the same session only
counts up its node and is in `ObjectGraph`. `remaining` counts a session's timer
down; `Tick` is the passing of time.

### ProgramScheduler

`sch` is the `ProgramScheduler` struct with the two configuration fields it
reads. The C functions are operators from scheduler to scheduler, so a handler
is the composition the code writes: `Update`, `Observe`, `Start`,
`SpawnProcess`, `HandleError`, `Stop`. Their second argument is the set of
external calls that fail in this handler (`StartFaults`, `UpdateFaults`), so
every failure is tried at every call. `child` is the status of the child itself,
`seen` the status in the process object, `report` the pipe between them.
`Commit` puts a spawned process in place and drops the reference to the one
before. `timer = "expired"` is a one-shot timer that fired with `timer_active`
still set, `crashed` the outcome of an access the code does not check
(`absolute_working_directory` that was never prepared, a freed scheduler).
`SpawnFaults` are the spawn that comes back successful without a process
(`process.c:794`): the uninitialised pointer that `Commit` then stores is NULL by
chance (`lost`: there is no last process, and the schedule goes on), or it is not
(`crashed`). `undisarmed` marks a timer that the last stop could not disarm.

### Cron

`file[i]` is the cookie in the cron file of program `i`; `jobs` are commands
crond has started, `conn` connections with the number of bytes read so far.
`Crash` and `CronInit` restart the daemon at any time, `RemoveFiles` lets every
unlink fail. The uninitialised pointer in `cron_add_entry` is a choice: with
`Garbage = TRUE` an empty array may lead to no entry being appended (the other
outcome of writing through such a pointer, the end of the daemon, is `Crash`).

### StringBuffer, StringValue

`StringBuffer` has the bytes of the heap buffer, `Junk` for memory that was
never written, and the byte behind the largest buffer, so that writing there
can be seen. `StringAllocate` and `StringWrap` round the allocation up,
`StringAsprintf` takes the buffer of `vasprintf`, which is exact. `Terminated` is
what `string.h` says of the buffer, and fails (finding 1); `TerminatorKept` says
which single step breaks it and which steps mend it. `ImplementsValue` is the
refinement under the mapping `text <- Text`, the first `length` bytes.

### FileIO

Bytes are told apart by their offset. `client` is the asynchronous read as its
user sees it from the callbacks, `told` the last callback. An empty pipe that
would block and the end of a file both read zero bytes, as in the code. `EndIsTold`
is what the user is told at the end: nothing read and no error only if there is
nothing left, which the documentation tells apart by a code of its own and the
code does not (finding 5).

### Requests, RequestService

`RequestService` is the promise: a connection that is open takes requests,
serves them in order, each one once, and sends for each at most the packets the
kind of call and the flag "response expected" call for: callbacks first, then the
response. A packet may get lost, and everything behind one that the connection was
lost with. `Requests` is the code: `wire` holds the
units that were sent and not received, `buffer` the used part of
`brickd->request`, `checked` is `request_header_checked`. A round of the event
loop polls, calls the handlers of the sources that are ready in any order, and
ends with `Cleanup` (`network_cleanup_brickd_and_socats`); `pc = "loop"` is the
`while` loop in `brickd_handle_read`, one step per packet. `ReadUnits` reads any
number of units that fits; `PeerSends` may stop within a packet (`torn`). A
request is a record of what the code looks at: function, procedure,
asynchronous or unknown call, own UID, valid header, right length, response
expected, which lookups it needs, and whether its handler may tell of something
(`tells`): a program's functions send callbacks of a changed schedule and a
spawned process, the abort of an asynchronous read its end, before they return
and the response goes out (`PacketsOfBody`). `Accept` tells every program that
waits for the Brick Daemon, which may do the same. `dispatch_response` lets the
writer refuse any packet, after which `brickd_dispatch_response` just returns;
only the writer itself disconnects, at once or later
(`brickd_recipient_disconnect`). `ImplementsService` is the refinement with
`open <- connected /\ ~disconnected`, and a request that was torn off not counted
as sent.

### ProcessMonitor

`observer`, `brickdWait` and `run` are the parts of the schedulers that decide
when they start; `exists` to `observers` the one observation (all schedulers
watch the same command). `update_observation` is the timer handler up to its
loop, `CallObserver` one turn of the loop, walking backwards with `cursor`, in
which the observer removes itself; `Connect` and `NotifyProgram` are the loop
over the programs in `network_handle_brickd_accept`. While a loop runs no other
handler does (`Idle`). `run = "manual"` is a schedule whose waiting was ended by
`program_start`, which spawns a process and does not start the schedule. `Update`
includes the late failure of the stderr directory, which stops the schedule and
yet lets it start.

### ProgramConfig

A string or list is identified with its content; `held` counts the references
(each with a lock) of the program. Each setter is two actions, the success and
the failures, in which what was acquired and what the cleanup releases are
computed apart (`FailedAfter(new, acquired, released)`). `Written` and `Loaded`
are the conversions of `program_config_save` and `program_config_load` with the
values they replace, the flag `continue_after_error` included; saving fails for an
option whose name is too long (`LongName`). Texts, words and numbers are atoms:
`Written` and `Loaded` say which value is written where, which of them the loader
knows and what it takes instead, and `IntervalLimit` cuts the number; how a value
is spelled and quoted belongs to daemonlib's `conf_file`, of which the model
assumes that it reads back what it has written. `file` is the content of
`program.conf`; `asked` records which parts of the configuration a user has set
since it was loaded. The daemon stops
and starts at any time, and the file may be edited in between (`Edit`). `stray`
counts the references of the two known leaks, `lost` marks an option whose
removal failed twice. `Word` is whatever a file may say where a redirection or
a mode is named; a redirection that has no file is a null pointer (`None`),
which stands in `Uses` and counts as no text.

### ErrorPaths

Each function is a record: its steps in order with the resources they take, the
phase they set, the functions they call and the condition they depend on; the
cases of its cleanup switch; its last phase; what the destroy function of its
result releases. `Succeed`, `Fail`, `Enter`, `Complete`, `Cleanup`, `Return` and
`ReturnToCaller` execute the records on a call stack, with every step failing
that can. The three properties say exactly which failures leak, release twice
or are told as success: if one of these is repaired in the code and in its
record, or a new one comes in, the run fails. A step in the middle of a loop
stands for any round of it; optional resources are chosen at the call.
`object_create` is a function of its own, called wherever an object is made: it
leaves its external reference behind when the inventory has no id.

## 3. Runs

| Run | Bounds | Shows |
|---|---|---|
| `object_graph` | 4 addresses, 1 session, 3 places, 1 item, 2 references | all safety properties of the object model, `ExpireTerminates` |
| `creation` | 3 objects and sessions, ids 1..2 for both, 1 internal reference, 1 loose node; all 36 functions, loops of up to 2 rounds | unique ids, late reuse, timers, exact lifetimes with ids exhausted; leaks, double releases and false successes are the known ones |
| `program_scheduler` | 2 process objects, pipe of 2 reports | all scheduler properties and `AlwaysRespawns` |
| `program_scheduler_freed` | same | violated: finding 3 |
| `cron` | 2 programs, 2 instances, 1 failure, notification in 2 pieces | cron properties and `OrphansVanish` |
| `cron_stale_notification` | same, `Garbage = FALSE` | violated: finding 4 |
| `contents` | texts up to 7, chunks up to 2, buffers grown by 4; files of 4 bytes, 2 per callback, lengths 0 and 3 | refinement, terminator; intact and ending asynchronous reads, event sources |
| `string_terminator` | texts up to 5, else as above | violated: finding 1 |
| `file_end_of_file` | as above | violated: finding 5 |
| `requests` | header of 2 units, buffer of 4, 2 requests per connection, 1 callback inside a handler and 1 of an event | framing, refinement of `RequestService`, reconnection, every request served |
| `process_monitor` | 3 programs, timeout 3, search interval 2 | observer list, nobody forgotten, every schedule starts |
| `program_config` | 4 texts, 2 options, 1 leak of each text, intervals below 4 | references, file and memory, usable values |

Further configurations that are not part of the regular runs:
`ObjectGraphItems.cfg` (two items per list, symmetry of addresses) and
`ObjectGraphSessions.cfg` (two sessions that share objects) are larger or
differently shaped instances of `MCObjectGraph`, whose properties the theorems
establish for every instance.

`creation` and `contents` check two modules at a time that share no state: in
`CreationNext` and `ContentsSpec` a behaviour takes steps of one of them while the
other stays in its initial state, so the states are the union of both.

Why the bounds are enough. Four addresses fit the largest object the model has
(a process with executable, arguments and file), a list with items, and a
cascade of depth three; the proofs remove this bound. Two references make a
node whose count is above one. Two ids
for three objects, and for three sessions, wrap the counter with ids still in use
and run out; with an address free beside the two objects a creation can fail,
leave its node there, and a later object take the address. Two process objects are all a scheduler can have
at a time: the last one and one kept by a user; a pipe with two entries holds a
report that is overtaken by another. Two daemon instances make an old and a new
cookie. Texts of up to seven bytes cross the allocation unit of four, with gaps
that span it. A read of three bytes takes two callbacks. With a buffer of two
headers a read can bring a whole packet and the header of the next one, part of
a header, or a packet that fills the buffer; two requests are a last served and
a next one. Three observers tell a list that is walked backwards from one where
every second observer is missed; the timeout is not a multiple of the interval.
Two options and names that differ only in case make an option that is found,
replaced, removed from the middle and put back at the end. Intervals below four
stand for 2^32, with edited files that hold the limit, one more and no number.
Two rounds of a loop are a failure with and without an earlier round.

`CHECK_DEADLOCK FALSE` is set where the system may stop: after
`inventory_exit`, a freed program or crashed daemon, the last modelled instance,
a destroyed file.

Bounds that are no part of the code: `MaxCount`, `MaxSlots`, `PipeSize`,
`MaxInstance`, `MaxFailures`, `MaxSize`, `MaxLocks`, `MaxSent`, `MaxCallbacks`,
`MaxBurst`, `MaxOptions`, `MaxStray`, `MaxInternal`, `MaxLoose`. `HeaderSize`, `BufferSize`, `Timeout`,
`SearchInterval`, `IntervalLimit`, `MaxItems`, `MaxObjectId`,
`MaxSessionId`, `MaxLifetime`, `MaxLength`, `MaxChunk`, `MaxRead` stand for
limits of the code.

### Fairness

- `ObjectGraph`: weak fairness of `Cascade`. The steps of a handler that has
  begun are straight C code.
- `ProgramScheduler`: weak fairness of timers and of reading reports. The event
  loop serves every source that is ready. Nothing is assumed about children or
  users.
- `Cron`: weak fairness of crond running a file's command and of what socat
  sent arriving; strong fairness of accepting a connection, because the
  listening socket serves its queue in order.
- `FileIO`: weak fairness of the asynchronous read handler. Its eventfd is
  always readable.
- `Requests`: weak fairness of the daemon, whose event loop goes on; strong
  fairness of accepting and of reading, because `socket_accept` and
  `socket_receive` are not interrupted forever; weak fairness of a Brick Daemon
  without a connection trying to get one, which is what brickd does. Nothing is
  assumed about the peer sending or closing.
- `ProcessMonitor`: strong fairness of the timer (a handler of the loop can be
  delayed, never skipped), weak fairness of the loops and of the Brick Daemon
  connecting, without which schedules are meant to wait.

### Findings

Findings 1, 3, 4 and 5 are violated runs. The others are exceptions the properties
of a passing run make by name; taking the exception out makes the run fail.

1. `string_set_chunk` (`string.c:339`) does not count the terminator when it
   decides whether to grow the buffer; a text that ends at the last byte is
   terminated one byte behind it.
2. `object_create` (`object.c:133`) links the object into the session before it
   has an id; without a free id the callers free it with the link in place. When
   the session expires, an object that lives at the address by then loses a count
   that others rely on (`overwritten` in `LivesWhileReferenced`).
3. A process calls the scheduler it was spawned by (`process.c:222`) without a
   reference to the program; kept by a session it outlives the program.
4. A late notification of an earlier instance removes the current cron file of
   the program with the same id (`cron.c:349`); the schedule stays active but
   never fires again.
5. The end of a file is reported as success with no data (`file.c:418`), where
   `api.txt:174` documents `NO_MORE_DATA`.
6. `program_scheduler_prepare_filesystem` releases the working directory twice
   if it cannot be created (`program_scheduler.c:356`), and returns success
   with four leaked strings if the stderr directory cannot (`:452`).
7. `process_spawn` returns success without a process if the event source cannot
   be added (`process.c:794`), and the schedule may run with nothing left to trigger
   it; after any failure behind the fork the killed
   child stays a zombie (`process.c:849`).
8. `program_config_get_string_list` returns success with a released list if an
   item cannot be appended (`program_config.c:435`).
9. `file_open_as` leaks its socket pair if the fork fails (`file.c:446`),
   `cron_add_entry` its temporary file (`cron.c:301`), `program_set_command` the
   reference and lock of an empty working directory (`program.c:714`),
   both accept handlers the accepted socket (`network.c:94`, `:127`).
10. A `program_define` that fails after saving leaves a program that comes to
    life at the next start (`program.c:480`).
11. stderr can be redirected to a pipe, because the check looks at stdout
    (`program.c:902`); the program cannot spawn (`program_scheduler.c:890` calls it
    unreachable), and the redirection is gone
    after a restart.
12. An interval that is missing in the file, or has more than 32 bits, is loaded
    as zero (`program_config.c:982`): the schedule runs and never fires.

## 4. Proofs

The theorems hold for every value of the constants that satisfies the
assumption named in the table; TLC evaluates the assumptions in every run. They
say no more about the code than its model does: sizes, sets of programs or
objects and numbers of steps are unlimited, the abstractions of section 2 are
the same.

| Module | Theorem | Statement | Assumed |
|---|---|---|---|
| `ObjectGraphProofs` | `Invariance` | `Spec => []Inv` | finite sets of addresses and sessions, at least three places, `None` is neither |
| | `TypeCorrect` | `Spec => []TypeOK` | |
| | `CountersExact` | `Spec => []ReferencesAccounted` | |
| | `UsedIsAlive` | `Spec => []NoDangling` | |
| | `LocksExact` | `Spec => []LocksFollowReferences` | |
| | `ArgumentsTyped` | `Spec => []ArgumentsStayStrings` | |
| | `Collected` | `Spec => []NoGarbage` | |
| | `ExitClean` | `Spec => []ExitLeavesNothing` | |
| | `ListsFrozen` | `Spec => HeldListsFrozen` | |
| | `DestructionsEnd` | `Spec => DestructionsShrink` | |
| `InventoryProofs` | `FirstFree` | what `NextId` returns, for any counter width | at least one id |
| | `Invariance` | `Spec => []Inv` | at least one object id, session id and tick of lifetime, finitely many sessions |
| | `IdsAreUnique` | `Spec => []IdsUnique` | |
| | `TimersAreArmed` | `Spec => []TimerArmed` | |
| | `ObjectsAreReferenced` | `Spec => []LivesWhileReferenced` | |
| | `IdsReusedLate` | `Spec => FirstFreeId` | |
| `ProgramSchedulerProofs` | `Invariance` | `Spec => []Inv` | a pipe that holds a report, `None` is no process |
| | `OneChild` | `Spec => []AtMostOneChild` | |
| | `ReportsAreFromLast` | `Spec => []OnlyLastReports` | |
| | `StoppedDetached` | `Spec => []StoppedIsDetached` | |
| | `RunningTriggered` | `Spec => []RunningIsTriggered` | |
| | `ShutdownStays` | `Spec => ShutdownIsFinal` | |
| `CronProofs` | `Invariance` | `Spec => []Inv` | finitely many programs (object ids have 16 bits), notifications of at least one piece |
| | `EntriesActive` | `Spec => []EntriesAreActive` | |
| | `NotifiedByOwn` | `Spec => NotifiedByOwnFile` | |
| `ContentProofs` (strings) | `StringInvariance` | `Spec => []StringInv` | an allocation unit of at least one, the space a character, terminator and junk none |
| | `TerminatorLost` | `Spec => TerminatorKept` | |
| | `Implementation` | `Spec => ImplementsValue` | |
| `ContentProofs` (files) | `FileInvariance` | `FileSpec => []FileInv` | reads of at least one byte |
| | `ReadsAreIntact` | `FileSpec => []AsyncReadIsIntact` | |
| | `SourcesAreWanted` | `FileSpec => []SourcesMatch` | |
| `RequestsProofs` | `Invariance` | `Spec => []Inv` | requests have a header, valid ones fit the buffer, which is larger than a header |
| | `RequestsAreFramed` | `Spec => []Framed` | |
| | `Implementation` | `Spec => ImplementsService` | |
| `ProcessMonitorProofs` | `Invariance` | `Spec => []Inv` | timeout and search interval are not zero |
| | `ObserversWait` | `Spec => []ObserversAreWaiting` | |
| | `NobodyIsForgotten` | `Spec => []NobodyForgotten` | |
| | `ObserversAreCalledOnce` | `Spec => EachObserverCalledOnce` | |
| | `SearchEnds` | `Spec => SearchIsBounded` | |
| `ProgramConfigProofs` | `Invariance` | `Spec => []Inv` | inputs and edits are commands, redirections, schedules, options and files, edits give no option twice; a null pointer is neither text nor number |
| | `RoundTrip` | a usable configuration, saved and loaded, is the same | |
| | `ReferencesAreExact` | `Spec => []ReferencesExact` | |
| | `FileMatchesMemory` | `Spec => []FileIsMemory` | |
| | `ConfigStaysUsable` | `Spec => []ConfigUsable` | |

Each model has an inductive invariant (`Inv`; `StringInv` and `FileInv` in
`ContentProofs`, which has the proofs about two modules), one lemma per action (or group of
actions that share what they change) that the action keeps it, `InitInv` and
`NextInv` for the case split, and the theorems that follow. The invariants were
model-checked on the instances of section 3 before they were proved. What they
add to the properties, and why:

### Object model

`Inv` is the conjunction of `TypeOK`, `StackDistinct`, `FreeIsEmpty`,
`Consistent(Live)`, `Referenced(Live)` and `ExitOrdered`.

- `Accounted` (counters equal references) needs `Intact` (links lead to live
  objects): a link to a dead object would be counted for whatever is allocated
  at its address next. `Intact` needs `Accounted`: an object is destroyed when
  its counters are zero, which must mean that no link is left.
- `Shaped` says what each kind of object holds. It makes `ArgumentsStayStrings`
  inductive together with `Locked`: a list that a process holds has a lock count
  above zero, so `list_append_to` refuses it.
- `Acyclic` (every set of live objects has a member that no member holds) is
  kept by `list_append_to` because the list that gets an item is unlocked, hence
  held by nobody (`UnlockedUnheld`): it can be on no cycle afterwards.
- `Referenced` (a live object has a reference) and `Acyclic` give `NoGarbage`.
- `ExitOrdered` needs that a process destroyed by force is held by nobody. At
  that time sessions and stock strings are gone; only a list could hold it, and
  that list would have to be held by something in turn, against `Acyclic`
  (`ProcessesUnheld`). For the same reason nothing is left after the last
  process (`NothingLeft`).
- `StackDistinct` and `FreeIsEmpty` describe the cascade: an object is destroyed
  once, and has given up all its places when it is freed.

`Consistent` and `Referenced` take the set of objects alive as a parameter. A
step that removes a reference is split in two: what it does to the counters
with the objects that were alive, and, if a count got to zero, the object that
leaves this set (lemma `Settle`). The first part of the module has the counting:
how the number of external and internal references, a cardinality of a set of
tokens, changes when one node or place changes.

`DestructionsEnd` is the part of `ExpireTerminates` that needs no fairness. `Work`
counts the places that hold an object, the objects that are allocated, the nodes
of the session whose references are being removed, and the session itself. While
the loop is not idle no handler starts, and every step lowers `Work` by exactly
one: a destroy function that releases a place may begin to destroy another object,
but that object was allocated before. Each step needs the invariant where it
seems harmless: `DestroyFree` lowers the number of allocated objects because an
object is on the stack once (`StackDistinct`), and a loop that did not unlink
its node, or a destroy function that did not clear its place, would not lower
anything. `Work` never exceeds `MaxWork`, so the recursion and the loop end after
that many steps at most. That one of the steps can be taken (`ENABLED`) and will
be (`WF_vars(Cascade)`) is left to TLC.

### Inventory

The search for an id is a recursive function over up to 65535 rounds, so what it
returns has to be proved by induction over the rounds. The library's induction
theorems take the claim as an operator, which the provers at hand cannot
instantiate; `SetInduction` states the principle for a *set* of numbers instead
(if it has 0, and with every number below `n` the next one, it has `n`) and
follows from the pigeonhole principle for finite sets. With it, `Rounds` shows
that the recursive function exists and `FirstFree` that `max` rounds are enough:
`Candidate(next, j, max)` is the id tried in round `j + 1`, `Rank` its inverse, and
after `k` rounds without success the first `k` candidates are in use (`Searched`).
`IdsUnique` and `FirstFreeId` follow.

`Inv` is `IdsUnique`, `TimerArmed` and `LivesWhileReferenced`, which is inductive
with them. Each action has one object whose counts and nodes change (`OneObject`:
all others stay exact); the cardinality of `Listing` changes by one where a node
comes or goes. `ExpireInv` treats all objects at once and has the one case in which
a count gets wrong: `ExpiredCount` computes what the loop takes from an object, and
an object that was hit through a loose node loses more than the nodes that listed
it. There is no hypothesis on the number of ids: they may run out.

### Program scheduler

The lemmas of the first half are about the C functions as operators: `Update`,
`Observe`, `Start`, `SpawnProcess`, `HandleError` and `Stop` keep `Sound`
(whatever set of calls fails in them), and those that end a handler give
`Triggered`. `Sound` contains `Detached`, which says of the timer, the cron entry
and the observer what `StoppedIsDetached` does; `Lifecycle` adds that a freed
program was shut down and has no timer. `AtMostOneChild` is not inductive because a
process is spawned when the *process object* says the last child is dead:
`Recorded` ties the two ends of the pipe together (a child can only be alive if
its process object says so, the last report in the pipe is the child's status,
and every report before it is of a living child), and `Processes` says that at
most one process is `Busy` (alive, or with unread reports) and that, until the
program is freed, it is the last one spawned. From this follows that a report of
a death frees the way for the next spawn only when no other child is there, and
`OnlyLastReports`.

### Cron

`EntriesAreActive` is inductive. `NotifiedByOwnFile` needs `OneNotification`: a
connection carries the pieces of one notification, because each command of
crond has its connection and closing one empties it.

### Strings

`StringInv` says where the terminator is (`length < allocated => buffer[length] = Nul`)
and that the bytes before it are characters (`TextIsText`), for which gaps that
`string_set_chunk` fills with spaces count. The refinement maps `text` to the
first `length` bytes; each operation of `StringBuffer` is the operation of
`StringValue` of the same name, or changes no byte of the text. The arithmetic is
in `GrownRoundsUp` and `GrownMonotone`: the allocation, rounded up to `Unit`,
never is smaller than what is written. `TerminatorLost` follows from `StringInv`
in both states of a step, which reduces `Terminated` to `length < allocated`, and
from `ChunkRoom`: a chunk fills the buffer only if it ends at its last byte.

### Files

`FileInv`: the two properties are inductive with one more fact: who waits for an
asynchronous read holds a reference (`Waited`), so a file is not destroyed under
a read that has a user. The proof goes over what a callback leaves of the read
(`SendAsyncReadType`): `at + length` is the position of the file.

### Requests

`Framed` relates every unit to the next. What a step needs is what follows a
*whole packet*, so `Received` says where the unit that is `j` places behind
another one belongs (`Gapless`), that units never go back (`Ordered`), and how
the stream begins (`Begins`: with the first request not served) and ends
(`Finishes`: with the last one sent, complete unless the peer died in it).
`StreamConsume` removes a served packet at the front, `StreamExtend` adds a sent
one at the end; reading moves units from `wire` to `buffer` and leaves their
concatenation alone. That the buffer never fills without a whole packet is
`Len(buffer) < BufferSize` outside the loop, from `packet_header_is_valid_request`.

The refinement maps the connection and the requests sent in whole; every step is
an operation of `RequestService` or a stutter (`QuietSteps`). The step of a
served request needs the invariant twice: the packet in the buffer is the next
request (`NextIsWhole`), and the packets of `dispatch_response`, of which some
may get lost, are answers the service allows (`HandledAnswers`, with
`ToldAnswers` for the callbacks in front and `ClosingAnswers` for the response).

### Process monitor

The loops call schedulers, and the calls change the list they walk. `Listed`
says that the list holds every waiting scheduler once, which makes the removal by
`RemoveAt` exact; `Walked` that, in the walk from the end, all behind the cursor
have left the list (`cursor = Len(observers)`), so the walk ends with an empty
list; `Told` that who waits for a connected Brick Daemon is still to be told.
`Timed` and `Ended` (a scheduler that was shut down waits for nothing) exclude
calls of a scheduler that is gone.

Two action properties follow from the same invariant, the parts of
`EverySchedulerStarts` that need no fairness. `EachObserverCalledOnce`: every turn
of the loop calls a scheduler that is still waiting, although the calls before it
changed the list; the check of its state in `CallObserver` never fails.
`SearchIsBounded`: an observer that is added while a search goes on does not
prolong it, and every search shortens the time that remains.

### Program configuration

`ReferencesExact` compares counts of texts in concatenations of sequences. The
first part of the module is a theory of `Count` (of a concatenation, a sequence
with one more, one less or another element), from which `HeldOf`, the sum over
the parts of a configuration, follows for each setter. `FileIsMemory` is
inductive with the fact that saving and loading a *usable* configuration gives
it back (`RoundTrip`), so `Usable` is part of the invariant, and it holds for
every file: whatever is in it, `program_config_load` makes a usable
configuration of it (`LoadedUsable`). `Usable` is stronger than `ConfigUsable`
where the round trip needs it: a schedule without cron has no fields. What
`ConfigUsable` says of a stderr pipe, a zero interval and an empty executable is
`Asked`, which relates the configuration to the parts of it a user has set. The
failures are of two kinds: those that give back what they took (`FailedClean`),
and the two that do not, where `stray` grows by what `held` keeps
(`EmptyDirectoryKeeps`, `LostKeeps`).

## 5. What is only model-checked

- Liveness (`ExpireTerminates`, `AlwaysRespawns`, `OrphansVanish`,
  `AsyncReadEnds`, `Reconnects`, `RequestsServed`, `EverySchedulerStarts`): the
  proof system has no fairness rules here. What decreases towards them is proved for
  `ExpireTerminates` and `EverySchedulerStarts` (`DestructionsEnd`, `SearchEnds`,
  `ObserversAreCalledOnce`).
- `ErrorPaths` has no parameters: its part of the run `creation` is exhaustive for
  the functions as they are written down.

## 6. What is not modelled

ACLs, option and error tables, the layout of packets, the syntax of
configuration files (tables, I/O and parsing without state of their own; the
file and its parser belong to daemonlib); the response writer's backlog, timers
and event loop of daemonlib, of which the modules assume what redapid uses;
iteration over a directory; `network_init` and `network_exit`; daemonising and
signal handlers; the code between `fork` and `exec`, which `ErrorPaths` sees as
one step that succeeds or reports an error - a child that is killed before it
reports leaves the daemon reading from a status pipe it holds open itself
(`process.c:737`); operating system pids (and with them the race the source
notes at `process.c:905`); `waitpid` and pipe write failures in the wait thread;
`PROCESS_STATE_UNKNOWN`, which no `waitpid` result leads to.

## 7. Plan

1. Object model, inventory, scheduler, cron, string, file; proofs of the object
   model - done.
2. Requests, process monitor, program configuration, error paths - done.
3. Proofs of the scheduler, cron, strings, files, requests, process monitor
   and program configuration, with both refinements - done.
4. Proofs of the inventory, with the search for an id; of what decreases in the
   destruction cascade, the loop over observers and the search for the panel -
   done.
5. Id exhaustion, both reference counts in the inventory, callbacks inside
   handlers, spawns without a process, the terminator of every buffer, and what
   users and files may each put into a configuration - done.
6. Left open: which leaks `stray` of `ProgramConfig` can hold, and action
   properties of asynchronous reads.
