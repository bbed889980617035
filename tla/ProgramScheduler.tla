-------------------------- MODULE ProgramScheduler --------------------------
(***************************************************************************)
(* The scheduler of one program (program_scheduler.c), the program         *)
(* operations that drive it (program.c), and the child processes it spawns *)
(* together with the wait thread and state change pipe of each             *)
(* (process.c).                                                            *)
(*                                                                         *)
(* A handler of the event loop runs to its end, so each is one action.     *)
(* The functions it calls are operators from scheduler to scheduler:       *)
(* "c" is the ProgramScheduler struct (and the two fields of the program's *)
(* config it reads), "e" the set of external calls that fail during this   *)
(* handler.  The wait thread runs beside the event loop and talks to it    *)
(* through the pipe only.                                                  *)
(*                                                                         *)
(* The strings for messages and file names are left out; of the objects'   *)
(* reference counts only those that decide when the program and its        *)
(* processes are freed are kept.                                           *)
(***************************************************************************)
EXTENDS Integers, FiniteSets, Sequences

CONSTANTS
  Process,   \* process objects
  PipeSize,  \* bound on unread state changes of one process
  None

ASSUME SchedulerAssumption ==
  /\ None \notin Process
  /\ PipeSize \in Nat /\ PipeSize >= 1

Mode == {"never", "always", "interval", "cron"}

\* What a process can be seen in: "failed" is EXITED with a non-zero code,
\* ERROR or KILLED, "exited" is EXITED with code zero.
Status == {"none", "running", "stopped", "exited", "failed"}

VARIABLES
  sch,       \* the scheduler and its program's mode and continue_after_error
  last,      \* last_spawned_process
  child,     \* status of the child process itself
  seen,      \* status in the process object; "none": no object
  report,    \* state change pipe of a process
  users,     \* processes with an external reference
  program,   \* loaded, then freed; purged; has internal, external references
  connected  \* network_is_brickd_connected()

vars == <<sch, last, child, seen, report, users, program, connected>>

\* A child in one of these can still change its status.
Living == {"running", "stopped"}

\* Faulty: a stopped child counts as dead.
RunningOnly(s) == s = "running"

\* process_state_is_alive
IsAlive(s) == s \in {"running", "stopped"}

LastAlive == last # None /\ IsAlive(seen[last])

\* program_scheduler_create; timer "idle" is timer_active = false, "expired"
\* a one-shot timer that fired with timer_active still set.  "lost" and
\* "undisarmed" record what the struct does not: the last spawn came back
\* without a process, and the last stop could not disarm the timer.
Created(mode, goOn, observer, waiting) ==
  [state |-> "stopped", mode |-> mode, goOn |-> goOn, observer |-> observer,
   observing |-> FALSE, shutdown |-> FALSE, waiting |-> waiting,
   timer |-> "idle", undisarmed |-> FALSE, cron |-> FALSE, ready |-> FALSE,
   spawned |-> FALSE, lost |-> FALSE, crashed |-> FALSE]

Init ==
  /\ connected \in BOOLEAN
  /\ \E mode \in Mode, goOn \in BOOLEAN, observer \in {"pending", "finished"} :
        sch = Created(mode, goOn, observer, ~connected)
  /\ last    = None
  /\ child   = [p \in Process |-> "none"]
  /\ seen    = [p \in Process |-> "none"]
  /\ report  = [p \in Process |-> <<>>]
  /\ users   = {}
  /\ program \in [loaded : {FALSE}, freed : {FALSE}, purged : {FALSE},
                  internal : {TRUE}, external : {FALSE}]

-----------------------------------------------------------------------------
(* The functions of program_scheduler.c                                    *)

\* Faulty: the observer stays registered with the process monitor.
AbortObserverKeeping(c) == [c EXCEPT !.observer = "finished"]

AbortObserver(c) ==
  [c EXCEPT !.observing = @ /\ c.observer # "waiting", !.observer = "finished"]

\* Faulty: only a recurring timer is stopped.
StopTimerRecurring(c, e) ==
  [c EXCEPT !.timer      = IF "disarm" \in e \/ @ # "interval" THEN @ ELSE "idle",
            !.undisarmed = c.timer # "idle" /\ "disarm" \in e]

\* The timer is stopped; if that fails it stays active.
StopTimer(c, e) ==
  [c EXCEPT !.timer      = IF "disarm" \in e THEN @ ELSE "idle",
            !.undisarmed = c.timer # "idle" /\ "disarm" \in e]

\* Faulty: the cron entry is left behind.
StopKeepingCron(c, e) == [StopTimer(AbortObserver(c), e) EXCEPT !.state = "stopped"]

\* program_scheduler_stop: nothing is skipped if the timer cannot be stopped.
Stop(c, e) ==
  [StopTimer(AbortObserver(c), e) EXCEPT !.cron = FALSE, !.state = "stopped"]

HandleError(c, e) == Stop(c, e)

\* program_scheduler_prepare_stdin, _stdout and _stderr: opening one of the
\* files can fail and is an error of the schedule, as is a failing spawn.
PrepareStdio(c, e) == IF "trigger" \in e THEN HandleError(c, e) ELSE c

\* program_scheduler_spawn_process; the working directory is dereferenced
\* unchecked.  process_spawn can come back successful without a process
\* (process.c:794): then the uninitialised pointer the scheduler keeps is NULL
\* ("null"), or not ("wild"), and nothing is known of the daemon from there.
SpawnProcess(c, e) ==
  LET a == AbortObserver(c) IN
    IF c.spawned \/ LastAlive THEN a
    ELSE IF "trigger" \in e THEN PrepareStdio(a, e)
    ELSE IF ~ a.ready \/ "wild" \in e THEN [a EXCEPT !.crashed = TRUE]
    ELSE [a EXCEPT !.spawned = "null" \notin e, !.lost = "null" \in e]

Start(c, e) ==
  LET r == [AbortObserver(c) EXCEPT !.state = "running", !.undisarmed = FALSE] IN
    IF c.shutdown THEN c
    ELSE CASE c.mode = "never"    -> Stop(r, e)
           [] c.mode = "always"   -> SpawnProcess(r, e)
           [] c.mode = "interval" -> IF "trigger" \in e THEN HandleError(r, e)
                                     ELSE [r EXCEPT !.timer = "interval"]
           [] c.mode = "cron"     -> IF "trigger" \in e THEN HandleError(r, e)
                                     ELSE [r EXCEPT !.cron = TRUE]

\* program_scheduler_prepare_filesystem.  If the directory of the stderr file
\* cannot be created ("late") the error is handled, but the names are not
\* stored and the result is success.
PrepareFilesystem(c, e) ==
  IF e \cap {"fs", "late"} # {} THEN HandleError(c, e) ELSE [c EXCEPT !.ready = TRUE]

\* process_monitor_add_observer, called once: it fails, calls
\* program_scheduler_handle_observer at once ("found"), or keeps the observer.
Observe(c, e) ==
  LET w == [c EXCEPT !.observer = "waiting", !.observing = TRUE] IN
    IF c.observer # "pending" THEN c
    ELSE IF "monitor" \in e THEN [c EXCEPT !.observer = "finished"]
    ELSE IF "found" \in e THEN Start(AbortObserver(w), e)
    ELSE w

Update(c, tryStart, conn, e) ==
  LET p == PrepareFilesystem([c EXCEPT !.waiting = @ /\ ~ conn], e)
      o == Observe(p, e)
  IN IF c.shutdown THEN c
     ELSE IF "fs" \in e \/ ~ tryStart THEN p
     ELSE IF c.mode = "never" THEN Stop(p, e)
     ELSE IF o.observer = "finished" /\ ~ o.waiting THEN Start(o, e)
     ELSE o

\* A child that is still alive is sent SIGKILL: one of the ways it changes its
\* status (ChildChanges).
Shutdown(c, e) == IF c.shutdown THEN c ELSE Stop([c EXCEPT !.shutdown = TRUE], e)

\* What can fail in a handler: "trigger" is whatever start sets up for the
\* program's mode (child process, timer or cron entry), "null" and "wild" are a
\* spawn without a process, "disarm" is the stop of the timer; an update also prepares the filesystem and adds the observer.
DisarmFaults == IF sch.timer = "idle" THEN {{}} ELSE {{}, {"disarm"}}
SpawnFaults  == IF LastAlive THEN {} ELSE {{"null"}, {"wild"}}
StartFaults  == {d \cup t : d \in DisarmFaults, t \in {{}, {"trigger"}} \cup SpawnFaults}
UpdateFaults ==
  {d \cup {"fs"} : d \in DisarmFaults} \cup
  {e \cup f \cup m : e \in StartFaults, f \in {{}, {"late"}},
                    m \in IF sch.observer # "pending" THEN {{}}
                          ELSE {{}, {"monitor"}, {"found"}}}

-----------------------------------------------------------------------------
Serving == program.loaded /\ ~ program.freed /\ ~ sch.crashed

\* process_destroy: the state change pipe leaves the event loop, a child that
\* is still alive is killed and joined.
DestroyProcess(p) ==
  /\ child'  = [child EXCEPT ![p] = "none"]
  /\ seen'   = [seen EXCEPT ![p] = "none"]
  /\ report' = [report EXCEPT ![p] = <<>>]

\* The end of a handler that may have spawned a process: it becomes the last
\* one, and the scheduler's reference to the one before is removed.  A spawn
\* that came back without a process removes that reference as well.
Commit(c) ==
  LET gone == {last} \ (users \cup {None})
      Fresh(f, new, old) == [p \in Process |-> IF p \in new THEN old[1]
                                               ELSE IF p \in gone THEN old[2] ELSE f[p]]
      Becomes(new) ==
        /\ child'  = Fresh(child, new, <<"running", "none">>)
        /\ seen'   = Fresh(seen, new, <<"running", "none">>)
        /\ report' = Fresh(report, new, << <<>>, <<>> >>)
  IN
  /\ sch' = [c EXCEPT !.spawned = FALSE]
  /\ \/ /\ ~ c.spawned /\ ~ c.lost
        /\ UNCHANGED <<last, child, seen, report>>
     \/ /\ ~ c.spawned /\ c.lost
        /\ last' = None
        /\ Becomes({})
     \/ /\ c.spawned
        /\ \E p \in Process : seen[p] = "none" /\ last' = p /\ Becomes({p})

-----------------------------------------------------------------------------
(* Events                                                                  *)

\* program_load with the config on disk, from where the object exists.
ProgramLoad(e) ==
  /\ ~ program.loaded
  /\ Commit(Update(sch, TRUE, connected, e))
  /\ program' = [program EXCEPT !.loaded = TRUE]
  /\ UNCHANGED <<users, connected>>

\* program_define, with the config of program_config_create; the session that
\* defined the program has a reference to it.
ProgramDefine(e) ==
  /\ ~ program.loaded
  /\ sch.mode = "never" /\ ~ sch.goOn /\ sch.observer = "finished"
  /\ Commit(Update(sch, TRUE, connected, e))
  /\ program' = [program EXCEPT !.loaded = TRUE, !.external = TRUE]
  /\ UNCHANGED <<users, connected>>

\* network_handle_brickd_accept and program_handle_brickd_connection
BrickdConnects(e) ==
  /\ Serving
  /\ ~ connected
  /\ connected' = TRUE
  /\ Commit(IF sch.waiting THEN Update(sch, TRUE, TRUE, e) ELSE sch)
  /\ UNCHANGED <<users, program>>

BrickdDisconnects ==
  /\ Serving
  /\ connected
  /\ connected' = FALSE
  /\ UNCHANGED <<sch, last, child, seen, report, users, program>>

\* program_scheduler_handle_observer, called by the process monitor.
HandleObserver(e) ==
  /\ Serving
  /\ sch.observing
  /\ Commit(IF sch.observer = "waiting" THEN Start(AbortObserver(sch), e) ELSE sch)
  /\ UNCHANGED <<users, program, connected>>

\* Faulty: only interval programs are spawned by the timer.
HandleTimerInterval(e) ==
  LET c == [sch EXCEPT !.timer = IF @ = "once" THEN "expired" ELSE @] IN
    /\ Serving
    /\ sch.timer \in {"once", "interval"}
    /\ Commit(IF c.state = "running" /\ c.mode = "interval" THEN SpawnProcess(c, e) ELSE c)
    /\ UNCHANGED <<users, program, connected>>

HandleTimer(e) ==
  LET c == [sch EXCEPT !.timer = IF @ = "once" THEN "expired" ELSE @] IN
    /\ Serving
    /\ sch.timer \in {"once", "interval"}
    /\ Commit(IF c.state = "running" /\ c.mode \in {"always", "interval"}
              THEN SpawnProcess(c, e) ELSE c)
    /\ UNCHANGED <<users, program, connected>>

HandleCron(e) ==
  /\ Serving
  /\ sch.cron
  /\ Commit(IF sch.state = "running" /\ sch.mode = "cron" THEN SpawnProcess(sch, e) ELSE sch)
  /\ UNCHANGED <<users, program, connected>>

\* Faulty: a failure is tolerated but the next spawn is not scheduled.
ToleratingStateChange(c, s, e) ==
  IF c.state # "running" \/ IsAlive(s) THEN c
  ELSE IF s = "failed" THEN IF c.goOn THEN c ELSE Stop(c, e)
  ELSE IF c.mode # "always" THEN c
  ELSE IF "trigger" \in e THEN HandleError(c, e)
  ELSE [c EXCEPT !.timer = "once"]

\* program_scheduler_handle_process_state_change: the last spawned process is
\* in status s.
HandleProcessStateChange(c, s, e) ==
  IF c.state # "running" \/ IsAlive(s) THEN c
  ELSE IF s = "failed" /\ ~ c.goOn THEN Stop(c, e)
  ELSE IF c.mode # "always" THEN c
  ELSE IF "trigger" \in e THEN HandleError(c, e)
  ELSE [c EXCEPT !.timer = "once"]

-----------------------------------------------------------------------------
(* Child processes                                                         *)

\* The child changes its status and the wait thread (process_wait) writes it
\* to the pipe; it ends with a status that is not alive.
ChildChanges(p, s) ==
  /\ ~ sch.crashed
  /\ child[p] \in Living
  /\ s # child[p]
  /\ Len(report[p]) < PipeSize
  /\ child'  = [child EXCEPT ![p] = s]
  /\ report' = [report EXCEPT ![p] = Append(@, s)]
  /\ UNCHANGED <<sch, last, seen, users, program, connected>>

\* process_handle_state_change: calls the scheduler's function with the opaque
\* pointer it got at spawn.  If the program is freed by then, the function
\* works on freed memory: it finds STOPPED there, or the daemon crashes.
HandleStateChange(p, e) ==
  /\ program.loaded /\ ~ sch.crashed
  /\ report[p] # <<>>
  /\ seen'   = [seen EXCEPT ![p] = Head(report[p])]
  /\ report' = [report EXCEPT ![p] = Tail(@)]
  /\ \/ /\ ~ program.freed
        /\ sch' = HandleProcessStateChange(sch, seen'[last], e)
     \/ /\ program.freed
        /\ sch' \in {sch, [sch EXCEPT !.crashed = TRUE]}
  /\ UNCHANGED <<last, child, users, program, connected>>

\* A session gets (program_get_last_spawned_process) or releases an external
\* reference to a process.
GetLastSpawnedProcess ==
  /\ Serving
  /\ ~ program.purged
  /\ last # None
  /\ users' = users \cup {last}
  /\ UNCHANGED <<sch, last, child, seen, report, program, connected>>

ReleaseProcess(p) ==
  /\ ~ sch.crashed
  /\ p \in users
  /\ users' = users \ {p}
  /\ IF p = last THEN UNCHANGED <<child, seen, report>> ELSE DestroyProcess(p)
  /\ UNCHANGED <<sch, last, program, connected>>

-----------------------------------------------------------------------------
(* Program operations of the API; they take an object id, the session need *)
(* not own a reference.                                                    *)

\* If program_config_save fails the old config is restored: no change.
SetSchedule(mode, goOn, e) ==
  /\ Serving
  /\ ~ program.purged
  /\ Commit(Update([sch EXCEPT !.mode = mode, !.goOn = goOn], TRUE, connected, e))
  /\ UNCHANGED <<users, program, connected>>

\* program_set_command: names and directories are prepared anew, the schedule
\* is not started.
SetCommand(e) ==
  /\ Serving
  /\ ~ program.purged
  /\ Commit(Update(sch, FALSE, connected, e))
  /\ UNCHANGED <<users, program, connected>>

\* program_set_stdio_redirection, likewise
SetStdioRedirection(e) == SetCommand(e)

\* program_scheduler_continue, also for a purged program
ContinueSchedule(e) ==
  /\ Serving
  /\ ~ sch.shutdown
  /\ sch.state = "stopped" /\ sch.mode # "never"
  /\ Commit(Start(sch, e))
  /\ UNCHANGED <<users, program, connected>>

\* program_start, also for a purged program
ProgramStart(e) ==
  /\ Serving
  /\ Commit(SpawnProcess(sch, e))
  /\ UNCHANGED <<users, program, connected>>

\* inventory_get_programs
GetProgram ==
  /\ Serving
  /\ ~ program.external
  /\ program.internal
  /\ program' = [program EXCEPT !.external = TRUE]
  /\ UNCHANGED <<sch, last, child, seen, report, users, connected>>

\* program_destroy and program_scheduler_destroy: the scheduler shuts down (if
\* it has not before) and gives up its last process, timer and config.
FreeProgram(c, e) ==
  /\ sch' = [Shutdown(c, e) EXCEPT !.timer = "idle", !.undisarmed = FALSE]
  /\ last' = None
  /\ IF last = None \/ last \in users
     THEN UNCHANGED <<child, seen, report>> ELSE DestroyProcess(last)

ReleaseProgram(e) ==
  /\ Serving
  /\ program.external
  /\ IF program.internal
     THEN UNCHANGED <<sch, last, child, seen, report>> ELSE FreeProgram(sch, e)
  /\ program' = [program EXCEPT !.external = FALSE, !.freed = ~ program.internal]
  /\ UNCHANGED <<users, connected>>

\* program_purge: the scheduler is shut down first; moving the directory may
\* fail ("rename"), then the program stays shut down but is not purged.
ProgramPurge(e) ==
  /\ Serving
  /\ ~ program.purged
  /\ \/ /\ "rename" \in e
        /\ sch' = Shutdown(sch, e)
        /\ UNCHANGED <<last, child, seen, report, program>>
     \/ /\ "rename" \notin e
        /\ IF program.external
           THEN sch' = Shutdown(sch, e) /\ UNCHANGED <<last, child, seen, report>>
           ELSE FreeProgram(sch, e)
        /\ program' = [program EXCEPT !.purged = TRUE, !.internal = FALSE,
                                      !.freed = ~ program.external]
  /\ UNCHANGED <<users, connected>>

-----------------------------------------------------------------------------
Event ==
  \/ \E e \in UpdateFaults : ProgramLoad(e) \/ ProgramDefine(e) \/ BrickdConnects(e)
  \/ BrickdDisconnects
  \/ \E e \in StartFaults : HandleObserver(e) \/ HandleCron(e)

Timer == \E e \in StartFaults : HandleTimer(e)

Reports == \E p \in Process, e \in StartFaults : HandleStateChange(p, e)

Children ==
  \E p \in Process : \/ \E s \in Status \ {"none"} : ChildChanges(p, s)
                     \/ ReleaseProcess(p)

User ==
  \/ GetLastSpawnedProcess
  \/ GetProgram
  \/ \E mode \in Mode, goOn \in BOOLEAN, e \in UpdateFaults : SetSchedule(mode, goOn, e)
  \/ \E e \in UpdateFaults : SetCommand(e) \/ SetStdioRedirection(e)
  \/ \E e \in StartFaults : ContinueSchedule(e) \/ ProgramStart(e)
  \/ \E e \in DisarmFaults : ReleaseProgram(e)
  \/ \E d \in DisarmFaults, r \in {{}, {"rename"}} : ProgramPurge(d \cup r)

Next == Event \/ Timer \/ Reports \/ Children \/ User

\* The event loop serves what is ready: state changes in a pipe and timers.
Fairness == WF_vars(Timer) /\ WF_vars(Reports)

Spec == Init /\ [][Next]_vars

FairSpec == Spec /\ Fairness
-----------------------------------------------------------------------------
(* Properties                                                              *)

TypeOK ==
  /\ sch \in [state : {"stopped", "running"}, mode : Mode, goOn : BOOLEAN,
              observer : {"pending", "waiting", "finished"}, observing : BOOLEAN,
              shutdown : BOOLEAN, waiting : BOOLEAN,
              timer : {"idle", "once", "interval", "expired"},
              undisarmed : BOOLEAN, cron : BOOLEAN, ready : BOOLEAN,
              spawned : {FALSE}, lost : BOOLEAN, crashed : BOOLEAN]
  /\ last \in Process \cup {None}
  /\ child \in [Process -> Status]
  /\ seen \in [Process -> Status]
  /\ report \in [Process -> Seq(Status)]
  /\ \A p \in Process : Len(report[p]) <= PipeSize
  /\ users \subseteq Process
  /\ program \in [loaded : BOOLEAN, freed : BOOLEAN, purged : BOOLEAN,
                  internal : BOOLEAN, external : BOOLEAN]
  /\ connected \in BOOLEAN

\* "don't spawn a new process while another one is already running"
\* (program_scheduler.c:1199), judged by the last known status: it holds for
\* the child processes themselves, whatever is still unread in the pipes and
\* whoever starts the program (timer, cron, observer, brickd, user).
AtMostOneChild ==
  /\ TypeOK
  /\ \A p, q \in Process : child[p] \in Living /\ child[q] \in Living => p = q

\* The state change handler looks at last_spawned_process, not at the process
\* that reported: only the last one can have anything to report.
OnlyLastReports ==
  \A p \in Process :
    ~ program.freed /\ (child[p] \in Living \/ report[p] # <<>>) => p = last

\* A stopped scheduler leaves no cron entry behind, no timer unless the call
\* that disarms it failed in this very stop (program_scheduler.c:287-294), and,
\* once it was shut down, no observer; a freed one leaves no timer at all: each
\* of them holds a pointer to the scheduler that would outlive it.
StoppedIsDetached ==
  /\ sch.state = "stopped" => ~ sch.cron /\ (sch.timer = "idle" \/ sch.undisarmed)
  /\ sch.observing <=> sch.observer = "waiting"
  /\ sch.shutdown => sch.state = "stopped" /\ ~ sch.observing
  /\ program.freed => sch.shutdown /\ sch.timer = "idle"

\* A running scheduler has something that triggers its next spawn, over every
\* change of mode (program_set_schedule does not stop the old one first),
\* failing call and race between timer and child: a child that will report, or
\* an armed timer, or a cron entry.  (A scheduler started by hand while it
\* waits for brickd is started again when brickd connects; one whose last spawn
\* succeeded without a process has nothing in mode "always".)
RunningIsTriggered ==
  sch.state = "running" /\ ~ sch.waiting /\ ~ sch.crashed =>
    CASE sch.mode = "never"    -> FALSE
      [] sch.mode = "always"   -> LastAlive \/ sch.timer \in {"once", "interval"} \/ sch.lost
      [] sch.mode = "interval" -> sch.timer = "interval"
      [] sch.mode = "cron"     -> sch.cron

\* Once a program is purged or destroyed its scheduler stays stopped: whatever
\* is called on it afterwards (a purged program can still be started, and
\* updated when brickd connects), nothing puts it back on a list that calls it
\* or arms its timer, the one a failed stop left behind aside.
ShutdownIsFinal ==
  [][sch.shutdown =>
       /\ sch'.state = "stopped" /\ sch'.shutdown
       /\ ~ sch'.cron /\ ~ sch'.observing
       /\ sch'.timer \in {"once", "interval"} => sch'.timer = sch.timer]_vars

\* In mode "always" a dead process is followed by a new one, unless the
\* schedule was stopped or changed, the daemon died or the last spawn came back
\* without a process.
AlwaysRespawns ==
  (sch.state = "running" /\ sch.mode = "always" /\ ~ sch.waiting /\ ~ LastAlive)
    ~> (\/ LastAlive \/ sch.state = "stopped" \/ sch.mode # "always"
        \/ sch.lost \/ sch.crashed)

\* "destroy an object while it is still in use by other objects resulting in a
\* crash. with the two reference counts a user cannot release internal
\* references" (object.c:28-30): the scheduler a process reports to exists for
\* as long as there are reports.
SchedulerOutlivesReports ==
  program.freed => \A p \in Process : report[p] = <<>>
=============================================================================
