--------------------------- MODULE ProcessMonitor ---------------------------
(***************************************************************************)
(* Starting the schedules of all programs after boot.  A scheduler waits   *)
(* for the Brick Daemon to connect, and, if the program uses the display,  *)
(* for the desktop panel: the process monitor (process_monitor.c) searches *)
(* /proc for it every SearchInterval seconds, at most for Timeout seconds, *)
(* and then calls its observers, the schedulers of the programs            *)
(* (program_scheduler.c).  All observers watch the same command, so there  *)
(* is one observation, which is made by the first observer and stays.      *)
(*                                                                         *)
(* A handler of the event loop is one action, except that the two loops    *)
(* that call several schedulers (the observers of a finished observation,  *)
(* the programs after the Brick Daemon connected) make one step per call;  *)
(* meanwhile no other handler runs.                                        *)
(***************************************************************************)
EXTENDS Naturals, Sequences, SequencesExt

CONSTANTS Program, Timeout, SearchInterval

ASSUME MonitorAssumption ==
  /\ Timeout \in Nat \ {0}
  /\ SearchInterval \in Nat \ {0}

VARIABLES
  observer,   \* observer_state of a scheduler; "none": no program, "freed": it is gone
  brickdWait, \* programs with waiting_for_brickd
  run,        \* "created", "started", "stopped", or "manual": started by a user only
  shutdown,   \* programs whose scheduler is shut down
  exists,     \* there is the observation
  waiting,    \* observation->waiting
  remaining,  \* observation->remaining_timeout
  timer,      \* the timer of the observation exists
  observers,  \* observation->observers
  cursor,     \* index of the next observer to call; 0: not in that loop
  notify,     \* programs that are still to be told of the Brick Daemon
  connected,  \* network_is_brickd_connected()
  panel       \* the panel is running

schedVars == <<observer, brickdWait, run, shutdown>>
obsVars   == <<exists, waiting, remaining, timer, observers>>
loopVars  == <<cursor, notify>>
envVars   == <<connected, panel>>
vars == <<schedVars, obsVars, loopVars, envVars>>

Init ==
  /\ observer = [p \in Program |-> "none"]
  /\ brickdWait = {}
  /\ run = [p \in Program |-> "created"]
  /\ shutdown = {}
  /\ exists = FALSE /\ waiting = FALSE /\ remaining = 0 /\ timer = FALSE
  /\ observers = <<>>
  /\ cursor = 0 /\ notify = {}
  /\ connected = FALSE /\ panel \in BOOLEAN

Idle == cursor = 0 /\ notify = {}

Exists(p) == observer[p] \notin {"none", "freed"}

-----------------------------------------------------------------------------
(* Calls of a handler.  Each sets observers, observer and run.             *)

remove_observer(list, p) == RemoveFirst(list, p)

\* Faulty: the observer stays in the list.
AbortKeepsObserver(p, state) ==
  /\ observers' = observers
  /\ observer' = [observer EXCEPT ![p] = state]

\* program_scheduler_abort_observer(), a part of stopping, starting and
\* spawning; the program may be gone afterwards ("freed").
abort_observer(p, state) ==
  /\ observers' = IF observer[p] = "waiting" THEN remove_observer(observers, p) ELSE observers
  /\ observer' = [observer EXCEPT ![p] = state]

\* program_scheduler_start() or program_scheduler_stop()
StartOrStop(p, to) ==
  /\ abort_observer(p, "finished")
  /\ run' = [run EXCEPT ![p] = to]

\* program_scheduler_start() can fail and stops the schedule again.
Start(p) == \E to \in {"started", "stopped"} : StartOrStop(p, to)

\* process_monitor_add_observer() to the observation there is: it is kept, or
\* called at once if the observation is finished, or could not be appended.
AddToExisting(p) ==
  /\ exists
  /\ \/ waiting /\ observers' = Append(observers, p)
                /\ observer' = [observer EXCEPT ![p] = "waiting"]
                /\ UNCHANGED run
     \/ ~ waiting /\ Start(p)
  /\ UNCHANGED <<exists, waiting, remaining, timer>>

\* A scheduler that was called at once finds its observer finished and, with
\* the Brick Daemon connected, starts a second time, which changes nothing.
\*
\* The first observer makes the observation, after a first search.
AddToNew(p) ==
  /\ ~ exists
  /\ exists' = TRUE
  /\ waiting' = ~ panel
  /\ timer' = ~ panel
  /\ remaining' = IF panel THEN 0 ELSE Timeout
  /\ IF panel THEN Start(p)
     ELSE /\ observers' = Append(observers, p)
          /\ observer' = [observer EXCEPT ![p] = "waiting"]
          /\ UNCHANGED run

\* Searching, or allocating something, fails and nothing is left behind; the
\* scheduler goes on as if the panel was there.
AddFails(p) ==
  /\ IF p \in brickdWait'
     THEN observer' = [observer EXCEPT ![p] = "finished"] /\ UNCHANGED <<observers, run>>
     ELSE Start(p)
  /\ UNCHANGED <<exists, waiting, remaining, timer>>

\* program_scheduler_update(): the state of p is observer_state before it.
\* Preparing the filesystem can fail; mode "never" stops the schedule.  If only
\* the directory of the stderr file cannot be created the schedule is stopped,
\* the observer with it, and then started all the same, as one whose observer
\* is finished is.
Update(p, state) ==
  /\ brickdWait' = IF connected THEN brickdWait \ {p}
                   ELSE IF observer[p] = "none" THEN brickdWait \cup {p} ELSE brickdWait
  /\ \/ /\ StartOrStop(p, "stopped") \/ (p \notin brickdWait' /\ Start(p))
        /\ UNCHANGED <<exists, waiting, remaining, timer>>
     \/ state = "pending" /\ (AddToExisting(p) \/ AddToNew(p) \/ AddFails(p))
     \/ /\ state = "waiting" \/ (state = "finished" /\ p \in brickdWait')
        /\ observer' = [observer EXCEPT ![p] = state]
        /\ UNCHANGED <<observers, run, exists, waiting, remaining, timer>>

-----------------------------------------------------------------------------
(* Handlers *)

\* program_load() or program_define(): program_scheduler_create(), with a
\* program that uses the display or not, and the first update.
Load(p) ==
  /\ Idle /\ observer[p] = "none"
  /\ \E state \in {"pending", "finished"} : Update(p, state)
  /\ UNCHANGED <<shutdown, loopVars, envVars>>

\* program_set_schedule()
SetSchedule(p) ==
  /\ Idle /\ Exists(p) /\ p \notin shutdown
  /\ Update(p, observer[p])
  /\ UNCHANGED <<shutdown, loopVars, envVars>>

\* program_set_command() and program_set_stdio_redirection() update without
\* trying to start.
SetCommand(p) ==
  /\ Idle /\ Exists(p) /\ p \notin shutdown
  /\ brickdWait' = IF connected THEN brickdWait \ {p} ELSE brickdWait
  /\ StartOrStop(p, "stopped") \/ UNCHANGED <<observers, observer, run>>
  /\ UNCHANGED <<shutdown, exists, waiting, remaining, timer, loopVars, envVars>>

\* program_continue_schedule() of a schedule that is not running
ContinueSchedule(p) ==
  /\ Idle /\ Exists(p) /\ p \notin shutdown /\ run[p] # "started"
  /\ Start(p)
  /\ UNCHANGED <<brickdWait, shutdown, exists, waiting, remaining, timer, loopVars, envVars>>

\* program_start(): spawns a process, which ends the waiting for the panel but
\* does not start the schedule.
StartProgram(p) ==
  /\ Idle /\ Exists(p) /\ p \notin shutdown
  /\ abort_observer(p, "finished")
  /\ run' = [run EXCEPT ![p] = IF @ = "created" THEN "manual" ELSE @]
  /\ UNCHANGED <<brickdWait, shutdown, exists, waiting, remaining, timer, loopVars, envVars>>

\* program_purge(), and later the last reference goes and the program is freed.
Purge(p) ==
  /\ Idle /\ Exists(p)
  /\ p \notin shutdown
  /\ shutdown' = shutdown \cup {p}
  /\ StartOrStop(p, "stopped")
  /\ UNCHANGED <<brickdWait, exists, waiting, remaining, timer, loopVars, envVars>>

\* program_scheduler_destroy()
Free(p) ==
  /\ Idle /\ Exists(p)
  /\ shutdown' = shutdown \cup {p}
  /\ abort_observer(p, "freed")
  /\ run' = [run EXCEPT ![p] = "stopped"]
  /\ brickdWait' = brickdWait \ {p}
  /\ UNCHANGED <<exists, waiting, remaining, timer, loopVars, envVars>>

\* process_monitor_exit(), after all programs are gone.
Exit ==
  /\ Idle /\ exists
  /\ \A p \in Program : observer[p] = "freed"
  /\ exists' = FALSE /\ waiting' = FALSE /\ timer' = FALSE /\ remaining' = 0 /\ observers' = <<>>
  /\ UNCHANGED <<schedVars, loopVars, envVars>>

\* Faulty: the timeout is not decreased below one interval.
RemainingWithoutEnd ==
  IF remaining > SearchInterval THEN remaining - SearchInterval ELSE remaining

\* process_monitor_update_observation(): the timeout goes down if the panel is
\* not found (or the search fails).
Decreased == IF remaining > SearchInterval THEN remaining - SearchInterval ELSE 0

update_observation ==
  /\ Idle /\ timer
  /\ \E found \in {FALSE, panel} :
       LET left == IF found THEN 0 ELSE Decreased IN
       /\ remaining' = left
       /\ waiting' = (left > 0) /\ timer' = (left > 0)
       /\ cursor' = IF left > 0 THEN 0 ELSE Len(observers)
  /\ UNCHANGED <<schedVars, exists, observers, notify, envVars>>

\* Faulty: the index moves on although the list became shorter, as in a loop
\* that runs upwards.
CallEverySecondObserver ==
  /\ cursor > 0
  /\ Start(observers[cursor])
  /\ cursor' = IF cursor > 2 THEN cursor - 2 ELSE 0
  /\ UNCHANGED <<brickdWait, shutdown, exists, waiting, remaining, timer, notify, envVars>>

\* One turn of its loop: program_scheduler_handle_observer(), which does not
\* look at waiting_for_brickd.
CallObserver ==
  /\ cursor > 0
  /\ LET p == observers[cursor] IN
     IF observer[p] = "waiting" THEN Start(p) ELSE UNCHANGED <<observers, observer, run>>
  /\ cursor' = cursor - 1
  /\ UNCHANGED <<brickdWait, shutdown, exists, waiting, remaining, timer, notify, envVars>>

\* network_handle_brickd_accept() connects, then notifies every program.
Connect ==
  /\ Idle /\ ~ connected
  /\ connected' = TRUE
  /\ notify' = {p \in Program : Exists(p)}
  /\ UNCHANGED <<schedVars, obsVars, cursor, panel>>

\* program_handle_brickd_connection()
NotifyProgram(p) ==
  /\ p \in notify
  /\ notify' = notify \ {p}
  /\ IF p \in brickdWait /\ p \notin shutdown
     THEN Update(p, observer[p])
     ELSE UNCHANGED <<observer, brickdWait, run, obsVars>>
  /\ UNCHANGED <<shutdown, cursor, envVars>>

Disconnect ==
  /\ Idle /\ connected
  /\ connected' = FALSE
  /\ UNCHANGED <<schedVars, obsVars, loopVars, panel>>

\* The panel comes and goes as it likes.
Panel == panel' = ~ panel /\ UNCHANGED <<schedVars, obsVars, loopVars, connected>>

Next ==
  \/ \E p \in Program :
       \/ Load(p) \/ SetSchedule(p) \/ SetCommand(p) \/ ContinueSchedule(p) \/ StartProgram(p)
       \/ Purge(p) \/ Free(p) \/ NotifyProgram(p)
  \/ update_observation \/ CallObserver \/ Connect \/ Disconnect \/ Panel \/ Exit

Spec == Init /\ [][Next]_vars

\* The timer expires and the loops go on; a Brick Daemon connects.
FairSpec ==
  /\ Spec
  /\ SF_vars(update_observation) /\ WF_vars(CallObserver)
  /\ WF_vars(\E p \in Program : NotifyProgram(p))
  /\ WF_vars(Connect)

-----------------------------------------------------------------------------
(* Properties *)

TypeOK ==
  /\ observer \in [Program -> {"none", "waiting", "finished", "freed"}]
  /\ brickdWait \subseteq Program /\ shutdown \subseteq Program /\ notify \subseteq Program
  /\ run \in [Program -> {"created", "started", "stopped", "manual"}]
  /\ {exists, waiting, timer, connected, panel} \subseteq BOOLEAN
  /\ remaining \in 0..Timeout
  /\ observers \in Seq(Program) /\ cursor \in 0..Len(observers)

\* The list of observers is exactly the schedulers that think they wait, each
\* once, none freed or shut down; an observation that is not waiting has no
\* timer, and one that is has time left.
ObserversAreWaiting ==
  /\ TypeOK
  /\ \A i, j \in DOMAIN observers : observers[i] = observers[j] => i = j
  /\ {observers[i] : i \in DOMAIN observers} = {p \in Program : observer[p] = "waiting"}
  /\ \A p \in shutdown : observer[p] # "waiting"
  /\ timer = waiting /\ (waiting => exists /\ remaining > 0)

\* Nobody is forgotten: between two handlers no scheduler is in the list of a
\* finished observation, where nothing would call it any more, and none waits
\* for a Brick Daemon that is connected.
NobodyForgotten ==
  Idle => /\ ~ waiting => observers = <<>>
          /\ connected => brickdWait \subseteq shutdown

\* Every schedule gets out of its first state: the waiting for the panel is
\* bounded by the timeout and the Brick Daemon connects.
EverySchedulerStarts ==
  \A p \in Program : (Exists(p) /\ run[p] = "created") ~> (run[p] # "created")
=============================================================================
