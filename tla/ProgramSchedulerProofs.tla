----------------------- MODULE ProgramSchedulerProofs -----------------------
(***************************************************************************)
(* The safety properties of ProgramScheduler for any number of process     *)
(* objects and any size of the state change pipe.                          *)
(*                                                                         *)
(* The first half is about the functions of program_scheduler.c as         *)
(* operators on the scheduler struct: what each keeps of Sound, whatever   *)
(* calls fail in it.  The second half is about the processes: Commit puts  *)
(* a spawned process in place, the wait thread and the event loop work on  *)
(* the two ends of a pipe.                                                 *)
(***************************************************************************)
EXTENDS ProgramScheduler, SequenceTheorems, TLAPS

-----------------------------------------------------------------------------
(* The inductive invariant                                                 *)

\* The scheduler struct within a handler, where "spawned" may be set.
Scheduler ==
  [state : {"stopped", "running"}, mode : Mode, goOn : BOOLEAN,
   observer : {"pending", "waiting", "finished"}, observing : BOOLEAN,
   shutdown : BOOLEAN, waiting : BOOLEAN,
   timer : {"idle", "once", "interval", "expired"},
   undisarmed : BOOLEAN, cron : BOOLEAN, ready : BOOLEAN,
   spawned : BOOLEAN, lost : BOOLEAN, crashed : BOOLEAN]

\* Nothing points to a stopped scheduler but an observer of its first start and
\* a timer that could not be disarmed.
Detached(c) ==
  /\ c.state = "stopped" => ~ c.cron /\ (c.timer = "idle" \/ c.undisarmed)
  /\ c.observing <=> c.observer = "waiting"
  /\ c.observer # "finished" => c.state = "stopped"
  /\ c.shutdown => c.state = "stopped" /\ ~ c.observing

\* A running scheduler has its trigger, a process just spawned included.
Triggered(c) ==
  c.state = "running" /\ ~ c.waiting /\ ~ c.crashed =>
    /\ c.mode # "never"
    /\ c.mode = "always"   =>
         LastAlive \/ c.spawned \/ c.lost \/ c.timer \in {"once", "interval"}
    /\ c.mode = "interval" => c.timer = "interval"
    /\ c.mode = "cron"     => c.cron

\* A process is spawned, or a spawn comes back without one, only if the last
\* one is dead.
Sound(c) ==
  /\ c \in Scheduler
  /\ Detached(c)
  /\ c.spawned \/ c.lost => ~ LastAlive
  /\ ~ (c.spawned /\ c.lost)

\* What the functions of the scheduler do not change.
SameConfig(c, r) ==
  /\ r.mode = c.mode /\ r.goOn = c.goOn
  /\ r.shutdown = c.shutdown /\ r.waiting = c.waiting

\* The pipe leads from what the process object says to what the child is: all
\* states on the way are alive except the last one.
Recorded(p) ==
  /\ seen[p] = "none" => child[p] = "none" /\ report[p] = <<>>
  /\ report[p] = <<>> => child[p] = seen[p]
  /\ report[p] # <<>> => seen[p] \in Living /\ report[p][Len(report[p])] = child[p]
  /\ \A i \in 1..Len(report[p]) : /\ report[p][i] # "none"
                                  /\ i < Len(report[p]) => report[p][i] \in Living

\* The process can still tell the scheduler something.
Busy(p) == child[p] \in Living \/ report[p] # <<>>

Processes ==
  /\ \A p \in Process : Recorded(p)
  /\ \A p, q \in Process : Busy(p) /\ Busy(q) => p = q
  /\ ~ program.freed => \A p \in Process : Busy(p) => p = last
  /\ last # None => seen[last] # "none"

\* A scheduler whose flag says it waits for a Brick Daemon that is connected
\* would never be started.
Lifecycle ==
  /\ program.freed => program.loaded /\ sch.shutdown /\ sch.timer = "idle"
  /\ connected /\ sch.waiting => sch.shutdown

Inv ==
  /\ TypeOK
  /\ Sound(sch) /\ Triggered(sch)
  /\ Processes
  /\ Lifecycle

-----------------------------------------------------------------------------
(* The functions of the scheduler                                          *)

\* program_scheduler_abort_observer() leaves a scheduler nobody observes.
LEMMA AbortObserverSound ==
  ASSUME NEW c, Sound(c)
  PROVE  LET r == AbortObserver(c) IN
         /\ Sound(r) /\ SameConfig(c, r)
         /\ r.observer = "finished" /\ ~ r.observing
         /\ r.state = c.state /\ r.timer = c.timer /\ r.cron = c.cron
         /\ r.undisarmed = c.undisarmed
         /\ r.spawned = c.spawned /\ r.lost = c.lost
         /\ r.crashed = c.crashed /\ r.ready = c.ready
  BY DEF AbortObserver, Sound, Scheduler, Detached, SameConfig

\* program_scheduler_stop() ends in a stopped scheduler, whatever fails in it.
LEMMA StopSound ==
  ASSUME NEW c, Sound(c), NEW e
  PROVE  LET r == Stop(c, e) IN
         /\ Sound(r) /\ SameConfig(c, r)
         /\ r.state = "stopped" /\ ~ r.cron /\ ~ r.observing /\ r.observer = "finished"
         /\ r.timer = "idle" \/ r.timer = c.timer
         /\ r.spawned = c.spawned /\ r.crashed = c.crashed
<1> DEFINE a == AbortObserver(c)
           r == Stop(c, e)
<1>1. /\ Sound(a) /\ SameConfig(c, a)
      /\ a.observer = "finished" /\ ~ a.observing /\ a.timer = c.timer
      /\ a.spawned = c.spawned /\ a.crashed = c.crashed
  BY AbortObserverSound
<1>2. a \in Scheduler
  BY <1>1 DEF Sound
<1> DEFINE idle == IF "disarm" \in e THEN a.timer ELSE "idle"
           kept == a.timer # "idle" /\ "disarm" \in e
           t    == [a EXCEPT !.timer = idle, !.undisarmed = kept]
<1>3. r = [t EXCEPT !.cron = FALSE, !.state = "stopped"]
  BY DEF Stop, StopTimer
<1>4. idle \in {"idle", "once", "interval", "expired"} /\ kept \in BOOLEAN
  BY <1>2 DEF Scheduler
<1>5. (idle = "idle" \/ kept) /\ (idle = "idle" \/ idle = a.timer)
  OBVIOUS
<1> HIDE DEF a, idle, kept
<1>6. /\ t \in Scheduler
      /\ t.timer = idle /\ t.undisarmed = kept
      /\ t.observing = a.observing /\ t.observer = a.observer
      /\ t.spawned = a.spawned /\ t.lost = a.lost /\ t.crashed = a.crashed
      /\ SameConfig(c, t)
  BY <1>1, <1>2, <1>4 DEF Scheduler, SameConfig
<1> HIDE DEF t
<1>7. /\ r \in Scheduler
      /\ r.state = "stopped" /\ r.cron = FALSE
      /\ r.timer = idle /\ r.undisarmed = kept
      /\ r.observing = a.observing /\ r.observer = a.observer
      /\ r.spawned = a.spawned /\ r.lost = a.lost /\ r.crashed = a.crashed
      /\ SameConfig(c, r)
  BY <1>3, <1>6 DEF Scheduler, SameConfig
<1> HIDE DEF r
<1>8. Sound(r)
  BY <1>1, <1>5, <1>7 DEF Sound, Detached
<1>9. QED
  BY <1>1, <1>5, <1>7, <1>8 DEF r

\* program_scheduler_spawn_process(): a scheduler that is running afterwards
\* has a process, or the daemon is gone.
LEMMA SpawnProcessSound ==
  ASSUME NEW c, Sound(c), NEW e
  PROVE  LET r == SpawnProcess(c, e) IN
         /\ Sound(r) /\ SameConfig(c, r)
         /\ r.observer = "finished"
         /\ r.timer = "idle" \/ r.timer = c.timer
         /\ r.state = "stopped" \/ r.state = c.state
         /\ r.state = "running" => /\ r.timer = c.timer /\ r.cron = c.cron
                                   /\ r.spawned \/ r.lost \/ LastAlive \/ r.crashed
<1> DEFINE a == AbortObserver(c)
           s == Stop(a, e)
           r == SpawnProcess(c, e)
<1>1. /\ Sound(a) /\ SameConfig(c, a)
      /\ a.observer = "finished" /\ ~ a.observing
      /\ a.state = c.state /\ a.timer = c.timer /\ a.cron = c.cron
      /\ a.spawned = c.spawned /\ a.lost = c.lost /\ a.crashed = c.crashed
  BY AbortObserverSound
<1>2. /\ Sound(s) /\ SameConfig(a, s)
      /\ s.state = "stopped" /\ s.observer = "finished"
      /\ s.timer = "idle" \/ s.timer = a.timer
  BY <1>1, StopSound
<1>3. r = IF c.spawned \/ LastAlive THEN a
          ELSE IF "trigger" \in e THEN s
          ELSE IF ~ a.ready \/ "wild" \in e THEN [a EXCEPT !.crashed = TRUE]
          ELSE [a EXCEPT !.spawned = "null" \notin e, !.lost = "null" \in e]
  BY DEF SpawnProcess, PrepareStdio, HandleError
<1> HIDE DEF a, s
<1>4. c \in Scheduler /\ a \in Scheduler
  BY <1>1 DEF Sound
<1>5. CASE r = a /\ (c.spawned \/ LastAlive)
  BY <1>1, <1>5
<1>6. CASE r = s
  BY <1>1, <1>2, <1>6 DEF SameConfig
<1>7. CASE r = [a EXCEPT !.crashed = TRUE]
  <2>1. /\ r \in Scheduler
        /\ r.crashed = TRUE /\ r.spawned = a.spawned /\ r.lost = a.lost
        /\ r.state = a.state /\ r.observer = a.observer /\ r.observing = a.observing
        /\ r.timer = a.timer /\ r.undisarmed = a.undisarmed /\ r.cron = a.cron
        /\ r.mode = a.mode /\ r.goOn = a.goOn
        /\ r.shutdown = a.shutdown /\ r.waiting = a.waiting
    BY <1>4, <1>7 DEF Scheduler
  <2> HIDE DEF r
  <2>2. Detached(r) /\ (r.spawned \/ r.lost => ~ LastAlive) /\ ~ (r.spawned /\ r.lost)
    BY <1>1, <1>7, <2>1 DEF Sound, Detached
  <2>3. Sound(r) /\ SameConfig(c, r)
    BY <1>1, <2>1, <2>2 DEF Sound, SameConfig
  <2>4. QED
    BY <1>1, <2>1, <2>3 DEF r
<1>8. CASE r = [a EXCEPT !.spawned = "null" \notin e, !.lost = "null" \in e] /\ ~ LastAlive
  <2>0. \/ r = [a EXCEPT !.spawned = TRUE, !.lost = FALSE]
        \/ r = [a EXCEPT !.spawned = FALSE, !.lost = TRUE]
    <3> DEFINE n == "null" \in e
    <3>1. r = [a EXCEPT !.spawned = ~ n, !.lost = n]
      BY <1>8
    <3>2. n \in BOOLEAN
      OBVIOUS
    <3> HIDE DEF n, r
    <3>3. CASE n = TRUE
      BY <3>1, <3>3
    <3>4. CASE n = FALSE
      BY <3>1, <3>4
    <3>5. QED
      BY <3>2, <3>3, <3>4
  <2> HIDE DEF r
  <2>1. /\ r \in Scheduler
        /\ r.spawned \/ r.lost
        /\ ~ (r.spawned /\ r.lost)
        /\ r.crashed = a.crashed
        /\ r.state = a.state /\ r.observer = a.observer /\ r.observing = a.observing
        /\ r.timer = a.timer /\ r.undisarmed = a.undisarmed /\ r.cron = a.cron
        /\ r.mode = a.mode /\ r.goOn = a.goOn
        /\ r.shutdown = a.shutdown /\ r.waiting = a.waiting
    <3>1. CASE r = [a EXCEPT !.spawned = TRUE, !.lost = FALSE]
      BY <1>4, <3>1 DEF Scheduler
    <3>2. CASE r = [a EXCEPT !.spawned = FALSE, !.lost = TRUE]
      BY <1>4, <3>2 DEF Scheduler
    <3>3. QED
      BY <2>0, <3>1, <3>2
  <2>2. Detached(r) /\ (r.spawned \/ r.lost => ~ LastAlive) /\ ~ (r.spawned /\ r.lost)
    BY <1>1, <1>8, <2>1 DEF Sound, Detached
  <2>3. Sound(r) /\ SameConfig(c, r)
    BY <1>1, <2>1, <2>2 DEF Sound, SameConfig
  <2>4. QED
    BY <1>1, <2>1, <2>3 DEF r
<1>9. QED
  BY <1>3, <1>5, <1>6, <1>7, <1>8

\* program_scheduler_start() sets up the trigger of the program's mode or stops.
LEMMA StartSound ==
  ASSUME NEW c, Sound(c), NEW e
  PROVE  LET r == Start(c, e) IN
         /\ Sound(r) /\ SameConfig(c, r)
         /\ c.shutdown => r = c
         /\ ~ c.shutdown => Triggered(r) /\ r.observer = "finished"
<1> DEFINE a == AbortObserver(c)
           b == [a EXCEPT !.state = "running", !.undisarmed = FALSE]
           r == Start(c, e)
<1>1. CASE c.shutdown
  BY <1>1 DEF Start, SameConfig
<1>2. CASE ~ c.shutdown
  <2>1. /\ Sound(a) /\ SameConfig(c, a)
        /\ a.observer = "finished" /\ ~ a.observing
    BY AbortObserverSound
  <2>2. r = CASE c.mode = "never"    -> Stop(b, e)
              [] c.mode = "always"   -> SpawnProcess(b, e)
              [] c.mode = "interval" -> IF "trigger" \in e THEN Stop(b, e)
                                        ELSE [b EXCEPT !.timer = "interval"]
              [] c.mode = "cron"     -> IF "trigger" \in e THEN Stop(b, e)
                                        ELSE [b EXCEPT !.cron = TRUE]
    BY <1>2 DEF Start, HandleError
  <2> HIDE DEF a
  <2>3. /\ Sound(b) /\ SameConfig(c, b) /\ b.state = "running" /\ b.observer = "finished"
        /\ b \in Scheduler
    BY <1>2, <2>1 DEF Sound, Scheduler, Detached, SameConfig
  <2>4. ~ b.shutdown /\ ~ b.observing
    BY <1>2, <2>3 DEF SameConfig, Sound, Detached
  <2> HIDE DEF b
  <2>5. c.mode \in Mode /\ b.mode = c.mode
    BY <2>3 DEF Sound, Scheduler, SameConfig
  <2>6. CASE r = Stop(b, e)
    BY <1>2, <2>3, <2>6, StopSound DEF SameConfig, Triggered
  <2>7. CASE r = SpawnProcess(b, e) /\ c.mode = "always"
    <3>1. /\ Sound(r) /\ SameConfig(b, r) /\ r.observer = "finished"
          /\ r.state = "running" => r.spawned \/ r.lost \/ LastAlive \/ r.crashed
      BY <2>3, <2>7, SpawnProcessSound
    <3>2. QED
      BY <1>2, <2>3, <2>5, <2>7, <3>1 DEF SameConfig, Triggered
  <2>8. CASE r = [b EXCEPT !.timer = "interval"] /\ c.mode = "interval"
    BY <1>2, <2>3, <2>4, <2>5, <2>8 DEF Sound, Scheduler, Detached, SameConfig, Triggered
  <2>9. CASE r = [b EXCEPT !.cron = TRUE] /\ c.mode = "cron"
    BY <1>2, <2>3, <2>4, <2>5, <2>9 DEF Sound, Scheduler, Detached, SameConfig, Triggered
  <2>10. QED
    BY <2>2, <2>5, <2>6, <2>7, <2>8, <2>9 DEF Mode
<1>3. QED
  BY <1>1, <1>2

\* program_scheduler_prepare_filesystem()
LEMMA PrepareFilesystemSound ==
  ASSUME NEW c, Sound(c), NEW e
  PROVE  LET r == PrepareFilesystem(c, e) IN
         /\ Sound(r) /\ SameConfig(c, r)
         /\ Triggered(c) => Triggered(r)
         /\ "fs" \in e => r.state = "stopped"
<1>1. CASE e \cap {"fs", "late"} # {}
  BY <1>1, StopSound DEF PrepareFilesystem, HandleError, Triggered
<1>2. CASE e \cap {"fs", "late"} = {}
  <2> DEFINE r == [c EXCEPT !.ready = TRUE]
  <2>1. PrepareFilesystem(c, e) = r /\ "fs" \notin e
    BY <1>2 DEF PrepareFilesystem
  <2>2. Sound(r) /\ SameConfig(c, r)
    BY DEF Sound, Scheduler, Detached, SameConfig
  <2>3. Triggered(c) => Triggered(r)
    BY DEF Sound, Scheduler, Triggered
  <2>4. QED
    BY <2>1, <2>2, <2>3
<1>3. QED
  BY <1>1, <1>2

\* process_monitor_add_observer(): afterwards the scheduler is observed, or it
\* need not be, because the observer was called or is not going to be.
LEMMA ObserveSound ==
  ASSUME NEW c, Sound(c), ~ c.shutdown, NEW e
  PROVE  LET r == Observe(c, e) IN
         /\ Sound(r) /\ SameConfig(c, r)
<1> DEFINE w == [c EXCEPT !.observer = "waiting", !.observing = TRUE]
           a == AbortObserver(w)
<1>1. CASE c.observer # "pending"
  BY <1>1 DEF Observe, SameConfig
<1>2. CASE c.observer = "pending"
  <2>1. Sound(w) /\ SameConfig(c, w)
    BY <1>2 DEF Sound, Scheduler, Detached, SameConfig
  <2>2. Sound(a) /\ SameConfig(w, a)
    BY <2>1, AbortObserverSound
  <2>3. Sound(Start(a, e)) /\ SameConfig(a, Start(a, e))
    BY <2>2, StartSound
  <2>4. Sound([c EXCEPT !.observer = "finished"]) /\ SameConfig(c, [c EXCEPT !.observer = "finished"])
    BY <1>2 DEF Sound, Scheduler, Detached, SameConfig
  <2>5. Observe(c, e) \in {[c EXCEPT !.observer = "finished"], Start(a, e), w}
    BY <1>2 DEF Observe
  <2> HIDE DEF w, a
  <2>6. QED
    BY <2>1, <2>2, <2>3, <2>4, <2>5 DEF SameConfig
<1>3. QED
  BY <1>1, <1>2

\* program_scheduler_update(): if it may start the schedule, the trigger fits
\* the mode afterwards, even if the mode was just changed.
LEMMA UpdateSound ==
  ASSUME NEW c, Sound(c), NEW tryStart \in BOOLEAN, NEW conn \in BOOLEAN, NEW e
  PROVE  LET r == Update(c, tryStart, conn, e) IN
         /\ Sound(r)
         /\ r.shutdown = c.shutdown
         /\ r.waiting = IF c.shutdown THEN c.waiting ELSE c.waiting /\ ~ conn
         /\ tryStart => Triggered(r)
         /\ Triggered(c) /\ ~ (conn /\ c.waiting) => Triggered(r)
<1> DEFINE d == [c EXCEPT !.waiting = @ /\ ~ conn]
           p == PrepareFilesystem(d, e)
           o == Observe(p, e)
           r == Update(c, tryStart, conn, e)
<1>1. CASE c.shutdown
  <2>1. r = c
    BY <1>1 DEF Update
  <2>2. Triggered(c)
    BY <1>1 DEF Sound, Detached, Triggered
  <2>3. QED
    BY <1>1, <2>1, <2>2
<1>2. CASE ~ c.shutdown
  <2>1. /\ Sound(d) /\ d.shutdown = c.shutdown /\ d.waiting = (c.waiting /\ ~ conn)
        /\ d.mode = c.mode
    BY DEF Sound, Scheduler, Detached
  <2>2. Triggered(c) /\ ~ (conn /\ c.waiting) => Triggered(d)
    BY DEF Sound, Scheduler, Triggered
  <2>3. r = IF "fs" \in e \/ ~ tryStart THEN p
            ELSE IF c.mode = "never" THEN Stop(p, e)
            ELSE IF o.observer = "finished" /\ ~ o.waiting THEN Start(o, e)
            ELSE o
    BY <1>2 DEF Update
  <2> HIDE DEF d
  <2>4. /\ Sound(p) /\ SameConfig(d, p)
        /\ Triggered(d) => Triggered(p)
        /\ "fs" \in e => p.state = "stopped"
    BY <2>1, PrepareFilesystemSound
  <2> HIDE DEF p
  <2>5. ~ p.shutdown
    BY <1>2, <2>1, <2>4 DEF SameConfig
  <2>6. Sound(o) /\ SameConfig(p, o)
    BY <2>4, <2>5, ObserveSound
  <2> HIDE DEF o
  <2>7. CASE r = p /\ ("fs" \in e \/ ~ tryStart)
    <3>1. "fs" \in e => Triggered(p)
      BY <2>4 DEF Triggered
    <3>2. QED
      BY <1>2, <2>1, <2>2, <2>4, <2>7, <3>1 DEF SameConfig
  <2>8. CASE r = Stop(p, e)
    <3>1. Sound(r) /\ SameConfig(p, r) /\ r.state = "stopped"
      BY <2>4, <2>8, StopSound
    <3>2. Triggered(r)
      BY <3>1 DEF Triggered
    <3>3. QED
      BY <1>2, <2>1, <2>4, <3>1, <3>2 DEF SameConfig
  <2>9. CASE r = Start(o, e)
    <3>1. ~ o.shutdown
      BY <2>5, <2>6 DEF SameConfig
    <3>2. Sound(r) /\ SameConfig(o, r) /\ Triggered(r)
      BY <2>6, <2>9, <3>1, StartSound
    <3>3. QED
      BY <1>2, <2>1, <2>4, <2>6, <3>2 DEF SameConfig
  <2>10. CASE r = o /\ ~ (o.observer = "finished" /\ ~ o.waiting)
    <3>1. Triggered(o)
      BY <2>6, <2>10 DEF Sound, Detached, Triggered
    <3>2. QED
      BY <1>2, <2>1, <2>4, <2>6, <2>10, <3>1 DEF SameConfig
  <2>11. QED
    BY <2>3, <2>7, <2>8, <2>9, <2>10
<1>3. QED
  BY <1>1, <1>2

\* program_scheduler_shutdown()
LEMMA ShutdownSound ==
  ASSUME NEW c, Sound(c), NEW e
  PROVE  LET r == Shutdown(c, e) IN
         /\ Sound(r) /\ Triggered(r) /\ r.shutdown
         /\ r.waiting = c.waiting /\ r.spawned = c.spawned
<1>1. CASE c.shutdown
  BY <1>1 DEF Shutdown, Sound, Detached, Triggered
<1>2. CASE ~ c.shutdown
  <2> DEFINE s == Stop(c, e)
             r == [s EXCEPT !.shutdown = TRUE]
  <2>1. Shutdown(c, e) = r
    BY <1>2 DEF Shutdown, Stop, StopTimer, AbortObserver, Sound, Scheduler
  <2>2. Sound(s) /\ SameConfig(c, s) /\ s.state = "stopped" /\ ~ s.observing
        /\ s.spawned = c.spawned
    BY StopSound
  <2> HIDE DEF s
  <2>3. Sound(r) /\ Triggered(r) /\ r.shutdown /\ r.waiting = c.waiting /\ r.spawned = c.spawned
    BY <2>2 DEF Sound, Scheduler, Detached, Triggered, SameConfig
  <2>4. QED
    BY <2>1, <2>3
<1>3. QED
  BY <1>1, <1>2

\* program_scheduler_handle_process_state_change(): after a death in mode
\* "always" the timer for the next spawn is armed, or the schedule is stopped.
LEMMA HandleProcessStateChangeSound ==
  ASSUME NEW c, Sound(c), NEW s, NEW e
  PROVE  LET r == HandleProcessStateChange(c, s, e) IN
         /\ Sound(r) /\ SameConfig(c, r)
         /\ r.spawned = c.spawned /\ r.crashed = c.crashed
         /\ IsAlive(s) => r = c
         /\ r.state = "running" => /\ c.state = "running" /\ r.cron = c.cron
                                   /\ c.mode # "always" => r.timer = c.timer
                                   /\ c.mode = "always" /\ ~ IsAlive(s) => r.timer = "once"
<1> DEFINE r == HandleProcessStateChange(c, s, e)
<1>1. CASE r = c /\ (c.state # "running" \/ IsAlive(s) \/ c.mode # "always")
  BY <1>1 DEF SameConfig, Sound, Scheduler
<1>2. CASE r = Stop(c, e) /\ ~ IsAlive(s)
  BY <1>2, StopSound
<1>3. CASE r = [c EXCEPT !.timer = "once"] /\ c.state = "running" /\ c.mode = "always" /\ ~ IsAlive(s)
  BY <1>3 DEF Sound, Scheduler, Detached, SameConfig
<1>4. QED
  BY <1>1, <1>2, <1>3 DEF HandleProcessStateChange, HandleError

-----------------------------------------------------------------------------
(* Processes                                                               *)

\* The status the process object knows is alive for as long as the child lives
\* or a report is on its way, so a last process known to be dead has nothing
\* more to say, and no other process has.
LEMMA DeadIsQuiet ==
  ASSUME Inv, ~ program.freed, ~ LastAlive
  PROVE  \A p \in Process : ~ Busy(p)
<1> SUFFICES ASSUME NEW p \in Process, Busy(p)
             PROVE  FALSE
  OBVIOUS
<1>1. p = last /\ last # None
  BY SchedulerAssumption DEF Inv, Processes
<1>2. seen[p] \notin Living
  BY <1>1 DEF LastAlive, IsAlive, Living
<1>3. Recorded(p)
  BY DEF Inv, Processes
<1>4. QED
  BY <1>2, <1>3 DEF Recorded, Busy

\* The fields that Commit and the handlers of processes set have their types.
ProcessTypes ==
  /\ last \in Process \cup {None}
  /\ child \in [Process -> Status] /\ seen \in [Process -> Status]
  /\ report \in [Process -> Seq(Status)]
  /\ \A p \in Process : Len(report[p]) <= PipeSize

\* The end of a handler: at most one process is put in place, and only if all
\* others are dead and have nothing left to report.
LEMMA CommitInv ==
  ASSUME Inv, NEW c, Sound(c), Triggered(c), Commit(c), ~ program.freed, program'.freed = FALSE
  PROVE  /\ sch' = [c EXCEPT !.spawned = FALSE]
         /\ ProcessTypes' /\ Processes'
         /\ Sound(sch)' /\ Triggered(sch)' /\ sch'.spawned = FALSE
<1>1. sch' = [c EXCEPT !.spawned = FALSE]
  BY DEF Commit
<1>2. sch' \in Scheduler /\ Detached(sch)' /\ sch'.spawned = FALSE
  BY <1>1 DEF Sound, Scheduler, Detached
<1>3. sch'.lost = c.lost
  BY <1>1 DEF Sound, Scheduler
<1>4. c \in Scheduler /\ ProcessTypes /\ Processes
  BY DEF Sound, Inv, TypeOK, ProcessTypes
<1>5. CASE ~ c.spawned /\ ~ c.lost
  <2>1. UNCHANGED <<last, child, seen, report>>
    BY <1>5 DEF Commit
  <2>2. LastAlive' = LastAlive
    BY <2>1 DEF LastAlive
  <2>3. Triggered(sch)'
    BY <1>1, <1>4, <1>5, <2>2 DEF Triggered, Scheduler
  <2>4. ProcessTypes'
    BY <1>4, <2>1 DEF ProcessTypes
  <2>5. Processes'
    BY <1>4, <2>1 DEF Processes, Recorded, Busy
  <2>6. Sound(sch)'
    BY <1>2, <1>3, <1>5, <2>2 DEF Sound
  <2>7. QED
    BY <1>1, <1>2, <2>3, <2>4, <2>5, <2>6
<1>6. CASE c.spawned
  <2> DEFINE gone == {last} \ (users \cup {None})
  <2>1. PICK p \in Process :
          /\ seen[p] = "none"
          /\ last' = p
          /\ child' = [q \in Process |-> IF q \in {p} THEN "running"
                                          ELSE IF q \in gone THEN "none" ELSE child[q]]
          /\ seen' = [q \in Process |-> IF q \in {p} THEN "running"
                                         ELSE IF q \in gone THEN "none" ELSE seen[q]]
          /\ report' = [q \in Process |-> IF q \in {p} THEN <<>>
                                           ELSE IF q \in gone THEN <<>> ELSE report[q]]
    BY <1>6 DEF Commit
  <2> HIDE DEF gone
  <2>2. \A q \in Process : ~ Busy(q)
    BY <1>6, DeadIsQuiet DEF Sound
  <2>3. ProcessTypes'
    <3>1. <<>> \in Seq(Status) /\ Len(<<>>) = 0 /\ PipeSize >= 0
      BY SchedulerAssumption
    <3>2. QED
      BY <1>4, <2>1, <3>1 DEF ProcessTypes, Status
  <2>4. \A q \in Process : Recorded(q)'
    <3> SUFFICES ASSUME NEW q \in Process
                 PROVE  Recorded(q)'
      OBVIOUS
    <3>1. CASE q = p \/ q \in gone
      <4>1. report'[q] = <<>> /\ child'[q] = seen'[q]
        BY <2>1, <3>1
      <4>2. QED
        BY <4>1 DEF Recorded
    <3>2. CASE q # p /\ q \notin gone
      <4>1. report'[q] = report[q] /\ child'[q] = child[q] /\ seen'[q] = seen[q]
        BY <2>1, <3>2
      <4>2. QED
        BY <1>4, <4>1 DEF Processes, Recorded
    <3>3. QED
      BY <3>1, <3>2
  <2>5. \A q \in Process : Busy(q)' => q = p
    BY <2>1, <2>2 DEF Busy, Living
  <2>6. Processes'
    BY <2>1, <2>4, <2>5 DEF Processes
  <2>7. LastAlive'
    BY <2>1, SchedulerAssumption DEF LastAlive, IsAlive
  <2>8. Triggered(sch)'
    BY <1>1, <1>4, <1>6, <2>7 DEF Triggered, Scheduler
  <2>9. Sound(sch)'
    BY <1>2, <1>3, <1>6 DEF Sound
  <2>10. QED
    BY <1>1, <1>2, <2>3, <2>6, <2>8, <2>9
<1>7. CASE ~ c.spawned /\ c.lost
  <2> DEFINE gone == {last} \ (users \cup {None})
  <2>1. /\ last' = None
        /\ child' = [q \in Process |-> IF q \in {} THEN "running"
                                        ELSE IF q \in gone THEN "none" ELSE child[q]]
        /\ seen' = [q \in Process |-> IF q \in {} THEN "running"
                                       ELSE IF q \in gone THEN "none" ELSE seen[q]]
        /\ report' = [q \in Process |-> IF q \in {} THEN <<>>
                                         ELSE IF q \in gone THEN <<>> ELSE report[q]]
    BY <1>7 DEF Commit
  <2> HIDE DEF gone
  <2>2. \A q \in Process : ~ Busy(q)
    BY <1>7, DeadIsQuiet DEF Sound
  <2>3. ProcessTypes'
    <3>1. <<>> \in Seq(Status) /\ Len(<<>>) = 0 /\ PipeSize >= 0
      BY SchedulerAssumption
    <3>2. QED
      BY <1>4, <2>1, <3>1 DEF ProcessTypes, Status
  <2>4. \A q \in Process : Recorded(q)' /\ ~ Busy(q)'
    <3> SUFFICES ASSUME NEW q \in Process
                 PROVE  Recorded(q)' /\ ~ Busy(q)'
      OBVIOUS
    <3>1. CASE q \in gone
      <4>1. report'[q] = <<>> /\ child'[q] = "none" /\ seen'[q] = "none"
        BY <2>1, <3>1
      <4>2. QED
        BY <4>1 DEF Recorded, Busy, Living
    <3>2. CASE q \notin gone
      <4>1. report'[q] = report[q] /\ child'[q] = child[q] /\ seen'[q] = seen[q]
        BY <2>1, <3>2
      <4>2. QED
        BY <1>4, <2>2, <4>1 DEF Processes, Recorded, Busy
    <3>3. QED
      BY <3>1, <3>2
  <2>5. Processes'
    BY <2>1, <2>4 DEF Processes
  <2>6. ~ LastAlive'
    BY <2>1 DEF LastAlive
  <2>7. Sound(sch)' /\ Triggered(sch)'
    BY <1>1, <1>2, <1>4, <1>7, <2>6 DEF Sound, Triggered, Scheduler
  <2>8. QED
    BY <1>1, <1>2, <2>3, <2>5, <2>7
<1>8. QED
  BY <1>4, <1>5, <1>6, <1>7 DEF Scheduler

\* A process object is destroyed together with its pipe.
LEMMA DestroyProcessInv ==
  ASSUME Inv, NEW p \in Process, DestroyProcess(p),
         \/ last' = last /\ p # last /\ program'.freed = program.freed
         \/ last' = None /\ program'.freed
  PROVE  ProcessTypes' /\ Processes'
<1>1. ProcessTypes /\ Processes
  BY DEF Inv, TypeOK, ProcessTypes
<1>2. \A q \in Process : IF q = p THEN child'[q] = "none" /\ seen'[q] = "none" /\ report'[q] = <<>>
                          ELSE child'[q] = child[q] /\ seen'[q] = seen[q] /\ report'[q] = report[q]
  BY <1>1 DEF DestroyProcess, ProcessTypes
<1>3. ProcessTypes'
  <2>1. <<>> \in Seq(Status) /\ Len(<<>>) = 0 /\ PipeSize >= 0
    BY SchedulerAssumption
  <2>2. QED
    BY <1>1, <2>1 DEF ProcessTypes, DestroyProcess, Status
<1>4. \A q \in Process : Recorded(q)'
  BY <1>1, <1>2 DEF Processes, Recorded
<1>5. \A q \in Process : Busy(q)' => Busy(q) /\ q # p
  BY <1>2 DEF Busy, Living
<1>6. last' # None => seen'[last'] # "none"
  BY <1>1, <1>2 DEF Processes, ProcessTypes
<1>7. ~ program'.freed => program.freed = program'.freed /\ last' = last
  OBVIOUS
<1>8. QED
  BY <1>1, <1>3, <1>4, <1>5, <1>6, <1>7 DEF Processes

-----------------------------------------------------------------------------
(* Events                                                                  *)

\* What an event leaves to show once the scheduler and the processes are done.
LEMMA Assembled ==
  ASSUME Sound(sch)', Triggered(sch)', sch'.spawned = FALSE, ProcessTypes', Processes',
         program' \in [loaded : BOOLEAN, freed : BOOLEAN, purged : BOOLEAN,
                       internal : BOOLEAN, external : BOOLEAN],
         users' \subseteq Process, connected' \in BOOLEAN, Lifecycle'
  PROVE  Inv'
<1>1. sch' \in [state : {"stopped", "running"}, mode : Mode, goOn : BOOLEAN,
              observer : {"pending", "waiting", "finished"}, observing : BOOLEAN,
              shutdown : BOOLEAN, waiting : BOOLEAN,
              timer : {"idle", "once", "interval", "expired"},
              undisarmed : BOOLEAN, cron : BOOLEAN, ready : BOOLEAN,
              spawned : {FALSE}, lost : BOOLEAN, crashed : BOOLEAN]
  BY DEF Sound, Scheduler
<1>2. TypeOK'
  BY <1>1 DEF TypeOK, ProcessTypes
<1>3. QED
  BY <1>2 DEF Inv

\* A handler of the event loop that ends with Commit.
LEMMA HandlerInv ==
  ASSUME Inv, NEW c, Sound(c), Triggered(c), Commit(c), ~ program.freed,
         program' \in [loaded : BOOLEAN, freed : {FALSE}, purged : BOOLEAN,
                       internal : BOOLEAN, external : BOOLEAN],
         users' = users, connected' \in BOOLEAN, connected' /\ c.waiting => c.shutdown
  PROVE  Inv'
<1>1. /\ sch' = [c EXCEPT !.spawned = FALSE]
      /\ ProcessTypes' /\ Processes'
      /\ Sound(sch)' /\ Triggered(sch)' /\ sch'.spawned = FALSE
  BY CommitInv
<1>2. Lifecycle'
  BY <1>1 DEF Lifecycle, Sound, Scheduler
<1>3. users' \subseteq Process
  BY DEF Inv, TypeOK
<1>4. QED
  BY <1>1, <1>2, <1>3, Assembled

\* The processes stay as they are.
LEMMA ProcessesKept ==
  ASSUME Inv, UNCHANGED <<last, child, seen, report>>, program'.freed = program.freed
  PROVE  ProcessTypes' /\ Processes' /\ LastAlive' = LastAlive
<1>1. ProcessTypes /\ Processes
  BY DEF Inv, TypeOK, ProcessTypes
<1>2. ProcessTypes'
  BY <1>1 DEF ProcessTypes
<1>3. \A p \in Process : Recorded(p)' /\ (Busy(p)' <=> Busy(p))
  BY <1>1 DEF Processes, Recorded, Busy
<1>4. Processes'
  BY <1>1, <1>3 DEF Processes
<1>5. LastAlive' = LastAlive
  BY DEF LastAlive
<1>6. QED
  BY <1>2, <1>4, <1>5

\* An event that neither calls the scheduler nor touches a process.
LEMMA BystanderInv ==
  ASSUME Inv, UNCHANGED <<sch, last, child, seen, report>>,
         program' \in [loaded : BOOLEAN, freed : BOOLEAN, purged : BOOLEAN,
                       internal : BOOLEAN, external : BOOLEAN],
         program'.freed = program.freed, program'.loaded = program.loaded,
         users' \subseteq Process, connected' \in BOOLEAN, connected' => connected
  PROVE  Inv'
<1>1. ProcessTypes' /\ Processes' /\ LastAlive' = LastAlive
  BY ProcessesKept
<1>2. Sound(sch) /\ Triggered(sch) /\ sch.spawned = FALSE /\ Lifecycle
  BY DEF Inv, TypeOK
<1>3. Sound(sch)' /\ Triggered(sch)' /\ sch'.spawned = FALSE
  BY <1>1, <1>2 DEF Sound, Detached, Triggered
<1>4. Lifecycle'
  BY <1>2 DEF Lifecycle
<1>5. QED
  BY <1>1, <1>3, <1>4, Assembled

\* program_destroy(): the program is gone, a process that a session still refers
\* to stays and may go on reporting.
LEMMA FreeProgramInv ==
  ASSUME Inv, NEW e, FreeProgram(sch, e),
         program' \in [loaded : {TRUE}, freed : {TRUE}, purged : BOOLEAN,
                       internal : BOOLEAN, external : BOOLEAN],
         users' = users, connected' = connected
  PROVE  Inv'
<1> DEFINE c == Shutdown(sch, e)
<1>1. /\ Sound(c) /\ Triggered(c) /\ c.shutdown
      /\ c.waiting = sch.waiting /\ c.spawned = FALSE
  <2>1. Sound(sch) /\ sch.spawned = FALSE
    BY DEF Inv, TypeOK
  <2>2. QED
    BY <2>1, ShutdownSound
<1>2. sch' = [c EXCEPT !.timer = "idle", !.undisarmed = FALSE] /\ last' = None
  BY DEF FreeProgram
<1> HIDE DEF c
<1>3. /\ Sound(sch)' /\ sch'.spawned = FALSE /\ sch'.shutdown /\ Triggered(sch)'
      /\ sch'.timer = "idle"
  BY <1>1, <1>2 DEF Sound, Scheduler, Detached, Triggered, LastAlive
<1>4. ProcessTypes' /\ Processes'
  <2>1. CASE last = None \/ last \in users
    <3>1. UNCHANGED <<child, seen, report>>
      BY <2>1 DEF FreeProgram
    <3>2. ProcessTypes /\ Processes
      BY DEF Inv, TypeOK, ProcessTypes
    <3>3. \A p \in Process : Recorded(p)' /\ (Busy(p)' <=> Busy(p))
      BY <3>1, <3>2 DEF Processes, Recorded, Busy
    <3>4. program'.freed
      OBVIOUS
    <3>5. Processes'
      BY <1>2, <3>2, <3>3, <3>4 DEF Processes
    <3>6. QED
      BY <1>2, <3>1, <3>2, <3>5 DEF ProcessTypes
  <2>2. CASE last # None /\ last \notin users
    <3>1. last \in Process /\ DestroyProcess(last)
      BY <2>2 DEF FreeProgram, Inv, TypeOK
    <3>2. program'.freed
      OBVIOUS
    <3>3. QED
      BY <1>2, <3>1, <3>2, DestroyProcessInv
  <2>3. QED
    BY <2>1, <2>2
<1>5. Lifecycle'
  BY <1>3 DEF Lifecycle
<1>6. users' \subseteq Process /\ connected' \in BOOLEAN
  BY DEF Inv, TypeOK
<1>7. QED
  BY <1>3, <1>4, <1>5, <1>6, Assembled

\* program_purge() as far as the scheduler: it is shut down.
LEMMA ShutdownInv ==
  ASSUME Inv, NEW e, sch' = Shutdown(sch, e), UNCHANGED <<last, child, seen, report>>,
         program' \in [loaded : BOOLEAN, freed : {FALSE}, purged : BOOLEAN,
                       internal : BOOLEAN, external : BOOLEAN],
         ~ program.freed, users' = users, connected' = connected
  PROVE  Inv'
<1> DEFINE c == Shutdown(sch, e)
<1>1. /\ Sound(c) /\ Triggered(c) /\ c.shutdown /\ c.spawned = FALSE
  <2>1. Sound(sch) /\ sch.spawned = FALSE
    BY DEF Inv, TypeOK
  <2>2. QED
    BY <2>1, ShutdownSound
<1> HIDE DEF c
<1>2. program'.freed = program.freed
  <2>1. program.freed \in BOOLEAN
    BY DEF Inv, TypeOK
  <2>2. program'.freed = FALSE
    OBVIOUS
  <2>3. QED
    BY <2>1, <2>2
<1>3. ProcessTypes' /\ Processes' /\ LastAlive' = LastAlive
  BY <1>2, ProcessesKept
<1>4. sch' = c
  BY DEF c
<1>5. Sound(sch)' /\ Triggered(sch)' /\ sch'.spawned = FALSE /\ sch'.shutdown
  BY <1>1, <1>3, <1>4 DEF Sound, Detached, Triggered
<1>6. Lifecycle'
  BY <1>5 DEF Lifecycle
<1>7. users' \subseteq Process /\ connected' \in BOOLEAN
  BY DEF Inv, TypeOK
<1>8. QED
  BY <1>3, <1>5, <1>6, <1>7, Assembled

\* Facts of the state before an event that several events use.
LEMMA Before ==
  ASSUME Inv
  PROVE  /\ Sound(sch) /\ Triggered(sch) /\ sch.spawned = FALSE
         /\ sch.waiting \in BOOLEAN /\ sch.shutdown \in BOOLEAN
         /\ program \in [loaded : BOOLEAN, freed : BOOLEAN, purged : BOOLEAN,
                         internal : BOOLEAN, external : BOOLEAN]
         /\ users \subseteq Process /\ connected \in BOOLEAN
         /\ Serving => program.loaded /\ program.freed = FALSE
         /\ ~ program.loaded => program.freed = FALSE
         /\ connected /\ sch.waiting => sch.shutdown
<1>1. program \in [loaded : BOOLEAN, freed : BOOLEAN, purged : BOOLEAN,
                  internal : BOOLEAN, external : BOOLEAN]
  BY DEF Inv, TypeOK
<1>2. /\ Serving => program.loaded /\ program.freed = FALSE
      /\ ~ program.loaded => program.freed = FALSE
  BY <1>1 DEF Serving, Inv, Lifecycle
<1>3. sch.waiting \in BOOLEAN /\ sch.shutdown \in BOOLEAN /\ sch.spawned = FALSE
  BY DEF Inv, TypeOK
<1>4. QED
  BY <1>1, <1>2, <1>3 DEF Inv, TypeOK, Lifecycle

\* Updates of the scheduler, whatever they are caused by.
LEMMA UpdateInv ==
  ASSUME Inv, NEW e,
         \/ ProgramLoad(e) \/ ProgramDefine(e) \/ BrickdConnects(e)
         \/ SetCommand(e)
         \/ \E mode \in Mode, goOn \in BOOLEAN : SetSchedule(mode, goOn, e)
  PROVE  Inv'
<1>0. /\ Sound(sch) /\ Triggered(sch)
      /\ program \in [loaded : BOOLEAN, freed : BOOLEAN, purged : BOOLEAN,
                      internal : BOOLEAN, external : BOOLEAN]
      /\ connected \in BOOLEAN
      /\ Serving => program.loaded /\ program.freed = FALSE
      /\ ~ program.loaded => program.freed = FALSE
      /\ connected /\ sch.waiting => sch.shutdown
  BY Before
<1>1. CASE ProgramLoad(e) \/ ProgramDefine(e)
  <2> DEFINE c == Update(sch, TRUE, connected, e)
  <2>1. /\ Commit(c) /\ users' = users /\ connected' = connected /\ program.freed = FALSE
        /\ program' \in [loaded : BOOLEAN, freed : {FALSE}, purged : BOOLEAN,
                         internal : BOOLEAN, external : BOOLEAN]
    BY <1>0, <1>1 DEF ProgramLoad, ProgramDefine
  <2>2. Sound(c) /\ Triggered(c) /\ (connected /\ c.waiting => c.shutdown)
    BY <1>0, UpdateSound
  <2> HIDE DEF c
  <2>3. QED
    BY <1>0, <2>1, <2>2, HandlerInv
<1>2. CASE BrickdConnects(e)
  <2> DEFINE c == IF sch.waiting THEN Update(sch, TRUE, TRUE, e) ELSE sch
  <2>1. /\ Commit(c) /\ users' = users /\ connected' = TRUE /\ program' = program
        /\ program.freed = FALSE
    BY <1>0, <1>2 DEF BrickdConnects
  <2>2. Sound(c) /\ Triggered(c) /\ (c.waiting => c.shutdown)
    BY <1>0, UpdateSound
  <2>3. program' \in [loaded : BOOLEAN, freed : {FALSE}, purged : BOOLEAN,
                      internal : BOOLEAN, external : BOOLEAN]
    BY <1>0, <2>1
  <2> HIDE DEF c
  <2>4. QED
    BY <2>1, <2>2, <2>3, HandlerInv
<1>3. ASSUME NEW d, NEW tryStart \in BOOLEAN, Serving, Sound(d),
             d.shutdown = sch.shutdown, d.waiting = sch.waiting,
             tryStart \/ Triggered(d),
             Commit(Update(d, tryStart, connected, e)), UNCHANGED <<users, program, connected>>
      PROVE  Inv'
  <2> DEFINE c == Update(d, tryStart, connected, e)
  <2>1. ~ (connected /\ d.waiting) \/ d.shutdown
    BY <1>0, <1>3
  <2>2. d.shutdown => Triggered(d)
    BY <1>3 DEF Sound, Detached, Triggered
  <2>3. /\ Sound(c) /\ c.shutdown = d.shutdown
        /\ c.waiting = IF d.shutdown THEN d.waiting ELSE d.waiting /\ ~ connected
        /\ tryStart => Triggered(c)
        /\ Triggered(d) /\ ~ (connected /\ d.waiting) => Triggered(c)
    BY <1>0, <1>3, UpdateSound
  <2>4. d.shutdown => Triggered(c)
    BY <2>3 DEF Sound, Detached, Triggered
  <2>5. Triggered(c)
    BY <1>3, <2>1, <2>3, <2>4
  <2>6. connected' /\ c.waiting => c.shutdown
    BY <1>3, <2>3
  <2>7. program' \in [loaded : BOOLEAN, freed : {FALSE}, purged : BOOLEAN,
                      internal : BOOLEAN, external : BOOLEAN]
    BY <1>0, <1>3
  <2> HIDE DEF c
  <2>8. Commit(c) /\ users' = users /\ connected' \in BOOLEAN /\ ~ program.freed
    BY <1>0, <1>3 DEF c
  <2>9. QED
    BY <2>3, <2>5, <2>6, <2>7, <2>8, HandlerInv
<1>4. CASE SetCommand(e)
  BY <1>0, <1>3, <1>4 DEF SetCommand
<1>5. CASE \E mode \in Mode, goOn \in BOOLEAN : SetSchedule(mode, goOn, e)
  <2>1. PICK mode \in Mode, goOn \in BOOLEAN : SetSchedule(mode, goOn, e)
    BY <1>5
  <2> DEFINE d == [sch EXCEPT !.mode = mode, !.goOn = goOn]
  <2>2. Sound(d) /\ d.shutdown = sch.shutdown /\ d.waiting = sch.waiting
    BY <1>0 DEF Sound, Scheduler, Detached
  <2>3. /\ Serving /\ Commit(Update(d, TRUE, connected, e))
        /\ UNCHANGED <<users, program, connected>>
    BY <2>1 DEF SetSchedule
  <2> HIDE DEF d
  <2>4. QED
    BY <1>3, <2>2, <2>3
<1>6. QED
  BY <1>1, <1>2, <1>4, <1>5

\* Handlers that start the schedule or spawn a process.
LEMMA SpawnInv ==
  ASSUME Inv, NEW e,
         \/ HandleObserver(e) \/ HandleCron(e) \/ HandleTimer(e)
         \/ ContinueSchedule(e) \/ ProgramStart(e)
  PROVE  Inv'
<1>0. /\ Sound(sch) /\ Triggered(sch)
      /\ program \in [loaded : BOOLEAN, freed : BOOLEAN, purged : BOOLEAN,
                      internal : BOOLEAN, external : BOOLEAN]
      /\ connected \in BOOLEAN
      /\ Serving => program.freed = FALSE
      /\ connected /\ sch.waiting => sch.shutdown
  BY Before
<1>1. Serving /\ UNCHANGED <<users, program, connected>>
  BY DEF HandleObserver, HandleCron, HandleTimer, ContinueSchedule, ProgramStart
<1>2. program' \in [loaded : BOOLEAN, freed : {FALSE}, purged : BOOLEAN,
                    internal : BOOLEAN, external : BOOLEAN]
  BY <1>0, <1>1
<1>3. ASSUME NEW c, Sound(c), Triggered(c), Commit(c), c.waiting = sch.waiting,
             c.shutdown = sch.shutdown
      PROVE  Inv'
  BY <1>0, <1>1, <1>2, <1>3, HandlerInv
<1>4. CASE HandleObserver(e)
  <2> DEFINE a == AbortObserver(sch)
             c == IF sch.observer = "waiting" THEN Start(a, e) ELSE sch
  <2>1. Sound(a) /\ SameConfig(sch, a) /\ (sch.shutdown => Triggered(a))
    BY <1>0, AbortObserverSound DEF Sound, Detached, Triggered, SameConfig
  <2>2. /\ Sound(Start(a, e)) /\ SameConfig(a, Start(a, e))
        /\ a.shutdown => Start(a, e) = a
        /\ ~ a.shutdown => Triggered(Start(a, e))
    BY <2>1, StartSound
  <2>3. Commit(c)
    BY <1>4 DEF HandleObserver
  <2> HIDE DEF a
  <2>4. Sound(c) /\ Triggered(c) /\ c.waiting = sch.waiting /\ c.shutdown = sch.shutdown
    BY <1>0, <2>1, <2>2 DEF SameConfig
  <2> HIDE DEF c
  <2>5. QED
    BY <1>3, <2>3, <2>4
<1>5. ASSUME NEW d, Sound(d), SameConfig(sch, d), d.state = sch.state,
             d.crashed = sch.crashed, d.cron = sch.cron,
             d.timer = sch.timer \/ sch.timer # "interval",
             Commit(SpawnProcess(d, e))
      PROVE  Inv'
  <2> DEFINE c == SpawnProcess(d, e)
  <2>1. /\ Sound(c) /\ SameConfig(d, c)
        /\ c.state = "stopped" \/ c.state = d.state
        /\ c.state = "running" => /\ c.timer = d.timer /\ c.cron = d.cron
                                  /\ c.spawned \/ c.lost \/ LastAlive \/ c.crashed
    BY <1>5, SpawnProcessSound
  <2>2. Commit(c)
    BY <1>5
  <2> HIDE DEF c
  <2>4. ~ sch.crashed
    BY <1>1 DEF Serving
  <2>5. Triggered(c)
    BY <1>0, <1>5, <2>1, <2>4 DEF Triggered, SameConfig
  <2>6. QED
    BY <1>3, <1>5, <2>1, <2>2, <2>5 DEF SameConfig
<1>6. CASE HandleCron(e)
  <2>1. CASE sch.state = "running" /\ sch.mode = "cron"
    BY <1>0, <1>5, <1>6, <2>1 DEF HandleCron, SameConfig
  <2>2. CASE ~ (sch.state = "running" /\ sch.mode = "cron")
    <3>1. Commit(sch)
      BY <1>6, <2>2 DEF HandleCron
    <3>2. QED
      BY <1>0, <1>3, <3>1
  <2>3. QED
    BY <2>1, <2>2
<1>7. CASE HandleTimer(e)
  <2> DEFINE d == [sch EXCEPT !.timer = IF @ = "once" THEN "expired" ELSE @]
  <2>1. /\ Sound(d) /\ SameConfig(sch, d) /\ d.state = sch.state
        /\ d.crashed = sch.crashed /\ d.cron = sch.cron
        /\ sch.timer # "once" => d.timer = sch.timer
        /\ d.spawned = sch.spawned /\ d.lost = sch.lost
    BY <1>0 DEF Sound, Scheduler, Detached, SameConfig
  <2>2. Commit(IF d.state = "running" /\ d.mode \in {"always", "interval"}
               THEN SpawnProcess(d, e) ELSE d)
    BY <1>7 DEF HandleTimer
  <2> HIDE DEF d
  <2>3. CASE d.state = "running" /\ d.mode \in {"always", "interval"}
    BY <1>5, <2>1, <2>2, <2>3
  <2>4. CASE ~ (d.state = "running" /\ d.mode \in {"always", "interval"})
    <3>1. Commit(d)
      BY <2>2, <2>4
    <3>2. Triggered(d)
      BY <1>0, <2>1, <2>4 DEF Triggered, SameConfig
    <3>3. QED
      BY <1>3, <2>1, <3>1, <3>2 DEF SameConfig
  <2>5. QED
    BY <2>3, <2>4
<1>8. CASE ContinueSchedule(e)
  <2> DEFINE c == Start(sch, e)
  <2>1. Commit(c) /\ ~ sch.shutdown
    BY <1>8 DEF ContinueSchedule
  <2>2. Sound(c) /\ SameConfig(sch, c) /\ Triggered(c)
    BY <1>0, <2>1, StartSound
  <2> HIDE DEF c
  <2>3. QED
    BY <1>3, <2>1, <2>2 DEF SameConfig
<1>9. CASE ProgramStart(e)
  BY <1>0, <1>5, <1>9 DEF ProgramStart, SameConfig
<1>10. QED
  BY <1>4, <1>6, <1>7, <1>8, <1>9

\* A child that lives is the only busy process and its last report, if it is not
\* read yet, says so: one more report keeps the pipe in order.
LEMMA ChildChangesInv ==
  ASSUME Inv, NEW p \in Process, NEW s \in Status \ {"none"}, ChildChanges(p, s)
  PROVE  Inv'
<1>1. ProcessTypes /\ Processes
  BY DEF Inv, TypeOK, ProcessTypes
<1>2. /\ child[p] \in Living /\ Len(report[p]) < PipeSize
      /\ child' = [child EXCEPT ![p] = s]
      /\ report' = [report EXCEPT ![p] = Append(report[p], s)]
      /\ UNCHANGED <<sch, last, seen, users, program, connected>>
  BY DEF ChildChanges
<1>3. /\ report[p] \in Seq(Status) /\ report'[p] = Append(report[p], s)
      /\ child'[p] = s
      /\ \A q \in Process : q # p => report'[q] = report[q] /\ child'[q] = child[q]
  BY <1>1, <1>2 DEF ProcessTypes
<1>4. /\ Append(report[p], s) \in Seq(Status) /\ Append(report[p], s) # <<>>
      /\ Len(Append(report[p], s)) = Len(report[p]) + 1 /\ Len(report[p]) \in Nat
      /\ \A i \in 1..Len(report[p]) : Append(report[p], s)[i] = report[p][i]
      /\ Append(report[p], s)[Len(report[p]) + 1] = s
  BY <1>3, AppendProperties, LenProperties
<1>5. ProcessTypes'
  BY <1>1, <1>2, <1>3, <1>4, SchedulerAssumption DEF ProcessTypes
<1>6. \A q \in Process : Recorded(q)'
  <2> SUFFICES ASSUME NEW q \in Process
               PROVE  Recorded(q)'
    OBVIOUS
  <2>1. Recorded(p) /\ Recorded(q)
    BY <1>1 DEF Processes
  <2>2. CASE q = p
    <3>1. seen[p] \in Living
      BY <1>2, <2>1 DEF Recorded
    <3>2. \A i \in 1..Len(report[p]) : report[p][i] \in Living
      <4> SUFFICES ASSUME NEW i \in 1..Len(report[p])
                   PROVE  report[p][i] \in Living
        OBVIOUS
      <4>1. report[p] # <<>>
        BY <1>3
      <4>2. CASE i = Len(report[p])
        BY <1>2, <2>1, <4>1, <4>2 DEF Recorded
      <4>3. CASE i < Len(report[p])
        BY <2>1, <4>3 DEF Recorded
      <4>4. QED
        BY <1>4, <4>2, <4>3
    <3>3. \A i \in 1..Len(report'[p]) : /\ report'[p][i] # "none"
                                        /\ i < Len(report'[p]) => report'[p][i] \in Living
      BY <1>3, <1>4, <3>2 DEF Living
    <3>4. QED
      BY <1>2, <1>3, <1>4, <2>2, <3>1, <3>3 DEF Recorded, Living
  <2>3. CASE q # p
    BY <1>2, <1>3, <2>1, <2>3 DEF Recorded
  <2>4. QED
    BY <2>2, <2>3
<1>7. \A q \in Process : Busy(q)' => Busy(q)
  BY <1>2, <1>3 DEF Busy
<1>8. Processes'
  BY <1>1, <1>2, <1>6, <1>7 DEF Processes
<1>9. LastAlive' = LastAlive
  BY <1>2 DEF LastAlive
<1>10. Sound(sch)' /\ Triggered(sch)' /\ sch'.spawned = FALSE /\ Lifecycle'
  <2>1. Sound(sch) /\ Triggered(sch) /\ sch.spawned = FALSE /\ Lifecycle
    BY Before DEF Inv
  <2>2. QED
    BY <1>2, <1>9, <2>1 DEF Sound, Detached, Triggered, Lifecycle
<1>11. QED
  BY <1>2, <1>5, <1>8, <1>10, Before, Assembled

\* The event loop reads a report: it comes from the last process, unless the
\* program is freed.
LEMMA HandleStateChangeInv ==
  ASSUME Inv, NEW p \in Process, NEW e, HandleStateChange(p, e)
  PROVE  Inv'
<1>1. ProcessTypes /\ Processes
  BY DEF Inv, TypeOK, ProcessTypes
<1>2. /\ report[p] # <<>> /\ ~ sch.crashed
      /\ seen' = [seen EXCEPT ![p] = Head(report[p])]
      /\ report' = [report EXCEPT ![p] = Tail(report[p])]
      /\ UNCHANGED <<last, child, users, program, connected>>
  BY DEF HandleStateChange
<1>3. /\ report[p] \in Seq(Status) /\ report'[p] = Tail(report[p])
      /\ seen'[p] = Head(report[p])
      /\ \A q \in Process : q # p => report'[q] = report[q] /\ seen'[q] = seen[q]
  BY <1>1, <1>2 DEF ProcessTypes
<1>4. /\ Tail(report[p]) \in Seq(Status) /\ Head(report[p]) \in Status
      /\ Len(report[p]) \in Nat \ {0} /\ Len(Tail(report[p])) = Len(report[p]) - 1
      /\ \A i \in 1..Len(Tail(report[p])) : Tail(report[p])[i] = report[p][i + 1]
      /\ Head(report[p]) = report[p][1]
  BY <1>2, <1>3, HeadTailProperties, EmptySeq
<1>5. ProcessTypes'
  BY <1>1, <1>2, <1>3, <1>4, SchedulerAssumption DEF ProcessTypes
<1>6. \A q \in Process : Recorded(q)'
  <2> SUFFICES ASSUME NEW q \in Process
               PROVE  Recorded(q)'
    OBVIOUS
  <2>1. Recorded(p) /\ Recorded(q)
    BY <1>1 DEF Processes
  <2>2. CASE q = p
    <3> DEFINE r == report[p]
               t == Tail(report[p])
    <3>1. /\ r[Len(r)] = child[p]
          /\ \A i \in 1..Len(r) : r[i] # "none" /\ (i < Len(r) => r[i] \in Living)
      BY <1>2, <2>1 DEF Recorded
    <3>2. /\ t \in Seq(Status) /\ Len(r) \in Nat \ {0} /\ Len(t) = Len(r) - 1
          /\ \A i \in 1..Len(t) : t[i] = r[i + 1]
          /\ report'[q] = t /\ seen'[q] = r[1] /\ child'[q] = child[p]
      BY <1>2, <1>3, <1>4, <2>2
    <3> HIDE DEF r, t
    <3>3. r[1] # "none"
      BY <3>1, <3>2
    <3>4. \A i \in 1..Len(t) : t[i] # "none" /\ (i < Len(t) => t[i] \in Living)
      BY <3>1, <3>2
    <3>5. t = <<>> => child[p] = r[1]
      <4>1. t = <<>> => Len(r) = 1
        BY <3>2
      <4>2. QED
        BY <3>1, <4>1
    <3>6. t # <<>> => Len(t) > 0
      BY <3>2, EmptySeq
    <3>7. t # <<>> => r[1] \in Living /\ t[Len(t)] = child[p]
      BY <3>1, <3>2, <3>6
    <3>8. QED
      BY <3>2, <3>3, <3>4, <3>5, <3>7 DEF Recorded
  <2>3. CASE q # p
    BY <1>2, <1>3, <2>1, <2>3 DEF Recorded
  <2>4. QED
    BY <2>2, <2>3
<1>7. \A q \in Process : Busy(q)' => Busy(q)
  BY <1>2, <1>3 DEF Busy
<1>8. last # None => seen'[last] # "none"
  <2>1. report[p][1] # "none"
    BY <1>1, <1>4 DEF Processes, Recorded
  <2>2. QED
    BY <1>1, <1>3, <1>4, <2>1 DEF Processes, ProcessTypes
<1>9. Processes'
  BY <1>1, <1>2, <1>6, <1>7, <1>8 DEF Processes
<1>10. /\ Sound(sch) /\ Triggered(sch) /\ sch.spawned = FALSE /\ Lifecycle
       /\ users \subseteq Process /\ connected \in BOOLEAN
       /\ program \in [loaded : BOOLEAN, freed : BOOLEAN, purged : BOOLEAN,
                       internal : BOOLEAN, external : BOOLEAN]
  BY Before DEF Inv
<1>11. CASE ~ program.freed
  <2> DEFINE s == seen'[last]
             c == HandleProcessStateChange(sch, s, e)
  <2>1. p = last
    BY <1>1, <1>2, <1>11 DEF Processes, Busy
  <2>2. LastAlive /\ (LastAlive' <=> IsAlive(s))
    <3>1. seen[p] \in Living
      BY <1>1, <1>2 DEF Processes, Recorded
    <3>2. p # None
      BY SchedulerAssumption
    <3>3. QED
      BY <1>2, <2>1, <3>1, <3>2 DEF LastAlive, IsAlive, Living
  <2>3. sch' = c
    BY <1>11 DEF HandleStateChange
  <2> HIDE DEF s
  <2>4. /\ Sound(c) /\ SameConfig(sch, c)
        /\ c.spawned = sch.spawned /\ c.crashed = sch.crashed
        /\ IsAlive(s) => c = sch
        /\ c.state = "running" => /\ sch.state = "running" /\ c.cron = sch.cron
                                  /\ sch.mode # "always" => c.timer = sch.timer
                                  /\ sch.mode = "always" /\ ~ IsAlive(s) => c.timer = "once"
    BY <1>10, HandleProcessStateChangeSound
  <2> HIDE DEF c
  <2>5. Sound(sch)' /\ sch'.spawned = FALSE
    BY <1>10, <2>2, <2>3, <2>4 DEF Sound, Detached
  <2>6. Triggered(sch)'
    BY <1>10, <2>2, <2>3, <2>4 DEF Triggered, SameConfig
  <2>7. Lifecycle'
    BY <1>2, <1>10, <1>11, <2>3, <2>4 DEF Lifecycle, SameConfig
  <2>8. QED
    BY <1>2, <1>5, <1>9, <1>10, <2>5, <2>6, <2>7, Assembled
<1>12. CASE program.freed
  <2>1. sch' = sch \/ sch' = [sch EXCEPT !.crashed = TRUE]
    BY <1>12 DEF HandleStateChange
  <2>2. sch.shutdown /\ sch.state = "stopped"
    BY <1>10, <1>12 DEF Lifecycle, Sound, Detached
  <2>3. /\ sch' \in Scheduler
        /\ sch'.state = sch.state /\ sch'.cron = sch.cron
        /\ sch'.observer = sch.observer /\ sch'.observing = sch.observing
        /\ sch'.shutdown = sch.shutdown /\ sch'.waiting = sch.waiting
        /\ sch'.timer = sch.timer /\ sch'.undisarmed = sch.undisarmed
        /\ sch'.spawned = sch.spawned /\ sch'.lost = sch.lost
    BY <1>10, <2>1 DEF Sound, Scheduler
  <2>4. Sound(sch)' /\ sch'.spawned = FALSE
    <3>1. LastAlive' => LastAlive
      BY <1>1, <1>2, <1>3, SchedulerAssumption
         DEF LastAlive, IsAlive, Processes, Recorded, Living
    <3>2. QED
      BY <1>10, <2>3, <3>1 DEF Sound, Detached
  <2>5. Triggered(sch)'
    BY <2>2, <2>3 DEF Triggered
  <2>6. Lifecycle'
    BY <1>2, <1>10, <2>3 DEF Lifecycle
  <2>7. QED
    BY <1>2, <1>5, <1>9, <1>10, <2>4, <2>5, <2>6, Assembled
<1>13. QED
  BY <1>11, <1>12

\* A session gives up a process; one that is not the last is destroyed.
LEMMA ReleaseProcessInv ==
  ASSUME Inv, NEW p \in Process, ReleaseProcess(p)
  PROVE  Inv'
<1>1. UNCHANGED <<sch, last, program, connected>> /\ users' \subseteq users
  BY DEF ReleaseProcess
<1>2. /\ Sound(sch) /\ Triggered(sch) /\ sch.spawned = FALSE /\ Lifecycle
      /\ users \subseteq Process /\ connected \in BOOLEAN
      /\ program \in [loaded : BOOLEAN, freed : BOOLEAN, purged : BOOLEAN,
                      internal : BOOLEAN, external : BOOLEAN]
  BY Before DEF Inv
<1>3. CASE p = last
  BY <1>1, <1>2, <1>3, BystanderInv DEF ReleaseProcess
<1>4. CASE p # last
  <2>1. DestroyProcess(p)
    BY <1>4 DEF ReleaseProcess
  <2>2. ProcessTypes' /\ Processes'
    BY <1>1, <1>4, <2>1, DestroyProcessInv
  <2>3. last # None => seen'[last] = seen[last]
    BY <1>4, <2>1 DEF DestroyProcess, Inv, TypeOK
  <2>4. LastAlive' <=> LastAlive
    BY <1>1, <2>3 DEF LastAlive
  <2>5. Sound(sch)' /\ Triggered(sch)' /\ sch'.spawned = FALSE /\ Lifecycle'
    BY <1>1, <1>2, <2>4 DEF Sound, Detached, Triggered, Lifecycle
  <2>6. QED
    BY <1>1, <1>2, <2>2, <2>5, Assembled
<1>5. QED
  BY <1>3, <1>4

\* Operations on the program object itself.
LEMMA ProgramInv ==
  ASSUME Inv, NEW e, ReleaseProgram(e) \/ ProgramPurge(e)
  PROVE  Inv'
<1>0. /\ program \in [loaded : BOOLEAN, freed : BOOLEAN, purged : BOOLEAN,
                      internal : BOOLEAN, external : BOOLEAN]
      /\ users \subseteq Process /\ connected \in BOOLEAN
      /\ Serving => program.loaded /\ program.freed = FALSE
  BY Before
<1>1. Serving /\ UNCHANGED <<users, connected>>
  BY DEF ReleaseProgram, ProgramPurge
<1>2. CASE ReleaseProgram(e)
  <2>1. program' = [program EXCEPT !.external = FALSE, !.freed = ~ program.internal]
    BY <1>2 DEF ReleaseProgram
  <2>2. CASE program.internal
    BY <1>0, <1>1, <1>2, <2>1, <2>2, BystanderInv DEF ReleaseProgram
  <2>3. CASE ~ program.internal
    <3>1. program' \in [loaded : {TRUE}, freed : {TRUE}, purged : BOOLEAN,
                        internal : BOOLEAN, external : BOOLEAN]
      BY <1>0, <1>1, <2>1, <2>3
    <3>2. FreeProgram(sch, e)
      BY <1>2, <2>3 DEF ReleaseProgram
    <3>3. QED
      BY <1>1, <3>1, <3>2, FreeProgramInv
  <2>4. QED
    BY <2>2, <2>3
<1>3. CASE ProgramPurge(e) /\ program' = program
  <2>1. program' \in [loaded : BOOLEAN, freed : {FALSE}, purged : BOOLEAN,
                      internal : BOOLEAN, external : BOOLEAN]
    BY <1>0, <1>1, <1>3
  <2>2. "rename" \in e
    BY <1>0, <1>3 DEF ProgramPurge
  <2>3. sch' = Shutdown(sch, e) /\ UNCHANGED <<last, child, seen, report>>
    BY <1>3, <2>2 DEF ProgramPurge
  <2>4. QED
    BY <1>0, <1>1, <2>1, <2>3, ShutdownInv
<1>4. CASE ProgramPurge(e) /\ program' # program
  <2>1. /\ program' = [program EXCEPT !.purged = TRUE, !.internal = FALSE,
                                      !.freed = ~ program.external]
        /\ IF program.external
           THEN sch' = Shutdown(sch, e) /\ UNCHANGED <<last, child, seen, report>>
           ELSE FreeProgram(sch, e)
    BY <1>4 DEF ProgramPurge
  <2>2. CASE program.external
    <3>1. program' \in [loaded : BOOLEAN, freed : {FALSE}, purged : BOOLEAN,
                        internal : BOOLEAN, external : BOOLEAN]
      BY <1>0, <1>1, <2>1, <2>2
    <3>2. QED
      BY <1>0, <1>1, <2>1, <2>2, <3>1, ShutdownInv
  <2>3. CASE ~ program.external
    <3>1. program' \in [loaded : {TRUE}, freed : {TRUE}, purged : BOOLEAN,
                        internal : BOOLEAN, external : BOOLEAN]
      BY <1>0, <1>1, <2>1, <2>3
    <3>2. QED
      BY <1>1, <2>1, <2>3, <3>1, FreeProgramInv
  <2>4. QED
    BY <2>2, <2>3
<1>5. QED
  BY <1>2, <1>3, <1>4

-----------------------------------------------------------------------------
(* The theorems                                                            *)

\* The invariant holds of a program that was just created.
LEMMA InitInv == Init => Inv
<1> SUFFICES ASSUME Init
             PROVE  Inv
  OBVIOUS
<1>1. PICK mode \in Mode, goOn \in BOOLEAN, observer \in {"pending", "finished"} :
        sch = Created(mode, goOn, observer, ~ connected)
  BY DEF Init
<1>2. /\ sch \in Scheduler /\ Detached(sch) /\ sch.spawned = FALSE /\ sch.state = "stopped"
      /\ sch.waiting = ~ connected /\ sch.lost = FALSE
  BY <1>1 DEF Init, Created, Scheduler, Detached
<1>3. Sound(sch) /\ Triggered(sch)
  BY <1>2 DEF Sound, Triggered
<1>4. ProcessTypes
  <2>1. <<>> \in Seq(Status) /\ Len(<<>>) = 0 /\ PipeSize >= 0
    BY SchedulerAssumption
  <2>2. QED
    BY <2>1 DEF Init, ProcessTypes, Status
<1>5. Processes
  BY DEF Init, Processes, Recorded, Busy, Living
<1>6. /\ program \in [loaded : BOOLEAN, freed : BOOLEAN, purged : BOOLEAN,
                      internal : BOOLEAN, external : BOOLEAN]
      /\ ~ program.freed
  BY DEF Init
<1>7. Lifecycle
  BY <1>2, <1>6 DEF Lifecycle
<1>8. TypeOK
  <2>1. sch \in [state : {"stopped", "running"}, mode : Mode, goOn : BOOLEAN,
              observer : {"pending", "waiting", "finished"}, observing : BOOLEAN,
              shutdown : BOOLEAN, waiting : BOOLEAN,
              timer : {"idle", "once", "interval", "expired"},
              undisarmed : BOOLEAN, cron : BOOLEAN, ready : BOOLEAN,
              spawned : {FALSE}, lost : BOOLEAN, crashed : BOOLEAN]
    BY <1>2 DEF Scheduler
  <2>2. QED
    BY <1>4, <1>6, <2>1 DEF Init, TypeOK, ProcessTypes
<1>9. QED
  BY <1>3, <1>5, <1>7, <1>8 DEF Inv

\* Every step keeps the invariant: one lemma for each action.
LEMMA NextInv == Inv /\ [Next]_vars => Inv'
<1> SUFFICES ASSUME Inv, [Next]_vars
             PROVE  Inv'
  OBVIOUS
<1>0. /\ program \in [loaded : BOOLEAN, freed : BOOLEAN, purged : BOOLEAN,
                      internal : BOOLEAN, external : BOOLEAN]
      /\ users \subseteq Process /\ connected \in BOOLEAN
      /\ last \in Process \cup {None}
  BY Before DEF Inv, TypeOK
<1>1. CASE Event
  <2>1. CASE BrickdDisconnects
    BY <1>0, <2>1, BystanderInv DEF BrickdDisconnects
  <2>2. QED
    BY <1>1, <2>1, UpdateInv, SpawnInv DEF Event
<1>2. CASE Timer
  BY <1>2, SpawnInv DEF Timer
<1>3. CASE Reports
  BY <1>3, HandleStateChangeInv DEF Reports
<1>4. CASE Children
  BY <1>4, ChildChangesInv, ReleaseProcessInv DEF Children
<1>5. CASE User
  <2>1. CASE GetLastSpawnedProcess
    BY <1>0, <2>1, BystanderInv DEF GetLastSpawnedProcess
  <2>2. CASE GetProgram
    <3>1. program' = [program EXCEPT !.external = TRUE]
      BY <2>2 DEF GetProgram
    <3>2. QED
      BY <1>0, <2>2, <3>1, BystanderInv DEF GetProgram
  <2>3. CASE \E mode \in Mode, goOn \in BOOLEAN, e \in UpdateFaults : SetSchedule(mode, goOn, e)
    BY <2>3, UpdateInv
  <2>4. CASE \E e \in UpdateFaults : SetCommand(e) \/ SetStdioRedirection(e)
    BY <2>4, UpdateInv DEF SetStdioRedirection
  <2>5. CASE \E e \in StartFaults : ContinueSchedule(e) \/ ProgramStart(e)
    BY <2>5, SpawnInv
  <2>6. CASE \E e \in DisarmFaults : ReleaseProgram(e)
    BY <2>6, ProgramInv
  <2>7. CASE \E d \in DisarmFaults, r \in {{}, {"rename"}} : ProgramPurge(d \cup r)
    BY <2>7, ProgramInv
  <2>8. QED
    BY <1>5, <2>1, <2>2, <2>3, <2>4, <2>5, <2>6, <2>7 DEF User
<1>6. CASE UNCHANGED vars
  BY <1>0, <1>6, BystanderInv DEF vars
<1>7. QED
  BY <1>1, <1>2, <1>3, <1>4, <1>5, <1>6 DEF Next

\* The invariant holds in every state of the scheduler.
THEOREM Invariance == Spec => []Inv
  BY InitInv, NextInv, PTL DEF Spec

\* However timer, cron, observer, Brick Daemon, users and unread reports
\* interleave, a program never has two living children.
THEOREM OneChild == Spec => []AtMostOneChild
<1>1. Inv => AtMostOneChild
  BY DEF Inv, AtMostOneChild, Processes, Busy
<1>2. QED
  BY <1>1, Invariance, PTL

\* program_scheduler_handle_process_state_change() may look at the last spawned
\* process: no other one reports.
THEOREM ReportsAreFromLast == Spec => []OnlyLastReports
<1>1. Inv => OnlyLastReports
  BY DEF Inv, OnlyLastReports, Processes, Busy
<1>2. QED
  BY <1>1, Invariance, PTL

\* A stopped scheduler is in no list of cron and has no armed timer but one that
\* could not be disarmed; one that is shut down is in no list of the process
\* monitor either, and a freed one has no timer.
THEOREM StoppedDetached == Spec => []StoppedIsDetached
<1>1. Inv => StoppedIsDetached
  BY DEF Inv, StoppedIsDetached, Sound, Detached, Lifecycle
<1>2. QED
  BY <1>1, Invariance, PTL

\* A running scheduler never loses its trigger, whichever call fails.
THEOREM RunningTriggered == Spec => []RunningIsTriggered
<1>1. Inv => RunningIsTriggered
  <2> SUFFICES ASSUME Inv, sch.state = "running", ~ sch.waiting, ~ sch.crashed
               PROVE  CASE sch.mode = "never"    -> FALSE
                        [] sch.mode = "always"   ->
                             LastAlive \/ sch.timer \in {"once", "interval"} \/ sch.lost
                        [] sch.mode = "interval" -> sch.timer = "interval"
                        [] sch.mode = "cron"     -> sch.cron
    BY DEF RunningIsTriggered
  <2>1. /\ sch.mode \in Mode /\ sch.mode # "never"
        /\ sch.mode = "always"   => LastAlive \/ sch.timer \in {"once", "interval"} \/ sch.lost
        /\ sch.mode = "interval" => sch.timer = "interval"
        /\ sch.mode = "cron"     => sch.cron
    BY DEF Inv, TypeOK, Triggered
  <2>2. QED
    BY <2>1 DEF Mode
<1>2. QED
  BY <1>1, Invariance, PTL

\* The scheduler is still shut down and its timer was not armed meanwhile.
Rests(r) == r.shutdown /\ (r.timer \in {"once", "interval"} => r.timer = sch.timer)

\* No event takes back a shutdown.
LEMMA ShutdownKept ==
  ASSUME Inv, [Next]_vars, sch.shutdown
  PROVE  Rests(sch')
<1>0. Sound(sch) /\ Rests(sch)
  BY Before DEF Rests
<1>1. ASSUME NEW c, Commit(c), Sound(c), Rests(c)
      PROVE  Rests(sch')
  BY <1>1 DEF Commit, Rests, Sound, Scheduler
<1>2. ASSUME NEW mode \in Mode, NEW goOn \in BOOLEAN
      PROVE  LET d == [sch EXCEPT !.mode = mode, !.goOn = goOn] IN
             Sound(d) /\ Rests(d)
  BY <1>0 DEF Sound, Scheduler, Detached, Rests
<1>3. ASSUME NEW d, Rests(d), NEW tryStart, NEW conn, NEW e
      PROVE  Update(d, tryStart, conn, e) = d
  BY <1>3 DEF Update, Rests
<1>4. ASSUME NEW d, Sound(d), Rests(d), NEW e
      PROVE  /\ Sound(AbortObserver(d)) /\ Rests(AbortObserver(d))
             /\ Start(d, e) = d
             /\ Sound(SpawnProcess(d, e)) /\ Rests(SpawnProcess(d, e))
  BY <1>4, AbortObserverSound, StartSound, SpawnProcessSound DEF SameConfig, Rests
<1>5. CASE Event
  <2>1. ASSUME NEW e, ProgramLoad(e) \/ ProgramDefine(e)
        PROVE  Rests(sch')
    <3>1. Commit(Update(sch, TRUE, connected, e))
      BY <2>1 DEF ProgramLoad, ProgramDefine
    <3>2. QED
      BY <1>0, <1>1, <1>3, <3>1
  <2>2. ASSUME NEW e, BrickdConnects(e)
        PROVE  Rests(sch')
    <3>1. Commit(IF sch.waiting THEN Update(sch, TRUE, TRUE, e) ELSE sch)
      BY <2>2 DEF BrickdConnects
    <3>2. QED
      BY <1>0, <1>1, <1>3, <3>1
  <2>3. ASSUME NEW e, HandleObserver(e)
        PROVE  Rests(sch')
    <3>1. Commit(IF sch.observer = "waiting" THEN Start(AbortObserver(sch), e) ELSE sch)
      BY <2>3 DEF HandleObserver
    <3>2. Sound(AbortObserver(sch)) /\ Rests(AbortObserver(sch))
      BY <1>0, <1>4
    <3>3. Start(AbortObserver(sch), e) = AbortObserver(sch)
      BY <1>4, <3>2
    <3>4. QED
      BY <1>0, <1>1, <3>1, <3>2, <3>3
  <2>4. ASSUME NEW e, HandleCron(e)
        PROVE  Rests(sch')
    <3>1. Commit(SpawnProcess(sch, e)) \/ Commit(sch)
      BY <2>4 DEF HandleCron
    <3>2. QED
      BY <1>0, <1>1, <1>4, <3>1
  <2>5. CASE BrickdDisconnects
    BY <1>0, <2>5 DEF BrickdDisconnects
  <2>6. QED
    BY <1>5, <2>1, <2>2, <2>3, <2>4, <2>5 DEF Event
<1>6. ASSUME NEW e, HandleTimer(e)
      PROVE  Rests(sch')
  <2> DEFINE d == [sch EXCEPT !.timer = IF @ = "once" THEN "expired" ELSE @]
  <2>1. Sound(d) /\ Rests(d)
    BY <1>0 DEF Sound, Scheduler, Detached, Rests
  <2>2. Commit(IF d.state = "running" /\ d.mode \in {"always", "interval"}
               THEN SpawnProcess(d, e) ELSE d)
    BY <1>6 DEF HandleTimer
  <2> HIDE DEF d
  <2>3. QED
    BY <1>1, <1>4, <2>1, <2>2
<1>7. ASSUME NEW p \in Process, NEW e, HandleStateChange(p, e)
      PROVE  Rests(sch')
  <2>1. ~ program.freed => sch' = HandleProcessStateChange(sch, seen'[last], e)
    BY <1>7 DEF HandleStateChange
  <2>2. HandleProcessStateChange(sch, seen'[last], e) = sch
    BY <1>0 DEF HandleProcessStateChange, Sound, Detached
  <2>3. program.freed => sch' = sch \/ sch' = [sch EXCEPT !.crashed = TRUE]
    BY <1>7 DEF HandleStateChange
  <2>4. QED
    BY <1>0, <2>1, <2>2, <2>3 DEF Sound, Scheduler, Rests
<1>8. CASE Children
  BY <1>0, <1>8 DEF Children, ChildChanges, ReleaseProcess
<1>9. CASE User
  <2>1. ASSUME NEW mode \in Mode, NEW goOn \in BOOLEAN, NEW e, SetSchedule(mode, goOn, e)
        PROVE  Rests(sch')
    <3> DEFINE d == [sch EXCEPT !.mode = mode, !.goOn = goOn]
    <3>1. Sound(d) /\ Rests(d)
      BY <1>2
    <3>2. Commit(Update(d, TRUE, connected, e))
      BY <2>1 DEF SetSchedule
    <3> HIDE DEF d
    <3>3. QED
      BY <1>1, <1>3, <3>1, <3>2
  <2>2. ASSUME NEW e, SetCommand(e) \/ SetStdioRedirection(e)
        PROVE  Rests(sch')
    <3>1. Commit(Update(sch, FALSE, connected, e))
      BY <2>2 DEF SetStdioRedirection, SetCommand
    <3>2. QED
      BY <1>0, <1>1, <1>3, <3>1
  <2>3. ASSUME NEW e, ContinueSchedule(e) \/ ProgramStart(e)
        PROVE  Rests(sch')
    <3>1. Commit(Start(sch, e)) \/ Commit(SpawnProcess(sch, e))
      BY <2>3 DEF ContinueSchedule, ProgramStart
    <3>2. QED
      BY <1>0, <1>1, <1>4, <3>1
  <2>4. ASSUME NEW e, ReleaseProgram(e) \/ ProgramPurge(e)
        PROVE  Rests(sch')
    <3>1. Shutdown(sch, e) = sch
      BY DEF Shutdown
    <3>2. Rests([sch EXCEPT !.timer = "idle", !.undisarmed = FALSE])
      BY <1>0 DEF Sound, Scheduler, Rests
    <3>3. QED
      BY <1>0, <2>4, <3>1, <3>2 DEF ReleaseProgram, ProgramPurge, FreeProgram
  <2>5. CASE GetLastSpawnedProcess \/ GetProgram
    BY <1>0, <2>5 DEF GetLastSpawnedProcess, GetProgram
  <2>6. QED
    BY <1>9, <2>1, <2>2, <2>3, <2>4, <2>5 DEF User
<1>10. CASE UNCHANGED vars
  BY <1>0, <1>10 DEF vars
<1>11. QED
  BY <1>5, <1>6, <1>7, <1>8, <1>9, <1>10 DEF Next, Timer, Reports

\* After program_scheduler_shutdown() the schedule never runs again and gets no
\* cron entry, observer or armed timer, although program_start() still works on
\* the program.
THEOREM ShutdownStays == Spec => ShutdownIsFinal
<1> DEFINE Final ==
      sch.shutdown => /\ sch'.state = "stopped" /\ sch'.shutdown
                      /\ ~ sch'.cron /\ ~ sch'.observing
                      /\ sch'.timer \in {"once", "interval"} => sch'.timer = sch.timer
<1>1. Inv /\ [Next]_vars => [Final]_vars
  <2> SUFFICES ASSUME Inv, [Next]_vars, sch.shutdown
               PROVE  Final
    OBVIOUS
  <2>1. Inv' /\ Rests(sch')
    BY NextInv, ShutdownKept
  <2>2. QED
    BY <2>1 DEF Inv, Sound, Detached, Rests
<1> HIDE DEF Final
<1>2. Spec => [][Final]_vars
  BY <1>1, Invariance, PTL DEF Spec
<1>3. QED
  BY <1>2 DEF ShutdownIsFinal, Final
=============================================================================
