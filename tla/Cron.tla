-------------------------------- MODULE Cron --------------------------------
(***************************************************************************)
(* Cron based schedules (cron.c, socat.c, the cron half of network.c): the *)
(* daemon writes one file per program to /etc/cron.d, crond runs the       *)
(* command in it, which connects to the daemon with socat and sends a      *)
(* notification holding the cookie of the daemon instance that wrote the   *)
(* file and the program's object id.  The daemon can crash and be started  *)
(* again at any time; files and commands under way outlive it.             *)
(*                                                                         *)
(* crond, the files and the sockets are external and modelled from their   *)
(* use.  A schedule's fields are left out: a file is its cookie.           *)
(***************************************************************************)
EXTENDS Integers, FiniteSets

CONSTANTS
  Program,       \* object ids of programs
  Conn,          \* socat connections
  MaxInstance,   \* bound on daemon starts
  MaxFailures,   \* bound on unlinks and connections that fail
  Size,          \* sizeof(CronNotification) in pieces a read can return
  Garbage        \* can the uninitialised "entry" of cron_add_entry be non-NULL?

ASSUME CronAssumption ==
  /\ IsFiniteSet(Program)   \* object ids have 16 bits
  /\ MaxInstance \in Nat /\ MaxFailures \in Nat
  /\ Size \in Nat /\ Size >= 1
  /\ Garbage \in BOOLEAN

VARIABLES
  up,        \* the daemon runs
  instance,  \* daemon starts so far; the cookie of the current instance
  entries,   \* program ids in _entries
  active,    \* programs whose scheduler has cron_active set
  file,      \* cookie in the cron file of a program, 0 = no file
  jobs,      \* commands crond has started: [cookie, id]
  conn,      \* what a socat connection carries, how much of it was read
  notified,  \* notifications this instance passed to a program's scheduler
  failures   \* unlinks and connections that failed so far

vars == <<up, instance, entries, active, file, jobs, conn, notified, failures>>

Notification == [cookie : 1..MaxInstance, id : Program]

NoConn == [open |-> FALSE, used |-> 0, note |-> {}]

Init ==
  /\ up       = FALSE
  /\ instance = 0
  /\ entries  = {}
  /\ active   = {}
  /\ file     = [i \in Program |-> 0]
  /\ jobs     = {}
  /\ conn     = [c \in Conn |-> NoConn]
  /\ notified = {}
  /\ failures = 0

-----------------------------------------------------------------------------
(* cron.c                                                                  *)

\* unlink the files of the programs in ids; errors are non-fatal.
RemoveFiles(ids) ==
  \E kept \in SUBSET {i \in ids : file[i] # 0} :
    /\ failures + Cardinality(kept) <= MaxFailures
    /\ failures' = failures + Cardinality(kept)
    /\ file' = [i \in Program |-> IF i \in ids \ kept THEN 0 ELSE file[i]]

CronInit ==
  /\ ~ up
  /\ instance < MaxInstance
  /\ up' = TRUE
  /\ instance' = instance + 1   \* "different between two redapid starts"
  /\ RemoveFiles(Program)
  /\ UNCHANGED <<entries, active, jobs, conn, notified>>

\* Programs are destroyed before, with their entries and files; what is left
\* in /etc/cron.d is removed.
CronExit ==
  /\ up
  /\ up' = FALSE
  /\ entries' = {}
  /\ active'  = {}
  /\ conn' = [c \in Conn |-> NoConn]
  /\ notified' = {}
  /\ RemoveFiles(Program)
  /\ UNCHANGED <<instance, jobs>>

Crash ==
  /\ up
  /\ up' = FALSE
  /\ entries' = {}
  /\ active'  = {}
  /\ conn' = [c \in Conn |-> NoConn]
  /\ notified' = {}
  /\ UNCHANGED <<instance, file, jobs, failures>>

\* Faulty: the entry is kept when its file cannot be written.
CronAddFailedKeeping(i) ==
  /\ up
  /\ IF i \in active
     THEN RemoveFiles({i}) /\ entries' = entries \ {i}
     ELSE entries' = entries \cup {i} /\ UNCHANGED <<file, failures>>
  /\ active' = active \ {i}
  /\ UNCHANGED <<up, instance, jobs, conn, notified>>

\* cron_add_entry, as program_scheduler_start calls it (also for a schedule
\* that is active already).  With an empty array the search leaves "entry"
\* uninitialised: if it is not NULL by chance no entry is appended.
CronAdd(i) ==
  /\ up
  /\ \/ entries' = entries \cup {i}
     \/ Garbage /\ entries = {} /\ UNCHANGED entries
  /\ file'   = [file EXCEPT ![i] = instance]   \* temporary file, then rename
  /\ active' = active \cup {i}
  /\ UNCHANGED <<up, instance, jobs, conn, notified, failures>>

\* cron_add_entry fails: an entry it appended is removed again; the error
\* stops the schedule, which removes the entry of an active one.
CronAddFailed(i) ==
  /\ up
  /\ IF i \in active
     THEN RemoveFiles({i}) /\ entries' = entries \ {i}
     ELSE UNCHANGED <<entries, file, failures>>
  /\ active' = active \ {i}
  /\ UNCHANGED <<up, instance, jobs, conn, notified>>

\* cron_remove_entry, when an active schedule stops.
CronRemove(i) ==
  /\ up
  /\ i \in active
  /\ RemoveFiles({i})
  /\ entries' = entries \ {i}
  /\ active'  = active \ {i}
  /\ UNCHANGED <<up, instance, jobs, conn, notified>>

\* Faulty: notifications of any instance reach the entry.
HandleNotificationAnyCookie(n) ==
  IF n.id \in entries
  THEN notified' = notified \cup {n} /\ UNCHANGED <<file, failures>>
  ELSE RemoveFiles({n.id}) /\ UNCHANGED notified

\* Faulty: a notification for an unknown program is ignored.
HandleNotificationIgnoring(n) ==
  IF n.cookie # instance
  THEN RemoveFiles({n.id}) /\ UNCHANGED notified
  ELSE notified' = notified \cup ({n} \cap [cookie : {instance}, id : entries])
       /\ UNCHANGED <<file, failures>>

\* cron_handle_notification; the entry's function spawns the program's
\* process (ProgramScheduler).
HandleNotification(n) ==
  IF n.cookie = instance /\ n.id \in entries
  THEN notified' = notified \cup {n} /\ UNCHANGED <<file, failures>>
  ELSE RemoveFiles({n.id}) /\ UNCHANGED notified

-----------------------------------------------------------------------------
(* crond and socat                                                         *)

\* crond starts the command of a cron file.
Fire(i) ==
  /\ file[i] # 0
  /\ jobs' = jobs \cup {[cookie |-> file[i], id |-> i]}
  /\ UNCHANGED <<up, instance, entries, active, file, conn, notified, failures>>

\* The command finds no daemon to connect to.
JobFails(n) ==
  /\ ~ up
  /\ n \in jobs
  /\ jobs' = jobs \ {n}
  /\ UNCHANGED <<up, instance, entries, active, file, conn, notified, failures>>

\* network_handle_cron_accept and socat_create
Accept(c, n) ==
  /\ up
  /\ n \in jobs
  /\ ~ conn[c].open
  /\ jobs' = jobs \ {n}
  /\ conn' = [conn EXCEPT ![c] = [open |-> TRUE, used |-> 0, note |-> {n}]]
  /\ UNCHANGED <<up, instance, entries, active, file, notified, failures>>

\* socat_handle_receive with k more pieces; after a complete notification the
\* connection is closed (network_cleanup_brickd_and_socats, same round).
Receive(c, k) ==
  /\ up
  /\ conn[c].open
  /\ conn[c].used + k <= Size
  /\ IF conn[c].used + k < Size
     THEN /\ conn' = [conn EXCEPT ![c].used = @ + k]
          /\ UNCHANGED <<file, notified, failures>>
     ELSE /\ conn' = [conn EXCEPT ![c] = NoConn]
          /\ \A n \in conn[c].note : HandleNotification(n)
  /\ UNCHANGED <<up, instance, entries, active, jobs>>

\* The peer closes early, or reading fails.
Disconnect(c) ==
  /\ up
  /\ conn[c].open
  /\ failures < MaxFailures
  /\ failures' = failures + 1
  /\ conn' = [conn EXCEPT ![c] = NoConn]
  /\ UNCHANGED <<up, instance, entries, active, file, jobs, notified>>

-----------------------------------------------------------------------------
Connected(n) == \E c \in Conn : Accept(c, n)
Received(c)  == \E k \in 1..Size : Receive(c, k)

Next ==
  \/ CronInit \/ CronExit \/ Crash
  \/ \E i \in Program : CronAdd(i) \/ CronAddFailed(i) \/ CronRemove(i)
  \/ \E i \in Program : Fire(i)
  \/ \E n \in Notification : JobFails(n) \/ Connected(n)
  \/ \E c \in Conn : Received(c) \/ Disconnect(c)

Spec == Init /\ [][Next]_vars

\* crond runs the command of every file again and again, the listening socket
\* serves connections in order, and what socat sent arrives.
FairSpec ==
  /\ Spec
  /\ \A i \in Program : WF_vars(Fire(i))
  /\ \A n \in Notification : SF_vars(Connected(n))
  /\ \A c \in Conn : WF_vars(Received(c))

-----------------------------------------------------------------------------
TypeOK ==
  /\ up \in BOOLEAN
  /\ instance \in 0..MaxInstance
  /\ entries \subseteq Program
  /\ active \subseteq Program
  /\ file \in [Program -> 0..MaxInstance]
  /\ jobs \subseteq Notification
  /\ conn \in [Conn -> [open : BOOLEAN, used : 0..(Size - 1), note : SUBSET Notification]]
  /\ notified \subseteq Notification
  /\ failures \in 0..MaxFailures

\* An entry holds a pointer to a scheduler: it exists only while that
\* scheduler is cron_active and will remove it, over every failing add and
\* update of a schedule.
EntriesAreActive == TypeOK /\ entries \subseteq active

\* "cron notifications are only handled if they originate from cron files that
\* were written by the current redapid instance" (cron.c:155-157), and only
\* for a schedule that is still active when the notification is complete.
NotifiedByOwnFile ==
  [][\A n \in notified' \ notified : n.cookie = instance /\ n.id \in active]_vars

\* A file that belongs to no schedule of the running daemon (its unlink failed,
\* or an earlier instance left it) disappears: sooner or later it notifies
\* the daemon, which removes it.
OrphansVanish ==
  \A i \in Program : (up /\ file[i] # 0 /\ i \notin active)
                        ~> (file[i] = 0 \/ i \in active \/ ~ up)

\* "... with cookie mismatch ..., removing corresponding cron file"
\* (cron.c:346): the file removed is the one the notification came from, so
\* the file of an active schedule stays in place.
ActiveHasFile == \A i \in active : file[i] = instance
=============================================================================
