----------------------------- MODULE CronProofs -----------------------------
(***************************************************************************)
(* The safety properties of Cron for any set of programs, any number of    *)
(* connections, daemon instances and failures, and whether or not the      *)
(* uninitialised variable of cron_add_entry() happens to be NULL.          *)
(***************************************************************************)
EXTENDS Cron, FiniteSetTheorems, TLAPS

\* A connection that is open carries one notification: what is done when it
\* is complete is done for that one.
OneNotification == \A c \in Conn : conn[c].open => \E n \in Notification : conn[c].note = {n}

Inv == TypeOK /\ entries \subseteq active /\ OneNotification

-----------------------------------------------------------------------------
(* Parts of several steps                                                  *)

\* Removing files keeps the rest of them, and counts failures to the bound.
LEMMA RemoveFilesType ==
  ASSUME TypeOK, NEW ids \in SUBSET Program, RemoveFiles(ids)
  PROVE  file' \in [Program -> 0..MaxInstance] /\ failures' \in 0..MaxFailures
<1>1. PICK kept \in SUBSET {i \in ids : file[i] # 0} :
        /\ failures + Cardinality(kept) <= MaxFailures
        /\ failures' = failures + Cardinality(kept)
        /\ file' = [i \in Program |-> IF i \in ids \ kept THEN 0 ELSE file[i]]
  BY DEF RemoveFiles
<1>2. Cardinality(kept) \in Nat
  BY CronAssumption, FS_Subset, FS_CardinalityType
<1>3. failures' \in 0..MaxFailures
  BY <1>1, <1>2, CronAssumption DEF TypeOK
<1>4. file' \in [Program -> 0..MaxInstance]
  BY <1>1, CronAssumption DEF TypeOK
<1> QED
  BY <1>3, <1>4

\* A connection that is closed carries nothing.
LEMMA NoConnType ==
  NoConn \in [open : BOOLEAN, used : 0..(Size - 1), note : SUBSET Notification] /\ ~ NoConn.open
BY CronAssumption DEF NoConn

\* Stopping the daemon drops everything it holds.
LEMMA StopInv ==
  ASSUME Inv, up' = FALSE, entries' = {}, active' = {}, conn' = [c \in Conn |-> NoConn],
         notified' = {}, instance' = instance, jobs' = jobs,
         file' \in [Program -> 0..MaxInstance], failures' \in 0..MaxFailures
  PROVE  Inv'
<1>1. conn' \in [Conn -> [open : BOOLEAN, used : 0..(Size - 1), note : SUBSET Notification]]
  BY NoConnType
<1>2. TypeOK'
  BY <1>1 DEF Inv, TypeOK
<1>3. OneNotification'
  BY NoConnType DEF OneNotification
<1> QED
  BY <1>2, <1>3 DEF Inv

\* A step that leaves the connections alone, and adds no entry without an
\* active schedule.
LEMMA ScheduleInv ==
  ASSUME Inv, up' \in BOOLEAN, instance' \in 0..MaxInstance, jobs' \subseteq Notification,
         conn' = conn, notified' = notified,
         entries' \subseteq Program, active' \subseteq Program, entries' \subseteq active',
         file' \in [Program -> 0..MaxInstance], failures' \in 0..MaxFailures
  PROVE  Inv'
<1>1. TypeOK'
  BY DEF Inv, TypeOK
<1>2. OneNotification'
  BY DEF Inv, OneNotification
<1> QED
  BY <1>1, <1>2 DEF Inv

-----------------------------------------------------------------------------
(* One lemma per operation                                                 *)

\* The daemon starts.
LEMMA CronInitInv ==
  ASSUME Inv, CronInit
  PROVE  Inv'
<1>1. file' \in [Program -> 0..MaxInstance] /\ failures' \in 0..MaxFailures
  BY RemoveFilesType DEF CronInit, Inv
<1>2. instance' \in 0..MaxInstance /\ up' \in BOOLEAN
  BY CronAssumption DEF CronInit, Inv, TypeOK
<1>3. UNCHANGED <<entries, active, jobs, conn, notified>>
  BY DEF CronInit
<1> QED
  BY <1>1, <1>2, <1>3, ScheduleInv DEF Inv, TypeOK

\* The daemon ends, or dies.
LEMMA CronExitInv ==
  ASSUME Inv, CronExit \/ Crash
  PROVE  Inv'
<1>1. CASE CronExit
  <2>1. file' \in [Program -> 0..MaxInstance] /\ failures' \in 0..MaxFailures
    BY <1>1, RemoveFilesType DEF CronExit, Inv
  <2> QED
    BY <1>1, <2>1, StopInv DEF CronExit
<1>2. CASE Crash
  <2>1. file' \in [Program -> 0..MaxInstance] /\ failures' \in 0..MaxFailures
    BY <1>2 DEF Crash, Inv, TypeOK
  <2> QED
    BY <1>2, <2>1, StopInv DEF Crash
<1> QED
  BY <1>1, <1>2

\* cron_add_entry(), with or without an entry appended
LEMMA CronAddInv ==
  ASSUME Inv, NEW i \in Program, CronAdd(i)
  PROVE  Inv'
<1>1. /\ active' = active \cup {i} /\ file' = [file EXCEPT ![i] = instance]
      /\ UNCHANGED <<up, instance, jobs, conn, notified, failures>>
      /\ entries' = entries \cup {i} \/ entries' = entries
  BY DEF CronAdd
<1>2. entries' \subseteq Program /\ active' \subseteq Program /\ entries' \subseteq active'
  BY <1>1 DEF Inv, TypeOK
<1>3. file' \in [Program -> 0..MaxInstance]
  BY <1>1 DEF Inv, TypeOK
<1> QED
  BY <1>1, <1>2, <1>3, ScheduleInv DEF Inv, TypeOK

\* A failing cron_add_entry() of a schedule that is active removes its entry,
\* together with the flag.
LEMMA CronAddFailedInv ==
  ASSUME Inv, NEW i \in Program, CronAddFailed(i)
  PROVE  Inv'
<1>1. active' = active \ {i} /\ UNCHANGED <<up, instance, jobs, conn, notified>>
  BY DEF CronAddFailed
<1>2. CASE i \in active
  <2>1. RemoveFiles({i}) /\ entries' = entries \ {i}
    BY <1>2 DEF CronAddFailed
  <2>2. file' \in [Program -> 0..MaxInstance] /\ failures' \in 0..MaxFailures
    BY <2>1, RemoveFilesType DEF Inv
  <2>3. entries' \subseteq Program /\ active' \subseteq Program /\ entries' \subseteq active'
    BY <1>1, <2>1 DEF Inv, TypeOK
  <2> QED
    BY <1>1, <2>2, <2>3, ScheduleInv DEF Inv, TypeOK
<1>3. CASE i \notin active
  <2>1. UNCHANGED <<entries, file, failures>>
    BY <1>3 DEF CronAddFailed
  <2>2. entries' \subseteq Program /\ active' \subseteq Program /\ entries' \subseteq active'
    BY <1>1, <1>3, <2>1 DEF Inv, TypeOK
  <2> QED
    BY <1>1, <2>1, <2>2, ScheduleInv DEF Inv, TypeOK
<1> QED
  BY <1>2, <1>3

\* cron_remove_entry()
LEMMA CronRemoveInv ==
  ASSUME Inv, NEW i \in Program, CronRemove(i)
  PROVE  Inv'
<1>1. /\ RemoveFiles({i}) /\ entries' = entries \ {i} /\ active' = active \ {i}
      /\ UNCHANGED <<up, instance, jobs, conn, notified>>
  BY DEF CronRemove
<1>2. file' \in [Program -> 0..MaxInstance] /\ failures' \in 0..MaxFailures
  BY <1>1, RemoveFilesType DEF Inv
<1>3. entries' \subseteq Program /\ active' \subseteq Program /\ entries' \subseteq active'
  BY <1>1 DEF Inv, TypeOK
<1> QED
  BY <1>1, <1>2, <1>3, ScheduleInv DEF Inv, TypeOK

\* Commands of crond come and go.
LEMMA JobsInv ==
  ASSUME Inv, (\E i \in Program : Fire(i)) \/ (\E n \in Notification : JobFails(n))
  PROVE  Inv'
<1>1. UNCHANGED <<up, instance, entries, active, file, conn, notified, failures>>
  BY DEF Fire, JobFails
<1>2. jobs' \subseteq Notification
  <2>1. ASSUME NEW i \in Program, Fire(i) PROVE jobs' \subseteq Notification
    <3>1. file[i] \in 1..MaxInstance
      BY <2>1, CronAssumption DEF Fire, Inv, TypeOK
    <3>2. [cookie |-> file[i], id |-> i] \in Notification
      BY <3>1 DEF Notification
    <3> QED
      BY <2>1, <3>2 DEF Fire, Inv, TypeOK
  <2>2. ASSUME NEW n \in Notification, JobFails(n) PROVE jobs' \subseteq Notification
    BY <2>2 DEF JobFails, Inv, TypeOK
  <2> QED
    BY <2>1, <2>2
<1> QED
  BY <1>1, <1>2, ScheduleInv DEF Inv, TypeOK

\* A connection opens or closes, or another piece of it arrives.
LEMMA ConnectionInv ==
  ASSUME Inv, NEW c \in Conn,
         NEW new \in [open : BOOLEAN, used : 0..(Size - 1), note : SUBSET Notification],
         new.open => \E n \in Notification : new.note = {n},
         conn' = [conn EXCEPT ![c] = new],
         UNCHANGED <<up, instance, entries, active>>, jobs' \subseteq Notification,
         notified' \subseteq Notification,
         file' \in [Program -> 0..MaxInstance], failures' \in 0..MaxFailures
  PROVE  Inv'
<1>1. conn' \in [Conn -> [open : BOOLEAN, used : 0..(Size - 1), note : SUBSET Notification]]
  BY DEF Inv, TypeOK
<1>2. TypeOK'
  BY <1>1 DEF Inv, TypeOK
<1>3. OneNotification'
  BY DEF Inv, TypeOK, OneNotification
<1> QED
  BY <1>2, <1>3 DEF Inv

\* network_handle_cron_accept: a new connection carries one command that crond ran.
LEMMA AcceptInv ==
  ASSUME Inv, NEW c \in Conn, NEW n \in Notification, Accept(c, n)
  PROVE  Inv'
<1> DEFINE new == [open |-> TRUE, used |-> 0, note |-> {n}]
<1>1. /\ new \in [open : BOOLEAN, used : 0..(Size - 1), note : SUBSET Notification]
      /\ new.note = {n}
  BY CronAssumption
<1>2. /\ conn' = [conn EXCEPT ![c] = new] /\ jobs' = jobs \ {n}
      /\ UNCHANGED <<up, instance, entries, active, file, notified, failures>>
  BY DEF Accept
<1> HIDE DEF new
<1>3. /\ jobs' \subseteq Notification /\ notified' \subseteq Notification
      /\ file' \in [Program -> 0..MaxInstance] /\ failures' \in 0..MaxFailures
  BY <1>2 DEF Inv, TypeOK
<1> QED
  BY <1>1, <1>2, <1>3, ConnectionInv

\* What the handler of a complete notification does.
LEMMA HandleNotificationType ==
  ASSUME Inv, NEW n \in Notification, HandleNotification(n)
  PROVE  /\ notified' \subseteq Notification
         /\ file' \in [Program -> 0..MaxInstance] /\ failures' \in 0..MaxFailures
         /\ \A m \in notified' \ notified : m.cookie = instance /\ m.id \in active
<1>1. CASE n.cookie = instance /\ n.id \in entries
  <2>1. notified' = notified \cup {n} /\ UNCHANGED <<file, failures>>
    BY <1>1 DEF HandleNotification
  <2> QED
    BY <1>1, <2>1 DEF Inv, TypeOK
<1>2. CASE ~ (n.cookie = instance /\ n.id \in entries)
  <2>1. RemoveFiles({n.id}) /\ notified' = notified
    BY <1>2 DEF HandleNotification
  <2>2. n.id \in Program
    BY DEF Notification
  <2>3. file' \in [Program -> 0..MaxInstance] /\ failures' \in 0..MaxFailures
    BY <2>1, <2>2, RemoveFilesType DEF Inv
  <2> QED
    BY <2>1, <2>3 DEF Inv, TypeOK
<1> QED
  BY <1>1, <1>2

\* socat_handle_receive(): a piece, or the last one.
LEMMA ReceiveInv ==
  ASSUME Inv, NEW c \in Conn, NEW k \in 1..Size, Receive(c, k)
  PROVE  /\ Inv'
         /\ \A m \in notified' \ notified : m.cookie = instance /\ m.id \in active
<1>1. conn[c].open /\ UNCHANGED <<up, instance, entries, active, jobs>>
  BY DEF Receive
<1>2. PICK n \in Notification : conn[c].note = {n}
  BY <1>1 DEF Inv, OneNotification
<1>3. /\ conn[c] \in [open : BOOLEAN, used : 0..(Size - 1), note : SUBSET Notification]
      /\ jobs' \subseteq Notification
  BY <1>1 DEF Inv, TypeOK
<1>4. CASE conn[c].used + k < Size
  <2> DEFINE new == [conn[c] EXCEPT !.used = @ + k]
  <2>1. conn' = [conn EXCEPT ![c] = new] /\ UNCHANGED <<file, notified, failures>>
    BY <1>4 DEF Receive
  <2>2. /\ new \in [open : BOOLEAN, used : 0..(Size - 1), note : SUBSET Notification]
        /\ new.note = {n}
    BY <1>2, <1>3, <1>4, CronAssumption
  <2> HIDE DEF new
  <2>3. /\ notified' \subseteq Notification
        /\ file' \in [Program -> 0..MaxInstance] /\ failures' \in 0..MaxFailures
    BY <2>1 DEF Inv, TypeOK
  <2>4. Inv'
    BY <1>1, <1>3, <2>1, <2>2, <2>3, ConnectionInv
  <2> QED
    BY <2>1, <2>4
<1>5. CASE ~ (conn[c].used + k < Size)
  <2>1. conn' = [conn EXCEPT ![c] = NoConn] /\ HandleNotification(n)
    BY <1>2, <1>5 DEF Receive
  <2>2. /\ notified' \subseteq Notification
        /\ file' \in [Program -> 0..MaxInstance] /\ failures' \in 0..MaxFailures
        /\ \A m \in notified' \ notified : m.cookie = instance /\ m.id \in active
    BY <2>1, HandleNotificationType
  <2>3. Inv'
    BY <1>1, <1>3, <2>1, <2>2, NoConnType, ConnectionInv
  <2> QED
    BY <2>2, <2>3
<1> QED
  BY <1>4, <1>5

\* A connection that breaks loses its commands; nothing else moves.
LEMMA DisconnectInv ==
  ASSUME Inv, NEW c \in Conn, Disconnect(c)
  PROVE  Inv'
<1>1. /\ conn' = [conn EXCEPT ![c] = NoConn] /\ failures' = failures + 1 /\ failures < MaxFailures
      /\ UNCHANGED <<up, instance, entries, active, file, jobs, notified>>
  BY DEF Disconnect
<1>2. failures' \in 0..MaxFailures
  BY <1>1, CronAssumption DEF Inv, TypeOK
<1>3. /\ jobs' \subseteq Notification /\ notified' \subseteq Notification
      /\ file' \in [Program -> 0..MaxInstance]
  BY <1>1 DEF Inv, TypeOK
<1> QED
  BY <1>1, <1>2, <1>3, NoConnType, ConnectionInv

-----------------------------------------------------------------------------
(* The theorems                                                            *)

\* The daemon was never started.
LEMMA InitInv == Init => Inv
<1> SUFFICES ASSUME Init PROVE Inv
  OBVIOUS
<1>1. conn \in [Conn -> [open : BOOLEAN, used : 0..(Size - 1), note : SUBSET Notification]]
  BY NoConnType DEF Init
<1>2. up \in BOOLEAN /\ entries = {} /\ active = {} /\ jobs = {} /\ notified = {}
  BY DEF Init
<1>3. /\ file \in [Program -> 0..MaxInstance]
      /\ instance \in 0..MaxInstance /\ failures \in 0..MaxFailures
  BY CronAssumption DEF Init
<1>4. TypeOK
  BY <1>1, <1>2, <1>3 DEF TypeOK
<1>5. OneNotification
  BY NoConnType DEF Init, OneNotification
<1> QED
  BY <1>2, <1>4, <1>5 DEF Inv

\* Every step keeps the invariant, and notifies only active schedules of
\* files the running instance wrote.
LEMMA NextInv ==
  ASSUME Inv, [Next]_vars
  PROVE  /\ Inv'
         /\ \A m \in notified' \ notified : m.cookie = instance /\ m.id \in active
<1>1. CASE CronInit
  BY <1>1, CronInitInv DEF CronInit
<1>2. CASE CronExit \/ Crash
  BY <1>2, CronExitInv DEF CronExit, Crash
<1>3. ASSUME NEW i \in Program, CronAdd(i) PROVE Inv' /\ notified' = notified
  BY <1>3, CronAddInv DEF CronAdd
<1>4. ASSUME NEW i \in Program, CronAddFailed(i) PROVE Inv' /\ notified' = notified
  BY <1>4, CronAddFailedInv DEF CronAddFailed
<1>5. ASSUME NEW i \in Program, CronRemove(i) PROVE Inv' /\ notified' = notified
  BY <1>5, CronRemoveInv DEF CronRemove
<1>6. CASE (\E i \in Program : Fire(i)) \/ (\E n \in Notification : JobFails(n))
  <2>1. notified' = notified
    BY <1>6 DEF Fire, JobFails
  <2> QED
    BY <1>6, <2>1, JobsInv
<1>7. ASSUME NEW n \in Notification, Connected(n) PROVE Inv' /\ notified' = notified
  BY <1>7, AcceptInv DEF Connected, Accept
<1>8. ASSUME NEW c \in Conn, Received(c)
      PROVE  /\ Inv'
             /\ \A m \in notified' \ notified : m.cookie = instance /\ m.id \in active
  BY <1>8, ReceiveInv DEF Received
<1>9. ASSUME NEW c \in Conn, Disconnect(c) PROVE Inv' /\ notified' = notified
  BY <1>9, DisconnectInv DEF Disconnect
<1>10. CASE UNCHANGED vars
  BY <1>10 DEF vars, Inv, TypeOK, OneNotification
<1> QED
  BY <1>1, <1>2, <1>3, <1>4, <1>5, <1>6, <1>7, <1>8, <1>9, <1>10 DEF Next

\* Over starts, crashes, failing adds and removals.
THEOREM Invariance == Spec => []Inv
<1>1. Inv /\ [Next]_vars => Inv'
  BY NextInv
<1> QED
  BY <1>1, InitInv, PTL DEF Spec

\* No entry of cron.c outlives the cron_active flag of its scheduler, so no
\* notification is passed to a scheduler that does not expect it.
THEOREM EntriesActive == Spec => []EntriesAreActive
<1>1. Inv => EntriesAreActive
  BY DEF Inv, EntriesAreActive
<1> QED
  BY <1>1, Invariance, PTL

\* cron_handle_notification() passes on only notifications of this instance's
\* files, and only for a schedule that is active at that moment.
THEOREM NotifiedByOwn == Spec => NotifiedByOwnFile
<1>1. Inv /\ [Next]_vars
        => [\A n \in notified' \ notified : n.cookie = instance /\ n.id \in active]_vars
  BY NextInv
<1> QED
  BY <1>1, Invariance, PTL DEF Spec, NotifiedByOwnFile
=============================================================================
