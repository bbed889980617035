------------------------ MODULE ProcessMonitorProofs ------------------------
(***************************************************************************)
(* The safety properties of ProcessMonitor for any set of programs, any    *)
(* timeout and any search interval.                                        *)
(***************************************************************************)
EXTENDS ProcessMonitor, SequenceTheorems, TLAPS

-----------------------------------------------------------------------------
(* The inductive invariant                                                 *)

\* The list holds every waiting scheduler once.
Listed(list, state) ==
  /\ list \in Seq(Program)
  /\ \A i, j \in 1..Len(list) : list[i] = list[j] => i = j
  /\ \A i \in 1..Len(list) : state[list[i]] = "waiting"
  /\ \A p \in Program : state[p] = "waiting" => \E i \in 1..Len(list) : list[i] = p

\* While an observation is waiting nobody walks the list.  When it is finished
\* the walk goes from the end, and those behind the cursor have left the list.
Walked ==
  /\ waiting => cursor = 0
  /\ ~ waiting => cursor = Len(observers)
  /\ cursor # 0 => notify = {}

\* The timer of an observation.
Timed ==
  /\ timer = waiting
  /\ waiting => exists /\ remaining > 0

\* Who waits for the Brick Daemon although it is connected is still to be told.
Told ==
  /\ notify # {} => connected
  /\ connected => brickdWait \subseteq shutdown \cup notify
  /\ \A p \in brickdWait : Exists(p)

\* A scheduler that is shut down was created before and is not waiting.
Ended == \A p \in shutdown : observer[p] \in {"finished", "freed"}

Inv ==
  /\ TypeOK
  /\ Listed(observers, observer)
  /\ Walked /\ Timed /\ Told /\ Ended

-----------------------------------------------------------------------------
(* The list of observers                                                   *)

\* Removing an entry: the others move up.
LEMMA RemoveAtList ==
  ASSUME NEW list \in Seq(Program), NEW k \in 1..Len(list)
  PROVE  /\ RemoveAt(list, k) \in Seq(Program)
         /\ Len(RemoveAt(list, k)) = Len(list) - 1
         /\ \A i \in 1..(Len(list) - 1) :
              RemoveAt(list, k)[i] = IF i < k THEN list[i] ELSE list[i + 1]
<1> DEFINE a == SubSeq(list, 1, k - 1)
           b == SubSeq(list, k + 1, Len(list))
<1>1. Len(list) \in Nat /\ k \in Int /\ k >= 1 /\ k <= Len(list)
  BY LenProperties
<1>2. \A i \in 1..Len(list) : list[i] \in Program
  BY ElementOfSeq
<1>3. a \in Seq(Program) /\ Len(a) = k - 1 /\ \A i \in 1..(k - 1) : a[i] = list[i]
  <2>1. \A i \in 1..(k - 1) : list[i] \in Program
    BY <1>1, <1>2
  <2>2. /\ a \in Seq(Program)
        /\ Len(a) = IF 1 <= k - 1 THEN (k - 1) - 1 + 1 ELSE 0
        /\ \A i \in 1..((k - 1) - 1 + 1) : a[i] = list[1 + i - 1]
    BY <1>1, <2>1, SubSeqProperties
  <2> QED
    BY <1>1, <2>2
<1>4. /\ b \in Seq(Program) /\ Len(b) = Len(list) - k
      /\ \A i \in 1..(Len(list) - k) : b[i] = list[k + i]
  <2>1. \A i \in (k + 1)..Len(list) : list[i] \in Program
    BY <1>1, <1>2
  <2>2. /\ b \in Seq(Program)
        /\ Len(b) = IF k + 1 <= Len(list) THEN Len(list) - (k + 1) + 1 ELSE 0
        /\ \A i \in 1..(Len(list) - (k + 1) + 1) : b[i] = list[(k + 1) + i - 1]
    BY <1>1, <2>1, SubSeqProperties
  <2> QED
    BY <1>1, <2>2
<1> HIDE DEF a, b
<1>5. /\ a \o b \in Seq(Program)
      /\ Len(a \o b) = Len(a) + Len(b)
      /\ \A i \in 1..(Len(a) + Len(b)) : (a \o b)[i] = IF i <= Len(a) THEN a[i] ELSE b[i - Len(a)]
  BY <1>3, <1>4, ConcatProperties, Zenon
<1>6. RemoveAt(list, k) = a \o b
  BY DEF RemoveAt, a, b
<1>7. ASSUME NEW i \in 1..(Len(list) - 1)
      PROVE  (a \o b)[i] = IF i < k THEN list[i] ELSE list[i + 1]
  <2>1. (a \o b)[i] = IF i <= Len(a) THEN a[i] ELSE b[i - Len(a)]
    BY <1>1, <1>3, <1>4, <1>5
  <2>2. CASE i < k
    BY <1>1, <1>3, <2>1, <2>2
  <2>3. CASE ~ (i < k)
    <3>1. i - (k - 1) \in 1..(Len(list) - k) /\ k + (i - (k - 1)) = i + 1 /\ ~ (i <= k - 1)
      BY <1>1, <2>3
    <3>2. b[i - (k - 1)] = list[i + 1]
      BY <1>4, <3>1
    <3>3. (a \o b)[i] = b[i - (k - 1)]
      BY <1>3, <2>1, <3>1
    <3> QED
      BY <2>3, <3>2, <3>3
  <2> QED
    BY <2>2, <2>3
<1>8. Len(a \o b) = Len(list) - 1
  BY <1>1, <1>3, <1>4, <1>5
<1> QED
  BY <1>5, <1>6, <1>7, <1>8

\* remove_observer() of an observer in the list: the list has one less, and
\* is the list of the schedulers that are still waiting.
LEMMA RemoveListed ==
  ASSUME NEW list, NEW state \in [Program -> {"none", "waiting", "finished", "freed"}],
         Listed(list, state),
         NEW p \in Program, state[p] = "waiting",
         NEW to \in {"finished", "freed"}
  PROVE  /\ Listed(remove_observer(list, p), [state EXCEPT ![p] = to])
         /\ Len(remove_observer(list, p)) = Len(list) - 1
<1>1. list \in Seq(Program) /\ Len(list) \in Nat
  BY LenProperties DEF Listed
<1>2. PICK k \in 1..Len(list) : list[k] = p
  BY DEF Listed
<1>3. {i \in 1..Len(list) : list[i] = p} = {k}
  BY <1>2 DEF Listed
<1>4. Min({k}) = k
  BY <1>1 DEF Min
<1>5. remove_observer(list, p) = RemoveAt(list, k)
  BY <1>2, <1>3, <1>4 DEF remove_observer, RemoveFirst, SelectInSeq
<1> DEFINE new == RemoveAt(list, k)
<1>6. /\ new \in Seq(Program) /\ Len(new) = Len(list) - 1
      /\ \A i \in 1..(Len(list) - 1) : new[i] = IF i < k THEN list[i] ELSE list[i + 1]
  BY <1>1, RemoveAtList
<1> HIDE DEF new
<1>7. \A i, j \in 1..Len(list) : list[i] = list[j] => i = j
  BY DEF Listed
<1>8. \A i, j \in 1..Len(new) : new[i] = new[j] => i = j
  <2> SUFFICES ASSUME NEW i \in 1..Len(new), NEW j \in 1..Len(new), new[i] = new[j]
               PROVE  i = j
    OBVIOUS
  <2>1. i \in 1..Len(list) /\ j \in 1..Len(list) /\ i + 1 \in 1..Len(list) /\ j + 1 \in 1..Len(list)
    BY <1>1, <1>6
  <2>2. /\ new[i] = IF i < k THEN list[i] ELSE list[i + 1]
        /\ new[j] = IF j < k THEN list[j] ELSE list[j + 1]
    BY <1>6
  <2>3. CASE i < k /\ j < k
    BY <1>7, <2>1, <2>2, <2>3
  <2>4. CASE i < k /\ ~ (j < k)
    <3>1. list[i] = list[j + 1]
      BY <2>2, <2>4
    <3>2. i = j + 1
      BY <1>7, <2>1, <3>1
    <3> QED
      BY <1>1, <2>1, <2>4, <3>2
  <2>5. CASE ~ (i < k) /\ j < k
    <3>1. list[i + 1] = list[j]
      BY <2>2, <2>5
    <3>2. i + 1 = j
      BY <1>7, <2>1, <3>1
    <3> QED
      BY <1>1, <2>1, <2>5, <3>2
  <2>6. CASE ~ (i < k) /\ ~ (j < k)
    <3>1. list[i + 1] = list[j + 1]
      BY <2>2, <2>6
    <3>2. i + 1 = j + 1
      BY <1>7, <2>1, <3>1
    <3> QED
      BY <1>1, <2>1, <3>2
  <2> QED
    BY <2>3, <2>4, <2>5, <2>6
<1>9. \A i \in 1..Len(new) : [state EXCEPT ![p] = to][new[i]] = "waiting"
  <2> SUFFICES ASSUME NEW i \in 1..Len(new)
               PROVE  [state EXCEPT ![p] = to][new[i]] = "waiting"
    OBVIOUS
  <2>1. PICK j \in 1..Len(list) : new[i] = list[j] /\ j # k
    BY <1>1, <1>6
  <2>2. list[j] # p /\ list[j] \in Program
    BY <1>1, <1>2, <1>7, <2>1, ElementOfSeq
  <2> QED
    BY <2>1, <2>2 DEF Listed
<1>10. \A q \in Program :
         [state EXCEPT ![p] = to][q] = "waiting" => \E i \in 1..Len(new) : new[i] = q
  <2> SUFFICES ASSUME NEW q \in Program, [state EXCEPT ![p] = to][q] = "waiting"
               PROVE  \E i \in 1..Len(new) : new[i] = q
    OBVIOUS
  <2>1. q # p /\ state[q] = "waiting"
    OBVIOUS
  <2>2. PICK j \in 1..Len(list) : list[j] = q
    BY <2>1 DEF Listed
  <2>3. j # k
    BY <1>2, <2>1, <2>2
  <2>4. CASE j < k
    <3>1. j \in 1..Len(new) /\ new[j] = q
      BY <1>1, <1>6, <2>2, <2>4
    <3> QED
      BY <3>1
  <2>5. CASE j > k
    <3>1. j - 1 \in 1..Len(new) /\ new[j - 1] = list[j]
      BY <1>1, <1>6, <2>5
    <3> QED
      BY <2>2, <3>1
  <2> QED
    BY <1>1, <2>3, <2>4, <2>5
<1> QED
  BY <1>5, <1>6, <1>8, <1>9, <1>10 DEF Listed, new

\* Appending a scheduler that was not waiting.
LEMMA AppendListed ==
  ASSUME NEW list, NEW state \in [Program -> {"none", "waiting", "finished", "freed"}],
         Listed(list, state),
         NEW p \in Program, state[p] # "waiting"
  PROVE  /\ Listed(Append(list, p), [state EXCEPT ![p] = "waiting"])
         /\ Len(Append(list, p)) = Len(list) + 1
<1> DEFINE new == Append(list, p)
           n   == Len(list)
<1>1. list \in Seq(Program) /\ n \in Nat
  BY LenProperties DEF Listed
<1>2. /\ new \in Seq(Program) /\ Len(new) = n + 1
      /\ \A i \in 1..n : new[i] = list[i]
      /\ new[n + 1] = p
  BY <1>1, AppendProperties
<1>3. /\ \A i, j \in 1..n : list[i] = list[j] => i = j
      /\ \A i \in 1..n : state[list[i]] = "waiting" /\ list[i] # p
      /\ \A q \in Program : state[q] = "waiting" => \E i \in 1..n : list[i] = q
  BY DEF Listed
<1>4. \A i \in 1..n : list[i] \in Program
  BY <1>1, ElementOfSeq
<1> HIDE DEF new, n
<1>5. \A i, j \in 1..Len(new) : new[i] = new[j] => i = j
  <2> SUFFICES ASSUME NEW i \in 1..Len(new), NEW j \in 1..Len(new), new[i] = new[j]
               PROVE  i = j
    OBVIOUS
  <2>1. (i \in 1..n \/ i = n + 1) /\ (j \in 1..n \/ j = n + 1)
    BY <1>1, <1>2
  <2> QED
    BY <1>2, <1>3, <2>1
<1>6. \A i \in 1..Len(new) : [state EXCEPT ![p] = "waiting"][new[i]] = "waiting"
  <2> SUFFICES ASSUME NEW i \in 1..Len(new)
               PROVE  [state EXCEPT ![p] = "waiting"][new[i]] = "waiting"
    OBVIOUS
  <2>1. i \in 1..n \/ i = n + 1
    BY <1>1, <1>2
  <2> QED
    BY <1>2, <1>3, <1>4, <2>1
<1>7. \A q \in Program :
        [state EXCEPT ![p] = "waiting"][q] = "waiting" => \E i \in 1..Len(new) : new[i] = q
  <2> SUFFICES ASSUME NEW q \in Program, [state EXCEPT ![p] = "waiting"][q] = "waiting"
               PROVE  \E i \in 1..Len(new) : new[i] = q
    OBVIOUS
  <2>1. CASE q = p
    <3>1. n + 1 \in 1..Len(new)
      BY <1>1, <1>2
    <3> QED
      BY <1>2, <2>1, <3>1
  <2>2. CASE q # p
    <3>1. PICK i \in 1..n : list[i] = q
      BY <1>3, <2>2
    <3>2. i \in 1..Len(new) /\ new[i] = q
      BY <1>1, <1>2, <3>1
    <3> QED
      BY <3>2
  <2> QED
    BY <2>1, <2>2
<1> QED
  BY <1>2, <1>5, <1>6, <1>7 DEF Listed, new, n

\* The list does not care about a scheduler that was not waiting and does not.
LEMMA SameListed ==
  ASSUME NEW list, NEW state \in [Program -> {"none", "waiting", "finished", "freed"}],
         Listed(list, state),
         NEW p \in Program, state[p] # "waiting",
         NEW to \in {"finished", "freed"}
  PROVE  Listed(list, [state EXCEPT ![p] = to])
<1>1. \A i \in 1..Len(list) : list[i] \in Program /\ list[i] # p
  BY ElementOfSeq DEF Listed
<1> QED
  BY <1>1 DEF Listed

-----------------------------------------------------------------------------
(* Calls of a handler                                                      *)

State == {"none", "waiting", "finished", "freed"}
Run   == {"created", "started", "stopped", "manual"}

\* Only the scheduler of p changed, and the list follows it.
Moved(p, to) ==
  /\ observer' \in [Program -> State]
  /\ Listed(observers', observer')
  /\ \A q \in Program : q # p => observer'[q] = observer[q]
  /\ observer'[p] = to
  /\ Len(observers') = CASE observer[p] = "waiting" /\ to # "waiting" -> Len(observers) - 1
                         [] observer[p] # "waiting" /\ to = "waiting" -> Len(observers) + 1
                         [] OTHER -> Len(observers)

\* program_scheduler_abort_observer()
LEMMA AbortMoves ==
  ASSUME TypeOK, Listed(observers, observer), NEW p \in Program,
         NEW to \in {"finished", "freed"}, abort_observer(p, to)
  PROVE  Moved(p, to)
<1>1. observer \in [Program -> {"none", "waiting", "finished", "freed"}]
  BY DEF TypeOK
<1>2. observer' = [observer EXCEPT ![p] = to]
  BY DEF abort_observer
<1>3. CASE observer[p] = "waiting"
  <2>1. observers' = remove_observer(observers, p)
    BY <1>3 DEF abort_observer
  <2>2. /\ Listed(remove_observer(observers, p), [observer EXCEPT ![p] = to])
        /\ Len(remove_observer(observers, p)) = Len(observers) - 1
    BY <1>1, <1>3, RemoveListed
  <2> QED
    BY <1>1, <1>2, <1>3, <2>1, <2>2 DEF Moved, State
<1>4. CASE observer[p] # "waiting"
  <2>1. observers' = observers
    BY <1>4 DEF abort_observer
  <2>2. Listed(observers, [observer EXCEPT ![p] = to])
    BY <1>1, <1>4, SameListed
  <2> QED
    BY <1>1, <1>2, <1>4, <2>1, <2>2 DEF Moved, State
<1> QED
  BY <1>3, <1>4

\* program_scheduler_start() and program_scheduler_stop()
LEMMA StartOrStopMoves ==
  ASSUME TypeOK, Listed(observers, observer), NEW p \in Program,
         NEW to \in {"started", "stopped"}, StartOrStop(p, to)
  PROVE  Moved(p, "finished") /\ run' \in [Program -> Run]
<1>1. Moved(p, "finished")
  BY AbortMoves DEF StartOrStop
<1>2. run' \in [Program -> Run]
  BY DEF StartOrStop, TypeOK, Run
<1> QED
  BY <1>1, <1>2

\* program_scheduler_start, whose observer is finished if it does not wait.
LEMMA StartMoves ==
  ASSUME TypeOK, Listed(observers, observer), NEW p \in Program, Start(p)
  PROVE  Moved(p, "finished") /\ run' \in [Program -> Run]
BY StartOrStopMoves DEF Start

\* A scheduler that starts to wait.
LEMMA AppendMoves ==
  ASSUME TypeOK, Listed(observers, observer), NEW p \in Program, observer[p] # "waiting",
         observers' = Append(observers, p), observer' = [observer EXCEPT ![p] = "waiting"]
  PROVE  Moved(p, "waiting")
<1>1. observer \in [Program -> {"none", "waiting", "finished", "freed"}]
  BY DEF TypeOK
<1>2. /\ Listed(Append(observers, p), [observer EXCEPT ![p] = "waiting"])
      /\ Len(Append(observers, p)) = Len(observers) + 1
  BY <1>1, AppendListed
<1> QED
  BY <1>1, <1>2 DEF Moved, State

\* A scheduler that did not wait becomes finished without being called.
LEMMA FinishMoves ==
  ASSUME TypeOK, Listed(observers, observer), NEW p \in Program, observer[p] # "waiting",
         observers' = observers, observer' = [observer EXCEPT ![p] = "finished"]
  PROVE  Moved(p, "finished")
<1>1. observer \in [Program -> {"none", "waiting", "finished", "freed"}]
  BY DEF TypeOK
<1>2. Listed(observers', observer')
  BY <1>1, SameListed
<1>3. /\ observer' \in [Program -> State] /\ observer'[p] = "finished"
      /\ \A q \in Program : q # p => observer'[q] = observer[q]
  BY <1>1 DEF State
<1> QED
  BY <1>2, <1>3 DEF Moved

\* Nothing happens to the scheduler.
LEMMA NothingMoves ==
  ASSUME TypeOK, Listed(observers, observer), NEW p \in Program,
         observers' = observers, observer' = observer
  PROVE  Moved(p, observer[p])
BY DEF TypeOK, Moved, State

-----------------------------------------------------------------------------
(* A handler that works on one program                                     *)

\* What a handler may do to the observation while nobody walks its list.
Observed ==
  /\ {exists', waiting', timer'} \subseteq BOOLEAN
  /\ remaining' \in 0..Timeout
  /\ Timed'
  /\ ~ waiting' => Len(observers') = 0

\* While nobody walks it, the list of a finished observation is empty.
LEMMA RestEmpty ==
  ASSUME Inv, cursor = 0
  PROVE  /\ ~ waiting => Len(observers) = 0
         /\ ~ waiting => \A p \in Program : observer[p] # "waiting"
BY DEF Inv, Walked, Listed

\* An observation that a handler leaves alone stays well-formed, if nobody
\* was added to its list.
LEMMA UnchangedObserved ==
  ASSUME Inv, cursor = 0, NEW p \in Program, NEW to \in State \ {"waiting"},
         Moved(p, to), UNCHANGED <<exists, waiting, remaining, timer>>
  PROVE  Observed
<1>1. ~ waiting => Len(observers) = 0 /\ observer[p] # "waiting"
  BY RestEmpty
<1>2. ~ waiting' => Len(observers') = 0
  BY <1>1 DEF Moved
<1>3. {exists', waiting', timer'} \subseteq BOOLEAN /\ remaining' \in 0..Timeout
  BY DEF Inv, TypeOK
<1>4. Timed'
  BY DEF Inv, Timed
<1> QED
  BY <1>2, <1>3, <1>4 DEF Observed

\* program_scheduler_update(), by any of its callers.
LEMMA UpdateMoves ==
  ASSUME Inv, cursor = 0, NEW p \in Program,
         NEW state \in {"pending", "waiting", "finished"},
         observer[p] # "none" => state = observer[p],
         observer[p] = "none" => state # "waiting",
         Update(p, state)
  PROVE  /\ \E to \in {"waiting", "finished"} : Moved(p, to)
         /\ run' \in [Program -> Run]
         /\ Observed
<1>0. TypeOK /\ Listed(observers, observer) /\ run \in [Program -> Run]
  BY DEF Inv, TypeOK, Run
<1>1. CASE StartOrStop(p, "stopped") /\ UNCHANGED <<exists, waiting, remaining, timer>>
  <2>1. Moved(p, "finished") /\ run' \in [Program -> Run]
    BY <1>0, <1>1, StartOrStopMoves
  <2> QED
    BY <1>1, <2>1, UnchangedObserved DEF State
<1>2. ASSUME state = "pending"
      PROVE  observer[p] = "none"
  BY <1>2, <1>0 DEF TypeOK
<1>3. CASE state = "pending" /\ AddToExisting(p)
  <2>1. CASE waiting /\ observers' = Append(observers, p)
                     /\ observer' = [observer EXCEPT ![p] = "waiting"] /\ UNCHANGED run
    <3>1. Moved(p, "waiting")
      BY <1>0, <1>2, <1>3, <2>1, AppendMoves
    <3>2. Observed
      BY <1>3, <2>1 DEF AddToExisting, Inv, TypeOK, Timed, Observed
    <3> QED
      BY <1>0, <2>1, <3>1, <3>2
  <2>2. CASE ~ waiting /\ Start(p)
    <3>1. Moved(p, "finished") /\ run' \in [Program -> Run]
      BY <1>0, <2>2, StartMoves
    <3> QED
      BY <1>3, <3>1, UnchangedObserved DEF State, AddToExisting
  <2> QED
    BY <1>3, <2>1, <2>2 DEF AddToExisting
<1>4. CASE state = "pending" /\ AddToNew(p)
  <2>1. ~ waiting /\ Len(observers) = 0 /\ observer[p] = "none"
    BY <1>2, <1>4, RestEmpty DEF AddToNew, Inv, Timed
  <2>2. panel \in BOOLEAN /\ Timeout \in Nat \ {0}
    BY <1>0, MonitorAssumption DEF TypeOK
  <2>3. CASE panel
    <3>1. Start(p)
      BY <1>4, <2>3 DEF AddToNew
    <3>2. Moved(p, "finished") /\ run' \in [Program -> Run]
      BY <1>0, <3>1, StartMoves
    <3>3. Len(observers') = 0
      BY <2>1, <3>2 DEF Moved
    <3>4. exists' = TRUE /\ waiting' = FALSE /\ timer' = FALSE /\ remaining' = 0
      BY <1>4, <2>3 DEF AddToNew
    <3>5. {exists', waiting', timer'} \subseteq BOOLEAN /\ Timed'
      BY <3>4 DEF Timed
    <3>6. remaining' \in 0..Timeout
      BY <2>2, <3>4
    <3>7. Observed
      BY <3>3, <3>5, <3>6 DEF Observed
    <3> QED
      BY <3>2, <3>7
  <2>4. CASE ~ panel
    <3>1. observers' = Append(observers, p) /\ observer' = [observer EXCEPT ![p] = "waiting"] /\ run' = run
      BY <1>4, <2>4 DEF AddToNew
    <3>2. Moved(p, "waiting")
      BY <1>0, <2>1, <3>1, AppendMoves
    <3>3. exists' = TRUE /\ waiting' = TRUE /\ timer' = TRUE /\ remaining' = Timeout
      BY <1>4, <2>4 DEF AddToNew
    <3>4. Observed
      BY <2>2, <3>3 DEF Observed, Timed
    <3> QED
      BY <1>0, <3>1, <3>2, <3>4
  <2> QED
    BY <2>2, <2>3, <2>4
<1>5. CASE state = "pending" /\ AddFails(p)
  <2>1. Moved(p, "finished") /\ run' \in [Program -> Run]
    <3>1. CASE p \in brickdWait'
      BY <1>0, <1>2, <1>5, <3>1, FinishMoves DEF AddFails
    <3>2. CASE p \notin brickdWait'
      BY <1>0, <1>5, <3>2, StartMoves DEF AddFails
    <3> QED
      BY <3>1, <3>2
  <2> QED
    BY <1>5, <2>1, UnchangedObserved DEF AddFails, State
<1>6. CASE p \notin brickdWait' /\ Start(p) /\ UNCHANGED <<exists, waiting, remaining, timer>>
  <2>1. Moved(p, "finished") /\ run' \in [Program -> Run]
    BY <1>0, <1>6, StartMoves
  <2> QED
    BY <1>6, <2>1, UnchangedObserved DEF State
<1>7. CASE /\ state = "waiting" \/ (state = "finished" /\ p \in brickdWait')
           /\ observer' = [observer EXCEPT ![p] = state]
           /\ UNCHANGED <<observers, run, exists, waiting, remaining, timer>>
  <2>1. CASE state = "finished"
    <3>1. Moved(p, "finished") /\ run' \in [Program -> Run]
      BY <1>0, <1>7, <2>1, FinishMoves
    <3> QED
      BY <1>7, <3>1, UnchangedObserved DEF State
  <2>2. CASE state = "waiting"
    <3>1. observer' = observer /\ observers' = observers /\ run' = run
      BY <1>0, <1>7, <2>2 DEF TypeOK
    <3>2. Moved(p, "waiting")
      BY <1>0, <2>2, <3>1, NothingMoves
    <3>3. waiting
      BY <2>2, RestEmpty
    <3>4. Observed
      BY <1>7, <3>3 DEF Inv, TypeOK, Timed, Observed
    <3> QED
      BY <1>0, <3>1, <3>2, <3>4
  <2> QED
    BY <1>7, <2>1, <2>2
<1> QED
  BY <1>1, <1>3, <1>4, <1>5, <1>6, <1>7 DEF Update

\* The parts of the invariant, after a handler that worked on one program.
LEMMA HandlerInv ==
  ASSUME Inv, NEW p \in Program, NEW to \in State, Moved(p, to), run' \in [Program -> Run],
         Observed, cursor' = 0, panel' \in BOOLEAN, connected' \in BOOLEAN,
         brickdWait' \subseteq Program, shutdown' \subseteq Program, notify' \subseteq Program,
         Told', Ended'
  PROVE  Inv'
<1>1. Listed(observers, observer)' /\ Timed'
  BY DEF Moved, Observed
<1>2. observers' \in Seq(Program) /\ Len(observers') \in Nat
  BY <1>1, LenProperties DEF Listed
<1>3. observer' \in [Program -> {"none", "waiting", "finished", "freed"}]
  BY DEF Moved, State
<1>4. run' \in [Program -> {"created", "started", "stopped", "manual"}]
  BY DEF Run
<1>5. {exists', waiting', timer', connected', panel'} \subseteq BOOLEAN /\ remaining' \in 0..Timeout
  BY DEF Observed
<1>6. TypeOK'
  BY <1>2, <1>3, <1>4, <1>5 DEF TypeOK
<1>7. Walked'
  BY DEF Observed, Walked
<1> QED
  BY <1>1, <1>6, <1>7 DEF Inv

\* A program that comes into being waits as its schedule says.
LEMMA LoadInv ==
  ASSUME Inv, NEW p \in Program, Load(p)
  PROVE  Inv'
<1>1. PICK state \in {"pending", "finished"} : Update(p, state)
  BY DEF Load
<1>2. cursor = 0 /\ notify = {} /\ observer[p] = "none" /\ p \notin shutdown
  BY DEF Load, Idle, Inv, Ended
<1>3. /\ \E to \in {"waiting", "finished"} : Moved(p, to)
      /\ run' \in [Program -> Run]
      /\ Observed
  BY <1>1, <1>2, UpdateMoves
<1>4. PICK to \in {"waiting", "finished"} : Moved(p, to)
  BY <1>3
<1>5. /\ shutdown' = shutdown /\ cursor' = cursor /\ notify' = notify
      /\ connected' = connected /\ panel' = panel
  BY DEF Load, loopVars, envVars
<1>6. brickdWait' = IF connected THEN brickdWait \ {p} ELSE brickdWait \cup {p}
  BY <1>1, <1>2 DEF Update
<1>7. Told'
  BY <1>2, <1>4, <1>5, <1>6 DEF Inv, TypeOK, Told, Exists, Moved
<1>8. Ended'
  BY <1>2, <1>4, <1>5 DEF Inv, TypeOK, Ended, Moved
<1>9. /\ brickdWait' \subseteq Program /\ shutdown' \subseteq Program /\ notify' \subseteq Program
      /\ panel' \in BOOLEAN /\ connected' \in BOOLEAN
  BY <1>5, <1>6 DEF Inv, TypeOK
<1> QED
  BY <1>2, <1>3, <1>4, <1>5, <1>7, <1>8, <1>9, HandlerInv DEF State

\* program_set_schedule keeps the observer where it was.
LEMMA SetScheduleInv ==
  ASSUME Inv, NEW p \in Program, SetSchedule(p)
  PROVE  Inv'
<1>1. /\ cursor = 0 /\ notify = {} /\ observer[p] \in {"waiting", "finished"} /\ p \notin shutdown
      /\ Update(p, observer[p])
  BY DEF SetSchedule, Idle, Exists, Inv, TypeOK
<1>2. /\ \E to \in {"waiting", "finished"} : Moved(p, to)
      /\ run' \in [Program -> Run]
      /\ Observed
  BY <1>1, UpdateMoves
<1>3. PICK to \in {"waiting", "finished"} : Moved(p, to)
  BY <1>2
<1>4. /\ shutdown' = shutdown /\ cursor' = cursor /\ notify' = notify
      /\ connected' = connected /\ panel' = panel
  BY DEF SetSchedule, loopVars, envVars
<1>5. brickdWait' = IF connected THEN brickdWait \ {p} ELSE brickdWait
  BY <1>1 DEF Update
<1>6. Told'
  BY <1>1, <1>3, <1>4, <1>5 DEF Inv, TypeOK, Told, Exists, Moved
<1>7. Ended'
  BY <1>1, <1>3, <1>4 DEF Inv, TypeOK, Ended, Moved
<1>8. /\ brickdWait' \subseteq Program /\ shutdown' \subseteq Program /\ notify' \subseteq Program
      /\ panel' \in BOOLEAN /\ connected' \in BOOLEAN
  BY <1>4, <1>5 DEF Inv, TypeOK
<1> QED
  BY <1>1, <1>2, <1>3, <1>4, <1>6, <1>7, <1>8, HandlerInv DEF State

\* One turn of the loop over the programs after the Brick Daemon connected.
LEMMA NotifyProgramInv ==
  ASSUME Inv, NEW p \in Program, NotifyProgram(p)
  PROVE  Inv'
<1>1. p \in notify /\ notify' = notify \ {p} /\ cursor = 0 /\ connected
  BY DEF NotifyProgram, Inv, Walked, Told
<1>2. shutdown' = shutdown /\ cursor' = cursor /\ connected' = connected /\ panel' = panel
  BY DEF NotifyProgram, envVars
<1>3. CASE p \in brickdWait /\ p \notin shutdown
  <2>1. Update(p, observer[p]) /\ observer[p] \in {"waiting", "finished"}
    BY <1>3 DEF NotifyProgram, Inv, Told, Exists, TypeOK
  <2>2. /\ \E to \in {"waiting", "finished"} : Moved(p, to)
        /\ run' \in [Program -> Run]
        /\ Observed
    BY <1>1, <2>1, UpdateMoves
  <2>3. PICK to \in {"waiting", "finished"} : Moved(p, to)
    BY <2>2
  <2>4. brickdWait' = brickdWait \ {p}
    BY <1>1, <2>1 DEF Update
  <2>5. Told'
    BY <1>1, <1>2, <2>3, <2>4 DEF Inv, TypeOK, Told, Exists, Moved
  <2>6. Ended'
    BY <1>2, <1>3, <2>3 DEF Inv, TypeOK, Ended, Moved
  <2>7. /\ brickdWait' \subseteq Program /\ shutdown' \subseteq Program /\ notify' \subseteq Program
        /\ panel' \in BOOLEAN /\ connected' \in BOOLEAN
    BY <1>1, <1>2, <2>4 DEF Inv, TypeOK
  <2> QED
    BY <1>1, <1>2, <2>2, <2>3, <2>5, <2>6, <2>7, HandlerInv DEF State
<1>4. CASE ~ (p \in brickdWait /\ p \notin shutdown)
  <2>1. UNCHANGED <<observer, brickdWait, run, obsVars>>
    BY <1>4 DEF NotifyProgram
  <2>2. TypeOK'
    BY <1>1, <1>2, <2>1 DEF Inv, TypeOK, obsVars
  <2>3. Listed(observers, observer)' /\ Timed' /\ Ended'
    BY <1>2, <2>1 DEF Inv, Listed, Timed, Ended, obsVars
  <2>4. Walked'
    BY <1>1, <1>2, <2>1 DEF Inv, Walked, obsVars
  <2>5. Told'
    BY <1>1, <1>2, <1>4, <2>1 DEF Inv, Told, Exists
  <2> QED
    BY <2>2, <2>3, <2>4, <2>5 DEF Inv
<1> QED
  BY <1>3, <1>4

\* The handlers that stop or start one scheduler, or shut it down, and leave
\* the observation alone.
LEMMA StoppingInv ==
  ASSUME Inv, Idle, NEW p \in Program, Exists(p),
         NEW to \in {"finished", "freed"}, Moved(p, to), run' \in [Program -> Run],
         UNCHANGED <<exists, waiting, remaining, timer, loopVars, envVars>>,
         brickdWait' \subseteq brickdWait, to = "freed" => p \notin brickdWait',
         shutdown' = shutdown \/ shutdown' = shutdown \cup {p}
  PROVE  Inv'
<1>1. cursor = 0 /\ notify = {} /\ cursor' = 0 /\ notify' = {}
  BY DEF Idle, loopVars
<1>2. connected' = connected /\ panel' = panel
  BY DEF envVars
<1>3. Observed
  BY <1>1, UnchangedObserved DEF State
<1>4. Told'
  <2>1. \A q \in brickdWait' : Exists(q)'
    BY DEF Inv, TypeOK, Told, Exists, Moved
  <2>2. brickdWait \subseteq shutdown \cup notify => brickdWait' \subseteq shutdown' \cup notify'
    BY <1>1
  <2> QED
    BY <1>1, <1>2, <2>1, <2>2 DEF Inv, Told
<1>5. Ended'
  BY DEF Inv, TypeOK, Ended, Moved
<1>6. /\ brickdWait' \subseteq Program /\ shutdown' \subseteq Program /\ notify' \subseteq Program
      /\ panel' \in BOOLEAN /\ connected' \in BOOLEAN
  BY <1>1, <1>2 DEF Inv, TypeOK
<1> QED
  BY <1>1, <1>3, <1>4, <1>5, <1>6, HandlerInv DEF State

-----------------------------------------------------------------------------
(* The other handlers                                                      *)

\* program_set_command updates the scheduler, which may stop it.
LEMMA SetCommandInv ==
  ASSUME Inv, NEW p \in Program, SetCommand(p)
  PROVE  Inv'
<1>1. Idle /\ Exists(p) /\ TypeOK /\ Listed(observers, observer)
  BY DEF SetCommand, Inv
<1>2. /\ brickdWait' \subseteq brickdWait /\ shutdown' = shutdown
      /\ UNCHANGED <<exists, waiting, remaining, timer, loopVars, envVars>>
  BY DEF SetCommand
<1>3. CASE StartOrStop(p, "stopped")
  <2>1. Moved(p, "finished") /\ run' \in [Program -> Run]
    BY <1>1, <1>3, StartOrStopMoves
  <2> QED
    BY <1>1, <1>2, <2>1, StoppingInv
<1>4. CASE UNCHANGED <<observers, observer, run>>
  <2>1. TypeOK'
    BY <1>1, <1>2, <1>4 DEF TypeOK, loopVars, envVars
  <2>2. Listed(observers, observer)' /\ Walked' /\ Timed' /\ Ended'
    BY <1>2, <1>4 DEF Inv, Listed, Walked, Timed, Ended, loopVars
  <2>3. Told'
    BY <1>2, <1>4 DEF Inv, Told, Exists, loopVars, envVars
  <2> QED
    BY <2>1, <2>2, <2>3 DEF Inv
<1> QED
  BY <1>3, <1>4 DEF SetCommand

\* program_continue_schedule starts the schedule.
LEMMA ContinueScheduleInv ==
  ASSUME Inv, NEW p \in Program, ContinueSchedule(p)
  PROVE  Inv'
<1>1. Idle /\ Exists(p) /\ TypeOK /\ Listed(observers, observer) /\ Start(p)
  BY DEF ContinueSchedule, Inv
<1>2. Moved(p, "finished") /\ run' \in [Program -> Run]
  BY <1>1, StartMoves
<1>3. /\ brickdWait' \subseteq brickdWait /\ shutdown' = shutdown
      /\ UNCHANGED <<exists, waiting, remaining, timer, loopVars, envVars>>
  BY DEF ContinueSchedule
<1> QED
  BY <1>1, <1>2, <1>3, StoppingInv

\* program_start ends the waiting of the observer.
LEMMA StartProgramInv ==
  ASSUME Inv, NEW p \in Program, StartProgram(p)
  PROVE  Inv'
<1>1. Idle /\ Exists(p) /\ TypeOK /\ Listed(observers, observer) /\ abort_observer(p, "finished")
  BY DEF StartProgram, Inv
<1>2. Moved(p, "finished")
  BY <1>1, AbortMoves
<1>3. run' \in [Program -> Run]
  BY DEF StartProgram, Inv, TypeOK, Run
<1>4. /\ brickdWait' \subseteq brickdWait /\ shutdown' = shutdown
      /\ UNCHANGED <<exists, waiting, remaining, timer, loopVars, envVars>>
  BY DEF StartProgram
<1> QED
  BY <1>1, <1>2, <1>3, <1>4, StoppingInv

\* program_purge stops the scheduler, which withdraws its observer.
LEMMA PurgeInv ==
  ASSUME Inv, NEW p \in Program, Purge(p)
  PROVE  Inv'
<1>1. Idle /\ Exists(p) /\ TypeOK /\ Listed(observers, observer) /\ StartOrStop(p, "stopped")
  BY DEF Purge, Inv
<1>2. Moved(p, "finished") /\ run' \in [Program -> Run]
  BY <1>1, StartOrStopMoves
<1>3. /\ brickdWait' \subseteq brickdWait /\ shutdown' = shutdown \cup {p}
      /\ UNCHANGED <<exists, waiting, remaining, timer, loopVars, envVars>>
  BY DEF Purge
<1> QED
  BY <1>1, <1>2, <1>3, StoppingInv

\* program_destroy withdraws the observer before the memory goes.
LEMMA FreeInv ==
  ASSUME Inv, NEW p \in Program, Free(p)
  PROVE  Inv'
<1>1. Idle /\ Exists(p) /\ TypeOK /\ Listed(observers, observer) /\ abort_observer(p, "freed")
  BY DEF Free, Inv
<1>2. Moved(p, "freed")
  BY <1>1, AbortMoves
<1>3. run' \in [Program -> Run]
  BY DEF Free, Inv, TypeOK, Run
<1>4. /\ brickdWait' = brickdWait \ {p} /\ shutdown' = shutdown \cup {p}
      /\ UNCHANGED <<exists, waiting, remaining, timer, loopVars, envVars>>
  BY DEF Free
<1> QED
  BY <1>1, <1>2, <1>3, <1>4, StoppingInv

\* process_monitor_exit drops the observation with everything in it.
LEMMA ExitInv ==
  ASSUME Inv, Exit
  PROVE  Inv'
<1>1. /\ exists' = FALSE /\ waiting' = FALSE /\ timer' = FALSE /\ remaining' = 0
      /\ observers' = <<>> /\ cursor = 0 /\ cursor' = 0 /\ notify' = notify
      /\ UNCHANGED <<observer, brickdWait, run, shutdown, connected, panel>>
      /\ \A p \in Program : observer[p] = "freed"
  BY DEF Exit, Idle, schedVars, loopVars, envVars
<1>2. observers' \in Seq(Program) /\ Len(observers') = 0
  BY <1>1
<1>3. Listed(observers, observer)'
  BY <1>1, <1>2 DEF Listed
<1>4. remaining' \in 0..Timeout
  BY <1>1, MonitorAssumption
<1>5. TypeOK'
  <2>1. {exists', waiting', timer', connected', panel'} \subseteq BOOLEAN
    BY <1>1 DEF Inv, TypeOK
  <2>2. cursor' \in 0..Len(observers')
    BY <1>1, <1>2
  <2> QED
    BY <1>1, <1>2, <1>4, <2>1, <2>2 DEF Inv, TypeOK
<1>6. Walked' /\ Timed'
  BY <1>1, <1>2 DEF Walked, Timed
<1>7. Told' /\ Ended'
  BY <1>1 DEF Inv, Told, Ended, Exists
<1> QED
  BY <1>3, <1>5, <1>6, <1>7 DEF Inv

\* process_monitor_update_observation(): the walk begins at the end of the
\* list when the time is over.
LEMMA UpdateObservationInv ==
  ASSUME Inv, update_observation
  PROVE  Inv'
<1>1. /\ cursor = 0 /\ notify = {} /\ timer /\ exists' = exists /\ observers' = observers
      /\ UNCHANGED <<observer, brickdWait, run, shutdown, connected, panel>> /\ notify' = notify
  BY DEF update_observation, Idle, schedVars, envVars
<1>2. /\ waiting /\ exists /\ remaining \in Nat /\ remaining <= Timeout
      /\ Timeout \in Nat /\ SearchInterval \in Nat
  BY <1>1, MonitorAssumption DEF Inv, TypeOK, Timed
<1>3. Len(observers) \in Nat
  BY LenProperties DEF Inv, TypeOK
<1>4. PICK left \in 0..Timeout :
        /\ remaining' = left
        /\ waiting' = (left > 0) /\ timer' = (left > 0)
        /\ cursor' = IF left > 0 THEN 0 ELSE Len(observers)
  <2>1. Decreased \in 0..Timeout
    BY <1>2 DEF Decreased
  <2>2. PICK found \in {FALSE, panel} :
          LET l == IF found THEN 0 ELSE Decreased IN
          /\ remaining' = l
          /\ waiting' = (l > 0) /\ timer' = (l > 0)
          /\ cursor' = IF l > 0 THEN 0 ELSE Len(observers)
    BY DEF update_observation
  <2>3. (IF found THEN 0 ELSE Decreased) \in 0..Timeout
    BY <1>2, <2>1
  <2> QED
    BY <2>2, <2>3
<1>5. Listed(observers, observer)' /\ Ended'
  BY <1>1 DEF Inv, Listed, Ended
<1>6. Told'
  BY <1>1 DEF Inv, Told, Exists
<1>7. CASE left > 0
  <2>1. waiting' = TRUE /\ timer' = TRUE /\ cursor' = 0 /\ remaining' > 0
    BY <1>4, <1>7
  <2>2. TypeOK'
    BY <1>1, <1>3, <1>4, <2>1 DEF Inv, TypeOK
  <2>3. Walked' /\ Timed'
    BY <1>1, <1>2, <2>1 DEF Walked, Timed
  <2> QED
    BY <1>5, <1>6, <2>2, <2>3 DEF Inv
<1>8. CASE ~ (left > 0)
  <2>0. (left > 0) = FALSE
    BY <1>8
  <2>1. waiting' = FALSE /\ timer' = FALSE /\ cursor' = Len(observers')
    BY <1>1, <1>4, <2>0
  <2>2. cursor' \in 0..Len(observers')
    BY <1>1, <1>3, <2>1
  <2>3. TypeOK'
    BY <1>1, <1>4, <2>1, <2>2 DEF Inv, TypeOK
  <2>4. Walked' /\ Timed'
    BY <1>1, <2>1 DEF Walked, Timed
  <2> QED
    BY <1>5, <1>6, <2>3, <2>4 DEF Inv
<1> QED
  BY <1>7, <1>8

\* program_scheduler_handle_observer() of the last in the list, which leaves
\* it: the cursor keeps being the end of the list.
LEMMA CallObserverInv ==
  ASSUME Inv, CallObserver
  PROVE  Inv'
<1> DEFINE p == observers[cursor]
<1>1. /\ cursor > 0 /\ cursor' = cursor - 1
      /\ UNCHANGED <<brickdWait, shutdown, exists, waiting, remaining, timer, notify, connected, panel>>
  BY DEF CallObserver, envVars
<1>2. TypeOK /\ Listed(observers, observer) /\ Len(observers) \in Nat /\ cursor \in Nat
  BY LenProperties DEF Inv, TypeOK
<1>3. ~ waiting /\ cursor = Len(observers) /\ notify = {}
  BY <1>1, <1>2 DEF Inv, Walked
<1>4. p \in Program /\ observer[p] = "waiting"
  <2>1. cursor \in 1..Len(observers)
    BY <1>1, <1>2, <1>3
  <2> QED
    BY <1>2, <2>1, ElementOfSeq DEF Listed
<1>5. Start(p)
  BY <1>4 DEF CallObserver
<1> HIDE DEF p
<1>6. Moved(p, "finished") /\ run' \in [Program -> Run]
  BY <1>2, <1>4, <1>5, StartMoves
<1>7. Len(observers') = Len(observers) - 1 /\ observers' \in Seq(Program) /\ Listed(observers, observer)'
  BY <1>4, <1>6 DEF Moved, Listed
<1>8. observer' \in [Program -> {"none", "waiting", "finished", "freed"}]
  BY <1>6 DEF Moved, State
<1>9. run' \in [Program -> {"created", "started", "stopped", "manual"}]
  BY <1>6 DEF Run
<1>10. cursor' \in 0..Len(observers') /\ cursor' = Len(observers')
  BY <1>1, <1>2, <1>3, <1>7
<1>11. TypeOK'
  BY <1>1, <1>7, <1>8, <1>9, <1>10 DEF Inv, TypeOK
<1>12. Walked' /\ Timed'
  BY <1>1, <1>3, <1>10 DEF Inv, Walked, Timed
<1>13. Told' /\ Ended'
  BY <1>1, <1>4, <1>6 DEF Inv, TypeOK, Told, Ended, Exists, Moved
<1> QED
  BY <1>7, <1>11, <1>12, <1>13 DEF Inv

\* network_handle_brickd_accept(): everyone who waits is to be told.
LEMMA ConnectInv ==
  ASSUME Inv, Connect
  PROVE  Inv'
<1>1. /\ cursor = 0 /\ cursor' = 0 /\ connected' = TRUE /\ notify' = {p \in Program : Exists(p)}
      /\ UNCHANGED <<observer, brickdWait, run, shutdown, exists, waiting, remaining, timer, observers, panel>>
  BY DEF Connect, Idle, schedVars, obsVars
<1>2. TypeOK'
  BY <1>1 DEF Inv, TypeOK
<1>3. Listed(observers, observer)' /\ Timed' /\ Ended'
  BY <1>1 DEF Inv, Listed, Timed, Ended
<1>4. Walked'
  BY <1>1 DEF Inv, Walked
<1>5. Told'
  BY <1>1 DEF Inv, TypeOK, Told, Exists
<1> QED
  BY <1>2, <1>3, <1>4, <1>5 DEF Inv

\* Steps of the environment: the Brick Daemon goes, the panel comes or goes.
LEMMA EnvironmentInv ==
  ASSUME Inv, Disconnect \/ Panel
  PROVE  Inv'
<1>1. UNCHANGED <<schedVars, obsVars, loopVars>> /\ connected' \in BOOLEAN /\ panel' \in BOOLEAN
  BY DEF Disconnect, Panel, Inv, TypeOK
<1>2. TypeOK'
  BY <1>1 DEF Inv, TypeOK, schedVars, obsVars, loopVars
<1>3. Listed(observers, observer)' /\ Walked' /\ Timed' /\ Ended'
  BY <1>1 DEF Inv, Listed, Walked, Timed, Ended, schedVars, obsVars, loopVars
<1>4. connected' = connected \/ (connected' = FALSE /\ notify' = {})
  BY DEF Disconnect, Panel, Idle, loopVars
<1>5. Told'
  BY <1>1, <1>4 DEF Inv, Told, Exists, schedVars, loopVars
<1> QED
  BY <1>2, <1>3, <1>5 DEF Inv

-----------------------------------------------------------------------------
(* The theorems                                                            *)

\* The daemon starts with no program and no observation.
LEMMA InitInv == Init => Inv
<1> SUFFICES ASSUME Init PROVE Inv
  OBVIOUS
<1>1. observers = <<>> /\ observers \in Seq(Program) /\ Len(observers) = 0
  BY DEF Init
<1>2. remaining \in 0..Timeout
  BY MonitorAssumption DEF Init
<1>3. TypeOK
  <2>1. {exists, waiting, timer, connected, panel} \subseteq BOOLEAN
    BY DEF Init
  <2>2. cursor \in 0..Len(observers)
    BY <1>1 DEF Init
  <2>3. /\ observer \in [Program -> {"none", "waiting", "finished", "freed"}]
        /\ run \in [Program -> {"created", "started", "stopped", "manual"}]
        /\ brickdWait \subseteq Program /\ shutdown \subseteq Program /\ notify \subseteq Program
    BY DEF Init
  <2> QED
    BY <1>1, <1>2, <2>1, <2>2, <2>3 DEF TypeOK
<1>4. Listed(observers, observer)
  BY <1>1 DEF Init, Listed
<1>5. Walked /\ Timed /\ Told /\ Ended
  BY <1>1 DEF Init, Walked, Timed, Told, Ended
<1> QED
  BY <1>3, <1>4, <1>5 DEF Inv

\* Every step keeps the invariant.
LEMMA NextInv == Inv /\ [Next]_vars => Inv'
<1> SUFFICES ASSUME Inv, [Next]_vars PROVE Inv'
  OBVIOUS
<1>1. ASSUME NEW p \in Program, Load(p) PROVE Inv'
  BY <1>1, LoadInv
<1>2. ASSUME NEW p \in Program, SetSchedule(p) PROVE Inv'
  BY <1>2, SetScheduleInv
<1>3. ASSUME NEW p \in Program, SetCommand(p) PROVE Inv'
  BY <1>3, SetCommandInv
<1>4. ASSUME NEW p \in Program, ContinueSchedule(p) PROVE Inv'
  BY <1>4, ContinueScheduleInv
<1>5. ASSUME NEW p \in Program, StartProgram(p) PROVE Inv'
  BY <1>5, StartProgramInv
<1>6. ASSUME NEW p \in Program, Purge(p) PROVE Inv'
  BY <1>6, PurgeInv
<1>7. ASSUME NEW p \in Program, Free(p) PROVE Inv'
  BY <1>7, FreeInv
<1>8. ASSUME NEW p \in Program, NotifyProgram(p) PROVE Inv'
  BY <1>8, NotifyProgramInv
<1>9. CASE UNCHANGED vars
  <2>1. TypeOK'
    BY <1>9 DEF Inv, TypeOK, vars, schedVars, obsVars, loopVars, envVars
  <2>2. Listed(observers, observer)' /\ Walked' /\ Timed' /\ Told' /\ Ended'
    BY <1>9 DEF Inv, Listed, Walked, Timed, Told, Ended, Exists, vars, schedVars, obsVars, loopVars, envVars
  <2> QED
    BY <2>1, <2>2 DEF Inv
<1> QED
  BY <1>1, <1>2, <1>3, <1>4, <1>5, <1>6, <1>7, <1>8, <1>9, UpdateObservationInv, CallObserverInv,
     ConnectInv, EnvironmentInv, ExitInv DEF Next

\* The list of observers and what the schedulers believe agree in every state
\* of every handler, whatever programs come and go.
THEOREM Invariance == Spec => []Inv
BY InitInv, NextInv, PTL DEF Spec

\* The observation of process_monitor.c never calls a scheduler that does not
\* wait, that is gone or shut down, nor the same scheduler twice.
THEOREM ObserversWait == Spec => []ObserversAreWaiting
<1>1. Inv => ObserversAreWaiting
  <2> SUFFICES ASSUME Inv PROVE ObserversAreWaiting
    OBVIOUS
  <2>1. observers \in Seq(Program) /\ DOMAIN observers = 1..Len(observers)
    BY LenProperties DEF Inv, TypeOK
  <2>2. \A i \in 1..Len(observers) : observers[i] \in Program
    BY <2>1, ElementOfSeq
  <2>3. {observers[i] : i \in DOMAIN observers} = {p \in Program : observer[p] = "waiting"}
    BY <2>1, <2>2 DEF Inv, Listed
  <2>4. \A i, j \in DOMAIN observers : observers[i] = observers[j] => i = j
    BY <2>1 DEF Inv, Listed
  <2>5. \A p \in shutdown : observer[p] # "waiting"
    BY DEF Inv, Ended
  <2> QED
    BY <2>3, <2>4, <2>5 DEF Inv, Timed, ObserversAreWaiting
<1> QED
  BY <1>1, Invariance, PTL

\* No scheduler is left in the list of a finished observation, and none waits
\* for a Brick Daemon that is there: the downward loop of
\* process_monitor_update_observation() and the loop over the programs in
\* network.c reach everyone, although the calls change what they loop over.
THEOREM NobodyIsForgotten == Spec => []NobodyForgotten
<1>1. Inv => NobodyForgotten
  <2> SUFFICES ASSUME Inv, Idle PROVE (~ waiting => observers = <<>>) /\ (connected => brickdWait \subseteq shutdown)
    BY DEF NobodyForgotten
  <2>1. ~ waiting => Len(observers) = 0
    BY DEF Inv, Walked, Idle
  <2>2. observers \in Seq(Program)
    BY DEF Inv, TypeOK
  <2>3. ~ waiting => observers = <<>>
    BY <2>1, <2>2, EmptySeq
  <2>4. connected => brickdWait \subseteq shutdown
    BY DEF Inv, Told, Idle
  <2> QED
    BY <2>3, <2>4
<1> QED
  BY <1>1, Invariance, PTL

-----------------------------------------------------------------------------
(* What the loop over the observers and the search come to                 *)

\* The loop over the observers of a finished observation calls with every turn
\* a scheduler that is waiting, which leaves the list and has made its attempt
\* to start when the call returns; nobody else is touched.  So all that were in
\* the list when the observation finished get their turn, each one once.
EachObserverCalledOnce ==
  [][CallObserver =>
       LET p == observers[cursor]
       IN  /\ p \in Program /\ observer[p] = "waiting"
           /\ observer' = [observer EXCEPT ![p] = "finished"]
           /\ run'[p] \in {"started", "stopped"}
           /\ Len(observers') = Len(observers) - 1]_vars

THEOREM ObserversAreCalledOnce == Spec => EachObserverCalledOnce
<1> DEFINE Called(p) ==
             /\ p \in Program /\ observer[p] = "waiting"
             /\ observer' = [observer EXCEPT ![p] = "finished"]
             /\ run'[p] \in {"started", "stopped"}
             /\ Len(observers') = Len(observers) - 1
<1>1. ASSUME Inv, CallObserver
      PROVE  Called(observers[cursor])
  <2> DEFINE p == observers[cursor]
  <2>1. /\ TypeOK /\ Listed(observers, observer)
        /\ cursor > 0 /\ Len(observers) \in Nat /\ cursor \in 0..Len(observers)
    BY <1>1, LenProperties DEF Inv, TypeOK, CallObserver
  <2>2. cursor \in 1..Len(observers)
    BY <2>1
  <2>3. p \in Program /\ observer[p] = "waiting"
    BY <2>1, <2>2, ElementOfSeq DEF Listed
  <2>4. Start(p)
    BY <1>1, <2>3 DEF CallObserver
  <2> HIDE DEF p
  <2>5. Moved(p, "finished")
    BY <2>1, <2>3, <2>4, StartMoves
  <2>6. /\ observer' = [observer EXCEPT ![p] = "finished"]
        /\ run'[p] \in {"started", "stopped"}
    BY <2>1, <2>3, <2>4 DEF Start, StartOrStop, abort_observer, TypeOK
  <2>7. Called(p)
    BY <2>3, <2>5, <2>6 DEF Moved
  <2> QED
    BY <2>7 DEF p
<1> DEFINE Step == CallObserver => Called(observers[cursor])
<1>2. Inv /\ [Next]_vars => [Step]_vars
  BY <1>1
<1>3. [][Step]_vars => EachObserverCalledOnce
  BY DEF EachObserverCalledOnce
<1> HIDE DEF Step
<1> QED
  BY <1>2, <1>3, Invariance, PTL DEF Spec

\* Observers that come later do not prolong the search: while there is the
\* observation its remaining time never grows, and every search takes some of
\* it away.  Nobody waits for more than Timeout searches.
SearchIsBounded ==
  [][/\ exists /\ exists' => remaining' <= remaining
     /\ update_observation => remaining' < remaining]_vars

\* Calls that add an observer leave the time of an observation alone.
LEMMA UpdateKeepsTime ==
  ASSUME exists, NEW p \in Program, NEW state, Update(p, state)
  PROVE  remaining' = remaining
BY DEF Update, AddToExisting, AddToNew, AddFails

THEOREM SearchEnds == Spec => SearchIsBounded
<1> DEFINE Bounded == /\ exists /\ exists' => remaining' <= remaining
                      /\ update_observation => remaining' < remaining
<1>1. ASSUME Inv, update_observation
      PROVE  remaining' < remaining
  <2>1. /\ remaining \in Nat /\ remaining > 0
        /\ SearchInterval \in Nat /\ SearchInterval > 0
    BY <1>1, MonitorAssumption DEF Inv, TypeOK, Timed, update_observation
  <2>2. remaining' = 0 \/ remaining' = Decreased
    BY <1>1 DEF update_observation
  <2> QED
    BY <2>1, <2>2 DEF Decreased
<1>2. ASSUME Inv, Next, exists, exists'
      PROVE  remaining' <= remaining
  <2>1. remaining \in Int
    BY <1>2 DEF Inv, TypeOK
  <2>2. CASE update_observation
    BY <1>1, <1>2, <2>1, <2>2 DEF Inv, TypeOK, update_observation, Decreased
  <2>3. ASSUME NEW p \in Program, Load(p) \/ SetSchedule(p) \/ NotifyProgram(p)
        PROVE  remaining' = remaining
    BY <1>2, <2>3, UpdateKeepsTime DEF Load, SetSchedule, NotifyProgram, obsVars
  <2>4. ASSUME NEW p \in Program,
               \/ SetCommand(p) \/ ContinueSchedule(p) \/ StartProgram(p)
               \/ Purge(p) \/ Free(p)
        PROVE  remaining' = remaining
    BY <2>4 DEF SetCommand, ContinueSchedule, StartProgram, Purge, Free
  <2>5. CASE CallObserver \/ Connect \/ Disconnect \/ Panel
    <3>1. remaining' = remaining
      BY <2>5 DEF CallObserver, Connect, Disconnect, Panel, obsVars
    <3> QED
      BY <2>1, <3>1
  <2>6. ~ Exit
    BY <1>2 DEF Exit
  <2> QED
    BY <1>2, <2>1, <2>2, <2>3, <2>4, <2>5, <2>6 DEF Next
<1>3. Inv /\ [Next]_vars => [Bounded]_vars
  BY <1>1, <1>2
<1>4. [][Bounded]_vars => SearchIsBounded
  BY DEF SearchIsBounded
<1> HIDE DEF Bounded
<1> QED
  BY <1>3, <1>4, Invariance, PTL DEF Spec
=============================================================================
