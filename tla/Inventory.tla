----------------------------- MODULE Inventory -----------------------------
(***************************************************************************)
(* The inventory's id allocation for objects and sessions, the two         *)
(* reference counts that decide when an object leaves it, what             *)
(* object_create leaves behind when no id is left, and the lifetime timer  *)
(* of a session (inventory.c, object.c:79-330, session.c).                 *)
(*                                                                         *)
(* Who holds the internal references, and the counts of one session that   *)
(* refers to an object more than once, are in ObjectGraph.                 *)
(***************************************************************************)
EXTENDS Integers, FiniteSets

CONSTANTS
  Addr,         \* heap addresses for objects
  Session,      \* heap addresses for sessions
  MaxObjectId,  \* OBJECT_ID_MAX; object ids are 1..MaxObjectId, 0 is "none"
  MaxSessionId, \* SESSION_ID_MAX
  MaxLifetime,  \* SESSION_MAX_LIFETIME, in ticks of the model
  Lifetimes,    \* the lifetimes users ask for
  MaxInternal,  \* bound on the internal references to an object
  MaxLoose      \* bound on the nodes failing creations leave at one address

ASSUME InventoryAssumption ==
  /\ MaxObjectId \in Nat /\ MaxObjectId >= 1
  /\ MaxSessionId \in Nat /\ MaxSessionId >= 1
  /\ MaxLifetime \in Nat /\ MaxLifetime >= 1
  /\ Lifetimes \subseteq Nat
  /\ MaxInternal \in Nat /\ MaxInternal >= 1
  /\ MaxLoose \in Nat
  /\ IsFiniteSet(Session)

VARIABLES
  objId,      \* id of the object at an address, 0 if there is none
  sesId,      \* id of the session at an address, 0 if there is none
  nextObjId,  \* _next_object_id
  nextSesId,  \* _next_session_id
  internal,   \* internal_reference_count of the object at an address
  external,   \* its external_reference_count
  nodes,      \* ExternalReference nodes in the lists of an object and a session
  loose,      \* loose[a][s]: nodes in the list of session s only, which point
              \* to an object that was at address a when its creation failed
  lifetime,   \* the lifetime last configured for a session
  remaining,  \* time until the session timer fires, 0 = timer not armed
  overwritten \* objects that were written to through a loose node

counts == <<internal, external, nodes, loose, overwritten>>
timers == <<lifetime, remaining>>
vars == <<objId, sesId, nextObjId, nextSesId, counts, timers>>

Objects  == {a \in Addr : objId[a] # 0}
Sessions == {s \in Session : sesId[s] # 0}

Init ==
  /\ objId     = [a \in Addr |-> 0]
  /\ sesId     = [s \in Session |-> 0]
  /\ nextObjId = 1
  /\ nextSesId = 1
  /\ internal  = [a \in Addr |-> 0]
  /\ external  = [a \in Addr |-> 0]
  /\ nodes     = {}
  /\ loose     = [a \in Addr |-> [s \in Session |-> 0]]
  /\ lifetime  = [s \in Session |-> 0]
  /\ remaining = [s \in Session |-> 0]
  /\ overwritten = {}

-----------------------------------------------------------------------------
(* inventory_get_next_object_id and inventory_get_next_session_id: at most *)
(* max rounds; each skips 0, takes the counter as candidate, increments  *)
(* the counter (uint16, so max + 1 wraps to 0) and stops at a candidate  *)
(* that is not in use.  The result has id 0 if every round collided.       *)

Wrapped(n, max) == n % (max + 1)

\* Faulty: candidates are not compared with the ids in use.
NextIdUnchecked(next, used, max) ==
  LET c == IF next = 0 THEN 1 ELSE next
  IN [next |-> Wrapped(c + 1, max), done |-> TRUE, id |-> c]

\* Faulty: always the lowest free id.
NextIdLowest(next, used, max) ==
  IF (1..max) \subseteq used THEN [next |-> next, done |-> FALSE, id |-> 0]
  ELSE LET c == CHOOSE c \in (1..max) \ used : \A d \in (1..max) \ used : c <= d
       IN [next |-> Wrapped(c + 1, max), done |-> TRUE, id |-> c]

\* One round of the search, which does nothing once an id is found.
Round(search, used, max) ==
  LET candidate == IF search.next = 0 THEN 1 ELSE search.next IN
    IF search.done THEN search
    ELSE [next |-> Wrapped(candidate + 1, max), done |-> candidate \notin used,
          id   |-> IF candidate \notin used THEN candidate ELSE 0]

NextId(next, used, max) ==
  LET round[i \in 0..max] ==
        IF i = 0 THEN [next |-> next, done |-> FALSE, id |-> 0]
        ELSE Round(round[i - 1], used, max)
  IN round[max]

-----------------------------------------------------------------------------
(* Objects                                                                 *)

\* string_allocate, list_allocate, ...: calloc, then object_create with an
\* internal reference (i = 1), an external one (owners has a session) or both.
\* The external reference is added before the id is known; if there is none
\* the caller frees the object, and nobody removes the node.
ObjectCreate(a, i, owners) ==
  LET got == NextId(nextObjId, {objId[b] : b \in Objects}, MaxObjectId) IN
    /\ a \notin Objects
    /\ owners \subseteq Sessions
    /\ i = 1 \/ owners # {}
    /\ nextObjId' = got.next
    /\ objId'     = [objId EXCEPT ![a] = got.id]
    /\ \/ /\ got.id # 0
          /\ internal' = [internal EXCEPT ![a] = i]
          /\ external' = [external EXCEPT ![a] = IF owners = {} THEN 0 ELSE 1]
          /\ nodes'    = nodes \cup {<<a, s>> : s \in owners}
          /\ UNCHANGED loose
       \/ /\ got.id = 0
          /\ \A s \in owners : loose[a][s] < MaxLoose
          /\ loose' = [loose EXCEPT ![a] =
                         [s \in Session |-> IF s \in owners THEN @[s] + 1 ELSE @[s]]]
          /\ UNCHANGED <<internal, external, nodes>>
    /\ UNCHANGED <<sesId, nextSesId, timers, overwritten>>

AddInternalReference(a) ==
  /\ a \in Objects
  /\ internal[a] < MaxInternal
  /\ internal' = [internal EXCEPT ![a] = @ + 1]
  /\ UNCHANGED <<objId, sesId, nextObjId, nextSesId, external, nodes, loose, timers, overwritten>>

\* The first reference of a session (list_get_item, file_get_info, ...); each
\* further one only counts up its node.
AddExternalReference(a, s) ==
  /\ a \in Objects
  /\ s \in Sessions
  /\ <<a, s>> \notin nodes
  /\ external' = [external EXCEPT ![a] = @ + 1]
  /\ nodes'    = nodes \cup {<<a, s>>}
  /\ UNCHANGED <<objId, sesId, nextObjId, nextSesId, internal, loose, timers, overwritten>>

\* Faulty: the internal references are not looked at.
LastReferenceExternal(ext, int) == ext <= 0

\* destroy object if last reference was removed
LastReference(ext, int) == int = 0 /\ ext <= 0

RemoveInternalReference(a) ==
  /\ a \in Objects
  /\ internal[a] > 0
  /\ internal' = [internal EXCEPT ![a] = @ - 1]
  /\ objId'    = [objId EXCEPT ![a] = IF LastReference(external[a], internal'[a]) THEN 0 ELSE @]
  /\ UNCHANGED <<sesId, nextObjId, nextSesId, external, nodes, loose, timers, overwritten>>

\* object_release: the last reference a session has.
RemoveExternalReference(a, s) ==
  /\ a \in Objects
  /\ <<a, s>> \in nodes
  /\ external' = [external EXCEPT ![a] = @ - 1]
  /\ nodes'    = nodes \ {<<a, s>>}
  /\ objId'    = [objId EXCEPT ![a] = IF LastReference(external'[a], internal[a]) THEN 0 ELSE @]
  /\ UNCHANGED <<sesId, nextObjId, nextSesId, internal, loose, timers, overwritten>>

-----------------------------------------------------------------------------
(* Sessions                                                                *)

\* timer_configure(lifetime * 1000000, 0): a delay of zero stops the timer.
SessionCreate(s, l) ==
  LET got == NextId(nextSesId, {sesId[t] : t \in Sessions}, MaxSessionId) IN
    /\ s \notin Sessions
    /\ l <= MaxLifetime
    /\ nextSesId' = got.next
    /\ sesId'     = [sesId EXCEPT ![s] = got.id]
    /\ IF got.id = 0   \* the timer is destroyed again
       THEN UNCHANGED <<lifetime, remaining>>
       ELSE /\ lifetime'  = [lifetime EXCEPT ![s] = l]
            /\ remaining' = [remaining EXCEPT ![s] = l]
    /\ UNCHANGED <<objId, nextObjId, counts>>

\* Faulty: keeping a session alive adds to the time that is left.
SessionKeepAliveAdding(s, l) ==
  /\ s \in Sessions
  /\ l <= MaxLifetime
  /\ lifetime'  = [lifetime EXCEPT ![s] = l]
  /\ remaining' = [remaining EXCEPT ![s] = @ + l]
  /\ UNCHANGED <<objId, sesId, nextObjId, nextSesId, counts>>

SessionKeepAlive(s, l) ==
  /\ s \in Sessions
  /\ l <= MaxLifetime
  /\ lifetime'  = [lifetime EXCEPT ![s] = l]
  /\ remaining' = [remaining EXCEPT ![s] = l]
  /\ UNCHANGED <<objId, sesId, nextObjId, nextSesId, counts>>

\* session_expire_helper: references first, then the session.  A loose node
\* is removed like any other.  Its object was freed: if another lives at the
\* address now, that one's list loses its other nodes (node_remove writes to
\* the sentinel) and its count goes down once for a reference it never had.
Expire(s) ==
  LET listed(a) == {n \in nodes : n = <<a, s>>}
      hit == {a \in Objects : loose[a][s] > 0} IN
    /\ external' = [a \in Addr |-> external[a] - (IF listed(a) = {} THEN 0 ELSE 1)
                                              - (IF a \in hit THEN loose[a][s] ELSE 0)]
    /\ objId'    = [a \in Addr |->
                      IF (listed(a) # {} \/ a \in hit) /\ LastReference(external'[a], internal[a])
                      THEN 0 ELSE objId[a]]
    /\ nodes'     = {n \in nodes : n[2] # s}
    /\ loose'     = [a \in Addr |-> [loose[a] EXCEPT ![s] = 0]]
    /\ sesId'     = [sesId EXCEPT ![s] = 0]
    /\ lifetime'  = [lifetime EXCEPT ![s] = 0]
    /\ remaining' = [remaining EXCEPT ![s] = 0]
    /\ overwritten' = hit
    /\ UNCHANGED <<nextObjId, nextSesId, internal>>

SessionExpire(s) == s \in Sessions /\ Expire(s)

\* The last tick of an armed timer: session_handle_expire.
SessionHandleExpire(s) == s \in Sessions /\ remaining[s] = 1 /\ Expire(s)

\* Time passes for a session whose timer does not fire yet.
Tick(s) ==
  /\ remaining[s] > 1
  /\ remaining' = [remaining EXCEPT ![s] = @ - 1]
  /\ UNCHANGED <<objId, sesId, nextObjId, nextSesId, counts, lifetime>>

-----------------------------------------------------------------------------
\* The model ends when an object was overwritten: its list and its count
\* disagree, and what the code does next depends on the order of both lists.
Next ==
  /\ overwritten = {}
  /\ \/ \E a \in Addr, i \in 0..1 :
           \E owners \in {{}} \cup {{s} : s \in Session} : ObjectCreate(a, i, owners)
     \/ \E a \in Addr : AddInternalReference(a) \/ RemoveInternalReference(a)
     \/ \E a \in Addr, s \in Session :
           AddExternalReference(a, s) \/ RemoveExternalReference(a, s)
     \/ \E s \in Session, l \in Lifetimes : SessionCreate(s, l) \/ SessionKeepAlive(s, l)
     \/ \E s \in Session : SessionExpire(s) \/ SessionHandleExpire(s) \/ Tick(s)

Spec == Init /\ [][Next]_vars

-----------------------------------------------------------------------------
TypeOK ==
  /\ objId     \in [Addr -> 0..MaxObjectId]
  /\ sesId     \in [Session -> 0..MaxSessionId]
  /\ nextObjId \in 0..MaxObjectId
  /\ nextSesId \in 0..MaxSessionId
  /\ internal  \in [Addr -> 0..MaxInternal]
  /\ external  \in [Addr -> Int]
  /\ nodes     \subseteq Addr \X Session
  /\ loose     \in [Addr -> [Session -> 0..MaxLoose]]
  /\ overwritten \subseteq Addr
  /\ lifetime  \in [Session -> 0..MaxLifetime]
  /\ remaining \in [Session -> 0..MaxLifetime]

\* An id names at most one object (inventory_get_object takes the first one
\* it finds), across the wrap-around of the 16 bit counter.
IdsUnique ==
  /\ TypeOK
  /\ \A a, b \in Objects : objId[a] = objId[b] => a = b
  /\ \A s, t \in Sessions : sesId[s] = sesId[t] => s = t

\* Rounds the search needs from counter value n to reach id i, zero skipped.
Distance(n, i) == LET first == IF n = 0 THEN 1 ELSE n
                  IN IF i >= first THEN i - first ELSE i - first + MaxObjectId

\* A new object gets the free id the counter reaches first, so the id a user
\* still remembers of a released object is reused as late as possible; and
\* object_create leaves a node behind only when all ids are in use.
FirstFreeId ==
  [][\A a \in Addr :
       LET free == (1..MaxObjectId) \ {objId[b] : b \in Objects} IN
         /\ objId[a] = 0 /\ objId'[a] # 0 =>
              \A i \in free : Distance(nextObjId, objId'[a]) <= Distance(nextObjId, i)
         /\ \A s \in Session :
              loose'[a][s] > loose[a][s] => free = {}]_vars

\* A session never outlives its lifetime: unless it asked for a lifetime of
\* zero, its timer is armed with at most that time left.
TimerArmed ==
  \A s \in Sessions : lifetime[s] # 0 => remaining[s] \in 1..lifetime[s]

Listing(a) == {s \in Session : <<a, s>> \in nodes}

\* "if the sum of the reference counts drops to zero the object is destroyed"
\* (object.c:25), and neither earlier nor later: the external count is the
\* number of sessions that list the object, an object is in the inventory
\* exactly as long as one count is above zero, and no list outlives its
\* session.  The one exception is an object at the address of a failed
\* creation, once the session with the loose node expires: from then on its
\* count is too low, and it is destroyed while sessions still list it.
LivesWhileReferenced ==
  /\ \A a \in Addr \ overwritten :
       /\ external[a] = Cardinality(Listing(a))
       /\ a \in Objects <=> internal[a] + external[a] > 0
  /\ \A a \in overwritten : external[a] < Cardinality(Listing(a))
  /\ \A a \in Addr, s \in Session : s \in Listing(a) \/ loose[a][s] > 0 => s \in Sessions
=============================================================================
