---------------------------- MODULE ObjectGraph ----------------------------
(***************************************************************************)
(* The object model of the RED Brick API daemon: reference-counted         *)
(* objects, the sessions that own external references to them, and the     *)
(* containment graph the internal references form (object.c, session.c,    *)
(* inventory.c, list.c and the object life cycle of string.c, file.c and   *)
(* process.c).                                                             *)
(*                                                                         *)
(* The daemon is a single-threaded event loop, so a handler runs to its    *)
(* end before the next one starts.  Two things inside a handler are        *)
(* nevertheless worth single steps: the destruction cascade (destroying an *)
(* object releases what it holds, which may destroy more) and the loop     *)
(* that strips a session of its references.  "stack" is the C call stack   *)
(* of running destroy functions, "expiring" the session whose references   *)
(* are being removed; a new handler starts only when the loop is Idle.     *)
(*                                                                         *)
(* A handler that returns an error code changes nothing and is a           *)
(* stuttering step.  Object ids and their exhaustion are in Inventory.     *)
(***************************************************************************)
EXTENDS Integers, FiniteSets, Sequences

CONSTANTS
  Addr,      \* heap addresses an object can be allocated at
  Session,   \* heap addresses of sessions
  MaxSlots,  \* places an object has for references to other objects
  MaxItems,  \* the UINT16_MAX limit of list_append_to
  MaxCount,  \* bound on the references one session holds to one object
  None

ASSUME GraphAssumption ==
  /\ IsFiniteSet(Addr)
  /\ IsFiniteSet(Session)
  /\ MaxSlots \in Nat /\ MaxSlots >= 3
  /\ MaxItems \in 1..MaxSlots
  /\ MaxCount \in Nat /\ MaxCount >= 1
  /\ None \notin Addr \cup Session

Slot == 1..MaxSlots

\* File stands for directory objects too: both hold their name String.
\* A pipe is a File object too, of FILE_TYPE_PIPE.
Kind == {"string", "list", "file", "pipe", "process"}

\* The places of a process: executable (and working directory), arguments
\* (and environment), standard input (and output, error).
Executable == 1
Arguments  == 2
Stdin      == 3

VARIABLES
  kind,      \* type of the object at an address, "free" if there is none
  intRefs,   \* internal_reference_count
  extRefs,   \* external_reference_count
  locks,     \* lock_count
  count,     \* count[o][s]: count of the ExternalReference node of s in o, 0 = no node
  slot,      \* slot[h][k]: the object held at place k of object h
  running,   \* processes with release_on_death still set
  stock,     \* strings in _stock_strings
  sessions,  \* sessions in the inventory
  stack,     \* objects whose destroy function is running, innermost last
  expiring,  \* session whose external references are being removed
  phase      \* "run", or how far inventory_exit got

vars == <<kind, intRefs, extRefs, locks, count, slot, running, stock, sessions,
          stack, expiring, phase>>

Dying == {stack[i] : i \in 1..Len(stack)}
Live  == {a \in Addr : kind[a] # "free" /\ a \notin Dying}
Free  == {a \in Addr : kind[a] = "free"}

OfKind(k) == {a \in Live : kind[a] = k}

\* file_get_acquired takes both.
Files == OfKind("file") \cup OfKind("pipe")

Idle    == stack = <<>> /\ expiring = None
Serving == Idle /\ phase = "run"

NoSlots  == [k \in Slot |-> None]
NoCounts == [s \in Session |-> 0]

Init ==
  /\ kind     = [a \in Addr |-> "free"]
  /\ intRefs  = [a \in Addr |-> 0]
  /\ extRefs  = [a \in Addr |-> 0]
  /\ locks    = [a \in Addr |-> 0]
  /\ count    = [a \in Addr |-> NoCounts]
  /\ slot     = [a \in Addr |-> NoSlots]
  /\ running  = {}
  /\ stock    = {}
  /\ sessions = {}
  /\ stack    = <<>>
  /\ expiring = None
  /\ phase    = "run"

-----------------------------------------------------------------------------
(* References (object.c)                                                   *)

\* One reference (or lock) more for each member of S.
OneMore(f, S) == [o \in Addr |-> IF o \in S THEN f[o] + 1 ELSE f[o]]

\* Faulty: a second reference of the same session bumps only the node.
AddExternalUncounted(o, s) ==
  /\ count[o][s] < MaxCount
  /\ count'   = [count EXCEPT ![o][s] = @ + 1]
  /\ extRefs' = IF count[o][s] = 0 THEN [extRefs EXCEPT ![o] = @ + 1] ELSE extRefs

\* object_add_external_reference
AddExternal(o, s) ==
  /\ count[o][s] < MaxCount
  /\ count'   = [count EXCEPT ![o][s] = @ + 1]
  /\ extRefs' = [extRefs EXCEPT ![o] = @ + 1]

\* Faulty: only lists unlock what they release.
LockingListsOnly(h, o) == kind[h] = "list"

\* Does the reference that h holds to o also lock o?  A process acquires its
\* stdio files with file_get_acquired, every other holder also locks.
Locking(h, o) == ~ (kind[h] = "process" /\ kind[o] \in {"file", "pipe"})

\* Faulty: the last external reference destroys the object.
DestroyIfUserless(o, int, ext) ==
  stack' = IF ext = 0 THEN Append(stack, o) ELSE stack

\* object_destroy runs for o once neither kind of reference is left.
DestroyIfUnreferenced(o, int, ext) ==
  stack' = IF int = 0 /\ ext = 0 THEN Append(stack, o) ELSE stack

\* object_unlock and object_remove_internal_reference, called by the holder h
\* for what it has at place k.
ReleasePlace(h, k) ==
  LET o == slot[h][k] IN
    /\ slot' = [slot EXCEPT ![h][k] = None]
    /\ locks' = IF Locking(h, o) /\ locks[o] > 0
                THEN [locks EXCEPT ![o] = @ - 1] ELSE locks
    /\ IF intRefs[o] = 0
       THEN UNCHANGED <<intRefs, stack>>
       ELSE /\ intRefs' = [intRefs EXCEPT ![o] = @ - 1]
            /\ DestroyIfUnreferenced(o, intRefs[o] - 1, extRefs[o])

\* object_create with OBJECT_CREATE_FLAG_EXTERNAL, plus INTERNAL when int = 1.
Create(a, k, s, int) ==
  /\ kind'    = [kind EXCEPT ![a] = k]
  /\ intRefs' = [intRefs EXCEPT ![a] = int]
  /\ extRefs' = [extRefs EXCEPT ![a] = 1]
  /\ locks'   = [locks EXCEPT ![a] = 0]
  /\ count'   = [count EXCEPT ![a][s] = 1]

\* object_release
ObjectRelease(o, s) ==
  /\ Serving
  /\ extRefs[o] > 0
  /\ count[o][s] > 0   \* otherwise only a log message
  /\ count'   = [count EXCEPT ![o][s] = @ - 1]
  /\ extRefs' = [extRefs EXCEPT ![o] = @ - 1]
  /\ DestroyIfUnreferenced(o, intRefs[o], extRefs[o] - 1)
  /\ UNCHANGED <<kind, intRefs, locks, slot, running, stock, sessions, expiring, phase>>

-----------------------------------------------------------------------------
(* Destruction: the destroy function on top of the stack releases its      *)
(* places one after the other, then frees the object.                      *)

Held(h) == {k \in Slot : slot[h][k] # None}

DestroyRelease ==
  /\ stack # <<>>
  /\ \E k \in Held(stack[Len(stack)]) :
       /\ \A j \in Held(stack[Len(stack)]) : k <= j
       /\ ReleasePlace(stack[Len(stack)], k)
  /\ UNCHANGED <<kind, extRefs, count, running, stock, sessions, expiring, phase>>

DestroyFree ==
  /\ stack # <<>>
  /\ Held(stack[Len(stack)]) = {}
  /\ kind'  = [kind EXCEPT ![stack[Len(stack)]] = "free"]
  /\ stack' = SubSeq(stack, 1, Len(stack) - 1)
  /\ UNCHANGED <<intRefs, extRefs, locks, count, slot, running, stock, sessions,
                 expiring, phase>>

-----------------------------------------------------------------------------
(* Sessions                                                                *)

SessionCreate(s) ==
  /\ Serving
  /\ s \notin sessions
  /\ sessions' = sessions \cup {s}
  /\ UNCHANGED <<kind, intRefs, extRefs, locks, count, slot, running, stock, stack,
                 expiring, phase>>

\* By the API, by the expire timer, or (session_destroy) by inventory_exit.
SessionExpire(s) ==
  /\ Idle
  /\ phase \in {"run", "sessions"}
  /\ s \in sessions
  /\ expiring' = s
  /\ UNCHANGED <<kind, intRefs, extRefs, locks, count, slot, running, stock, sessions,
                 stack, phase>>

\* Faulty: the object is not destroyed with its last reference.
ExpireReferenceLeaking(o) ==
  /\ stack = <<>>
  /\ expiring # None
  /\ count[o][expiring] > 0
  /\ count'   = [count EXCEPT ![o][expiring] = 0]
  /\ extRefs' = [extRefs EXCEPT ![o] = @ - count[o][expiring]]
  /\ UNCHANGED <<kind, intRefs, locks, slot, running, stock, sessions, stack, expiring, phase>>

\* Faulty: the references are taken from the object, the node is not unlinked.
ExpireReferenceTwice(o) ==
  /\ stack = <<>>
  /\ expiring # None
  /\ count[o][expiring] > 0
  /\ extRefs' = [extRefs EXCEPT ![o] = @ - count[o][expiring]]
  /\ UNCHANGED <<kind, intRefs, locks, count, slot, running, stock, sessions, stack,
                 expiring, phase>>

\* Faulty: the loop does not get past the first node.
ExpireReferenceLinked(o) ==
  /\ stack = <<>>
  /\ expiring # None
  /\ count[o][expiring] > 0
  /\ UNCHANGED vars

\* One round of the loop in session_remove_external_references.
ExpireReference(o) ==
  /\ stack = <<>>
  /\ expiring # None
  /\ count[o][expiring] > 0
  /\ count'   = [count EXCEPT ![o][expiring] = 0]
  /\ extRefs' = [extRefs EXCEPT ![o] = @ - count[o][expiring]]
  /\ DestroyIfUnreferenced(o, intRefs[o], extRefs[o] - count[o][expiring])
  /\ UNCHANGED <<kind, intRefs, locks, slot, running, stock, sessions, expiring, phase>>

\* The end of the loop: the session leaves the inventory and is freed.
ExpireDone ==
  /\ stack = <<>>
  /\ expiring # None
  /\ \A o \in Addr : count[o][expiring] = 0
  /\ sessions' = sessions \ {expiring}
  /\ expiring' = None
  /\ UNCHANGED <<kind, intRefs, extRefs, locks, count, slot, running, stock, stack, phase>>

-----------------------------------------------------------------------------
(* Strings and lists                                                       *)

StringAllocate(s, a) ==
  /\ Serving
  /\ s \in sessions
  /\ a \in Free
  /\ Create(a, "string", s, 0)
  /\ UNCHANGED <<slot, running, stock, sessions, stack, expiring, phase>>

ListAllocate(s, a) ==
  /\ Serving
  /\ s \in sessions
  /\ a \in Free
  /\ Create(a, "list", s, 0)
  /\ UNCHANGED <<slot, running, stock, sessions, stack, expiring, phase>>

\* Faulty: locked lists can grow.
ListAppendToLocked(l, x) ==
  /\ Serving
  /\ l \in OfKind("list")
  /\ x # l
  /\ x \in Live
  /\ \E k \in (1..MaxItems) \ Held(l) :
       /\ \A j \in (1..MaxItems) \ Held(l) : k <= j
       /\ slot' = [slot EXCEPT ![l][k] = x]
  /\ intRefs' = [intRefs EXCEPT ![x] = @ + 1]
  /\ locks'   = [locks EXCEPT ![x] = @ + 1]
  /\ UNCHANGED <<kind, extRefs, count, running, stock, sessions, stack, expiring, phase>>

ListAppendTo(l, x) ==
  /\ Serving
  /\ l \in OfKind("list")
  /\ x # l
  /\ locks[l] = 0
  /\ x \in Live
  /\ \E k \in (1..MaxItems) \ Held(l) :   \* otherwise the list is full
       /\ \A j \in (1..MaxItems) \ Held(l) : k <= j
       /\ slot' = [slot EXCEPT ![l][k] = x]
  /\ intRefs' = [intRefs EXCEPT ![x] = @ + 1]
  /\ locks'   = [locks EXCEPT ![x] = @ + 1]
  /\ UNCHANGED <<kind, extRefs, count, running, stock, sessions, stack, expiring, phase>>

\* Faulty: locked lists can shrink.
ListRemoveFromLocked(l, k) ==
  /\ Serving
  /\ l \in OfKind("list")
  /\ k \in Held(l)
  /\ ReleasePlace(l, k)
  /\ UNCHANGED <<kind, extRefs, count, running, stock, sessions, expiring, phase>>

ListRemoveFrom(l, k) ==
  /\ Serving
  /\ l \in OfKind("list")
  /\ locks[l] = 0
  /\ k \in Held(l)
  /\ ReleasePlace(l, k)
  /\ UNCHANGED <<kind, extRefs, count, running, stock, sessions, expiring, phase>>

ListGetItem(l, k, s) ==
  /\ Serving
  /\ l \in OfKind("list")
  /\ s \in sessions
  /\ k \in Held(l)
  /\ AddExternal(slot[l][k], s)
  /\ UNCHANGED <<kind, intRefs, locks, slot, running, stock, sessions, stack, expiring, phase>>

-----------------------------------------------------------------------------
(* Files and processes                                                     *)

\* file_open: acquire and lock the name, create the object.
FileOpen(s, a, name) ==
  /\ Serving
  /\ s \in sessions
  /\ a \in Free
  /\ name \in OfKind("string")
  /\ kind'    = [kind EXCEPT ![a] = "file"]
  /\ intRefs' = [OneMore(intRefs, {name}) EXCEPT ![a] = 0]
  /\ extRefs' = [extRefs EXCEPT ![a] = 1]
  /\ locks'   = [OneMore(locks, {name}) EXCEPT ![a] = 0]
  /\ count'   = [count EXCEPT ![a][s] = 1]
  /\ slot'    = [slot EXCEPT ![a][1] = name]
  /\ UNCHANGED <<running, stock, sessions, stack, expiring, phase>>

\* inventory_get_stock_string: the string "<unnamed>" is made when it is first
\* asked for and then kept by the inventory.
StockString(name) == IF stock = {} THEN name \in Free ELSE name \in stock

\* pipe_create_, with the stock string as name.
PipeCreate(s, a, name) ==
  /\ Serving
  /\ s \in sessions
  /\ a \in Free
  /\ a # name
  /\ StockString(name)
  /\ stock'   = stock \cup {name}
  /\ kind'    = [kind EXCEPT ![name] = "string", ![a] = "pipe"]
  /\ intRefs' = [intRefs EXCEPT ![name] = IF stock = {} THEN 2 ELSE @ + 1, ![a] = 0]
  /\ locks'   = [locks EXCEPT ![name] = IF stock = {} THEN 2 ELSE @ + 1, ![a] = 0]
  /\ extRefs' = [extRefs EXCEPT ![name] = IF stock = {} THEN 0 ELSE @, ![a] = 1]
  /\ count'   = [count EXCEPT ![a][s] = 1]
  /\ slot'    = [slot EXCEPT ![a][1] = name]
  /\ UNCHANGED <<running, sessions, stack, expiring, phase>>

\* file_get_info hands out the name, but for a pipe.
FileGetInfo(f, s) ==
  /\ Serving
  /\ f \in OfKind("file")
  /\ s \in sessions
  /\ AddExternal(slot[f][1], s)
  /\ UNCHANGED <<kind, intRefs, locks, slot, running, stock, sessions, stack, expiring, phase>>

\* list_ensure_item_type(list, OBJECT_TYPE_STRING)
OnlyStrings(l) == \A k \in Held(l) : kind[slot[l][k]] = "string"

\* process_spawn, as the API calls it: the process keeps itself alive with an
\* internal reference until the child is dead.
ProcessSpawn(s, a, exe, args, f) ==
  /\ Serving
  /\ s \in sessions
  /\ a \in Free
  /\ exe \in OfKind("string")
  /\ args \in OfKind("list") /\ OnlyStrings(args)
  /\ f \in Files
  /\ kind'    = [kind EXCEPT ![a] = "process"]
  /\ intRefs' = [OneMore(intRefs, {exe, args, f}) EXCEPT ![a] = 1]
  /\ extRefs' = [extRefs EXCEPT ![a] = 1]
  /\ locks'   = [OneMore(locks, {exe, args}) EXCEPT ![a] = 0]
  /\ count'   = [count EXCEPT ![a][s] = 1]
  /\ slot'    = [slot EXCEPT ![a] = [k \in Slot |-> CASE k = Executable -> exe
                                                     [] k = Arguments  -> args
                                                     [] k = Stdin      -> f
                                                     [] OTHER          -> None]]
  /\ running' = running \cup {a}
  /\ UNCHANGED <<stock, sessions, stack, expiring, phase>>

\* process_get_command: both references or (calloc failure) none.
ProcessGetCommand(p, s) ==
  /\ Serving
  /\ p \in OfKind("process")
  /\ s \in sessions
  /\ LET given == {slot[p][Executable], slot[p][Arguments]} IN
       /\ \A o \in given : count[o][s] < MaxCount
       /\ count'   = [o \in Addr |-> [r \in Session |->
                        IF o \in given /\ r = s THEN count[o][r] + 1 ELSE count[o][r]]]
       /\ extRefs' = OneMore(extRefs, given)
  /\ UNCHANGED <<kind, intRefs, locks, slot, running, stock, sessions, stack, expiring, phase>>

ProcessGetStdio(p, s) ==
  /\ Serving
  /\ p \in OfKind("process")
  /\ s \in sessions
  /\ AddExternal(slot[p][Stdin], s)
  /\ UNCHANGED <<kind, intRefs, locks, slot, running, stock, sessions, stack, expiring, phase>>

\* process_handle_state_change with a dead state: release_on_death, once.
ProcessDies(p) ==
  /\ Serving
  /\ p \in running
  /\ running' = running \ {p}
  /\ intRefs' = [intRefs EXCEPT ![p] = @ - 1]
  /\ DestroyIfUnreferenced(p, intRefs[p] - 1, extRefs[p])
  /\ UNCHANGED <<kind, extRefs, locks, count, slot, stock, sessions, expiring, phase>>

-----------------------------------------------------------------------------
(* inventory_exit: all sessions, then every object type in an order that   *)
(* is meant to destroy users before what they use.                         *)

ExitOrder == <<"sessions", "stock", "process", "file", "list", "string", "down">>

Phase == {"run"} \cup {ExitOrder[i] : i \in 1..7}

InventoryExit ==
  /\ Serving
  /\ phase' = "sessions"
  /\ UNCHANGED <<kind, intRefs, extRefs, locks, count, slot, running, stock, sessions,
                 stack, expiring>>

\* The objects in the array of phase p.
InArray(p) == IF p = "file" THEN Files ELSE OfKind(p)

ExitNextArray ==
  /\ Idle
  /\ \E i \in 1..6 :
       /\ phase = ExitOrder[i]
       /\ phase' = ExitOrder[i + 1]
  /\ phase = "sessions" => sessions = {}
  /\ phase = "stock" => stock = {}
  /\ InArray(phase) = {}
  /\ UNCHANGED <<kind, intRefs, extRefs, locks, count, slot, running, stock, sessions,
                 stack, expiring>>

\* inventory_unlock_and_release_string
ExitReleaseStock(o) ==
  /\ Idle
  /\ phase = "stock"
  /\ o \in stock
  /\ stock'   = stock \ {o}
  /\ locks'   = [locks EXCEPT ![o] = @ - 1]
  /\ intRefs' = [intRefs EXCEPT ![o] = @ - 1]
  /\ DestroyIfUnreferenced(o, intRefs[o] - 1, extRefs[o])
  /\ UNCHANGED <<kind, extRefs, count, slot, running, sessions, expiring, phase>>

\* inventory_destroy_object on a remaining object, whatever its counts are.
\* A process that is still alive is killed and joined by process_destroy.
ExitDestroy(a) ==
  /\ Idle
  /\ a \in InArray(phase)
  /\ stack'   = Append(stack, a)
  /\ running' = running \ {a}
  /\ count'   = [count EXCEPT ![a] = NoCounts]
  /\ extRefs' = [extRefs EXCEPT ![a] = 0]
  /\ UNCHANGED <<kind, intRefs, locks, slot, stock, sessions, expiring, phase>>

-----------------------------------------------------------------------------
Handler ==
  \/ \E s \in Session : SessionCreate(s) \/ SessionExpire(s)
  \/ \E o \in Live, s \in sessions : ObjectRelease(o, s)
  \/ \E s \in sessions, a \in Free : StringAllocate(s, a) \/ ListAllocate(s, a)
  \/ \E l \in Live, x \in Live : ListAppendTo(l, x)
  \/ \E l \in Live, k \in Slot : ListRemoveFrom(l, k)
  \/ \E l \in Live, k \in Slot, s \in sessions : ListGetItem(l, k, s)
  \/ \E s \in sessions, a \in Free, n \in Live : FileOpen(s, a, n)
  \/ \E s \in sessions, a \in Free, n \in Addr : PipeCreate(s, a, n)
  \/ \E f \in Live, s \in sessions : FileGetInfo(f, s)
  \/ \E s \in sessions, a \in Free, exe \in Live, args \in Live, f \in Live :
        ProcessSpawn(s, a, exe, args, f)
  \/ \E p \in Live, s \in sessions : ProcessGetCommand(p, s) \/ ProcessGetStdio(p, s)
  \/ \E p \in Live : ProcessDies(p)

Cascade ==
  \/ DestroyRelease
  \/ DestroyFree
  \/ \E o \in Addr : ExpireReference(o)
  \/ ExpireDone

Exit ==
  \/ InventoryExit
  \/ ExitNextArray
  \/ \E a \in Live : ExitReleaseStock(a) \/ ExitDestroy(a)

Next == Handler \/ Cascade \/ Exit

Spec == Init /\ [][Next]_vars

\* What a handler has begun runs to its end: it is straight C code.
FairSpec == Spec /\ WF_vars(Cascade)
-----------------------------------------------------------------------------
(* Properties                                                              *)

TypeOK ==
  /\ kind     \in [Addr -> Kind \cup {"free"}]
  /\ intRefs  \in [Addr -> Nat]
  /\ extRefs  \in [Addr -> Nat]
  /\ locks    \in [Addr -> Nat]
  /\ count    \in [Addr -> [Session -> 0..MaxCount]]
  /\ slot     \in [Addr -> [Slot -> Addr \cup {None}]]
  /\ running  \in SUBSET Addr
  /\ stock    \in SUBSET Addr
  /\ sessions \in SUBSET Session
  /\ stack    \in Seq(Addr)
  /\ expiring \in Session \cup {None}
  /\ phase    \in Phase

\* One token per external reference to o, one per place that holds o.
ExternalTokens(c, o) == {t \in Session \X (1..MaxCount) : t[2] <= c[o][t[1]]}
InternalTokens(h, o) == {t \in Addr \X Slot : h[t[1]][t[2]] = o}

\* The two counters of an object that is not being destroyed are exactly the
\* references that exist: what sessions own, and what other objects (a process
\* itself while its child lives, the inventory for its stock strings) hold.
\* Every pair of acquire and release paths in object.c, session.c and the
\* destroy functions is in it.
ReferencesAccounted ==
  \A o \in Live :
    /\ extRefs[o] = Cardinality(ExternalTokens(count, o))
    /\ intRefs[o] = Cardinality(InternalTokens(slot, o))
                     + (IF o \in running THEN 1 ELSE 0) + (IF o \in stock THEN 1 ELSE 0)

\* An object in use is never destroyed (the promise of the two reference
\* counts, object.c:27-30): what an object, a session or a child process
\* refers to is alive, whatever users release, expire or exit does.
NoDangling ==
  /\ \A h \in Addr : \A k \in Slot : slot[h][k] # None => slot[h][k] \in Live
  /\ \A o \in Addr : \A s \in Session :
        count[o][s] > 0 => o \in Live /\ s \in sessions
  /\ running \subseteq OfKind("process")
  /\ stock \subseteq OfKind("string")

\* The lock count of a string or list goes along with its internal reference
\* count (object.c:32-38), so "unlocked" means "held by nobody".
LocksFollowReferences ==
  \A o \in OfKind("string") \cup OfKind("list") : locks[o] = intRefs[o]

\* The type check of list_get_acquired_and_locked, made once when the process
\* is spawned, stays true for as long as the process holds the list.
ArgumentsStayStrings ==
  \A p \in OfKind("process") :
    /\ slot[p][Arguments] \in OfKind("list")
    /\ OnlyStrings(slot[p][Arguments])

\* No cycles, no garbage: in every set of live objects some member is
\* referenced from outside the set, by a session, a child process, the
\* inventory or an object that is not a member.  A cycle of lists would be such
\* a set once its users are gone; list_append_to refusing locked lists rules it
\* out.
NoGarbage ==
  \A S \in SUBSET Live :
    S # {} => \E o \in S : \/ extRefs[o] > 0
                           \/ o \in running \cup stock
                           \/ \E h \in Addr \ S : \E k \in Slot : slot[h][k] = o

\* The destruction order of inventory_exit: once sessions and processes are
\* gone there is nothing left for the arrays of files, lists and strings to
\* destroy by force.
ExitLeavesNothing ==
  Idle /\ phase \in {"file", "list", "string", "down"} => Live = {}

\* A list that some object holds is not modified behind its holder's back
\* (object.c:32-38), until it is destroyed itself.
HeldListsFrozen ==
  [][\A l \in OfKind("list") :
       (\E h \in Live : \E k \in Slot : slot[h][k] = l) => slot'[l] = slot[l]]_vars

\* session_expire_helper always gets through: the loop that removes the
\* references of a session ends, nested destructions included.
ExpireTerminates == \A s \in Session : expiring = s ~> s \notin sessions
=============================================================================
