-------------------------- MODULE InventoryProofs --------------------------
(***************************************************************************)
(* Proofs about Inventory.                                                 *)
(*                                                                         *)
(* The first part is about the search for an unused id.  Its rounds are a  *)
(* recursive function, so that what they return is proved by induction     *)
(* over the rounds; the induction principle, SetInduction, follows from    *)
(* the pigeonhole principle for finite sets.                               *)
(***************************************************************************)
EXTENDS Inventory, FiniteSetTheorems, TLAPS

-----------------------------------------------------------------------------
(* Induction                                                               *)

\* A set that has 0 and, below n, with every number the next one, has n:
\* otherwise i + 1 would map its members up to n into themselves without 0.
LEMMA SetInduction ==
  ASSUME NEW n \in Nat, NEW S, 0 \in S, \A i \in 0..(n - 1) : i \in S => i + 1 \in S
  PROVE  n \in S
<1> SUFFICES ASSUME n \notin S
             PROVE  FALSE
  OBVIOUS
<1> DEFINE T == S \cap (0..n)
           U == T \ {0}
           f == [i \in T |-> i + 1]
<1>1. IsFiniteSet(T) /\ Cardinality(T) \in Nat
  <2>1. IsFiniteSet(0..n)
    BY FS_Interval
  <2>2. T \in SUBSET (0..n)
    OBVIOUS
  <2>3. IsFiniteSet(T)
    BY <2>1, <2>2, FS_Subset
  <2> QED
    BY <2>3, FS_CardinalityType
<1>2. 0 \in T
  OBVIOUS
<1>3. IsFiniteSet(U) /\ Cardinality(U) < Cardinality(T)
  <2> HIDE DEF T
  <2>1. Cardinality(U) = Cardinality(T) - 1
    BY <1>1, <1>2, FS_RemoveElement
  <2>2. IsFiniteSet(U)
    BY <1>1, FS_RemoveElement
  <2> QED
    BY <1>1, <2>1, <2>2
<1>4. f \in [T -> U]
  <2> SUFFICES ASSUME NEW i \in T
               PROVE  i + 1 \in U
    OBVIOUS
  <2>1. i \in 0..(n - 1)
    OBVIOUS
  <2> QED
    BY <2>1
<1>5. PICK x, y \in T : x # y /\ f[x] = f[y]
  <2> HIDE DEF T, U, f
  <2> QED
    BY <1>1, <1>3, <1>4, FS_PigeonHole
<1> QED
  BY <1>5

-----------------------------------------------------------------------------
(* The search for an id                                                    *)

\* The counter is 16 bits wide and max is 65535: max + 1 becomes 0.
LEMMA WrapsAround ==
  ASSUME NEW max \in Nat, NEW n \in 1..max
  PROVE  Wrapped(n + 1, max) = IF n = max THEN 0 ELSE n + 1
<1>1. CASE n = max
  BY <1>1 DEF Wrapped
<1>2. CASE n # max
  BY <1>2 DEF Wrapped
<1> QED
  BY <1>1, <1>2

Skipped(next) == IF next = 0 THEN 1 ELSE next

\* The candidate of round j + 1, and the rounds before the one that tries id i.
Candidate(next, j, max) ==
  IF Skipped(next) + j <= max THEN Skipped(next) + j ELSE Skipped(next) + j - max
Rank(next, i, max) ==
  IF i >= Skipped(next) THEN i - Skipped(next) ELSE i - Skipped(next) + max

\* Every id is a candidate once in max rounds.
LEMMA CandidatesAreAll ==
  ASSUME NEW max \in Nat, max >= 1, NEW next \in 0..max
  PROVE  /\ \A j \in 0..max : Candidate(next, j, max) \in 1..max
         /\ \A j \in 0..(max - 1) : Rank(next, Candidate(next, j, max), max) = j
         /\ \A i \in 1..max : /\ Rank(next, i, max) \in 0..(max - 1)
                              /\ Candidate(next, Rank(next, i, max), max) = i
BY DEF Candidate, Rank, Skipped

LEMMA NextCandidate ==
  ASSUME NEW max \in Nat, max >= 1, NEW next \in 0..max, NEW j \in 0..(max - 1)
  PROVE  /\ Wrapped(Candidate(next, j, max) + 1, max) \in 0..max
         /\ Skipped(Wrapped(Candidate(next, j, max) + 1, max)) = Candidate(next, j + 1, max)
<1> DEFINE c == Candidate(next, j, max)
<1>1. c \in 1..max
  BY CandidatesAreAll
<1>2. Wrapped(c + 1, max) = IF c = max THEN 0 ELSE c + 1
  <2> HIDE DEF c
  <2> QED
    BY <1>1, WrapsAround
<1>3. Candidate(next, j + 1, max) = IF c = max THEN 1 ELSE c + 1
  BY DEF Candidate, Skipped
<1> HIDE DEF c
<1>4. Wrapped(c + 1, max) \in 0..max /\ Skipped(Wrapped(c + 1, max)) = Candidate(next, j + 1, max)
  BY <1>1, <1>2, <1>3 DEF Skipped
<1> QED
  BY <1>4 DEF c

\* The rounds are well defined.
LEMMA Rounds ==
  ASSUME NEW max \in Nat, NEW next, NEW used
  PROVE  \E f : /\ f[0] = [next |-> next, done |-> FALSE, id |-> 0]
                /\ \A i \in 1..max : f[i] = Round(f[i - 1], used, max)
                /\ NextId(next, used, max) = f[max]
<1> DEFINE start == [next |-> next, done |-> FALSE, id |-> 0]
           IsSearch(f, k) ==
             f = [i \in 0..k |-> IF i = 0 THEN start ELSE Round(f[i - 1], used, max)]
           S == {k \in Nat : \E f : IsSearch(f, k)}
<1> HIDE DEF start
<1>1. 0 \in S
  <2>1. IsSearch([i \in 0..0 |-> start], 0)
    OBVIOUS
  <2> QED
    BY <2>1
<1>2. ASSUME NEW k \in Nat, k \in S
      PROVE  k + 1 \in S
  <2>1. PICK f : IsSearch(f, k)
    BY <1>2
  <2> DEFINE g == [i \in 0..(k + 1) |-> IF i = k + 1 THEN Round(f[k], used, max) ELSE f[i]]
  <2>2. \A i \in 0..k : g[i] = f[i]
    OBVIOUS
  <2>3. \A i \in 0..k : f[i] = IF i = 0 THEN start ELSE Round(f[i - 1], used, max)
    BY <2>1
  <2>4. \A i \in 0..(k + 1) : g[i] = IF i = 0 THEN start ELSE Round(g[i - 1], used, max)
    <3> SUFFICES ASSUME NEW i \in 0..(k + 1)
                 PROVE  g[i] = IF i = 0 THEN start ELSE Round(g[i - 1], used, max)
      OBVIOUS
    <3>1. CASE i = k + 1
      <4>1. g[i] = Round(f[k], used, max) /\ g[i - 1] = f[k] /\ i # 0
        BY <3>1, <2>2
      <4> QED
        BY <4>1
    <3>2. CASE i # k + 1
      <4>1. i \in 0..k /\ (i # 0 => i - 1 \in 0..k)
        BY <3>2
      <4> QED
        BY <4>1, <2>2, <2>3
    <3> QED
      BY <3>1, <3>2
  <2>5. IsSearch(g, k + 1)
    <3>1. g = [i \in 0..(k + 1) |-> g[i]]
      OBVIOUS
    <3> HIDE DEF g
    <3> QED
      BY <2>4, <3>1
  <2> HIDE DEF g, IsSearch
  <2> QED
    BY <2>5
<1>3. max \in S
  <2> HIDE DEF S
  <2> QED
    BY <1>1, <1>2, SetInduction
<1> DEFINE f == CHOOSE f : IsSearch(f, max)
<1>4. IsSearch(f, max)
  BY <1>3
<1>5. NextId(next, used, max) = f[max]
  BY DEF NextId, start
<1> HIDE DEF f
<1>6. f[0] = start /\ \A i \in 1..max : f[i] = Round(f[i - 1], used, max)
  BY <1>4
<1> QED
  BY <1>5, <1>6 DEF start

\* What k rounds of a search from next have found.
Searched(search, k, next, used, max) ==
  /\ search \in [next : 0..max, done : BOOLEAN, id : 0..max]
  /\ ~ search.done => /\ search.id = 0
                      /\ Skipped(search.next) = Candidate(next, k, max)
                      /\ \A j \in 0..(k - 1) : Candidate(next, j, max) \in used
  /\ search.done => \E j \in 0..(k - 1) :
                      /\ search.id = Candidate(next, j, max)
                      /\ search.id \notin used
                      /\ \A i \in 0..(j - 1) : Candidate(next, i, max) \in used

LEMMA RoundSearches ==
  ASSUME NEW max \in Nat, max >= 1, NEW next \in 0..max, NEW used, NEW k \in 0..(max - 1),
         NEW search, Searched(search, k, next, used, max)
  PROVE  Searched(Round(search, used, max), k + 1, next, used, max)
<1> SUFFICES ASSUME NEW r, r = Round(search, used, max)
             PROVE  Searched(r, k + 1, next, used, max)
  OBVIOUS
<1> DEFINE c == Candidate(next, k, max)
<1>1. CASE search.done
  <2>1. r = search
    BY <1>1 DEF Round
  <2>2. PICK j \in 0..(k - 1) :
          /\ search.id = Candidate(next, j, max)
          /\ search.id \notin used
          /\ \A i \in 0..(j - 1) : Candidate(next, i, max) \in used
    BY <1>1 DEF Searched
  <2>3. j \in 0..((k + 1) - 1)
    OBVIOUS
  <2> QED
    BY <1>1, <2>1, <2>2, <2>3 DEF Searched
<1>2. CASE ~ search.done
  <2>1. /\ Skipped(search.next) = c
        /\ \A j \in 0..(k - 1) : Candidate(next, j, max) \in used
    BY <1>2 DEF Searched
  <2>2. /\ c \in 1..max /\ Wrapped(c + 1, max) \in 0..max
        /\ Skipped(Wrapped(c + 1, max)) = Candidate(next, k + 1, max)
    BY CandidatesAreAll, NextCandidate
  <2>3. r = [next |-> Wrapped(c + 1, max), done |-> c \notin used,
             id |-> IF c \notin used THEN c ELSE 0]
    BY <1>2, <2>1 DEF Round, Skipped
  <2>4. CASE c \in used
    <3>1. r = [next |-> Wrapped(c + 1, max), done |-> FALSE, id |-> 0]
      BY <2>3, <2>4
    <3>2. r \in [next : 0..max, done : BOOLEAN, id : 0..max]
      BY <2>2, <3>1
    <3>3. ~ r.done /\ r.id = 0 /\ Skipped(r.next) = Candidate(next, k + 1, max)
      BY <2>2, <3>1
    <3>4. \A j \in 0..((k + 1) - 1) : Candidate(next, j, max) \in used
      BY <2>1, <2>4
    <3> QED
      BY <3>2, <3>3, <3>4 DEF Searched
  <2>5. CASE c \notin used
    <3>1. r = [next |-> Wrapped(c + 1, max), done |-> TRUE, id |-> c]
      BY <2>3, <2>5
    <3>2. r \in [next : 0..max, done : BOOLEAN, id : 0..max]
      BY <2>2, <3>1
    <3>3. r.done /\ r.id = c
      BY <3>1
    <3>4. k \in 0..((k + 1) - 1)
      OBVIOUS
    <3> QED
      BY <2>1, <2>5, <3>2, <3>3, <3>4 DEF Searched
  <2> QED
    BY <2>4, <2>5
<1> QED
  BY <1>1, <1>2

\* inventory_get_next_object_id and inventory_get_next_session_id find the free
\* id that the counter reaches first, and none only if there is none.
LEMMA FirstFree ==
  ASSUME NEW max \in Nat, max >= 1, NEW next \in 0..max, NEW used
  PROVE  LET got == NextId(next, used, max) IN
         /\ got.next \in 0..max /\ got.id \in 0..max
         /\ got.id = 0 => 1..max \subseteq used
         /\ got.id # 0 => /\ got.id \notin used
                          /\ \A i \in (1..max) \ used :
                               Rank(next, got.id, max) <= Rank(next, i, max)
<1>1. PICK f : /\ f[0] = [next |-> next, done |-> FALSE, id |-> 0]
               /\ \A i \in 1..max : f[i] = Round(f[i - 1], used, max)
               /\ NextId(next, used, max) = f[max]
  BY Rounds
<1> DEFINE S == {k \in Nat : Searched(f[k], k, next, used, max)}
<1>2. 0 \in S
  <2>1. Skipped(next) = Candidate(next, 0, max)
    BY DEF Skipped, Candidate
  <2>2. /\ f[0] \in [next : 0..max, done : BOOLEAN, id : 0..max]
        /\ f[0].next = next /\ ~ f[0].done /\ f[0].id = 0
    BY <1>1
  <2>3. Searched(f[0], 0, next, used, max)
    BY <2>1, <2>2 DEF Searched
  <2> QED
    BY <2>3
<1>3. ASSUME NEW k \in 0..(max - 1), k \in S
      PROVE  k + 1 \in S
  <2>1. f[k + 1] = Round(f[k], used, max)
    BY <1>1
  <2> QED
    BY <1>3, <2>1, RoundSearches
<1>4. Searched(f[max], max, next, used, max)
  <2>1. max \in S
    <3> HIDE DEF S
    <3> QED
      BY <1>2, <1>3, SetInduction
  <2> QED
    BY <2>1
<1> DEFINE got == NextId(next, used, max)
<1>5. Searched(got, max, next, used, max)
  BY <1>1, <1>4
<1> HIDE DEF got
<1>6. got.next \in 0..max /\ got.id \in 0..max
  BY <1>5 DEF Searched
<1>7. CASE ~ got.done
  <2>1. got.id = 0 /\ \A j \in 0..(max - 1) : Candidate(next, j, max) \in used
    BY <1>5, <1>7 DEF Searched
  <2>2. ASSUME NEW i \in 1..max
        PROVE  i \in used
    <3>1. Rank(next, i, max) \in 0..(max - 1) /\ Candidate(next, Rank(next, i, max), max) = i
      BY CandidatesAreAll
    <3> QED
      BY <2>1, <3>1
  <2> QED
    BY <1>6, <2>1, <2>2 DEF got
<1>8. CASE got.done
  <2>1. PICK j \in 0..(max - 1) :
          /\ got.id = Candidate(next, j, max)
          /\ got.id \notin used
          /\ \A i \in 0..(j - 1) : Candidate(next, i, max) \in used
    BY <1>5, <1>8 DEF Searched
  <2>2. got.id # 0 /\ Rank(next, got.id, max) = j
    BY <2>1, CandidatesAreAll
  <2>3. ASSUME NEW i \in (1..max) \ used
        PROVE  j <= Rank(next, i, max)
    <3>1. Rank(next, i, max) \in 0..(max - 1) /\ Candidate(next, Rank(next, i, max), max) = i
      BY CandidatesAreAll
    <3> QED
      BY <2>1, <2>3, <3>1
  <2> QED
    BY <1>6, <2>1, <2>2, <2>3 DEF got
<1> QED
  BY <1>7, <1>8

-----------------------------------------------------------------------------
(* The inductive invariant                                                 *)

\* The counts of one object, and that lists do not outlive their sessions.
CountsExact(a) ==
  /\ external[a] = Cardinality(Listing(a))
  /\ a \in Objects <=> internal[a] + external[a] > 0

Listed == \A a \in Addr, s \in Session : s \in Listing(a) \/ loose[a][s] > 0 => s \in Sessions

Inv == IdsUnique /\ TimerArmed /\ LivesWhileReferenced

LEMMA ListingFinite ==
  ASSUME NEW a
  PROVE  IsFiniteSet(Listing(a)) /\ Cardinality(Listing(a)) \in Nat
<1>1. Listing(a) \in SUBSET Session /\ IsFiniteSet(Session)
  BY InventoryAssumption DEF Listing
<1> QED
  BY <1>1, FS_Subset, FS_CardinalityType

LEMMA InitInv ==
  ASSUME Init
  PROVE  Inv
<1>1. TypeOK
  BY InventoryAssumption DEF Init, TypeOK
<1>2. Objects = {} /\ Sessions = {} /\ \A a \in Addr : Listing(a) = {}
  BY DEF Init, Objects, Sessions, Listing
<1>3. LivesWhileReferenced
  BY <1>2, FS_EmptySet DEF Init, LivesWhileReferenced
<1> QED
  BY <1>1, <1>2, <1>3 DEF Inv, IdsUnique, TimerArmed

\* While no object was overwritten, all counts are exact.
LEMMA InvCounts ==
  ASSUME Inv, overwritten = {}
  PROVE  /\ TypeOK /\ Listed
         /\ \A a \in Addr : CountsExact(a) /\ external[a] \in Nat /\ internal[a] \in Nat
         /\ \A a \in Addr : a \notin Objects =>
               internal[a] = 0 /\ external[a] = 0 /\ Listing(a) = {}
<1>1. TypeOK /\ Listed /\ \A a \in Addr : CountsExact(a)
  BY DEF Inv, IdsUnique, LivesWhileReferenced, CountsExact, Listed
<1>2. \A a \in Addr : external[a] \in Nat /\ internal[a] \in Nat
  BY <1>1, ListingFinite, InventoryAssumption DEF CountsExact, TypeOK
<1>3. ASSUME NEW a \in Addr, a \notin Objects
      PROVE  internal[a] = 0 /\ external[a] = 0 /\ Listing(a) = {}
  <2>1. internal[a] = 0 /\ external[a] = 0
    BY <1>1, <1>2, <1>3 DEF CountsExact
  <2> QED
    BY <1>1, <2>1, ListingFinite, FS_EmptySet DEF CountsExact
<1> QED
  BY <1>1, <1>2, <1>3

\* A step that only takes ids away keeps the others unique.
LEMMA FewerIds ==
  ASSUME IdsUnique, TypeOK', \A a \in Addr : objId'[a] \in {0, objId[a]},
         \A s \in Session : sesId'[s] \in {0, sesId[s]}
  PROVE  IdsUnique'
BY DEF IdsUnique, Objects, Sessions, TypeOK

\* A step that disturbs the references to one object only.
LEMMA OneObject ==
  ASSUME Inv, overwritten = {}, overwritten' = {}, NEW a \in Addr,
         \A b \in Addr \ {a} :
           /\ objId'[b] = objId[b] /\ internal'[b] = internal[b] /\ external'[b] = external[b]
           /\ Listing(b)' = Listing(b),
         CountsExact(a)', Listed'
  PROVE  LivesWhileReferenced'
<1>1. ASSUME NEW b \in Addr
      PROVE  CountsExact(b)'
  <2>1. CASE b = a
    BY <2>1
  <2>2. CASE b # a
    <3>1. CountsExact(b)
      BY InvCounts
    <3>2. b \in Objects <=> b \in Objects'
      BY <2>2 DEF Objects
    <3> QED
      BY <2>2, <3>1, <3>2 DEF CountsExact
  <2> QED
    BY <2>1, <2>2
<1> QED
  BY <1>1 DEF LivesWhileReferenced, CountsExact, Listed

\* The id of a new object: not in use, and the first free one.
LEMMA ObjectId ==
  ASSUME TypeOK
  PROVE  LET got == NextId(nextObjId, {objId[b] : b \in Objects}, MaxObjectId)
             free == (1..MaxObjectId) \ {objId[b] : b \in Objects} IN
         /\ got.next \in 0..MaxObjectId /\ got.id \in 0..MaxObjectId
         /\ got.id # 0 => \A b \in Objects : objId[b] # got.id
         /\ got.id = 0 => free = {}
         /\ got.id # 0 => \A i \in free : Distance(nextObjId, got.id) <= Distance(nextObjId, i)
<1> DEFINE used == {objId[b] : b \in Objects}
           got == NextId(nextObjId, used, MaxObjectId)
<1>1. /\ MaxObjectId \in Nat /\ MaxObjectId >= 1 /\ nextObjId \in 0..MaxObjectId
  BY InventoryAssumption DEF TypeOK
<1>2. /\ got.next \in 0..MaxObjectId /\ got.id \in 0..MaxObjectId
      /\ got.id = 0 => 1..MaxObjectId \subseteq used
      /\ got.id # 0 => /\ got.id \notin used
                       /\ \A i \in (1..MaxObjectId) \ used :
                            Rank(nextObjId, got.id, MaxObjectId) <= Rank(nextObjId, i, MaxObjectId)
  <2> HIDE DEF used
  <2> QED
    BY <1>1, FirstFree
<1>3. \A i : Distance(nextObjId, i) = Rank(nextObjId, i, MaxObjectId)
  BY DEF Distance, Rank, Skipped
<1>4. got.id # 0 => \A b \in Objects : objId[b] # got.id
  BY <1>2
<1> QED
  BY <1>2, <1>3, <1>4

\* The id of a new session: not in use.
LEMMA SessionId ==
  ASSUME TypeOK
  PROVE  LET got == NextId(nextSesId, {sesId[t] : t \in Sessions}, MaxSessionId) IN
         /\ got.next \in 0..MaxSessionId /\ got.id \in 0..MaxSessionId
         /\ got.id # 0 => \A t \in Sessions : sesId[t] # got.id
<1> DEFINE used == {sesId[t] : t \in Sessions}
           got == NextId(nextSesId, used, MaxSessionId)
<1>1. MaxSessionId \in Nat /\ MaxSessionId >= 1 /\ nextSesId \in 0..MaxSessionId
  BY InventoryAssumption DEF TypeOK
<1>2. /\ got.next \in 0..MaxSessionId /\ got.id \in 0..MaxSessionId
      /\ got.id # 0 => got.id \notin used
  <2> HIDE DEF used
  <2> QED
    BY <1>1, FirstFree
<1>3. got.id # 0 => \A t \in Sessions : sesId[t] # got.id
  BY <1>2
<1> QED
  BY <1>2, <1>3

-----------------------------------------------------------------------------
(* Steps                                                                   *)

\* object_create, which finds an id
LEMMA CreatedInv ==
  ASSUME Inv, overwritten = {}, NEW a \in Addr, NEW i \in 0..1, NEW owners,
         owners = {} \/ (\E s \in Session : owners = {s}), ObjectCreate(a, i, owners)
  PROVE  Inv'
<1> DEFINE got == NextId(nextObjId, {objId[b] : b \in Objects}, MaxObjectId)
<1>1. TypeOK /\ Listed
  BY InvCounts
<1>2. /\ got.next \in 0..MaxObjectId /\ got.id \in 0..MaxObjectId
      /\ got.id # 0 => \A b \in Objects : objId[b] # got.id
  BY <1>1, ObjectId
<1>3. /\ a \notin Objects /\ owners \subseteq Sessions
      /\ i = 1 \/ owners # {}
      /\ nextObjId' = got.next /\ objId' = [objId EXCEPT ![a] = got.id]
      /\ UNCHANGED <<sesId, nextSesId, lifetime, remaining, overwritten>>
  BY DEF ObjectCreate, timers
<1>4. \/ /\ got.id # 0
         /\ internal' = [internal EXCEPT ![a] = i]
         /\ external' = [external EXCEPT ![a] = IF owners = {} THEN 0 ELSE 1]
         /\ nodes'    = nodes \cup {<<a, s>> : s \in owners}
         /\ UNCHANGED loose
      \/ /\ got.id = 0
         /\ \A s \in owners : loose[a][s] < MaxLoose
         /\ loose' = [loose EXCEPT ![a] =
                        [s \in Session |-> IF s \in owners THEN @[s] + 1 ELSE @[s]]]
         /\ UNCHANGED <<internal, external, nodes>>
  BY DEF ObjectCreate
<1> HIDE DEF got
<1>5. objId'[a] = got.id /\ \A b \in Addr : b # a => objId'[b] = objId[b]
  BY <1>1, <1>3 DEF TypeOK
<1>6. Sessions' = Sessions /\ owners \subseteq Session
  BY <1>3 DEF Sessions
<1>7. internal[a] = 0 /\ external[a] = 0 /\ Listing(a) = {}
  BY <1>3, InvCounts
<1>8. CASE got.id # 0
  <2>1. /\ internal' = [internal EXCEPT ![a] = i]
        /\ external' = [external EXCEPT ![a] = IF owners = {} THEN 0 ELSE 1]
        /\ nodes'    = nodes \cup {<<a, s>> : s \in owners}
        /\ UNCHANGED loose
    BY <1>4, <1>8
  <2>2. TypeOK'
    BY <1>1, <1>2, <1>3, <1>6, <2>1, InventoryAssumption DEF TypeOK
  <2>3. Listing(a)' = owners /\ \A b \in Addr \ {a} : Listing(b)' = Listing(b)
    BY <1>6, <1>7, <2>1 DEF Listing
  <2>4. /\ internal'[a] = i /\ external'[a] = (IF owners = {} THEN 0 ELSE 1)
        /\ \A b \in Addr \ {a} : internal'[b] = internal[b] /\ external'[b] = external[b]
    BY <1>1, <2>1 DEF TypeOK
  <2>5. external'[a] = Cardinality(owners)
    BY <2>4, FS_EmptySet, FS_Singleton
  <2>6. a \in Objects' /\ internal'[a] + external'[a] > 0
    BY <1>3, <1>5, <1>8, <2>4 DEF Objects
  <2>7. Listed'
    BY <1>1, <1>3, <1>6, <2>1, <2>3 DEF Listed
  <2>8. LivesWhileReferenced'
    <3>1. CountsExact(a)'
      BY <2>3, <2>5, <2>6 DEF CountsExact
    <3> QED
      BY <1>3, <1>5, <2>3, <2>4, <2>7, <3>1, OneObject
  <2>9. IdsUnique'
    <3>1. \A b, c \in Objects' : objId'[b] = objId'[c] => b = c
      BY <1>2, <1>5 DEF Inv, IdsUnique, Objects
    <3> QED
      BY <1>3, <1>6, <2>2, <3>1 DEF Inv, IdsUnique
  <2> QED
    BY <1>3, <1>6, <2>8, <2>9 DEF Inv, TimerArmed
<1>9. CASE got.id = 0
  <2>1. /\ \A s \in owners : loose[a][s] < MaxLoose
        /\ loose' = [loose EXCEPT ![a] =
                       [s \in Session |-> IF s \in owners THEN @[s] + 1 ELSE @[s]]]
        /\ UNCHANGED <<internal, external, nodes>>
    BY <1>4, <1>9
  <2>2. /\ \A s \in Session : loose[a][s] \in 0..MaxLoose
        /\ loose'[a] = [s \in Session |-> IF s \in owners THEN loose[a][s] + 1 ELSE loose[a][s]]
        /\ \A b \in Addr \ {a} : loose'[b] = loose[b]
    BY <1>1, <2>1 DEF TypeOK
  <2>3. loose' \in [Addr -> [Session -> 0..MaxLoose]]
    <3>1. loose'[a] \in [Session -> 0..MaxLoose]
      BY <2>1, <2>2, InventoryAssumption
    <3> QED
      BY <1>1, <2>1, <2>2, <3>1 DEF TypeOK
  <2>4. TypeOK'
    BY <1>1, <1>2, <1>3, <2>1, <2>3 DEF TypeOK
  <2>5. objId'[a] = objId[a] /\ \A b \in Addr : Listing(b)' = Listing(b)
    BY <1>3, <1>5, <1>9, <2>1 DEF Objects, Listing
  <2>6. CountsExact(a)'
    <3>1. CountsExact(a) /\ (a \in Objects <=> a \in Objects')
      BY <2>5, InvCounts DEF Objects
    <3> QED
      BY <2>1, <2>5, <3>1 DEF CountsExact
  <2>7. Listed'
    <3> SUFFICES ASSUME NEW b \in Addr, NEW s \in Session, s \in Listing(b)' \/ loose'[b][s] > 0
                 PROVE  s \in Sessions
      BY <1>6 DEF Listed
    <3>1. CASE s \in owners
      BY <1>3, <3>1
    <3>2. CASE s \notin owners
      <4>1. loose'[b][s] = loose[b][s]
        BY <2>2, <3>2
      <4> QED
        BY <1>1, <2>5, <4>1 DEF Listed
    <3> QED
      BY <3>1, <3>2
  <2>8. LivesWhileReferenced'
    BY <1>3, <1>5, <2>1, <2>5, <2>6, <2>7, OneObject
  <2>9. IdsUnique'
    BY <1>3, <1>5, <1>9, <2>4, FewerIds DEF Inv
  <2> QED
    BY <1>3, <1>6, <2>8, <2>9 DEF Inv, TimerArmed
<1> QED
  BY <1>8, <1>9

\* object_add_internal_reference
LEMMA AddInternalInv ==
  ASSUME Inv, overwritten = {}, NEW a \in Addr, AddInternalReference(a)
  PROVE  Inv'
<1>1. TypeOK /\ Listed /\ CountsExact(a) /\ external[a] \in Nat /\ internal[a] \in Nat
  BY InvCounts
<1>2. /\ a \in Objects /\ internal[a] < MaxInternal
      /\ internal' = [internal EXCEPT ![a] = @ + 1]
      /\ UNCHANGED <<objId, sesId, nextObjId, nextSesId, external, nodes, loose,
                     lifetime, remaining, overwritten>>
  BY DEF AddInternalReference, timers
<1>3. /\ internal'[a] = internal[a] + 1
      /\ \A b \in Addr \ {a} : internal'[b] = internal[b]
  BY <1>1, <1>2 DEF TypeOK
<1>4. TypeOK'
  BY <1>1, <1>2, InventoryAssumption DEF TypeOK
<1>5. Objects' = Objects /\ Sessions' = Sessions /\ \A b \in Addr : Listing(b)' = Listing(b)
  BY <1>2 DEF Objects, Sessions, Listing
<1>6. CountsExact(a)' /\ Listed'
  BY <1>1, <1>2, <1>3, <1>5 DEF CountsExact, Listed
<1>7. LivesWhileReferenced'
  BY <1>2, <1>3, <1>5, <1>6, OneObject
<1> QED
  BY <1>2, <1>4, <1>5, <1>7, FewerIds DEF Inv, TimerArmed

\* object_add_external_reference
LEMMA AddExternalInv ==
  ASSUME Inv, overwritten = {}, NEW a \in Addr, NEW s \in Session, AddExternalReference(a, s)
  PROVE  Inv'
<1>1. TypeOK /\ Listed /\ CountsExact(a) /\ external[a] \in Nat /\ internal[a] \in Nat
  BY InvCounts
<1>2. /\ a \in Objects /\ s \in Sessions /\ <<a, s>> \notin nodes
      /\ external' = [external EXCEPT ![a] = @ + 1]
      /\ nodes'    = nodes \cup {<<a, s>>}
      /\ UNCHANGED <<objId, sesId, nextObjId, nextSesId, internal, loose,
                     lifetime, remaining, overwritten>>
  BY DEF AddExternalReference, timers
<1>3. /\ external'[a] = external[a] + 1
      /\ \A b \in Addr \ {a} : external'[b] = external[b]
  BY <1>1, <1>2 DEF TypeOK
<1>4. TypeOK'
  BY <1>1, <1>2 DEF TypeOK
<1>5. Objects' = Objects /\ Sessions' = Sessions
  BY <1>2 DEF Objects, Sessions
<1>6. /\ Listing(a)' = Listing(a) \cup {s} /\ s \notin Listing(a)
      /\ \A b \in Addr \ {a} : Listing(b)' = Listing(b)
  BY <1>2 DEF Listing
<1>7. Cardinality(Listing(a)') = Cardinality(Listing(a)) + 1
  BY <1>6, ListingFinite, FS_AddElement
<1>8. CountsExact(a)'
  BY <1>1, <1>2, <1>3, <1>5, <1>7 DEF CountsExact
<1>9. Listed'
  BY <1>1, <1>2, <1>5, <1>6 DEF Listed
<1>10. LivesWhileReferenced'
  BY <1>2, <1>3, <1>6, <1>8, <1>9, OneObject
<1> QED
  BY <1>2, <1>4, <1>5, <1>10, FewerIds DEF Inv, TimerArmed

\* object_remove_internal_reference
LEMMA RemoveInternalInv ==
  ASSUME Inv, overwritten = {}, NEW a \in Addr, RemoveInternalReference(a)
  PROVE  Inv'
<1>1. TypeOK /\ Listed /\ CountsExact(a) /\ external[a] \in Nat /\ internal[a] \in Nat
  BY InvCounts
<1>2. /\ a \in Objects /\ internal[a] > 0
      /\ internal' = [internal EXCEPT ![a] = @ - 1]
      /\ objId' = [objId EXCEPT ![a] = IF internal'[a] = 0 /\ external[a] <= 0 THEN 0 ELSE @]
      /\ UNCHANGED <<sesId, nextObjId, nextSesId, external, nodes, loose,
                     lifetime, remaining, overwritten>>
  BY DEF RemoveInternalReference, LastReference, timers
<1>3. /\ internal'[a] = internal[a] - 1
      /\ \A b \in Addr \ {a} : internal'[b] = internal[b] /\ objId'[b] = objId[b]
      /\ objId'[a] = IF internal'[a] = 0 /\ external[a] <= 0 THEN 0 ELSE objId[a]
  BY <1>1, <1>2 DEF TypeOK
<1>4. TypeOK'
  BY <1>1, <1>2, <1>3, InventoryAssumption DEF TypeOK
<1>5. Sessions' = Sessions /\ \A b \in Addr : Listing(b)' = Listing(b)
  BY <1>2 DEF Sessions, Listing
<1>6. a \in Objects' <=> internal'[a] + external'[a] > 0
  BY <1>1, <1>2, <1>3 DEF Objects
<1>7. CountsExact(a)' /\ Listed'
  BY <1>1, <1>2, <1>5, <1>6 DEF CountsExact, Listed
<1>8. LivesWhileReferenced'
  BY <1>2, <1>3, <1>5, <1>7, OneObject
<1>9. \A b \in Addr : objId'[b] \in {0, objId[b]}
  BY <1>3
<1> QED
  BY <1>2, <1>4, <1>5, <1>8, <1>9, FewerIds DEF Inv, TimerArmed

\* object_remove_external_reference
LEMMA RemoveExternalInv ==
  ASSUME Inv, overwritten = {}, NEW a \in Addr, NEW s \in Session, RemoveExternalReference(a, s)
  PROVE  Inv'
<1>1. TypeOK /\ Listed /\ CountsExact(a) /\ external[a] \in Nat /\ internal[a] \in Nat
  BY InvCounts
<1>2. /\ a \in Objects /\ <<a, s>> \in nodes
      /\ external' = [external EXCEPT ![a] = @ - 1]
      /\ nodes'    = nodes \ {<<a, s>>}
      /\ objId' = [objId EXCEPT ![a] = IF internal[a] = 0 /\ external'[a] <= 0 THEN 0 ELSE @]
      /\ UNCHANGED <<sesId, nextObjId, nextSesId, internal, loose,
                     lifetime, remaining, overwritten>>
  BY DEF RemoveExternalReference, LastReference, timers
<1>3. /\ external'[a] = external[a] - 1
      /\ \A b \in Addr \ {a} : external'[b] = external[b] /\ objId'[b] = objId[b]
      /\ objId'[a] = IF internal[a] = 0 /\ external'[a] <= 0 THEN 0 ELSE objId[a]
  BY <1>1, <1>2 DEF TypeOK
<1>4. TypeOK'
  BY <1>1, <1>2, <1>3, InventoryAssumption DEF TypeOK
<1>5. Sessions' = Sessions
  BY <1>2 DEF Sessions
<1>6. /\ Listing(a)' = Listing(a) \ {s} /\ s \in Listing(a)
      /\ \A b \in Addr \ {a} : Listing(b)' = Listing(b)
  BY <1>2 DEF Listing
<1>7. Cardinality(Listing(a)') = Cardinality(Listing(a)) - 1
  BY <1>6, ListingFinite, FS_RemoveElement
<1>8. Cardinality(Listing(a)') \in Nat
  BY <1>6, ListingFinite, FS_RemoveElement, FS_CardinalityType
<1>9. external'[a] = Cardinality(Listing(a)')
  BY <1>1, <1>3, <1>7 DEF CountsExact
<1>10. a \in Objects' <=> internal'[a] + external'[a] > 0
  BY <1>1, <1>2, <1>3, <1>8, <1>9 DEF Objects
<1>11. CountsExact(a)'
  BY <1>9, <1>10 DEF CountsExact
<1>12. Listed'
  BY <1>1, <1>2, <1>5, <1>6 DEF Listed
<1>13. LivesWhileReferenced'
  BY <1>2, <1>3, <1>6, <1>11, <1>12, OneObject
<1>14. \A b \in Addr : objId'[b] \in {0, objId[b]}
  BY <1>3
<1> QED
  BY <1>2, <1>4, <1>5, <1>13, <1>14, FewerIds DEF Inv, TimerArmed

\* session_create
LEMMA SessionCreateInv ==
  ASSUME Inv, overwritten = {}, NEW s \in Session, NEW l \in Lifetimes, SessionCreate(s, l)
  PROVE  Inv'
<1> DEFINE got == NextId(nextSesId, {sesId[t] : t \in Sessions}, MaxSessionId)
<1>1. TypeOK /\ l \in 0..MaxLifetime
  BY InventoryAssumption DEF Inv, IdsUnique, SessionCreate
<1>2. /\ got.next \in 0..MaxSessionId /\ got.id \in 0..MaxSessionId
      /\ got.id # 0 => \A t \in Sessions : sesId[t] # got.id
  BY <1>1, SessionId
<1>3. /\ s \notin Sessions /\ nextSesId' = got.next
      /\ sesId' = [sesId EXCEPT ![s] = got.id]
      /\ got.id = 0 => UNCHANGED <<lifetime, remaining>>
      /\ got.id # 0 => /\ lifetime'  = [lifetime EXCEPT ![s] = l]
                       /\ remaining' = [remaining EXCEPT ![s] = l]
      /\ UNCHANGED <<objId, nextObjId, internal, external, nodes, loose, overwritten>>
  BY DEF SessionCreate, counts
<1> HIDE DEF got
<1>4. TypeOK'
  BY <1>1, <1>2, <1>3 DEF TypeOK
<1>5. sesId'[s] = got.id /\ \A t \in Session : t # s => sesId'[t] = sesId[t]
  BY <1>1, <1>3 DEF TypeOK
<1>6. Objects' = Objects /\ Sessions \subseteq Sessions'
  BY <1>3, <1>5 DEF Objects, Sessions
<1>7. IdsUnique'
  <2>1. \A t, u \in Sessions' : sesId'[t] = sesId'[u] => t = u
    BY <1>2, <1>5 DEF Inv, IdsUnique, Sessions
  <2> QED
    BY <1>3, <1>4, <1>6, <2>1 DEF Inv, IdsUnique
<1>8. TimerArmed'
  <2>1. ASSUME NEW t \in Sessions', lifetime'[t] # 0
        PROVE  remaining'[t] \in 1..lifetime'[t]
    <3>1. CASE t = s
      <4>1. got.id # 0
        BY <3>1, <1>5 DEF Sessions
      <4>2. lifetime'[s] = l /\ remaining'[s] = l
        BY <4>1, <1>1, <1>3 DEF TypeOK
      <4> QED
        BY <4>2, <3>1, <2>1, <1>1
    <3>2. CASE t # s
      <4>1. t \in Sessions
        BY <3>2, <1>5 DEF Sessions
      <4>2. lifetime'[t] = lifetime[t] /\ remaining'[t] = remaining[t]
        <5>1. CASE got.id = 0
          BY <5>1, <1>3
        <5>2. CASE got.id # 0
          <6>1. t \in Session /\ DOMAIN lifetime = Session /\ DOMAIN remaining = Session
            BY <4>1, <1>1 DEF Sessions, TypeOK
          <6> QED
            BY <5>2, <6>1, <3>2, <1>3
        <5> QED
          BY <5>1, <5>2
      <4> QED
        BY <4>1, <4>2, <2>1 DEF Inv, TimerArmed
    <3> QED
      BY <3>1, <3>2
  <2> QED
    BY <2>1 DEF TimerArmed
<1>9. LivesWhileReferenced'
  <2>1. \A a : Listing(a)' = Listing(a)
    BY <1>3 DEF Listing
  <2> QED
    BY <1>3, <1>6, <2>1 DEF Inv, LivesWhileReferenced
<1> QED
  BY <1>7, <1>8, <1>9 DEF Inv

\* A step that changes only times: session_keep_alive, or a tick.
LEMMA TimesInv ==
  ASSUME Inv, UNCHANGED <<objId, sesId, nextObjId, nextSesId, counts>>,
         lifetime' \in [Session -> 0..MaxLifetime],
         remaining' \in [Session -> 0..MaxLifetime],
         TimerArmed'
  PROVE  Inv'
<1>1. /\ Objects' = Objects /\ Sessions' = Sessions
      /\ \A a : Listing(a)' = Listing(a)
  BY DEF Objects, Sessions, Listing, counts
<1>2. IdsUnique'
  BY <1>1 DEF Inv, IdsUnique, TypeOK, counts
<1>3. LivesWhileReferenced'
  BY <1>1 DEF Inv, LivesWhileReferenced, counts
<1> QED
  BY <1>2, <1>3 DEF Inv

\* session_keep_alive
LEMMA SessionKeepAliveInv ==
  ASSUME Inv, NEW s \in Session, NEW l \in Lifetimes, SessionKeepAlive(s, l)
  PROVE  Inv'
<1>1. TypeOK /\ l \in 0..MaxLifetime
  BY InventoryAssumption DEF Inv, IdsUnique, SessionKeepAlive
<1>2. /\ lifetime'  = [lifetime EXCEPT ![s] = l]
      /\ remaining' = [remaining EXCEPT ![s] = l]
      /\ UNCHANGED <<objId, sesId, nextObjId, nextSesId, counts>>
  BY DEF SessionKeepAlive
<1>3. TimerArmed'
  BY <1>1, <1>2 DEF Inv, TimerArmed, TypeOK, Sessions
<1> QED
  BY <1>1, <1>2, <1>3, TimesInv DEF TypeOK

\* Time passes.
LEMMA TickInv ==
  ASSUME Inv, NEW s \in Session, Tick(s)
  PROVE  Inv'
<1>1. TypeOK
  BY DEF Inv, IdsUnique
<1>2. /\ remaining[s] > 1
      /\ remaining' = [remaining EXCEPT ![s] = @ - 1]
      /\ UNCHANGED <<objId, sesId, nextObjId, nextSesId, counts, lifetime>>
  BY DEF Tick
<1>3. remaining' \in [Session -> 0..MaxLifetime]
  BY <1>1, <1>2, InventoryAssumption DEF TypeOK
<1>4. TimerArmed'
  BY <1>1, <1>2 DEF Inv, TimerArmed, TypeOK, Sessions
<1> QED
  BY <1>1, <1>2, <1>3, <1>4, TimesInv DEF TypeOK

\* session_expire_helper, called by a request or by the timer: what one session
\* takes from the counts of an object.
LEMMA ExpiredCount ==
  ASSUME Inv, overwritten = {}, NEW s \in Session, s \in Sessions, Expire(s), NEW a \in Addr
  PROVE  LET left == Cardinality(Listing(a) \ {s}) IN
         /\ Listing(a)' = Listing(a) \ {s} /\ left \in Nat
         /\ a \in Objects /\ loose[a][s] > 0 =>
              a \in overwritten' /\ external'[a] = left - loose[a][s]
         /\ ~ (a \in Objects /\ loose[a][s] > 0) =>
              /\ a \notin overwritten' /\ external'[a] = left
              /\ a \in Objects' <=> internal[a] + left > 0
         /\ objId'[a] \in {0, objId[a]}
<1> DEFINE left == Cardinality(Listing(a) \ {s})
           listed == {n \in nodes : n = <<a, s>>}
           hit == {b \in Objects : loose[b][s] > 0}
<1>1. TypeOK /\ CountsExact(a) /\ external[a] \in Nat /\ internal[a] \in Nat
  BY InvCounts
<1>2. /\ external'[a] = external[a] - (IF listed = {} THEN 0 ELSE 1)
                                   - (IF a \in hit THEN loose[a][s] ELSE 0)
      /\ objId'[a] = IF (listed # {} \/ a \in hit) /\ internal[a] = 0 /\ external'[a] <= 0
                     THEN 0 ELSE objId[a]
      /\ nodes' = {n \in nodes : n[2] # s}
      /\ overwritten' = hit
  BY DEF Expire, LastReference
<1>3. Listing(a)' = Listing(a) \ {s}
  BY <1>2 DEF Listing
<1>4. left \in Nat /\ left = external[a] - (IF s \in Listing(a) THEN 1 ELSE 0)
  BY <1>1, ListingFinite, FS_RemoveElement, FS_CardinalityType DEF CountsExact
<1>5. s \in Listing(a) <=> listed # {}
  BY DEF Listing
<1>6. a \in hit <=> a \in Objects /\ loose[a][s] > 0
  OBVIOUS
<1> HIDE DEF left, listed, hit
<1>7. loose[a][s] \in Nat
  BY <1>1, InventoryAssumption DEF TypeOK
<1>8. CASE a \in hit
  <2>1. external'[a] = left - loose[a][s]
    BY <1>1, <1>2, <1>4, <1>5, <1>7, <1>8
  <2> QED
    BY <1>2, <1>3, <1>4, <1>6, <1>8, <2>1 DEF left
<1>9. CASE a \notin hit
  <2>1. external'[a] = left
    BY <1>1, <1>2, <1>4, <1>5, <1>9
  <2>2. a \in Objects' <=> internal[a] + left > 0
    <3>1. a \in Objects <=> internal[a] + external[a] > 0
      BY <1>1 DEF CountsExact
    <3> QED
      BY <1>1, <1>2, <1>4, <1>5, <1>9, <2>1, <3>1 DEF Objects
  <2> QED
    BY <1>2, <1>3, <1>4, <1>6, <1>9, <2>1, <2>2 DEF left
<1> QED
  BY <1>8, <1>9

LEMMA ExpireInv ==
  ASSUME Inv, overwritten = {}, NEW s \in Session, s \in Sessions, Expire(s)
  PROVE  Inv'
<1>1. TypeOK /\ Listed
  BY InvCounts
<1>2. /\ nodes'     = {n \in nodes : n[2] # s}
      /\ loose'     = [a \in Addr |-> [loose[a] EXCEPT ![s] = 0]]
      /\ sesId'     = [sesId EXCEPT ![s] = 0]
      /\ lifetime'  = [lifetime EXCEPT ![s] = 0]
      /\ remaining' = [remaining EXCEPT ![s] = 0]
      /\ overwritten' \subseteq Addr
      /\ UNCHANGED <<nextObjId, nextSesId, internal>>
  BY DEF Expire, Objects
<1>3. \A a \in Addr : objId'[a] \in {0, objId[a]}
  BY ExpiredCount
<1>4. objId' \in [Addr -> 0..MaxObjectId]
  <2>1. objId' = [a \in Addr |-> objId'[a]]
    BY DEF Expire
  <2> QED
    BY <1>1, <1>3, <2>1, InventoryAssumption DEF TypeOK
<1>5. external' \in [Addr -> Int]
  <2>1. \A a \in Addr : external'[a] \in Int
    <3> SUFFICES ASSUME NEW a \in Addr
                 PROVE  external'[a] \in Int
      OBVIOUS
    <3>1. loose[a][s] \in Nat
      BY <1>1, InventoryAssumption DEF TypeOK
    <3>2. /\ Cardinality(Listing(a) \ {s}) \in Nat
          /\ external'[a] \in {Cardinality(Listing(a) \ {s}) - loose[a][s],
                               Cardinality(Listing(a) \ {s})}
      BY ExpiredCount
    <3> QED
      BY <3>1, <3>2
  <2>2. external' = [a \in Addr |-> external'[a]]
    BY DEF Expire
  <2> QED
    BY <2>1, <2>2
<1>6. loose' \in [Addr -> [Session -> 0..MaxLoose]]
  BY <1>1, <1>2, InventoryAssumption DEF TypeOK
<1>7. TypeOK'
  BY <1>1, <1>2, <1>4, <1>5, <1>6, InventoryAssumption DEF TypeOK
<1>8. Sessions' = Sessions \ {s} /\ \A t \in Session : sesId'[t] \in {0, sesId[t]}
  BY <1>1, <1>2 DEF Sessions, TypeOK
<1>9. IdsUnique'
  BY <1>3, <1>7, <1>8, FewerIds DEF Inv
<1>10. TimerArmed'
  BY <1>1, <1>2, <1>8 DEF Inv, TimerArmed, TypeOK, Sessions
<1>11. ASSUME NEW a \in Addr \ overwritten'
       PROVE  /\ external'[a] = Cardinality(Listing(a)')
              /\ a \in Objects' <=> internal'[a] + external'[a] > 0
  BY <1>2, ExpiredCount
<1>12. ASSUME NEW a \in overwritten'
       PROVE  external'[a] < Cardinality(Listing(a)')
  <2>1. a \in Addr /\ loose[a][s] \in Nat
    BY <1>1, <1>2, InventoryAssumption DEF TypeOK
  <2>2. loose[a][s] > 0 /\ external'[a] = Cardinality(Listing(a) \ {s}) - loose[a][s]
    BY <2>1, ExpiredCount
  <2>3. Listing(a)' = Listing(a) \ {s} /\ Cardinality(Listing(a) \ {s}) \in Nat
    BY <2>1, ExpiredCount
  <2> QED
    BY <2>1, <2>2, <2>3
<1>13. ASSUME NEW a \in Addr, NEW t \in Session, t \in Listing(a)' \/ loose'[a][t] > 0
       PROVE  t \in Sessions'
  <2>1. t # s /\ (t \in Listing(a) \/ loose[a][t] > 0)
    <3>1. loose[a] \in [Session -> 0..MaxLoose]
      BY <1>1 DEF TypeOK
    <3>2. loose'[a] = [loose[a] EXCEPT ![s] = 0]
      BY <1>2
    <3> QED
      BY <1>2, <1>13, <3>1, <3>2 DEF Listing
  <2> QED
    BY <1>1, <1>8, <2>1 DEF Listed
<1>14. LivesWhileReferenced'
  BY <1>11, <1>12, <1>13 DEF LivesWhileReferenced
<1> QED
  BY <1>9, <1>10, <1>14 DEF Inv

LEMMA NextInv ==
  ASSUME Inv, [Next]_vars
  PROVE  Inv'
<1>1. CASE UNCHANGED vars
  <2>1. /\ UNCHANGED <<objId, sesId, nextObjId, nextSesId, counts, lifetime, remaining>>
    BY <1>1 DEF vars, timers
  <2>2. TimerArmed' /\ TypeOK
    BY <2>1 DEF Inv, TimerArmed, IdsUnique, Sessions
  <2> QED
    BY <2>1, <2>2, TimesInv DEF TypeOK
<1>2. CASE Next
  <2>0. overwritten = {}
    BY <1>2 DEF Next
  <2>1. ASSUME NEW a \in Addr, NEW i \in 0..1,
               NEW owners \in {{}} \cup {{s} : s \in Session}, ObjectCreate(a, i, owners)
        PROVE  Inv'
    BY <2>0, <2>1, CreatedInv
  <2>2. ASSUME NEW a \in Addr, AddInternalReference(a) \/ RemoveInternalReference(a)
        PROVE  Inv'
    BY <2>0, <2>2, AddInternalInv, RemoveInternalInv
  <2>3. ASSUME NEW a \in Addr, NEW s \in Session,
               AddExternalReference(a, s) \/ RemoveExternalReference(a, s)
        PROVE  Inv'
    BY <2>0, <2>3, AddExternalInv, RemoveExternalInv
  <2>4. ASSUME NEW s \in Session, NEW l \in Lifetimes,
               SessionCreate(s, l) \/ SessionKeepAlive(s, l)
        PROVE  Inv'
    BY <2>0, <2>4, SessionCreateInv, SessionKeepAliveInv
  <2>5. ASSUME NEW s \in Session, SessionExpire(s) \/ SessionHandleExpire(s) \/ Tick(s)
        PROVE  Inv'
    BY <2>0, <2>5, ExpireInv, TickInv DEF SessionExpire, SessionHandleExpire
  <2> QED
    BY <1>2, <2>1, <2>2, <2>3, <2>4, <2>5 DEF Next
<1> QED
  BY <1>1, <1>2

\* The inductive invariant holds in every reachable state.
THEOREM Invariance == Spec => []Inv
<1>1. Init => Inv
  BY InitInv
<1>2. Inv /\ [Next]_vars => Inv'
  BY NextInv
<1> QED
  BY <1>1, <1>2, PTL DEF Spec

\* An id names at most one object or session, however often the counters
\* have wrapped around (inventory_get_object, inventory_get_session).
THEOREM IdsAreUnique == Spec => []IdsUnique
<1>1. Inv => IdsUnique
  BY DEF Inv
<1> QED
  BY <1>1, Invariance, PTL

\* No session lives longer than it asked for (session_handle_expire).
THEOREM TimersAreArmed == Spec => []TimerArmed
<1>1. Inv => TimerArmed
  BY DEF Inv
<1> QED
  BY <1>1, Invariance, PTL

\* An object exists exactly as long as one of its two counts is above zero, the
\* external one is the number of sessions that list it, and the one exception
\* is an object at the address of a failed creation (object.c:79-330,
\* session_remove_external_references).
THEOREM ObjectsAreReferenced == Spec => []LivesWhileReferenced
<1>1. Inv => LivesWhileReferenced
  BY DEF Inv
<1> QED
  BY <1>1, Invariance, PTL

-----------------------------------------------------------------------------
(* Ids are reused late                                                     *)

FirstFreeStep ==
  \A a \in Addr :
    LET free == (1..MaxObjectId) \ {objId[b] : b \in Objects} IN
      /\ objId[a] = 0 /\ objId'[a] # 0 =>
           \A i \in free : Distance(nextObjId, objId'[a]) <= Distance(nextObjId, i)
      /\ \A s \in Session : loose'[a][s] > loose[a][s] => free = {}

\* A step that makes no object and leaves no node behind.
LEMMA NothingNew ==
  ASSUME \A a \in Addr : objId[a] = 0 => objId'[a] = 0,
         \A a \in Addr, s \in Session : ~ (loose'[a][s] > loose[a][s])
  PROVE  FirstFreeStep
BY DEF FirstFreeStep

LEMMA NextFirstFree ==
  ASSUME Inv, [Next]_vars
  PROVE  FirstFreeStep
<1>1. TypeOK /\ \A a \in Addr, s \in Session : loose[a][s] \in Nat
  BY InventoryAssumption DEF Inv, IdsUnique, TypeOK
<1>2. ASSUME NEW a \in Addr, NEW i \in 0..1, NEW owners, ObjectCreate(a, i, owners)
      PROVE  FirstFreeStep
  <2> DEFINE got == NextId(nextObjId, {objId[b] : b \in Objects}, MaxObjectId)
             free == (1..MaxObjectId) \ {objId[b] : b \in Objects}
  <2>1. /\ got.id = 0 => free = {}
        /\ got.id # 0 => \A k \in free :
                           Distance(nextObjId, got.id) <= Distance(nextObjId, k)
    BY <1>1, ObjectId
  <2>2. /\ objId' = [objId EXCEPT ![a] = got.id]
        /\ got.id # 0 => UNCHANGED loose
    BY <1>2 DEF ObjectCreate
  <2> HIDE DEF got
  <2>3. objId'[a] = got.id /\ \A b \in Addr : b # a => objId'[b] = objId[b]
    BY <1>1, <2>2 DEF TypeOK
  <2> HIDE DEF free
  <2>4. ASSUME NEW b \in Addr
        PROVE  /\ objId[b] = 0 /\ objId'[b] # 0 =>
                    \A k \in free : Distance(nextObjId, objId'[b]) <= Distance(nextObjId, k)
               /\ \A t \in Session : loose'[b][t] > loose[b][t] => free = {}
    <3>1. objId[b] = 0 /\ objId'[b] # 0 =>
            \A k \in free : Distance(nextObjId, objId'[b]) <= Distance(nextObjId, k)
      BY <2>1, <2>3
    <3>2. ASSUME NEW t \in Session, loose'[b][t] > loose[b][t]
          PROVE  free = {}
      BY <1>1, <2>1, <2>2, <3>2
    <3> QED
      BY <3>1, <3>2
  <2> QED
    BY <2>4 DEF FirstFreeStep, free
<1>3. CASE UNCHANGED <<objId, loose>>
  BY <1>1, <1>3, NothingNew
<1>4. ASSUME NEW a \in Addr, AddInternalReference(a) \/ RemoveInternalReference(a)
      PROVE  FirstFreeStep
  <2>1. UNCHANGED loose /\ \A b \in Addr : objId'[b] \in {0, objId[b]}
    BY <1>1, <1>4 DEF AddInternalReference, RemoveInternalReference, TypeOK
  <2> QED
    BY <1>1, <2>1, NothingNew
<1>5. ASSUME NEW a \in Addr, NEW s \in Session,
             AddExternalReference(a, s) \/ RemoveExternalReference(a, s)
      PROVE  FirstFreeStep
  <2>1. UNCHANGED loose /\ \A b \in Addr : objId'[b] \in {0, objId[b]}
    BY <1>1, <1>5 DEF AddExternalReference, RemoveExternalReference, TypeOK
  <2> QED
    BY <1>1, <2>1, NothingNew
<1>6. ASSUME NEW s \in Session, NEW l \in Lifetimes,
             SessionCreate(s, l) \/ SessionKeepAlive(s, l)
      PROVE  FirstFreeStep
  BY <1>3, <1>6 DEF SessionCreate, SessionKeepAlive, counts
<1>7. ASSUME NEW s \in Session, Expire(s)
      PROVE  FirstFreeStep
  <2>1. \A a \in Addr : objId'[a] \in {0, objId[a]}
    BY <1>7 DEF Expire
  <2>2. \A a \in Addr, t \in Session : loose'[a][t] \in {0, loose[a][t]}
    <3>1. \A a \in Addr : /\ loose'[a] = [loose[a] EXCEPT ![s] = 0]
                          /\ loose[a] \in [Session -> 0..MaxLoose]
      BY <1>1, <1>7 DEF Expire, TypeOK
    <3> QED
      BY <3>1
  <2> QED
    BY <1>1, <2>1, <2>2, NothingNew
<1>8. ASSUME NEW s \in Session, Tick(s)
      PROVE  FirstFreeStep
  BY <1>3, <1>8 DEF Tick, counts
<1>9. CASE UNCHANGED vars
  BY <1>3, <1>9 DEF vars, counts
<1> QED
  BY <1>2, <1>4, <1>5, <1>6, <1>7, <1>8, <1>9 DEF Next, SessionExpire, SessionHandleExpire

\* object_create takes the free id that the counter reaches first and fails
\* only when all ids are in use (inventory_get_next_object_id).
THEOREM IdsReusedLate == Spec => FirstFreeId
<1>1. Inv /\ [Next]_vars => [FirstFreeStep]_vars
  BY NextFirstFree
<1>2. Spec => [][FirstFreeStep]_vars
  BY <1>1, Invariance, PTL DEF Spec
<1> QED
  BY <1>2 DEF FirstFreeId, FirstFreeStep
=============================================================================
