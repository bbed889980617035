------------------------- MODULE ObjectGraphProofs -------------------------
(***************************************************************************)
(* The theorems about ObjectGraph: its safety properties hold for any      *)
(* number of addresses, sessions, items and references.                    *)
(*                                                                         *)
(* The first part counts references.  The second is the inductive          *)
(* invariant, with a lemma for every step of the specification.  Its parts *)
(* need each other: that counters equal references (Accounted) needs that  *)
(* nothing refers to a destroyed object (Intact) and the other way round,  *)
(* and that inventory_exit may destroy processes by force needs that       *)
(* containment has no cycle (Acyclic), which rests on the locks (Locked).  *)
(* The parts that speak of the objects alive take their set as parameter   *)
(* L: a step is split into what it does to the references and the          *)
(* destruction that may begin with it (lemma Settle).  The theorems are at *)
(* the end.                                                                *)
(***************************************************************************)
EXTENDS ObjectGraph, FiniteSetTheorems, SequenceTheorems, TLAPS

-----------------------------------------------------------------------------
(* How the number of references to an object changes with a single update  *)
(* of the external references (count) or of the places that hold objects   *)
(* (slot).  c and h stand for values of these variables.                   *)

Counts == [Addr -> [Session -> 0..MaxCount]]
Slots  == [Addr -> [Slot -> Addr \cup {None}]]

\* c and d are equal but for the count of session s at object o.
CountsDifferAt(c, d, o, s) ==
  \A p \in Addr : \A r \in Session : p # o \/ r # s => d[p][r] = c[p][r]

\* h and e are equal but for place k of object g.
SlotsDifferAt(h, e, g, k) ==
  \A p \in Addr : \A j \in Slot : p # g \/ j # k => e[p][j] = h[p][j]

External(c, o) == Cardinality(ExternalTokens(c, o))
Internal(h, o) == Cardinality(InternalTokens(h, o))

-----------------------------------------------------------------------------
\* Sessions, places and counts are finite, so the references to an object
\* (external_reference_count, internal_reference_count) can be counted.
LEMMA TokensFinite ==
  ASSUME NEW c, NEW h, NEW o
  PROVE  /\ IsFiniteSet(ExternalTokens(c, o)) /\ External(c, o) \in Nat
         /\ IsFiniteSet(InternalTokens(h, o)) /\ Internal(h, o) \in Nat
<1>1. IsFiniteSet(1..MaxCount) /\ IsFiniteSet(Slot)
  BY FS_Interval, GraphAssumption DEF Slot
<1>2. IsFiniteSet(Session \X (1..MaxCount)) /\ IsFiniteSet(Addr \X Slot)
  BY <1>1, FS_Product, GraphAssumption
<1>3. ExternalTokens(c, o) \in SUBSET (Session \X (1..MaxCount))
  BY DEF ExternalTokens
<1>4. InternalTokens(h, o) \in SUBSET (Addr \X Slot)
  BY DEF InternalTokens
<1>5. IsFiniteSet(ExternalTokens(c, o)) /\ IsFiniteSet(InternalTokens(h, o))
  BY <1>2, <1>3, <1>4, FS_Subset
<1> QED
  BY <1>5, FS_CardinalityType DEF External, Internal

\* What OneMore does to the counters of a set of objects.
LEMMA OneMoreIs ==
  ASSUME NEW f \in [Addr -> Nat], NEW S
  PROVE  /\ OneMore(f, S) \in [Addr -> Nat]
         /\ \A o \in Addr : OneMore(f, S)[o] = IF o \in S THEN f[o] + 1 ELSE f[o]
<1>1. \A o \in Addr : (IF o \in S THEN f[o] + 1 ELSE f[o]) \in Nat
  OBVIOUS
<1> QED
  BY <1>1 DEF OneMore

-----------------------------------------------------------------------------
(* External references                                                     *)

\* Sessions that leave an object alone do not change its count.
LEMMA ExternalSame ==
  ASSUME NEW c, NEW d, NEW o, \A s \in Session : c[o][s] = d[o][s]
  PROVE  External(c, o) = External(d, o)
<1>1. ExternalTokens(c, o) = ExternalTokens(d, o)
  BY DEF ExternalTokens
<1> QED
  BY <1>1 DEF External

\* object_add_external_reference adds one reference, to one object; read from d
\* to c, object_release removes one.
LEMMA ExternalAdd ==
  ASSUME NEW c \in Counts, NEW o \in Addr, NEW s \in Session,
         NEW d \in Counts, d[o][s] = c[o][s] + 1, CountsDifferAt(c, d, o, s)
  PROVE  /\ External(d, o) = External(c, o) + 1
         /\ \A p \in Addr : p # o => External(d, p) = External(c, p)
<1> DEFINE t == <<s, c[o][s] + 1>>
<1>1. c[o][s] \in Nat /\ c[o][s] + 1 \in 1..MaxCount
  BY GraphAssumption DEF Counts
<1>2. \A r \in Session : r # s => d[o][r] = c[o][r]
  BY DEF CountsDifferAt
<1>3. \A p \in Addr : p # o => \A r \in Session : d[p][r] = c[p][r]
  BY DEF CountsDifferAt
<1>4. t \notin ExternalTokens(c, o)
  BY <1>1 DEF ExternalTokens
<1>5. ExternalTokens(d, o) = ExternalTokens(c, o) \cup {t}
  <2>1. t \in ExternalTokens(d, o)
    BY <1>1, <1>2 DEF ExternalTokens
  <2>2. ASSUME NEW u \in Session \X (1..MaxCount), u # t
        PROVE  u[2] <= d[o][u[1]] <=> u[2] <= c[o][u[1]]
    <3>1. CASE u[1] # s
      BY <3>1, <1>2
    <3>2. CASE u[1] = s
      <4>1. u = <<s, u[2]>> /\ u[2] \in Nat /\ u[2] # c[o][s] + 1
        BY <3>2, <2>2
      <4> QED
        BY <4>1, <3>2, <1>1, <1>2
    <3> QED
      BY <3>1, <3>2
  <2> QED
    BY <2>1, <2>2 DEF ExternalTokens
<1>6. External(d, o) = External(c, o) + 1
  <2>1. IsFiniteSet(ExternalTokens(c, o))
    BY TokensFinite
  <2>2. Cardinality(ExternalTokens(c, o) \cup {t}) = Cardinality(ExternalTokens(c, o)) + 1
    BY <2>1, <1>4, FS_AddElement
  <2> QED
    BY <2>2, <1>5 DEF External
<1>7. \A p \in Addr : p # o => External(d, p) = External(c, p)
  BY <1>3, ExternalSame
<1> QED
  BY <1>6, <1>7

\* The loop of session_remove_external_references takes all references of one
\* session to an object, and there are that many.
LEMMA ExternalClear ==
  ASSUME NEW c \in Counts, NEW o \in Addr, NEW s \in Session,
         NEW d \in Counts, d[o][s] = 0, CountsDifferAt(c, d, o, s)
  PROVE  /\ c[o][s] <= External(c, o)
         /\ External(d, o) = External(c, o) - c[o][s]
         /\ \A p \in Addr : p # o => External(d, p) = External(c, p)
<1> DEFINE mine == {s} \X (1..c[o][s])
<1>1. c[o][s] \in 0..MaxCount
  BY DEF Counts
<1>2. \A r \in Session : r # s => d[o][r] = c[o][r]
  BY DEF CountsDifferAt
<1>3. \A p \in Addr : p # o => \A r \in Session : d[p][r] = c[p][r]
  BY DEF CountsDifferAt
<1>4. IsFiniteSet(mine) /\ Cardinality(mine) = c[o][s]
  <2>1. IsFiniteSet(1..c[o][s]) /\ Cardinality(1..c[o][s]) = c[o][s]
    <3>1. c[o][s] \in Nat /\ c[o][s] \in Int /\ 1 \in Int
      BY <1>1, GraphAssumption
    <3>2. /\ IsFiniteSet(1..c[o][s])
          /\ Cardinality(1..c[o][s]) = IF 1 > c[o][s] THEN 0 ELSE c[o][s] - 1 + 1
      BY <3>1, FS_Interval
    <3> QED
      BY <3>1, <3>2
  <2>2. IsFiniteSet({s}) /\ Cardinality({s}) = 1
    BY FS_Singleton
  <2>3. IsFiniteSet(mine) /\ Cardinality(mine) = Cardinality({s}) * Cardinality(1..c[o][s])
    BY <2>1, <2>2, FS_Product
  <2> QED
    BY <2>1, <2>2, <2>3, <1>1, GraphAssumption
<1>5. mine \subseteq ExternalTokens(c, o)
  BY <1>1, GraphAssumption DEF ExternalTokens
<1>6. ExternalTokens(d, o) = ExternalTokens(c, o) \ mine
  <2>1. ASSUME NEW u \in Session \X (1..MaxCount)
        PROVE  u[2] <= d[o][u[1]] <=> (u[2] <= c[o][u[1]] /\ u \notin mine)
    <3>1. CASE u[1] # s
      BY <3>1, <1>2
    <3>2. CASE u[1] = s
      <4>1. u[2] \in 1..MaxCount
        OBVIOUS
      <4>2. u \in mine <=> u[2] <= c[o][s]
        BY <4>1, <3>2, <1>1, GraphAssumption
      <4> QED
        BY <4>1, <4>2, <3>2, <1>2, GraphAssumption
    <3> QED
      BY <3>1, <3>2
  <2> QED
    BY <2>1 DEF ExternalTokens
<1>7. ExternalTokens(c, o) \cap mine = mine
  BY <1>5
<1>8. External(d, o) = External(c, o) - c[o][s]
  <2>1. Cardinality(ExternalTokens(c, o) \ mine) =
          Cardinality(ExternalTokens(c, o)) - Cardinality(ExternalTokens(c, o) \cap mine)
    BY TokensFinite, FS_Difference
  <2> QED
    BY <2>1, <1>4, <1>6, <1>7 DEF External
<1>9. c[o][s] <= External(c, o)
  BY <1>4, <1>5, TokensFinite, FS_Subset DEF External
<1>10. \A p \in Addr : p # o => External(d, p) = External(c, p)
  BY <1>3, ExternalSame
<1> QED
  BY <1>8, <1>9, <1>10

\* An object has no external reference exactly if no session has one to it.
LEMMA ExternalZero ==
  ASSUME NEW c \in Counts, NEW o \in Addr
  PROVE  External(c, o) = 0 <=> \A s \in Session : c[o][s] = 0
<1>1. External(c, o) = 0 <=> ExternalTokens(c, o) = {}
  BY TokensFinite, FS_EmptySet DEF External
<1>2. ASSUME ExternalTokens(c, o) = {}, NEW s \in Session
      PROVE  c[o][s] = 0
  <2>1. c[o][s] \in 0..MaxCount
    BY DEF Counts
  <2>2. 1 \in 1..MaxCount /\ <<s, 1>> \notin ExternalTokens(c, o)
    BY <1>2, GraphAssumption
  <2>3. ~ (1 <= c[o][s])
    BY <2>2 DEF ExternalTokens
  <2> QED
    BY <2>1, <2>3, GraphAssumption
<1>3. ASSUME \A s \in Session : c[o][s] = 0
      PROVE  ExternalTokens(c, o) = {}
  BY <1>3, GraphAssumption DEF ExternalTokens
<1> QED
  BY <1>1, <1>2, <1>3

-----------------------------------------------------------------------------
(* Internal references                                                     *)

\* Storing v at a place of holder g, over what was there before: the object
\* that was there has one reference less, the new one has one more.
LEMMA InternalPut ==
  ASSUME NEW h \in Slots, NEW g \in Addr, NEW k \in Slot, NEW v \in Addr \cup {None},
         v # h[g][k], NEW e \in Slots, e[g][k] = v, SlotsDifferAt(h, e, g, k)
  PROVE  \A o \in Addr :
           /\ o = v => Internal(e, o) = Internal(h, o) + 1
           /\ o = h[g][k] => Internal(h, o) = Internal(e, o) + 1
           /\ o # v /\ o # h[g][k] => Internal(e, o) = Internal(h, o)
<1> DEFINE t == <<g, k>>
<1>1. \A u \in Addr \X Slot : u # t => e[u[1]][u[2]] = h[u[1]][u[2]]
  BY DEF SlotsDifferAt
<1>3. ASSUME NEW o \in Addr, o = v
      PROVE  Internal(e, o) = Internal(h, o) + 1
  <2>1. t \notin InternalTokens(h, o)
    BY <1>3 DEF InternalTokens
  <2>2. InternalTokens(e, o) = InternalTokens(h, o) \cup {t}
    <3>1. t \in InternalTokens(e, o)
      BY <1>3 DEF InternalTokens
    <3> QED
      BY <3>1, <1>1 DEF InternalTokens
  <2> QED
    BY <2>1, <2>2, TokensFinite, FS_AddElement DEF Internal
<1>4. ASSUME NEW o \in Addr, o # v, o = h[g][k]
      PROVE  Internal(h, o) = Internal(e, o) + 1
  <2>1. t \in InternalTokens(h, o) /\ t \notin InternalTokens(e, o)
    BY <1>4 DEF InternalTokens
  <2>2. InternalTokens(h, o) = InternalTokens(e, o) \cup {t}
    BY <2>1, <1>1 DEF InternalTokens
  <2> QED
    BY <2>1, <2>2, TokensFinite, FS_AddElement DEF Internal
<1>5. ASSUME NEW o \in Addr, o # v, o # h[g][k]
      PROVE  Internal(e, o) = Internal(h, o)
  <2>1. t \notin InternalTokens(h, o) /\ t \notin InternalTokens(e, o)
    BY <1>5 DEF InternalTokens
  <2>2. InternalTokens(e, o) = InternalTokens(h, o)
    BY <2>1, <1>1 DEF InternalTokens
  <2> QED
    BY <2>2 DEF Internal
<1> QED
  BY <1>3, <1>4, <1>5

\* An object has no internal reference from a place exactly if no place holds
\* it.
LEMMA InternalZero ==
  ASSUME NEW h \in Slots, NEW o \in Addr
  PROVE  Internal(h, o) = 0 <=> \A g \in Addr : \A k \in Slot : h[g][k] # o
<1>1. Internal(h, o) = 0 <=> InternalTokens(h, o) = {}
  BY TokensFinite, FS_EmptySet DEF Internal
<1>2. ASSUME InternalTokens(h, o) = {}, NEW g \in Addr, NEW k \in Slot
      PROVE  h[g][k] # o
  <2>1. <<g, k>> \in Addr \X Slot /\ <<g, k>> \notin InternalTokens(h, o)
    BY <1>2
  <2> QED
    BY <2>1 DEF InternalTokens
<1>3. ASSUME \A g \in Addr : \A k \in Slot : h[g][k] # o
      PROVE  InternalTokens(h, o) = {}
  BY <1>3 DEF InternalTokens
<1> QED
  BY <1>1, <1>2, <1>3

\* A new object g takes hold of different objects, one each.
LEMMA InternalFill ==
  ASSUME NEW h \in Slots, NEW e \in Slots, NEW g \in Addr,
         \A k \in Slot : h[g][k] = None,
         \A p \in Addr : p # g => \A k \in Slot : e[p][k] = h[p][k],
         \A j, k \in Slot : e[g][j] = e[g][k] /\ e[g][j] # None => j = k,
         NEW o \in Addr
  PROVE  /\ (\E k \in Slot : e[g][k] = o) => Internal(e, o) = Internal(h, o) + 1
         /\ (\A k \in Slot : e[g][k] # o) => Internal(e, o) = Internal(h, o)
<1>0. o # None
  BY GraphAssumption
<1>1. \A u \in Addr \X Slot : u[1] # g => e[u[1]][u[2]] = h[u[1]][u[2]]
  OBVIOUS
<1>2. \A u \in Addr \X Slot : u[1] = g => u \notin InternalTokens(h, o)
  BY <1>0 DEF InternalTokens
<1>3. ASSUME NEW k \in Slot, e[g][k] = o
      PROVE  Internal(e, o) = Internal(h, o) + 1
  <2> DEFINE t == <<g, k>>
  <2>1. t \notin InternalTokens(h, o)
    BY <1>2
  <2>2. \A u \in Addr \X Slot : u[1] = g /\ e[u[1]][u[2]] = o => u = t
    <3> SUFFICES ASSUME NEW u \in Addr \X Slot, u[1] = g, e[u[1]][u[2]] = o
                 PROVE  u = t
      OBVIOUS
    <3>1. u = <<u[1], u[2]>> /\ u[2] \in Slot
      OBVIOUS
    <3>2. u[2] = k
      BY <3>1, <1>0, <1>3
    <3> QED
      BY <3>1, <3>2
  <2>3. InternalTokens(e, o) = InternalTokens(h, o) \cup {t}
    <3>1. t \in InternalTokens(e, o)
      BY <1>3 DEF InternalTokens
    <3> QED
      BY <3>1, <2>2, <1>1, <1>2 DEF InternalTokens
  <2> QED
    BY <2>1, <2>3, TokensFinite, FS_AddElement DEF Internal
<1>4. ASSUME \A k \in Slot : e[g][k] # o
      PROVE  Internal(e, o) = Internal(h, o)
  <2>1. InternalTokens(e, o) = InternalTokens(h, o)
    BY <1>1, <1>2, <1>4 DEF InternalTokens
  <2> QED
    BY <2>1 DEF Internal
<1> QED
  BY <1>3, <1>4

-----------------------------------------------------------------------------
(* The inductive invariant *)

One(b) == IF b THEN 1 ELSE 0

Accounted(L) ==
  \A o \in L :
    /\ extRefs[o] = External(count, o)
    /\ intRefs[o] = Internal(slot, o) + One(o \in running) + One(o \in stock)

Intact(L) ==
  /\ \A h \in Addr : \A k \in Slot : slot[h][k] # None => slot[h][k] \in L
  /\ \A o \in Addr : \A s \in Session : count[o][s] > 0 => o \in L /\ s \in sessions
  /\ \A o \in running : o \in L /\ kind[o] = "process"
  /\ \A o \in stock : o \in L /\ kind[o] = "string"

\* What the places of an object hold, by the kind of the object.
HoldsNothing(h) == \A k \in Slot : slot[h][k] = None

HoldsName(h) ==
  /\ slot[h][1] # None /\ kind[slot[h][1]] = "string"
  /\ \A k \in Slot : k # 1 => slot[h][k] = None

HoldsCommand(h) ==
  /\ slot[h][1] # None /\ kind[slot[h][1]] = "string"
  /\ slot[h][2] # None /\ kind[slot[h][2]] = "list"
  /\ \A k \in Slot : slot[slot[h][2]][k] # None => kind[slot[slot[h][2]][k]] = "string"
  /\ slot[h][3] # None /\ kind[slot[h][3]] \in {"file", "pipe"}
  /\ \A k \in Slot : k \notin {1, 2, 3} => slot[h][k] = None

Shaped(L) ==
  \A h \in L : /\ kind[h] = "string" => HoldsNothing(h)
               /\ kind[h] \in {"file", "pipe"} => HoldsName(h)
               /\ kind[h] = "process" => HoldsCommand(h)

Locked(L) == \A o \in L : kind[o] \in {"string", "list"} => locks[o] = intRefs[o]

Acyclic(L) ==
  \A S \in SUBSET L :
    S # {} => \E o \in S : \A h \in S : \A k \in Slot : slot[h][k] # o

Consistent(L) == Accounted(L) /\ Intact(L) /\ Shaped(L) /\ Locked(L) /\ Acyclic(L)

Referenced(L) == \A o \in L : intRefs[o] + extRefs[o] > 0

StackDistinct ==
  /\ \A i, j \in 1..Len(stack) : stack[i] = stack[j] => i = j
  /\ \A i \in 1..Len(stack) : kind[stack[i]] # "free"

FreeIsEmpty == \A a \in Addr : kind[a] = "free" => \A k \in Slot : slot[a][k] = None

ExitOrdered ==
  /\ expiring # None => expiring \in sessions
  /\ phase \notin {"run", "sessions"} => sessions = {}
  /\ phase \notin {"run", "sessions", "stock"} => stock = {}
  /\ phase \in {"file", "list", "string", "down"} => Live = {} /\ stack = <<>>

Inv ==
  /\ TypeOK
  /\ StackDistinct
  /\ FreeIsEmpty
  /\ Consistent(Live)
  /\ Referenced(Live)
  /\ ExitOrdered

-----------------------------------------------------------------------------
(* The stack of running destroy functions                                  *)

\* Nothing begins or ends to be destroyed.
LEMMA LiveSame ==
  ASSUME kind' = kind, stack' = stack
  PROVE  /\ Live' = Live
         /\ StackDistinct => StackDistinct'
BY DEF Live, Dying, StackDistinct

\* object_destroy begins for an object that is alive.
LEMMA Pushed ==
  ASSUME TypeOK, StackDistinct, NEW o \in Live, kind' = kind, stack' = Append(stack, o)
  PROVE  /\ stack' \in Seq(Addr)
         /\ StackDistinct'
         /\ Live' = Live \ {o}
<1>1. o \in Addr /\ kind[o] # "free" /\ o \notin Dying /\ stack \in Seq(Addr)
  BY DEF Live, TypeOK
<1>2. /\ stack' \in Seq(Addr)
      /\ Len(stack') = Len(stack) + 1
      /\ \A i \in 1..Len(stack) : stack'[i] = stack[i]
      /\ stack'[Len(stack) + 1] = o
  BY <1>1
<1>3. Len(stack) \in Nat /\ 1..Len(stack') = (1..Len(stack)) \cup {Len(stack) + 1}
  BY <1>1, <1>2
<1>4. \A i \in 1..Len(stack) : stack[i] # o
  BY <1>1 DEF Dying
<1>5. Dying' = Dying \cup {o}
  BY <1>2, <1>3 DEF Dying
<1>6. StackDistinct'
  BY <1>1, <1>2, <1>3, <1>4 DEF StackDistinct
<1>7. Live' = Live \ {o}
  BY <1>5 DEF Live
<1> QED
  BY <1>2, <1>6, <1>7

\* A stack without its top, for the C function on top that returns.
LEMMA WithoutLast ==
  ASSUME NEW S, NEW s \in Seq(S), s # <<>>
  PROVE  LET f == SubSeq(s, 1, Len(s) - 1) IN
           /\ f \in Seq(S)
           /\ Len(f) = Len(s) - 1
           /\ \A i \in 1..(Len(s) - 1) : f[i] = s[i]
<1> DEFINE n == Len(s) - 1
<1>1. n \in Nat /\ \A i \in 1..n : s[i] \in S
  OBVIOUS
<1> HIDE DEF n
<1>2. 1 \in Int /\ n \in Int
  BY <1>1
<1>3. /\ SubSeq(s, 1, n) \in Seq(S)
      /\ Len(SubSeq(s, 1, n)) = IF 1 <= n THEN n - 1 + 1 ELSE 0
      /\ \A i \in 1..(n - 1 + 1) : SubSeq(s, 1, n)[i] = s[1 + i - 1]
  BY <1>1, <1>2, SubSeqProperties
<1>4. n - 1 + 1 = n /\ (IF 1 <= n THEN n - 1 + 1 ELSE 0) = n /\ \A i \in 1..n : 1 + i - 1 = i
  BY <1>1
<1>5. /\ SubSeq(s, 1, n) \in Seq(S)
      /\ Len(SubSeq(s, 1, n)) = n
      /\ \A i \in 1..n : SubSeq(s, 1, n)[i] = s[i]
  BY <1>3, <1>4
<1> QED
  BY <1>5 DEF n

\* The innermost destroy function ends and frees its object.
LEMMA Popped ==
  ASSUME TypeOK, StackDistinct, stack # <<>>,
         NEW top, top = stack[Len(stack)],
         kind' = [kind EXCEPT ![top] = "free"],
         stack' = SubSeq(stack, 1, Len(stack) - 1)
  PROVE  /\ top \in Addr /\ top \notin Live
         /\ stack' \in Seq(Addr)
         /\ StackDistinct'
         /\ Live' = Live
<1>1. stack \in Seq(Addr) /\ Len(stack) \in Nat /\ Len(stack) >= 1
  BY DEF TypeOK
<1>2. top \in Addr /\ top \in Dying /\ top \notin Live
  BY <1>1 DEF Dying, Live
<1>3. /\ stack' \in Seq(Addr)
      /\ Len(stack') = Len(stack) - 1
      /\ \A i \in 1..(Len(stack) - 1) : stack'[i] = stack[i]
  BY <1>1, WithoutLast
<1>4. \A i \in 1..(Len(stack) - 1) : stack[i] # top /\ kind'[stack[i]] = kind[stack[i]]
  <2> SUFFICES ASSUME NEW i \in 1..(Len(stack) - 1)
               PROVE  stack[i] # top /\ kind'[stack[i]] = kind[stack[i]]
    OBVIOUS
  <2>1. i \in 1..Len(stack) /\ Len(stack) \in 1..Len(stack) /\ i # Len(stack)
    BY <1>1
  <2>2. stack[i] # top
    BY <2>1 DEF StackDistinct
  <2>3. stack[i] \in Addr
    BY <2>1, <1>1
  <2> QED
    BY <2>2, <2>3 DEF TypeOK
<1>5. StackDistinct'
  BY <1>1, <1>3, <1>4 DEF StackDistinct
<1>6. Dying' = Dying \ {top}
  <2>1. Dying' = {stack[i] : i \in 1..(Len(stack) - 1)}
    BY <1>1, <1>3 DEF Dying
  <2>2. 1..Len(stack) = (1..(Len(stack) - 1)) \cup {Len(stack)}
    BY <1>1
  <2> QED
    BY <2>1, <2>2, <1>4, SMTT(20) DEF Dying
<1>7. Live' = Live
  BY <1>2, <1>6 DEF Live, TypeOK
<1> QED
  BY <1>2, <1>3, <1>5, <1>7

\* DestroyIfUnreferenced at the end of a step: if what the step did to the
\* references is consistent for the objects that were alive, the result is
\* consistent for those that still are, because an object is destroyed only
\* when nothing refers to it.
LEMMA Settle ==
  ASSUME TypeOK, StackDistinct, NEW L, L = Live, NEW o \in L,
         kind' = kind, DestroyIfUnreferenced(o, intRefs'[o], extRefs'[o]),
         slot' \in Slots, count' \in Counts,
         intRefs' \in [Addr -> Nat], extRefs' \in [Addr -> Nat],
         Consistent(L)', \A p \in L : p # o => intRefs'[p] + extRefs'[p] > 0
  PROVE  /\ stack' \in Seq(Addr)
         /\ StackDistinct'
         /\ Consistent(Live)'
         /\ Referenced(Live)'
         /\ Live' \subseteq Live
<1>0. o \in Addr /\ L \subseteq Addr
  BY DEF Live
<1>1. CASE ~ (intRefs'[o] = 0 /\ extRefs'[o] = 0)
  <2>1. stack' = stack
    BY <1>1 DEF DestroyIfUnreferenced
  <2>2. Live' = L /\ StackDistinct'
    BY <2>1, LiveSame
  <2>3. Consistent(Live)'
    BY <2>2 DEF Consistent, Accounted, Intact, Shaped, Locked, Acyclic
  <2>4. Referenced(Live)'
    BY <1>0, <1>1, <2>2 DEF Referenced
  <2> QED
    BY <2>1, <2>2, <2>3, <2>4 DEF TypeOK
<1>2. CASE intRefs'[o] = 0 /\ extRefs'[o] = 0
  <2>1. stack' = Append(stack, o)
    BY <1>2 DEF DestroyIfUnreferenced
  <2>2. Live' = L \ {o} /\ StackDistinct' /\ stack' \in Seq(Addr)
    BY <2>1, Pushed
  <2>3. External(count', o) = 0 /\ Internal(slot', o) = 0 /\ o \notin running' /\ o \notin stock'
    <3>1. /\ External(count', o) = 0
          /\ Internal(slot', o) + One(o \in running') + One(o \in stock') = 0
      BY <1>2 DEF Consistent, Accounted
    <3>2. Internal(slot', o) \in Nat
      BY TokensFinite
    <3> QED
      BY <3>1, <3>2 DEF One
  <2>4. \A h \in Addr : \A k \in Slot : slot'[h][k] # o
    BY <1>0, <2>3, InternalZero
  <2>5. \A s \in Session : count'[o][s] = 0
    BY <1>0, <2>3, ExternalZero
  <2>6. Intact(Live)'
    BY <2>2, <2>3, <2>4, <2>5 DEF Consistent, Intact
  <2>7. Accounted(Live)' /\ Shaped(Live)' /\ Locked(Live)'
    BY <2>2 DEF Consistent, Accounted, Shaped, Locked
  <2>8. Acyclic(Live)'
    BY <2>2 DEF Consistent, Acyclic
  <2>9. Referenced(Live)'
    BY <2>2 DEF Referenced
  <2> QED
    BY <2>2, <2>6, <2>7, <2>8, <2>9 DEF Consistent
<1> QED
  BY <1>1, <1>2

-----------------------------------------------------------------------------
(* Steps that change external references                                   *)

\* Types in the terms of the counting lemmas.
LEMMA Types ==
  ASSUME TypeOK
  PROVE  /\ slot \in Slots
         /\ count \in Counts
         /\ Live \subseteq Addr
         /\ None \notin Addr
         /\ None \notin Session
         /\ sessions \subseteq Session
BY GraphAssumption DEF TypeOK, Slots, Counts, Live

\* Only external references change, and they stay counted and owned.
LEMMA ExternalChange ==
  ASSUME Inv, NEW L, L = Live,
         UNCHANGED <<kind, intRefs, locks, slot, running, stock, sessions>>,
         \A p \in L : extRefs'[p] = External(count', p),
         \A p \in Addr : \A s \in Session : count'[p][s] > 0 => p \in L /\ s \in sessions
  PROVE  /\ Consistent(L)'
         /\ FreeIsEmpty'
<1>1. Accounted(L)'
  BY DEF Inv, Consistent, Accounted
<1>2. Intact(L)'
  BY DEF Inv, Consistent, Intact
<1>3. Shaped(L)'
  BY DEF Inv, Consistent, Shaped, HoldsNothing, HoldsName, HoldsCommand
<1>4. Locked(L)' /\ Acyclic(L)'
  BY DEF Inv, Consistent, Locked, Acyclic
<1>5. FreeIsEmpty'
  BY DEF Inv, FreeIsEmpty
<1> QED
  BY <1>1, <1>2, <1>3, <1>4, <1>5 DEF Consistent

\* object_add_external_reference on an object that is alive.
LEMMA AddExternalStep ==
  ASSUME Inv, NEW o \in Live, NEW s \in sessions, AddExternal(o, s),
         UNCHANGED <<kind, intRefs, locks, slot, running, stock, sessions, stack,
                     expiring, phase>>
  PROVE  Inv'
<1>0. TypeOK
  BY DEF Inv
<1>1. o \in Addr /\ s \in Session
  BY <1>0, Types
<1>2. TypeOK' /\ count' \in Counts /\ count \in Counts
  BY <1>0, <1>1, GraphAssumption DEF TypeOK, Counts, AddExternal
<1>3. count'[o][s] = count[o][s] + 1 /\ CountsDifferAt(count, count', o, s)
  BY <1>1, <1>2 DEF Counts, CountsDifferAt, AddExternal
<1>4. /\ External(count', o) = External(count, o) + 1
      /\ \A p \in Addr : p # o => External(count', p) = External(count, p)
  BY <1>1, <1>2, <1>3, ExternalAdd
<1>5. \A p \in Live : extRefs'[p] = External(count', p)
  BY <1>0, <1>1, <1>4, Types DEF Inv, Consistent, Accounted, TypeOK, AddExternal
<1>6. \A p \in Addr : \A r \in Session : count'[p][r] > 0 => p \in Live /\ r \in sessions
  BY <1>3 DEF CountsDifferAt, Inv, Consistent, Intact
<1>7. Live' = Live /\ StackDistinct'
  BY LiveSame DEF Inv
<1>8. Consistent(Live)' /\ FreeIsEmpty'
  <2>1. \A L : L = Live => Consistent(L)' /\ FreeIsEmpty'
    BY <1>5, <1>6, ExternalChange
  <2> QED
    BY <2>1, <1>7 DEF Consistent, Accounted, Intact, Shaped, Locked, Acyclic
<1>9. Referenced(Live)'
  BY <1>0, <1>1, <1>7, Types DEF Inv, Referenced, TypeOK, AddExternal
<1>10. ExitOrdered'
  BY <1>7 DEF Inv, ExitOrdered
<1> QED
  BY <1>2, <1>7, <1>8, <1>9, <1>10 DEF Inv

\* list_get_item, file_get_info and process_get_stdio hand out what a live
\* object holds.
LEMMA GettersStep ==
  ASSUME Inv
  PROVE  /\ \A l \in Live, k \in Slot, s \in sessions : ListGetItem(l, k, s) => Inv'
         /\ \A f \in Live, s \in sessions : FileGetInfo(f, s) => Inv'
         /\ \A p \in Live, s \in sessions : ProcessGetStdio(p, s) => Inv'
<1>0. TypeOK /\ Intact(Live) /\ Shaped(Live)
  BY DEF Inv, Consistent
<1>1. ASSUME NEW l \in Live, NEW k \in Slot, NEW s \in sessions, ListGetItem(l, k, s)
      PROVE  Inv'
  <2>1. slot[l][k] \in Live
    BY <1>0, <1>1, Types DEF ListGetItem, Held, Intact
  <2> QED
    BY <2>1, <1>1, AddExternalStep DEF ListGetItem
<1>2. ASSUME NEW f \in Live, NEW s \in sessions, FileGetInfo(f, s)
      PROVE  Inv'
  <2>1. 1 \in Slot /\ slot[f][1] # None
    BY <1>0, <1>2, GraphAssumption DEF FileGetInfo, OfKind, Shaped, HoldsName, Slot
  <2>2. slot[f][1] \in Live
    BY <1>0, <2>1, Types DEF Intact
  <2> QED
    BY <2>2, <1>2, AddExternalStep DEF FileGetInfo
<1>3. ASSUME NEW p \in Live, NEW s \in sessions, ProcessGetStdio(p, s)
      PROVE  Inv'
  <2>1. 3 \in Slot /\ slot[p][3] # None
    BY <1>0, <1>3, GraphAssumption DEF ProcessGetStdio, OfKind, Shaped, HoldsCommand, Slot
  <2>2. slot[p][3] \in Live
    BY <1>0, <2>1, Types DEF Intact
  <2> QED
    BY <2>2, <1>3, AddExternalStep DEF ProcessGetStdio, Stdin
<1> QED
  BY <1>1, <1>2, <1>3

\* process_get_command hands out two objects, which are different ones.
LEMMA GetCommandStep ==
  ASSUME Inv, NEW p \in Live, NEW s \in sessions, ProcessGetCommand(p, s)
  PROVE  Inv'
<1>0. TypeOK /\ Intact(Live) /\ Shaped(Live) /\ Accounted(Live) /\ p \in Addr /\ s \in Session
  BY Types DEF Inv, Consistent
<1> DEFINE x == slot[p][1]
           y == slot[p][2]
           d == [o \in Addr |-> [r \in Session |->
                  IF o = x /\ r = s THEN count[o][r] + 1 ELSE count[o][r]]]
<1>1. x \in Live /\ y \in Live /\ x # y
  <2>1. 1 \in Slot /\ 2 \in Slot
    BY GraphAssumption DEF Slot
  <2>2. x # None /\ y # None /\ kind[x] = "string" /\ kind[y] = "list"
    BY <1>0 DEF ProcessGetCommand, OfKind, Shaped, HoldsCommand
  <2> QED
    BY <1>0, <2>1, <2>2 DEF Intact
<1>2. /\ count[x][s] < MaxCount /\ count[y][s] < MaxCount
      /\ count' = [o \in Addr |-> [r \in Session |->
                    IF o \in {x, y} /\ r = s THEN count[o][r] + 1 ELSE count[o][r]]]
      /\ extRefs' = OneMore(extRefs, {x, y})
      /\ UNCHANGED <<kind, intRefs, locks, slot, running, stock, sessions, stack,
                      expiring, phase>>
  BY DEF ProcessGetCommand, Executable, Arguments
<1> HIDE DEF x, y
<1>3. x \in Addr /\ y \in Addr /\ count \in Counts
  BY <1>0, <1>1, Types
<1>4. d \in Counts /\ d[x][s] = count[x][s] + 1 /\ CountsDifferAt(count, d, x, s)
  <2>1. \A o \in Addr : \A r \in Session : d[o][r] \in 0..MaxCount
    BY <1>2, <1>3, GraphAssumption DEF Counts
  <2> QED
    BY <2>1, <1>0, <1>3 DEF Counts, CountsDifferAt
<1>5. count' \in Counts /\ count'[y][s] = d[y][s] + 1 /\ CountsDifferAt(d, count', y, s)
  <2>1. \A o \in Addr : \A r \in Session : count'[o][r] \in 0..MaxCount
    BY <1>2, <1>3, GraphAssumption DEF Counts
  <2> QED
    BY <2>1, <1>0, <1>1, <1>2, <1>3 DEF Counts, CountsDifferAt
<1>6. TypeOK'
  <2>1. extRefs' \in [Addr -> Nat]
    <3>1. extRefs \in [Addr -> Nat]
      BY <1>0 DEF TypeOK
    <3>2. OneMore(extRefs, {x, y}) \in [Addr -> Nat]
      BY <3>1, OneMoreIs
    <3> QED
      BY <3>2, <1>2
  <2> QED
    BY <2>1, <1>0, <1>2, <1>5 DEF TypeOK, Counts
<1>7. /\ External(d, x) = External(count, x) + 1
      /\ \A q \in Addr : q # x => External(d, q) = External(count, q)
  <2> HIDE <1>2 DEF d
  <2> QED
    BY <1>0, <1>3, <1>4, ExternalAdd
<1>8. /\ External(count', y) = External(d, y) + 1
      /\ \A q \in Addr : q # y => External(count', q) = External(d, q)
  <2> HIDE <1>2 DEF d
  <2> QED
    BY <1>0, <1>3, <1>4, <1>5, ExternalAdd
<1>9. \A q \in Live : extRefs'[q] = External(count', q)
  <2> HIDE DEF d
  <2>1. /\ extRefs'[x] = extRefs[x] + 1 /\ extRefs'[y] = extRefs[y] + 1
        /\ \A q \in Addr : q # x /\ q # y => extRefs'[q] = extRefs[q]
    BY <1>0, <1>1, <1>2, <1>3 DEF TypeOK, OneMore
  <2> QED
    BY <2>1, <1>0, <1>1, <1>3, <1>7, <1>8, Types DEF Accounted
<1>10. \A q \in Addr : \A r \in Session : count'[q][r] > 0 => q \in Live /\ r \in sessions
  <2> HIDE DEF d
  <2>1. \A q \in Addr : \A r \in Session :
          count'[q][r] = count[q][r] \/ (r = s /\ q \in {x, y})
    BY <1>4, <1>5 DEF CountsDifferAt
  <2> QED
    BY <2>1, <1>0, <1>1 DEF Intact
<1>11. Live' = Live /\ StackDistinct'
  BY <1>2, LiveSame DEF Inv
<1>12. Consistent(Live)' /\ FreeIsEmpty'
  <2>1. \A L : L = Live => Consistent(L)' /\ FreeIsEmpty'
    BY <1>2, <1>9, <1>10, ExternalChange
  <2> QED
    BY <2>1, <1>11 DEF Consistent, Accounted, Intact, Shaped, Locked, Acyclic
<1>13. Referenced(Live)'
  <2>1. \A q \in Addr : /\ extRefs'[q] \in {extRefs[q], extRefs[q] + 1}
                         /\ extRefs[q] \in Nat /\ intRefs[q] \in Nat /\ intRefs' = intRefs
    BY <1>0, <1>2 DEF TypeOK, OneMore
  <2> QED
    BY <2>1, <1>0, <1>11, Types DEF Inv, Referenced
<1>14. ExitOrdered'
  BY <1>2, <1>11 DEF Inv, ExitOrdered
<1> QED
  BY <1>6, <1>11, <1>12, <1>13, <1>14 DEF Inv

\* External references to o disappear; if none of either kind is left, o is
\* destroyed.
LEMMA ExternalRemoved ==
  ASSUME Inv, NEW o \in Live,
         count' \in Counts, extRefs' \in [Addr -> Nat],
         extRefs'[o] = External(count', o),
         \A p \in Addr : p # o => extRefs'[p] = extRefs[p]
                                  /\ External(count', p) = External(count, p),
         \A p \in Addr : \A r \in Session : count'[p][r] > 0 => count[p][r] > 0,
         DestroyIfUnreferenced(o, intRefs[o], extRefs'[o]),
         UNCHANGED <<kind, intRefs, locks, slot, running, stock, sessions, expiring, phase>>,
         phase \in {"run", "sessions"}
  PROVE  Inv'
<1>0. TypeOK /\ o \in Addr /\ StackDistinct /\ Accounted(Live) /\ Intact(Live)
  BY Types DEF Inv, Consistent
<1>1. \A p \in Live : extRefs'[p] = External(count', p)
  BY <1>0, Types DEF Accounted
<1>2. \A p \in Addr : \A r \in Session : count'[p][r] > 0 => p \in Live /\ r \in sessions
  BY <1>0 DEF Intact
<1>3. \A L : L = Live => Consistent(L)' /\ FreeIsEmpty'
  BY <1>1, <1>2, ExternalChange
<1>4. \A p \in Live : p # o => intRefs'[p] + extRefs'[p] > 0
  BY <1>0, Types DEF Inv, Referenced
<1>5. slot' \in Slots /\ intRefs' \in [Addr -> Nat] /\ intRefs'[o] = intRefs[o]
  BY <1>0, Types DEF TypeOK
<1>6. /\ stack' \in Seq(Addr) /\ StackDistinct'
      /\ Consistent(Live)' /\ Referenced(Live)' /\ Live' \subseteq Live
  <2>1. ASSUME NEW L, L = Live
        PROVE  /\ stack' \in Seq(Addr) /\ StackDistinct'
               /\ Consistent(Live)' /\ Referenced(Live)' /\ Live' \subseteq Live
    <3>1. /\ o \in L /\ Consistent(L)'
          /\ DestroyIfUnreferenced(o, intRefs'[o], extRefs'[o])
          /\ \A p \in L : p # o => intRefs'[p] + extRefs'[p] > 0
      BY <2>1, <1>3, <1>4, <1>5
    <3> QED
      BY <3>1, <2>1, <1>0, <1>5, Settle
  <2> QED
    BY <2>1
<1>7. TypeOK'
  BY <1>0, <1>6 DEF TypeOK, Counts
<1>8. ExitOrdered'
  BY DEF Inv, ExitOrdered
<1> QED
  BY <1>3, <1>6, <1>7, <1>8 DEF Inv

\* object_release by a session that has a reference.
LEMMA ReleaseStep ==
  ASSUME Inv, NEW o \in Live, NEW s \in sessions, ObjectRelease(o, s)
  PROVE  Inv'
<1>0. TypeOK /\ o \in Addr /\ s \in Session /\ Accounted(Live) /\ count \in Counts
  BY Types DEF Inv, Consistent
<1>1. /\ extRefs[o] > 0 /\ count[o][s] > 0
      /\ count'   = [count EXCEPT ![o][s] = @ - 1]
      /\ extRefs' = [extRefs EXCEPT ![o] = @ - 1]
  BY DEF ObjectRelease
<1>2. count' \in Counts /\ count[o][s] = count'[o][s] + 1 /\ CountsDifferAt(count', count, o, s)
  <2>1. count[o][s] \in 0..MaxCount /\ count[o][s] - 1 \in 0..MaxCount
    BY <1>0, <1>1, GraphAssumption DEF Counts
  <2>2. count' \in Counts
    BY <2>1, <1>0, <1>1 DEF Counts
  <2> QED
    BY <2>1, <2>2, <1>0, <1>1, GraphAssumption DEF Counts, CountsDifferAt
<1>3. /\ External(count, o) = External(count', o) + 1
      /\ \A p \in Addr : p # o => External(count, p) = External(count', p)
  <2> HIDE <1>1
  <2> QED
    BY <1>0, <1>2, ExternalAdd
<1>4. External(count', o) \in Nat
  BY TokensFinite
<1>5. /\ extRefs' \in [Addr -> Nat] /\ extRefs'[o] = External(count', o)
      /\ \A p \in Addr : p # o => extRefs'[p] = extRefs[p]
      /\ extRefs'[o] = extRefs[o] - 1
  BY <1>0, <1>1, <1>3, <1>4 DEF TypeOK, Accounted
<1>6. \A p \in Addr : \A r \in Session : count'[p][r] > 0 => count[p][r] > 0
  BY <1>1, <1>2 DEF CountsDifferAt
<1>7. /\ DestroyIfUnreferenced(o, intRefs[o], extRefs'[o])
      /\ UNCHANGED <<kind, intRefs, locks, slot, running, stock, sessions, expiring, phase>>
      /\ phase \in {"run", "sessions"}
  BY <1>5 DEF ObjectRelease, Serving
<1> HIDE <1>1
<1> QED
  BY <1>2, <1>3, <1>5, <1>6, <1>7, ExternalRemoved

\* One round of the loop of session_remove_external_references.
LEMMA ExpireStep ==
  ASSUME Inv, NEW o \in Addr, ExpireReference(o)
  PROVE  Inv'
<1> DEFINE s == expiring
<1>0. TypeOK /\ Accounted(Live) /\ Intact(Live) /\ count \in Counts /\ s \in Session /\ ExitOrdered
  BY Types DEF Inv, Consistent, ExpireReference, TypeOK
<1>1. /\ count[o][s] > 0
      /\ count'   = [count EXCEPT ![o][s] = 0]
      /\ extRefs' = [extRefs EXCEPT ![o] = @ - count[o][s]]
      /\ DestroyIfUnreferenced(o, intRefs[o], extRefs[o] - count[o][s])
      /\ UNCHANGED <<kind, intRefs, locks, slot, running, stock, sessions, expiring, phase>>
  BY DEF ExpireReference
<1> HIDE DEF s
<1>2. o \in Live /\ s \in sessions
  BY <1>0, <1>1 DEF Intact
<1>3. count' \in Counts /\ count'[o][s] = 0 /\ CountsDifferAt(count, count', o, s)
  <2>1. 0 \in 0..MaxCount
    BY GraphAssumption
  <2> QED
    BY <2>1, <1>0, <1>1 DEF Counts, CountsDifferAt
<1>4. /\ count[o][s] <= External(count, o)
      /\ External(count', o) = External(count, o) - count[o][s]
      /\ \A p \in Addr : p # o => External(count', p) = External(count, p)
  <2> HIDE <1>1
  <2> QED
    BY <1>0, <1>3, ExternalClear
<1>5. External(count', o) \in Nat
  BY TokensFinite
<1>6. /\ extRefs' \in [Addr -> Nat] /\ extRefs'[o] = External(count', o)
      /\ \A p \in Addr : p # o => extRefs'[p] = extRefs[p]
      /\ extRefs'[o] = extRefs[o] - count[o][s]
  BY <1>0, <1>1, <1>2, <1>4, <1>5 DEF TypeOK, Accounted
<1>7. \A p \in Addr : \A r \in Session : count'[p][r] > 0 => count[p][r] > 0
  BY <1>1, <1>3 DEF CountsDifferAt
<1>8. DestroyIfUnreferenced(o, intRefs[o], extRefs'[o])
  BY <1>1, <1>6
<1>9. phase \in {"run", "sessions"}
  BY <1>0, <1>2 DEF ExitOrdered
<1> QED
  BY <1>1, <1>2, <1>3, <1>4, <1>6, <1>7, <1>8, <1>9, ExternalRemoved

-----------------------------------------------------------------------------
(* Steps that remove internal references                                   *)

\* An internal reference to o disappears; if no reference of either kind is
\* left, o is destroyed.
LEMMA InternalRemoved ==
  ASSUME Inv, NEW L, L = Live, NEW o \in L,
         slot' \in Slots, \A h \in Addr : \A k \in Slot : slot'[h][k] \in {slot[h][k], None},
         running' \subseteq running, stock' \subseteq stock,
         intRefs' \in [Addr -> Nat], \A p \in Addr : p # o => intRefs'[p] = intRefs[p],
         locks' \in [Addr -> Nat],
         Accounted(L)', Shaped(L)', Locked(L)',
         DestroyIfUnreferenced(o, intRefs'[o], extRefs[o]),
         UNCHANGED <<kind, extRefs, count, sessions, expiring, phase>>,
         phase \notin {"file", "list", "string", "down"}
  PROVE  Inv'
<1>0. TypeOK /\ o \in Addr /\ StackDistinct /\ Intact(L) /\ Acyclic(L) /\ L \subseteq Addr
  BY Types DEF Inv, Consistent
<1>1. Intact(L)'
  BY <1>0 DEF Intact
<1>2. Acyclic(L)'
  <2> SUFFICES ASSUME NEW S \in SUBSET L, S # {}
               PROVE  \E x \in S : \A h \in S : \A k \in Slot : slot'[h][k] # x
    BY DEF Acyclic
  <2>1. PICK x \in S : \A h \in S : \A k \in Slot : slot[h][k] # x
    BY <1>0 DEF Acyclic
  <2>2. x # None /\ S \subseteq Addr
    BY <1>0, Types
  <2> QED
    BY <2>1, <2>2
<1>3. Consistent(L)'
  BY <1>1, <1>2 DEF Consistent
<1>4. FreeIsEmpty'
  BY DEF Inv, FreeIsEmpty
<1>5. \A p \in L : p # o => intRefs'[p] + extRefs'[p] > 0
  BY <1>0 DEF Inv, Referenced
<1>6. count' \in Counts /\ extRefs' \in [Addr -> Nat] /\ extRefs' = extRefs /\ kind' = kind
  BY <1>0, Types DEF TypeOK
<1>7. /\ stack' \in Seq(Addr) /\ StackDistinct'
      /\ Consistent(Live)' /\ Referenced(Live)' /\ Live' \subseteq Live
  BY <1>0, <1>3, <1>5, <1>6, Settle
<1>8. TypeOK'
  BY <1>0, <1>7 DEF TypeOK, Slots
<1>9. ExitOrdered'
  BY DEF Inv, ExitOrdered
<1> QED
  BY <1>4, <1>7, <1>8, <1>9 DEF Inv

\* A list, or an object that is being destroyed, releases what it holds at a
\* place.
LEMMA ReleasePlaceStep ==
  ASSUME Inv, NEW h \in Addr, NEW k \in Slot, slot[h][k] # None,
         h \in Live => kind[h] = "list",
         ReleasePlace(h, k),
         UNCHANGED <<kind, extRefs, count, running, stock, sessions, expiring, phase>>,
         phase \notin {"file", "list", "string", "down"}
  PROVE  Inv'
<1> DEFINE o == slot[h][k]
<1>0. /\ TypeOK /\ Accounted(Live) /\ Intact(Live) /\ Shaped(Live) /\ Locked(Live)
      /\ Live \subseteq Addr /\ slot \in Slots /\ None \notin Addr
  BY Types DEF Inv, Consistent
<1>1. o \in Live /\ o \in Addr
  BY <1>0 DEF Intact
<1>2. slot' = [slot EXCEPT ![h][k] = None]
  BY DEF ReleasePlace
<1>3. slot' \in Slots /\ slot'[h][k] = None /\ SlotsDifferAt(slot, slot', h, k)
  BY <1>0, <1>2 DEF Slots, SlotsDifferAt
<1>4. \A p \in Addr : /\ p = o => Internal(slot, p) = Internal(slot', p) + 1
                      /\ p # o => Internal(slot', p) = Internal(slot, p)
  <2>1. \A p \in Addr : p # None
    BY <1>0
  <2>2. \A p \in Addr : /\ p = None => Internal(slot', p) = Internal(slot, p) + 1
                        /\ p = slot[h][k] => Internal(slot, p) = Internal(slot', p) + 1
                        /\ p # None /\ p # slot[h][k] => Internal(slot', p) = Internal(slot, p)
    <3> HIDE <1>2
    <3>1. None \in Addr \cup {None} /\ None # slot[h][k]
      OBVIOUS
    <3> QED
      BY <3>1, <1>0, <1>3, InternalPut
  <2> QED
    BY <2>1, <2>2
<1>5. Internal(slot', o) \in Nat
  BY TokensFinite
<1>6. intRefs[o] > 0 /\ intRefs[o] \in Nat
  <2> HIDE DEF o
  <2>1. intRefs[o] = Internal(slot, o) + One(o \in running) + One(o \in stock)
    BY <1>0, <1>1 DEF Accounted
  <2>2. Internal(slot, o) = Internal(slot', o) + 1
    BY <1>1, <1>4
  <2>3. One(o \in running) \in Nat /\ One(o \in stock) \in Nat
    BY DEF One
  <2> QED
    BY <2>1, <2>2, <2>3, <1>5
<1>7. /\ intRefs' = [intRefs EXCEPT ![o] = @ - 1]
      /\ DestroyIfUnreferenced(o, intRefs[o] - 1, extRefs[o])
      /\ locks' = IF Locking(h, o) /\ locks[o] > 0
                  THEN [locks EXCEPT ![o] = @ - 1] ELSE locks
  BY <1>6 DEF ReleasePlace
<1> HIDE DEF o
<1>8. /\ intRefs' \in [Addr -> Nat] /\ intRefs'[o] = intRefs[o] - 1
      /\ \A p \in Addr : p # o => intRefs'[p] = intRefs[p]
  BY <1>0, <1>1, <1>6, <1>7, SMTT(20) DEF TypeOK
<1>9. /\ locks' \in [Addr -> Nat]
      /\ \A p \in Addr : p # o => locks'[p] = locks[p]
      /\ Locking(h, o) /\ locks[o] > 0 => locks'[o] = locks[o] - 1
  BY <1>0, <1>1, <1>7, SMTT(20) DEF TypeOK
<1>10. Accounted(Live) => \A L : L = Live => Accounted(L)'
  BY <1>0, <1>1, <1>4, <1>5, <1>6, <1>8 DEF Accounted, One
<1>11. \A L : L = Live => Locked(L)'
  BY <1>0, <1>1, <1>6, <1>8, <1>9 DEF Locked, Locking
<1>12. \A L : L = Live => Shaped(L)'
  <2>1. \A g \in Addr : \A j \in Slot : slot'[g][j] \in {slot[g][j], None}
    BY <1>3 DEF SlotsDifferAt
  <2>2. \A g \in Live : kind[g] # "list" => \A j \in Slot : slot'[g][j] = slot[g][j]
    BY <1>0, <1>3 DEF SlotsDifferAt
  <2>3. 1 \in Slot /\ 2 \in Slot /\ 3 \in Slot
    BY GraphAssumption DEF Slot
  <2>4. ASSUME NEW g \in Live, kind[g] = "process"
        PROVE  HoldsCommand(g)'
    <3>1. HoldsCommand(g) /\ slot[g][2] \in Addr
      BY <1>0, <2>3, <2>4 DEF Shaped, HoldsCommand, Intact
    <3> QED
      BY <3>1, <2>1, <2>2, <2>3, <2>4 DEF HoldsCommand
  <2>5. ASSUME NEW g \in Live, kind[g] \in {"file", "pipe"}
        PROVE  HoldsName(g)'
    BY <1>0, <2>2, <2>3, <2>5 DEF Shaped, HoldsName
  <2>6. ASSUME NEW g \in Live, kind[g] = "string"
        PROVE  HoldsNothing(g)'
    BY <1>0, <2>2, <2>6 DEF Shaped, HoldsNothing
  <2> QED
    BY <2>4, <2>5, <2>6 DEF Shaped
<1>13. \A g \in Addr : \A j \in Slot : slot'[g][j] \in {slot[g][j], None}
  BY <1>3 DEF SlotsDifferAt
<1>14. DestroyIfUnreferenced(o, intRefs'[o], extRefs[o])
  BY <1>7, <1>8
<1>15. ASSUME NEW L, L = Live
       PROVE  Inv'
  <2>1. o \in L /\ Accounted(L)' /\ Shaped(L)' /\ Locked(L)'
    BY <1>0, <1>1, <1>10, <1>11, <1>12, <1>15
  <2>2. running' \subseteq running /\ stock' \subseteq stock
    OBVIOUS
  <2> HIDE <1>2, <1>7
  <2> QED
    BY <2>1, <2>2, <1>3, <1>8, <1>9, <1>13, <1>14, <1>15, InternalRemoved
<1> QED
  BY <1>15

\* The destroy function on top of the stack releases its next place.
LEMMA DestroyReleaseStep ==
  ASSUME Inv, DestroyRelease
  PROVE  Inv'
<1> DEFINE top == stack[Len(stack)]
<1>0. TypeOK /\ ExitOrdered /\ stack # <<>>
  BY DEF Inv, DestroyRelease
<1>1. top \in Addr /\ top \notin Live
  <2>1. stack \in Seq(Addr) /\ Len(stack) \in 1..Len(stack)
    BY <1>0 DEF TypeOK
  <2> QED
    BY <2>1 DEF Live, Dying
<1>2. PICK k \in Slot : slot[top][k] # None /\ ReleasePlace(top, k)
  BY DEF DestroyRelease, Held
<1>3. phase \notin {"file", "list", "string", "down"}
  BY <1>0 DEF ExitOrdered
<1>4. UNCHANGED <<kind, extRefs, count, running, stock, sessions, expiring, phase>>
  BY DEF DestroyRelease
<1> HIDE DEF top
<1> QED
  BY <1>1, <1>2, <1>3, <1>4, ReleasePlaceStep

\* list_remove_from on a list nobody holds.
LEMMA ListRemoveStep ==
  ASSUME Inv, NEW l \in Live, NEW k \in Slot, ListRemoveFrom(l, k)
  PROVE  Inv'
<1>1. l \in Addr /\ kind[l] = "list" /\ slot[l][k] # None /\ phase = "run"
  BY DEF ListRemoveFrom, OfKind, Live, Held, Serving
<1>2. /\ ReleasePlace(l, k)
      /\ UNCHANGED <<kind, extRefs, count, running, stock, sessions, expiring, phase>>
  BY DEF ListRemoveFrom
<1> QED
  BY <1>1, <1>2, ReleasePlaceStep

\* Nobody but the daemon lets go of o: the reference a process has to itself,
\* or the one of the inventory to a stock string.
LEMMA SelfRemoved ==
  ASSUME Inv, NEW o \in Live,
         \/ o \in running /\ running' = running \ {o} /\ stock' = stock /\ locks' = locks
         \/ /\ o \in stock /\ stock' = stock \ {o} /\ running' = running
            /\ locks' = [locks EXCEPT ![o] = @ - 1],
         intRefs' = [intRefs EXCEPT ![o] = @ - 1],
         DestroyIfUnreferenced(o, intRefs[o] - 1, extRefs[o]),
         UNCHANGED <<kind, extRefs, count, slot, sessions, expiring, phase>>,
         phase \notin {"file", "list", "string", "down"}
  PROVE  Inv'
<1>0. /\ TypeOK /\ Accounted(Live) /\ Intact(Live) /\ Shaped(Live) /\ Locked(Live)
      /\ Live \subseteq Addr /\ slot \in Slots /\ o \in Addr
  BY Types DEF Inv, Consistent
<1>1. Internal(slot, o) \in Nat /\ intRefs[o] \in Nat
  BY <1>0, TokensFinite DEF TypeOK
<1>2. intRefs[o] = Internal(slot, o) + One(o \in running) + One(o \in stock)
  BY <1>0 DEF Accounted
<1>3. intRefs[o] > 0
  BY <1>1, <1>2 DEF One
<1>4. o \in running => kind[o] = "process"
  BY <1>0 DEF Intact
<1>5. o \in stock => kind[o] = "string" /\ locks[o] = intRefs[o]
  BY <1>0 DEF Intact, Locked
<1>6. /\ intRefs' \in [Addr -> Nat] /\ intRefs'[o] = intRefs[o] - 1
      /\ \A p \in Addr : p # o => intRefs'[p] = intRefs[p]
  BY <1>0, <1>1, <1>3 DEF TypeOK
<1>7. locks' \in [Addr -> Nat] /\ \A p \in Addr : p # o => locks'[p] = locks[p]
  BY <1>0, <1>1, <1>3, <1>5 DEF TypeOK
<1>8. \A L : L = Live => Accounted(L)'
  <2>1. \A p \in Addr : p # o => /\ One(p \in running') = One(p \in running)
                                 /\ One(p \in stock') = One(p \in stock)
    BY DEF One
  <2>2. intRefs[o] - 1 = Internal(slot, o) + One(o \in running') + One(o \in stock')
    BY <1>1, <1>2, <1>4, <1>5 DEF One
  <2> QED
    BY <2>1, <2>2, <1>0, <1>6 DEF Accounted
<1>9. \A L : L = Live => Locked(L)'
  <2>1. kind[o] \in {"string", "list"} => locks'[o] = intRefs'[o]
    BY <1>0, <1>4, <1>5, <1>6 DEF TypeOK
  <2> QED
    BY <2>1, <1>0, <1>6, <1>7 DEF Locked
<1>10. \A L : L = Live => Shaped(L)'
  BY <1>0 DEF Shaped, HoldsNothing, HoldsName, HoldsCommand
<1>11. ASSUME NEW L, L = Live
       PROVE  Inv'
  <2>1. o \in L /\ Accounted(L)' /\ Shaped(L)' /\ Locked(L)'
    BY <1>8, <1>9, <1>10, <1>11
  <2>2. /\ running' \subseteq running /\ stock' \subseteq stock /\ slot' \in Slots
        /\ \A g \in Addr : \A j \in Slot : slot'[g][j] \in {slot[g][j], None}
        /\ DestroyIfUnreferenced(o, intRefs'[o], extRefs[o])
    BY <1>0, <1>6
  <2> QED
    BY <2>1, <2>2, <1>6, <1>7, <1>11, InternalRemoved
<1> QED
  BY <1>11

\* process_handle_state_change with a dead state.
LEMMA DiesStep ==
  ASSUME Inv, NEW p \in Live, ProcessDies(p)
  PROVE  Inv'
BY SelfRemoved DEF ProcessDies, Serving

\* inventory_unlock_and_release_string
LEMMA StockStep ==
  ASSUME Inv, NEW o \in Live, ExitReleaseStock(o)
  PROVE  Inv'
BY SelfRemoved DEF ExitReleaseStock

-----------------------------------------------------------------------------
(* Steps that leave the references as they are                             *)

\* The references and the objects alive stay what they are.
LEMMA GraphSame ==
  ASSUME Inv, UNCHANGED <<intRefs, extRefs, locks, count, slot, running, stock>>,
         Live' = Live, \A o \in Live : kind'[o] = kind[o],
         \A o \in Addr : \A s \in Session : count[o][s] > 0 => s \in sessions'
  PROVE  Consistent(Live)' /\ Referenced(Live)'
<1>0. /\ Accounted(Live) /\ Intact(Live) /\ Shaped(Live) /\ Locked(Live) /\ Acyclic(Live)
      /\ Live \subseteq Addr
  BY Types DEF Inv, Consistent
<1>1. Accounted(Live)' /\ Locked(Live)' /\ Acyclic(Live)'
  BY <1>0 DEF Accounted, Locked, Acyclic
<1>2. Intact(Live)'
  BY <1>0 DEF Intact
<1>3. Shaped(Live)'
  <2>1. 1 \in Slot /\ 2 \in Slot /\ 3 \in Slot
    BY GraphAssumption DEF Slot
  <2>2. ASSUME NEW g \in Live, kind[g] = "process"
        PROVE  HoldsCommand(g)'
    <3>1. HoldsCommand(g)
      BY <1>0, <2>2 DEF Shaped
    <3>2. slot[g][1] \in Live /\ slot[g][2] \in Live /\ slot[g][3] \in Live
      BY <3>1, <1>0, <2>1 DEF Intact, HoldsCommand
    <3>3. \A k \in Slot : slot[slot[g][2]][k] # None => slot[slot[g][2]][k] \in Live
      BY <3>2, <1>0 DEF Intact
    <3> QED
      BY <3>1, <3>2, <3>3, <1>0 DEF HoldsCommand
  <2>3. ASSUME NEW g \in Live, kind[g] \in {"file", "pipe"}
        PROVE  HoldsName(g)'
    <3>1. HoldsName(g)
      BY <1>0, <2>3 DEF Shaped
    <3>2. slot[g][1] \in Live
      BY <3>1, <1>0, <2>1 DEF Intact, HoldsName
    <3> QED
      BY <3>1, <3>2, <1>0 DEF HoldsName
  <2> QED
    BY <2>2, <2>3, <1>0 DEF Shaped, HoldsNothing
<1>4. Referenced(Live)'
  BY DEF Inv, Referenced
<1> QED
  BY <1>1, <1>2, <1>3, <1>4 DEF Consistent

\* The innermost destroy function has released everything and frees its
\* object.
LEMMA FreeStep ==
  ASSUME Inv, DestroyFree
  PROVE  Inv'
<1> DEFINE top == stack[Len(stack)]
<1>0. TypeOK /\ StackDistinct /\ stack # <<>> /\ FreeIsEmpty /\ ExitOrdered
  BY DEF Inv, DestroyFree
<1>1. /\ kind' = [kind EXCEPT ![top] = "free"]
      /\ stack' = SubSeq(stack, 1, Len(stack) - 1)
      /\ \A k \in Slot : slot[top][k] = None
      /\ UNCHANGED <<intRefs, extRefs, locks, count, slot, running, stock, sessions,
                      expiring, phase>>
  BY DEF DestroyFree, Held
<1> HIDE DEF top
<1>2. /\ top \in Addr /\ top \notin Live
      /\ stack' \in Seq(Addr)
      /\ StackDistinct'
      /\ Live' = Live
  <2>1. top = stack[Len(stack)]
    BY DEF top
  <2> QED
    BY <2>1, <1>0, <1>1, Popped
<1>3. \A o \in Addr : o # top => kind'[o] = kind[o]
  BY <1>0, <1>1 DEF TypeOK
<1>4. TypeOK'
  BY <1>0, <1>1, <1>2 DEF TypeOK
<1>5. FreeIsEmpty'
  BY <1>0, <1>1, <1>3 DEF FreeIsEmpty
<1>6. Consistent(Live)' /\ Referenced(Live)'
  <2>1. \A o \in Live : kind'[o] = kind[o]
    BY <1>0, <1>2, <1>3, Types
  <2>2. \A o \in Addr : \A s \in Session : count[o][s] > 0 => s \in sessions'
    BY <1>1 DEF Inv, Consistent, Intact
  <2> QED
    BY <2>1, <2>2, <1>1, <1>2, GraphSame
<1>7. ExitOrdered'
  BY <1>0, <1>1, <1>2 DEF ExitOrdered
<1> QED
  BY <1>2, <1>4, <1>5, <1>6, <1>7 DEF Inv

\* Sessions come and go, inventory_exit starts.
LEMMA SessionsStep ==
  ASSUME Inv,
         \/ \E s \in Session : SessionCreate(s) \/ SessionExpire(s)
         \/ ExpireDone
         \/ InventoryExit
  PROVE  Inv'
<1>0. TypeOK /\ StackDistinct /\ FreeIsEmpty /\ ExitOrdered /\ Intact(Live)
  BY DEF Inv, Consistent
<1>1. UNCHANGED <<kind, intRefs, extRefs, locks, count, slot, running, stock, stack>>
  BY DEF SessionCreate, SessionExpire, ExpireDone, InventoryExit
<1>2. TypeOK'
  BY <1>0, <1>1, GraphAssumption, SMTT(20)
     DEF TypeOK, SessionCreate, SessionExpire, ExpireDone, InventoryExit, Phase, ExitOrder
<1>3. Live' = Live /\ StackDistinct'
  BY <1>0, <1>1, LiveSame
<1>4. FreeIsEmpty'
  BY <1>0, <1>1 DEF FreeIsEmpty
<1>5. \A o \in Addr : \A s \in Session : count[o][s] > 0 => s \in sessions'
  BY <1>0 DEF Intact, TypeOK, SessionCreate, SessionExpire, ExpireDone, InventoryExit
<1>6. Consistent(Live)' /\ Referenced(Live)'
  BY <1>1, <1>3, <1>5, GraphSame
<1>7. ExitOrdered'
  BY <1>0, <1>1, <1>3
     DEF ExitOrdered, SessionCreate, SessionExpire, ExpireDone, InventoryExit, Idle, Serving
<1> QED
  BY <1>2, <1>3, <1>4, <1>6, <1>7 DEF Inv

-----------------------------------------------------------------------------
(* inventory_exit                                                          *)

\* Outside of a destruction, an object that nothing but places of objects can
\* refer to is held by an object that is alive.
LEMMA HeldByLive ==
  ASSUME Inv, stack = <<>>, sessions = {}, stock = {}, NEW o \in Live, o \notin running
  PROVE  \E h \in Live : \E k \in Slot : slot[h][k] = o
<1>0. /\ TypeOK /\ Accounted(Live) /\ Intact(Live) /\ Referenced(Live) /\ FreeIsEmpty
      /\ o \in Addr /\ slot \in Slots /\ count \in Counts /\ None \notin Addr
  BY Types DEF Inv, Consistent
<1>1. \A s \in Session : count[o][s] = 0
  BY <1>0, GraphAssumption DEF Intact, Counts
<1>2. extRefs[o] = 0
  BY <1>0, <1>1, ExternalZero DEF Accounted
<1>3. intRefs[o] = Internal(slot, o)
  <2>1. Internal(slot, o) \in Nat
    BY TokensFinite
  <2> QED
    BY <2>1, <1>0 DEF Accounted, One
<1>4. Internal(slot, o) # 0
  BY <1>0, <1>2, <1>3 DEF Referenced
<1>5. PICK h \in Addr, k \in Slot : slot[h][k] = o
  BY <1>0, <1>4, InternalZero
<1>6. kind[h] # "free"
  BY <1>0, <1>5 DEF FreeIsEmpty
<1>7. h \in Live
  BY <1>6 DEF Live, Dying
<1> QED
  BY <1>5, <1>7

\* Once sessions, stock strings and processes are gone, so is everything.
LEMMA NothingLeft ==
  ASSUME Inv, stack = <<>>, sessions = {}, stock = {}, OfKind("process") = {}
  PROVE  Live = {}
<1>0. Intact(Live) /\ Acyclic(Live)
  BY DEF Inv, Consistent
<1>1. running = {}
  BY <1>0 DEF Intact, OfKind
<1>2. ASSUME Live # {}
      PROVE  FALSE
  <2>1. PICK o \in Live : \A h \in Live : \A k \in Slot : slot[h][k] # o
    BY <1>0, <1>2 DEF Acyclic
  <2> QED
    BY <2>1, <1>1, HeldByLive
<1> QED
  BY <1>2

\* The next array of inventory_exit.
LEMMA NextArrayStep ==
  ASSUME Inv, ExitNextArray
  PROVE  Inv'
<1>0. TypeOK /\ StackDistinct /\ FreeIsEmpty /\ ExitOrdered /\ Intact(Live)
  BY DEF Inv, Consistent
<1>1. /\ UNCHANGED <<kind, intRefs, extRefs, locks, count, slot, running, stock, sessions,
                     stack, expiring>>
      /\ stack = <<>> /\ expiring = None
      /\ phase = "sessions" => sessions = {}
      /\ phase = "stock" => stock = {}
      /\ phase = "process" => OfKind("process") = {}
  BY DEF ExitNextArray, Idle, InArray
<1>2. \/ phase = "sessions" /\ phase' = "stock"
      \/ phase = "stock" /\ phase' = "process"
      \/ phase = "process" /\ phase' = "file"
      \/ phase = "file" /\ phase' = "list"
      \/ phase = "list" /\ phase' = "string"
      \/ phase = "string" /\ phase' = "down"
  BY DEF ExitNextArray, ExitOrder
<1>3. TypeOK'
  <2>1. phase' \in Phase
    BY <1>2 DEF Phase, ExitOrder
  <2> QED
    BY <2>1, <1>0, <1>1 DEF TypeOK
<1>4. Live' = Live /\ StackDistinct'
  BY <1>0, <1>1, LiveSame
<1>5. FreeIsEmpty'
  BY <1>0, <1>1 DEF FreeIsEmpty
<1>6. Consistent(Live)' /\ Referenced(Live)'
  BY <1>0, <1>1, <1>4, GraphSame DEF Intact
<1>7. ExitOrdered'
  <2>1. phase = "process" => Live = {}
    BY <1>0, <1>1, NothingLeft DEF ExitOrdered
  <2> QED
    BY <2>1, <1>0, <1>1, <1>2, <1>4 DEF ExitOrdered
<1> QED
  BY <1>3, <1>4, <1>5, <1>6, <1>7 DEF Inv

\* While inventory_exit destroys the processes, no list holds one: the lists
\* left are in the end held by processes, and those hold strings only.
LEMMA ProcessesUnheld ==
  ASSUME Inv, stack = <<>>, sessions = {}, stock = {},
         NEW a \in Live, kind[a] = "process"
  PROVE  \A g \in Addr : \A k \in Slot : slot[g][k] # a
<1> DEFINE S == {l \in Live : kind[l] = "list" /\
                   \E k \in Slot : slot[l][k] # None /\ kind[slot[l][k]] # "string"}
<1>0. /\ TypeOK /\ Intact(Live) /\ Shaped(Live) /\ Acyclic(Live) /\ FreeIsEmpty
      /\ Live \subseteq Addr /\ None \notin Addr
      /\ 1 \in Slot /\ 2 \in Slot /\ 3 \in Slot
  BY Types, GraphAssumption DEF Inv, Consistent, Slot
<1>1. ASSUME NEW g \in Live, NEW k \in Slot, slot[g][k] # None
      PROVE  \/ kind[slot[g][k]] \in {"string", "file", "pipe"}
             \/ slot[g][k] \notin S /\ kind[slot[g][k]] = "list"
             \/ kind[g] = "list"
  <2>1. kind[g] \in {"string", "list", "file", "pipe", "process"}
    BY <1>0 DEF TypeOK, Live, Kind
  <2>2. CASE kind[g] = "string"
    BY <2>2, <1>0, <1>1 DEF Shaped, HoldsNothing
  <2>3. CASE kind[g] \in {"file", "pipe"}
    BY <2>3, <1>0, <1>1 DEF Shaped, HoldsName
  <2>4. CASE kind[g] = "process"
    <3>1. HoldsCommand(g)
      BY <2>4, <1>0 DEF Shaped
    <3>2. slot[g][2] \notin S
      BY <3>1 DEF HoldsCommand
    <3> QED
      BY <3>1, <3>2, <1>1 DEF HoldsCommand
  <2> QED
    BY <2>1, <2>2, <2>3, <2>4
<1>2. S = {}
  <2> SUFFICES ASSUME S # {}
               PROVE  FALSE
    OBVIOUS
  <2>0. S \in SUBSET Live
    OBVIOUS
  <2>1. PICK o \in S : \A h \in S : \A k \in Slot : slot[h][k] # o
    <3> HIDE DEF S
    <3> QED
      BY <2>0, <1>0 DEF Acyclic
  <2>2. o \in Live /\ kind[o] = "list" /\ o \notin running /\ o # None
    BY <1>0 DEF Intact
  <2>3. PICK h \in Live, k \in Slot : slot[h][k] = o
    BY <2>2, HeldByLive
  <2> HIDE DEF S
  <2>4. kind[h] = "list"
    BY <2>2, <2>3, <1>1
  <2>5. h \in S
    BY <2>2, <2>3, <2>4 DEF S
  <2> QED
    BY <2>1, <2>3, <2>5
<1>3. ASSUME NEW g \in Addr, NEW k \in Slot, slot[g][k] = a
      PROVE  FALSE
  <2>1. a # None /\ a \in Addr
    BY <1>0
  <2>2. g \in Live
    BY <2>1, <1>0, <1>3 DEF FreeIsEmpty, Live, Dying
  <2>3. kind[g] = "list"
    <3> HIDE DEF S
    <3> QED
      BY <2>1, <2>2, <1>1, <1>3
  <2>4. g \in S
    BY <2>1, <2>2, <2>3, <1>3
  <2> QED
    BY <2>4, <1>2
<1> QED
  BY <1>3

\* inventory_destroy_object: only processes are left to be destroyed by force,
\* and nothing refers to them.
LEMMA ExitDestroyStep ==
  ASSUME Inv, NEW a \in Live, ExitDestroy(a)
  PROVE  Inv'
<1>0. /\ TypeOK /\ StackDistinct /\ FreeIsEmpty /\ ExitOrdered /\ Referenced(Live)
      /\ Accounted(Live) /\ Intact(Live) /\ Shaped(Live) /\ Locked(Live) /\ Acyclic(Live)
      /\ Live \subseteq Addr /\ a \in Addr /\ slot \in Slots /\ count \in Counts
      /\ None \notin Addr
  BY Types DEF Inv, Consistent
<1>1. /\ stack = <<>> /\ expiring = None /\ a \in InArray(phase)
      /\ stack'   = Append(stack, a)
      /\ running' = running \ {a}
      /\ count'   = [count EXCEPT ![a] = NoCounts]
      /\ extRefs' = [extRefs EXCEPT ![a] = 0]
      /\ UNCHANGED <<kind, intRefs, locks, slot, stock, sessions, expiring, phase>>
  BY DEF ExitDestroy, Idle
<1>2. phase = "process" /\ kind[a] = "process" /\ sessions = {} /\ stock = {}
  <2>1. phase \in {"run", "sessions", "stock", "process", "file", "list", "string", "down"}
    BY <1>0 DEF TypeOK, Phase, ExitOrder
  <2>2. phase \notin {"file", "list", "string", "down"}
    BY <1>0 DEF ExitOrdered
  <2>3. phase \in Kind
    BY <2>2, <1>0, <1>1 DEF InArray, OfKind, Live, TypeOK
  <2>4. phase = "process"
    BY <2>1, <2>2, <2>3 DEF Kind
  <2> QED
    BY <2>4, <1>0, <1>1 DEF InArray, OfKind, ExitOrdered
<1>3. \A g \in Addr : \A k \in Slot : slot[g][k] # a
  BY <1>1, <1>2, ProcessesUnheld
<1>4. Live' = Live \ {a} /\ StackDistinct' /\ stack' \in Seq(Addr)
  BY <1>0, <1>1, Pushed
<1>5. /\ count' \in Counts /\ extRefs' \in [Addr -> Nat]
      /\ \A s \in Session : count'[a][s] = 0
      /\ \A p \in Addr : p # a => count'[p] = count[p] /\ extRefs'[p] = extRefs[p]
  BY <1>0, <1>1, GraphAssumption DEF Counts, NoCounts, TypeOK
<1>6. TypeOK'
  BY <1>0, <1>1, <1>4, <1>5 DEF TypeOK, Counts
<1>7. Accounted(Live)'
  <2>1. \A p \in Addr : p # a => External(count', p) = External(count, p)
    BY <1>5, ExternalSame
  <2>2. \A p \in Addr : p # a => One(p \in running') = One(p \in running)
    BY <1>1 DEF One
  <2> QED
    BY <2>1, <2>2, <1>0, <1>1, <1>4, <1>5 DEF Accounted
<1>8. Intact(Live)'
  <2>1. \A p \in Addr : \A s \in Session : count'[p][s] > 0 => p # a /\ count[p][s] > 0
    BY <1>0, <1>5 DEF Counts
  <2>2. a \notin stock'
    BY <1>1, <1>2
  <2> QED
    BY <2>1, <2>2, <1>0, <1>1, <1>3, <1>4 DEF Intact
<1>9. Shaped(Live)'
  BY <1>0, <1>1, <1>4 DEF Shaped, HoldsNothing, HoldsName, HoldsCommand
<1>10. Locked(Live)' /\ Acyclic(Live)'
  BY <1>0, <1>1, <1>4 DEF Locked, Acyclic
<1>11. Referenced(Live)'
  BY <1>0, <1>1, <1>4, <1>5 DEF Referenced
<1>12. FreeIsEmpty'
  BY <1>0, <1>1 DEF FreeIsEmpty
<1>13. ExitOrdered'
  BY <1>0, <1>1, <1>2 DEF ExitOrdered
<1> QED
  BY <1>4, <1>6, <1>7, <1>8, <1>9, <1>10, <1>11, <1>12, <1>13 DEF Inv, Consistent

-----------------------------------------------------------------------------
(* Steps that add internal references                                      *)

\* A list that is not locked is held by nobody.
LEMMA UnlockedUnheld ==
  ASSUME Inv, NEW l \in Live, kind[l] = "list", locks[l] = 0
  PROVE  \A h \in Addr : \A k \in Slot : slot[h][k] # l
<1>1. /\ TypeOK /\ Accounted(Live) /\ Locked(Live) /\ slot \in Slots /\ l \in Addr
  BY Types DEF Inv, Consistent
<1>2. intRefs[l] = 0 /\ intRefs[l] = Internal(slot, l) + One(l \in running) + One(l \in stock)
  BY <1>1 DEF Locked, Accounted
<1>3. Internal(slot, l) \in Nat /\ One(l \in running) \in Nat /\ One(l \in stock) \in Nat
  BY TokensFinite DEF One
<1>4. Internal(slot, l) = 0
  BY <1>2, <1>3
<1> QED
  BY <1>1, <1>4, InternalZero

\* list_append_to: the lock check makes sure that nobody holds the list, so
\* nobody sees it change and it cannot become part of a cycle.
LEMMA ListAppendStep ==
  ASSUME Inv, NEW l \in Live, NEW x \in Live, ListAppendTo(l, x)
  PROVE  Inv'
<1>0. /\ TypeOK /\ StackDistinct /\ FreeIsEmpty /\ ExitOrdered /\ Referenced(Live)
      /\ Accounted(Live) /\ Intact(Live) /\ Shaped(Live) /\ Locked(Live) /\ Acyclic(Live)
      /\ Live \subseteq Addr /\ l \in Addr /\ x \in Addr /\ slot \in Slots
      /\ None \notin Addr
  BY Types DEF Inv, Consistent
<1>1. /\ kind[l] = "list" /\ x # l /\ locks[l] = 0 /\ phase = "run"
      /\ intRefs' = [intRefs EXCEPT ![x] = @ + 1]
      /\ locks'   = [locks EXCEPT ![x] = @ + 1]
      /\ UNCHANGED <<kind, extRefs, count, running, stock, sessions, stack, expiring, phase>>
  BY DEF ListAppendTo, OfKind, Serving
<1>2. PICK k \in Slot : slot[l][k] = None /\ slot' = [slot EXCEPT ![l][k] = x]
  <2>1. 1..MaxItems \subseteq Slot
    BY GraphAssumption DEF Slot
  <2> QED
    BY <2>1 DEF ListAppendTo, Held
<1>3. slot' \in Slots /\ slot'[l][k] = x /\ SlotsDifferAt(slot, slot', l, k)
  BY <1>0, <1>2 DEF Slots, SlotsDifferAt
<1>4. \A p \in Addr : /\ p = x => Internal(slot', p) = Internal(slot, p) + 1
                      /\ p # x => Internal(slot', p) = Internal(slot, p)
  <2>1. \A p \in Addr : p # None
    BY <1>0
  <2>2. \A p \in Addr : /\ p = x => Internal(slot', p) = Internal(slot, p) + 1
                        /\ p = slot[l][k] => Internal(slot, p) = Internal(slot', p) + 1
                        /\ p # x /\ p # slot[l][k] => Internal(slot', p) = Internal(slot, p)
    <3>1. x \in Addr \cup {None} /\ x # slot[l][k]
      BY <1>0, <1>2
    <3> HIDE <1>1, <1>2
    <3> QED
      BY <3>1, <1>0, <1>3, InternalPut
  <2> QED
    BY <2>1, <2>2, <1>2
<1>5. \A g \in Addr : \A j \in Slot : slot[g][j] # l
  BY <1>1, UnlockedUnheld
<1>6. /\ intRefs' \in [Addr -> Nat] /\ intRefs'[x] = intRefs[x] + 1
      /\ locks' \in [Addr -> Nat] /\ locks'[x] = locks[x] + 1
      /\ \A p \in Addr : p # x => intRefs'[p] = intRefs[p] /\ locks'[p] = locks[p]
      /\ intRefs[x] \in Nat /\ extRefs[x] \in Nat
  BY <1>0, <1>1 DEF TypeOK
<1>7. Live' = Live /\ StackDistinct'
  BY <1>0, <1>1, LiveSame
<1>8. TypeOK'
  BY <1>0, <1>1, <1>3, <1>6 DEF TypeOK, Slots
<1>9. \A g \in Addr : \A j \in Slot : slot'[g][j] # slot[g][j] => g = l /\ slot'[g][j] = x
  BY <1>3 DEF SlotsDifferAt
<1>10. Accounted(Live)'
  <2>1. \A p \in Live : Internal(slot, p) \in Nat /\ One(p \in running) \in Nat
                                                  /\ One(p \in stock) \in Nat
    BY TokensFinite DEF One
  <2>2. ASSUME NEW p \in Live
        PROVE  intRefs'[p] = Internal(slot', p) + One(p \in running) + One(p \in stock)
    <3>1. intRefs[p] = Internal(slot, p) + One(p \in running) + One(p \in stock) /\ p \in Addr
      BY <1>0 DEF Accounted
    <3>2. CASE p = x
      BY <3>1, <3>2, <2>1, <1>4, <1>6
    <3>3. CASE p # x
      BY <3>1, <3>3, <1>4, <1>6
    <3> QED
      BY <3>2, <3>3
  <2> QED
    BY <2>2, <1>0, <1>1, <1>7 DEF Accounted
<1>11. Intact(Live)'
  BY <1>0, <1>1, <1>7, <1>9 DEF Intact
<1>12. Locked(Live)'
  BY <1>0, <1>1, <1>6, <1>7 DEF Locked
<1>13. Acyclic(Live)'
  <2> SUFFICES ASSUME NEW S \in SUBSET Live, S # {}
               PROVE  \E o \in S : \A h \in S : \A j \in Slot : slot'[h][j] # o
    BY <1>7 DEF Acyclic
  <2>1. CASE l \in S
    BY <2>1, <1>0, <1>1, <1>5, <1>9
  <2>2. CASE l \notin S
    <3>1. PICK o \in S : \A h \in S : \A j \in Slot : slot[h][j] # o
      BY <1>0 DEF Acyclic
    <3> QED
      BY <3>1, <2>2, <1>0, <1>9
  <2> QED
    BY <2>1, <2>2
<1>14. Shaped(Live)'
  <2>0. 1 \in Slot /\ 2 \in Slot /\ 3 \in Slot
    BY GraphAssumption DEF Slot
  <2>1. \A g \in Live : kind[g] # "list" => \A j \in Slot : slot'[g][j] = slot[g][j]
    BY <1>0, <1>1, <1>9
  <2>2. ASSUME NEW g \in Live, kind[g] = "process"
        PROVE  HoldsCommand(g)'
    <3>1. HoldsCommand(g) /\ slot[g][2] \in Addr /\ slot[g][2] # l
      BY <1>0, <1>5, <2>0, <2>2 DEF Shaped, HoldsCommand, Intact
    <3>2. \A j \in Slot : slot'[slot[g][2]][j] = slot[slot[g][2]][j]
      BY <3>1, <1>9
    <3>3. \A j \in Slot : slot'[g][j] = slot[g][j]
      BY <2>1, <2>2
    <3> QED
      BY <3>1, <3>2, <3>3, <2>0, <1>1 DEF HoldsCommand
  <2>3. ASSUME NEW g \in Live, kind[g] \in {"file", "pipe"}
        PROVE  HoldsName(g)'
    BY <1>0, <1>1, <2>0, <2>1, <2>3 DEF Shaped, HoldsName
  <2>4. ASSUME NEW g \in Live, kind[g] = "string"
        PROVE  HoldsNothing(g)'
    BY <1>0, <2>1, <2>4 DEF Shaped, HoldsNothing
  <2> QED
    BY <2>2, <2>3, <2>4, <1>1, <1>7 DEF Shaped
<1>15. Referenced(Live)'
  BY <1>0, <1>1, <1>6, <1>7 DEF Referenced
<1>16. FreeIsEmpty'
  BY <1>0, <1>1, <1>9 DEF FreeIsEmpty
<1>17. ExitOrdered'
  BY <1>0, <1>1, <1>7 DEF ExitOrdered
<1> QED
  BY <1>7, <1>8, <1>10, <1>11, <1>12, <1>13, <1>14, <1>15, <1>16, <1>17 DEF Inv, Consistent

-----------------------------------------------------------------------------
(* Creation                                                                *)

\* Nothing refers to free memory and it refers to nothing.
LEMMA FreeUnused ==
  ASSUME Inv, NEW a \in Free
  PROVE  /\ a \in Addr /\ a \notin Live /\ a # None
         /\ a \notin running /\ a \notin stock
         /\ \A k \in Slot : slot[a][k] = None
         /\ \A g \in Addr : \A k \in Slot : slot[g][k] # a
         /\ \A s \in Session : count[a][s] = 0
         /\ Internal(slot, a) = 0
         /\ External(count, a) = 0
<1>0. /\ TypeOK /\ Intact(Live) /\ FreeIsEmpty
      /\ slot \in Slots /\ count \in Counts /\ None \notin Addr
  BY Types DEF Inv, Consistent
<1>1. a \in Addr /\ kind[a] = "free" /\ a \notin Live /\ a # None
  BY <1>0 DEF Free, Live
<1>2. a \notin running /\ a \notin stock /\ \A k \in Slot : slot[a][k] = None
  BY <1>0, <1>1 DEF Intact, FreeIsEmpty
<1>3. \A g \in Addr : \A k \in Slot : slot[g][k] # a
  BY <1>0, <1>1 DEF Intact
<1>4. \A s \in Session : count[a][s] = 0
  BY <1>0, <1>1, GraphAssumption DEF Intact, Counts
<1>5. Internal(slot, a) = 0
  BY <1>0, <1>1, <1>3, InternalZero
<1>6. External(count, a) = 0
  BY <1>0, <1>1, <1>4, ExternalZero
<1> QED
  BY <1>1, <1>2, <1>3, <1>4, <1>5, <1>6

\* The external reference object_create gives to the session that asked.
LEMMA CreatedCounts ==
  ASSUME Inv, NEW a \in Free, NEW s \in sessions
  PROVE  count' = [count EXCEPT ![a][s] = 1] =>
         /\ count' \in Counts
         /\ External(count', a) = 1
         /\ \A p \in Addr : p # a => External(count', p) = External(count, p)
         /\ \A p \in Addr : \A r \in Session :
              count'[p][r] > 0 => r \in sessions /\ (p = a \/ p \in Live)
<1>a. HAVE count' = [count EXCEPT ![a][s] = 1]
<1>0. TypeOK /\ Intact(Live) /\ count \in Counts /\ a \in Addr /\ s \in Session
  BY Types, FreeUnused DEF Inv, Consistent
<1>1. count[a][s] = 0 /\ External(count, a) = 0
  BY <1>0, FreeUnused
<1>2. count' \in Counts /\ count'[a][s] = count[a][s] + 1 /\ CountsDifferAt(count, count', a, s)
  <2>1. 1 \in 0..MaxCount
    BY GraphAssumption
  <2> QED
    BY <1>a, <2>1, <1>0, <1>1 DEF Counts, CountsDifferAt
<1>3. /\ External(count', a) = External(count, a) + 1
      /\ \A p \in Addr : p # a => External(count', p) = External(count, p)
  BY <1>0, <1>2, ExternalAdd
<1>4. \A p \in Addr : \A r \in Session :
        count'[p][r] > 0 => r \in sessions /\ (p = a \/ p \in Live)
  <2> SUFFICES ASSUME NEW p \in Addr, NEW r \in Session, count'[p][r] > 0
               PROVE  r \in sessions /\ (p = a \/ p \in Live)
    OBVIOUS
  <2>1. CASE p = a /\ r = s
    BY <2>1
  <2>2. CASE p # a \/ r # s
    <3>1. count'[p][r] = count[p][r]
      BY <2>2, <1>2 DEF CountsDifferAt
    <3> QED
      BY <3>1, <1>0 DEF Intact
  <2> QED
    BY <2>1, <2>2
<1> QED
  BY <1>1, <1>2, <1>3, <1>4

\* A new object a, and the set B of strings created along with it (the stock
\* string of the first pipe, or none).  Nobody holds a yet.
LEMMA Created ==
  ASSUME Inv, Serving, NEW a \in Free, NEW B \in SUBSET Free, a \notin B,
         NEW L, L = Live \cup B \cup {a},
         TypeOK', UNCHANGED <<sessions, stack, expiring, phase>>,
         kind'[a] # "free", \A b \in B : kind'[b] = "string",
         \A p \in Addr : p # a /\ p \notin B => kind'[p] = kind[p],
         \A p \in Addr : p # a => \A k \in Slot : slot'[p][k] = slot[p][k],
         \A k \in Slot : slot'[a][k] # None => slot'[a][k] \in Live \cup B,
         kind'[a] = "string" => HoldsNothing(a)',
         kind'[a] \in {"file", "pipe"} => HoldsName(a)',
         kind'[a] = "process" => HoldsCommand(a)',
         Accounted(L)', Locked(L)',
         \A o \in L : intRefs'[o] + extRefs'[o] > 0,
         \A p \in Addr : \A r \in Session :
            count'[p][r] > 0 => r \in sessions /\ (p = a \/ p \in Live),
         running' \subseteq running \cup {a}, a \in running' => kind'[a] = "process",
         \A o \in stock' : o \in stock \cup B
  PROVE  Inv'
<1>0. /\ TypeOK /\ StackDistinct /\ FreeIsEmpty /\ ExitOrdered
      /\ Intact(Live) /\ Shaped(Live) /\ Acyclic(Live)
      /\ Live \subseteq Addr /\ None \notin Addr /\ stack = <<>> /\ phase = "run"
  BY Types DEF Inv, Consistent, Serving, Idle
<1>1. /\ a \in Addr /\ B \subseteq Addr /\ a \notin Live
      /\ \A b \in B : b \notin Live
      /\ \A n \in B \cup {a} : \A g \in Addr : \A k \in Slot : slot[g][k] # n
      /\ \A n \in B \cup {a} : \A k \in Slot : slot[n][k] = None
  BY FreeUnused
<1>2. Live' = L
  BY <1>0, <1>1 DEF Live, Dying
<1>3. StackDistinct' /\ ExitOrdered'
  BY <1>0 DEF StackDistinct, ExitOrdered
<1>4. \A o \in Live : kind'[o] = kind[o]
  BY <1>0, <1>1
<1>5. Intact(Live)'
  <2>1. \A h \in Addr : \A k \in Slot : slot'[h][k] # None => slot'[h][k] \in L
    BY <1>0 DEF Intact
  <2>2. \A o \in running' : o \in L /\ kind'[o] = "process"
    BY <1>0, <1>4 DEF Intact
  <2>3. \A o \in stock' : o \in L /\ kind'[o] = "string"
    BY <1>0, <1>4 DEF Intact
  <2> QED
    BY <2>1, <2>2, <2>3, <1>2 DEF Intact
<1>6. Acyclic(Live)'
  <2> SUFFICES ASSUME NEW S \in SUBSET L, S # {}
               PROVE  \E o \in S : \A h \in S : \A k \in Slot : slot'[h][k] # o
    BY <1>2 DEF Acyclic
  <2>0. S \subseteq Addr
    BY <1>0, <1>1
  <2>1. CASE a \in S
    <3>1. \A k \in Slot : slot'[a][k] # a
      BY <1>0, <1>1
    <3> QED
      BY <3>1, <2>0, <2>1, <1>1
  <2>2. CASE a \notin S /\ S \cap Live # {}
    <3>0. S \cap Live \in SUBSET Live
      OBVIOUS
    <3>1. PICK o \in S \cap Live : \A h \in S \cap Live : \A k \in Slot : slot[h][k] # o
      BY <3>0, <2>2, <1>0 DEF Acyclic
    <3>2. \A h \in S : h \notin Live => \A k \in Slot : slot'[h][k] = None
      BY <2>0, <2>2, <1>1
    <3>3. o # None
      BY <1>0
    <3> QED
      BY <3>1, <3>2, <3>3, <2>0, <2>2
  <2>3. CASE a \notin S /\ S \cap Live = {}
    <3>1. \A h \in S : \A k \in Slot : slot'[h][k] = None
      BY <2>0, <2>3, <1>1
    <3> QED
      BY <3>1, <2>0, <1>0
  <2> QED
    BY <2>1, <2>2, <2>3
<1>7. Shaped(Live)'
  <2>0. 1 \in Slot /\ 2 \in Slot /\ 3 \in Slot
    BY GraphAssumption DEF Slot
  <2>1. \A g \in Live : \A k \in Slot : slot'[g][k] = slot[g][k]
    BY <1>0, <1>1
  <2>2. ASSUME NEW g \in Live, kind[g] = "process"
        PROVE  HoldsCommand(g)'
    <3>1. HoldsCommand(g)
      BY <1>0, <2>2 DEF Shaped
    <3>2. slot[g][1] \in Live /\ slot[g][2] \in Live /\ slot[g][3] \in Live
      BY <3>1, <1>0, <2>0 DEF Intact, HoldsCommand
    <3>3. \A k \in Slot : slot[slot[g][2]][k] # None => slot[slot[g][2]][k] \in Live
      BY <3>2, <1>0 DEF Intact
    <3> QED
      BY <3>1, <3>2, <3>3, <2>0, <2>1, <1>4 DEF HoldsCommand
  <2>3. ASSUME NEW g \in Live, kind[g] \in {"file", "pipe"}
        PROVE  HoldsName(g)'
    <3>1. HoldsName(g)
      BY <1>0, <2>3 DEF Shaped
    <3>2. slot[g][1] \in Live
      BY <3>1, <1>0, <2>0 DEF Intact, HoldsName
    <3> QED
      BY <3>1, <3>2, <2>0, <2>1, <1>4 DEF HoldsName
  <2>4. ASSUME NEW g \in Live, kind[g] = "string"
        PROVE  HoldsNothing(g)'
    BY <1>0, <2>1, <2>4 DEF Shaped, HoldsNothing
  <2>5. ASSUME NEW g \in B
        PROVE  HoldsNothing(g)'
    BY <1>1, <2>5 DEF HoldsNothing
  <2>6. \A g \in L : /\ kind'[g] = "string" => HoldsNothing(g)'
                     /\ kind'[g] \in {"file", "pipe"} => HoldsName(g)'
                     /\ kind'[g] = "process" => HoldsCommand(g)'
    BY <2>2, <2>3, <2>4, <2>5, <1>4
  <2> QED
    BY <2>6, <1>2 DEF Shaped
<1>8. Accounted(Live)' /\ Locked(Live)' /\ Referenced(Live)'
  BY <1>2 DEF Accounted, Locked, Referenced
<1>9. FreeIsEmpty'
  <2> SUFFICES ASSUME NEW p \in Addr, kind'[p] = "free"
               PROVE  \A k \in Slot : slot'[p][k] = None
    BY DEF FreeIsEmpty
  <2>1. p # a /\ kind[p] = "free"
    OBVIOUS
  <2> QED
    BY <2>1, <1>0 DEF FreeIsEmpty
<1> QED
  BY <1>3, <1>5, <1>6, <1>7, <1>8, <1>9 DEF Inv, Consistent

\* string_allocate and list_allocate
LEMMA AllocateStep ==
  ASSUME Inv, NEW s \in sessions, NEW a \in Free, StringAllocate(s, a) \/ ListAllocate(s, a)
  PROVE  Inv'
<1>0. /\ TypeOK /\ Accounted(Live) /\ Locked(Live) /\ Referenced(Live)
      /\ Live \subseteq Addr /\ a \in Addr /\ a \notin Live /\ s \in Session
      /\ slot \in Slots /\ a \notin running /\ a \notin stock
  BY Types, FreeUnused DEF Inv, Consistent
<1>1. PICK type \in {"string", "list"} : Create(a, type, s, 0)
  BY DEF StringAllocate, ListAllocate
<1>2. Serving /\ UNCHANGED <<slot, running, stock, sessions, stack, expiring, phase>>
  BY DEF StringAllocate, ListAllocate
<1>3. /\ kind'[a] = type /\ intRefs'[a] = 0 /\ extRefs'[a] = 1 /\ locks'[a] = 0
      /\ \A p \in Addr : p # a => /\ kind'[p] = kind[p] /\ intRefs'[p] = intRefs[p]
                                  /\ extRefs'[p] = extRefs[p] /\ locks'[p] = locks[p]
  BY <1>0, <1>1 DEF Create, TypeOK
<1>4. /\ count' \in Counts
      /\ External(count', a) = 1
      /\ \A p \in Addr : p # a => External(count', p) = External(count, p)
      /\ \A p \in Addr : \A r \in Session :
           count'[p][r] > 0 => r \in sessions /\ (p = a \/ p \in Live)
  BY <1>1, CreatedCounts DEF Create
<1>5. TypeOK'
  BY <1>0, <1>1, <1>2, <1>4 DEF TypeOK, Create, Counts, Kind
<1>6. Internal(slot, a) = 0 /\ \A j \in Slot : slot[a][j] = None
  BY FreeUnused
<1>7. /\ kind'[a] \notin {"free", "file", "pipe", "process"}
      /\ \A p \in Addr : p # a => \A j \in Slot : slot'[p][j] = slot[p][j]
      /\ \A j \in Slot : slot'[a][j] = None
      /\ running' \subseteq running \cup {a} /\ a \notin running' /\ stock' = stock
  BY <1>0, <1>2, <1>3, <1>6
<1>8. UNCHANGED <<sessions, stack, expiring, phase>>
  BY <1>2
<1>9. ASSUME NEW L, L = Live \cup {} \cup {a}
      PROVE  Inv'
  <2>1. Accounted(L)'
    BY <1>0, <1>2, <1>3, <1>4, <1>6, <1>9 DEF Accounted, One
  <2>2. Locked(L)' /\ \A o \in L : intRefs'[o] + extRefs'[o] > 0
    BY <1>0, <1>3, <1>9 DEF Locked, Referenced
  <2>3. HoldsNothing(a)'
    BY <1>7 DEF HoldsNothing
  <2>4. \A j \in Slot : slot'[a][j] # None => slot'[a][j] \in Live \cup {}
    BY <1>7
  <2>5. /\ kind'[a] \notin {"free", "file", "pipe", "process"}
        /\ a \notin {} /\ {} \in SUBSET Free /\ \A b \in {} : kind'[b] = "string"
        /\ \A p \in Addr : p # a /\ p \notin {} => kind'[p] = kind[p]
        /\ running' \subseteq running \cup {a} /\ a \notin running'
        /\ \A o \in stock' : o \in stock \cup {}
    BY <1>3, <1>7
  <2> QED
    BY <2>1, <2>2, <2>3, <2>4, <2>5, <1>2, <1>4, <1>5, <1>7, <1>8, <1>9, Created
<1> QED
  BY <1>9

\* file_open
LEMMA FileOpenStep ==
  ASSUME Inv, NEW s \in sessions, NEW a \in Free, NEW n \in Live, FileOpen(s, a, n)
  PROVE  Inv'
<1>0. /\ TypeOK /\ Accounted(Live) /\ Locked(Live) /\ Referenced(Live)
      /\ Live \subseteq Addr /\ a \in Addr /\ a \notin Live /\ s \in Session
      /\ slot \in Slots /\ a \notin running /\ a \notin stock /\ n \in Addr /\ n # a
      /\ None \notin Addr
  BY Types, FreeUnused DEF Inv, Consistent
<1>1. 1 \in Slot /\ kind[n] = "string"
  BY GraphAssumption DEF FileOpen, OfKind, Slot
<1>2. Serving /\ UNCHANGED <<running, stock, sessions, stack, expiring, phase>>
  BY DEF FileOpen
<1>3. /\ intRefs' = [OneMore(intRefs, {n}) EXCEPT ![a] = 0]
      /\ locks'   = [OneMore(locks, {n}) EXCEPT ![a] = 0]
      /\ kind'    = [kind EXCEPT ![a] = "file"]
      /\ extRefs' = [extRefs EXCEPT ![a] = 1]
      /\ count'   = [count EXCEPT ![a][s] = 1]
      /\ slot'    = [slot EXCEPT ![a][1] = n]
  BY DEF FileOpen
<1>4. /\ intRefs' \in [Addr -> Nat] /\ locks' \in [Addr -> Nat]
      /\ intRefs'[a] = 0 /\ intRefs'[n] = intRefs[n] + 1
      /\ locks'[a] = 0 /\ locks'[n] = locks[n] + 1
      /\ \A p \in Addr : p # a /\ p # n => intRefs'[p] = intRefs[p] /\ locks'[p] = locks[p]
  <2>1. intRefs \in [Addr -> Nat] /\ locks \in [Addr -> Nat] /\ 0 \in Nat
    BY <1>0 DEF TypeOK
  <2>2. /\ intRefs' \in [Addr -> Nat] /\ intRefs'[a] = 0
        /\ \A p \in Addr : p # a =>
             intRefs'[p] = IF p \in {n} THEN intRefs[p] + 1 ELSE intRefs[p]
    BY <2>1, <1>0, <1>3 DEF OneMore
  <2>3. /\ locks' \in [Addr -> Nat] /\ locks'[a] = 0
        /\ \A p \in Addr : p # a => locks'[p] = IF p \in {n} THEN locks[p] + 1 ELSE locks[p]
    BY <2>1, <1>0, <1>3 DEF OneMore
  <2> QED
    BY <2>2, <2>3, <1>0
<1>5. /\ kind' \in [Addr -> Kind \cup {"free"}] /\ extRefs' \in [Addr -> Nat]
      /\ kind'[a] = "file" /\ extRefs'[a] = 1
      /\ \A p \in Addr : p # a => kind'[p] = kind[p] /\ extRefs'[p] = extRefs[p]
  BY <1>0, <1>3 DEF TypeOK, Kind
<1>6. /\ count' \in Counts
      /\ External(count', a) = 1
      /\ \A p \in Addr : p # a => External(count', p) = External(count, p)
      /\ \A p \in Addr : \A r \in Session :
           count'[p][r] > 0 => r \in sessions /\ (p = a \/ p \in Live)
  BY <1>3, CreatedCounts
<1>7. /\ slot' \in Slots /\ slot'[a][1] = n
      /\ \A p \in Addr : p # a => \A k \in Slot : slot'[p][k] = slot[p][k]
      /\ \A k \in Slot : k # 1 => slot'[a][k] = None
  <2>1. \A k \in Slot : slot[a][k] = None
    BY FreeUnused
  <2> QED
    BY <2>1, <1>0, <1>1, <1>3 DEF Slots
<1> HIDE <1>3
<1>8. TypeOK'
  BY <1>0, <1>2, <1>4, <1>5, <1>6, <1>7 DEF TypeOK, Counts, Slots
<1>9. /\ Internal(slot', n) = Internal(slot, n) + 1
      /\ \A p \in Addr : p # n => Internal(slot', p) = Internal(slot, p)
      /\ Internal(slot, a) = 0
  <2>1. (\A k \in Slot : slot[a][k] = None) /\ Internal(slot, a) = 0
    BY FreeUnused
  <2>2. \A j, k \in Slot : slot'[a][j] = slot'[a][k] /\ slot'[a][j] # None => j = k
    BY <1>7
  <2>3. \E k \in Slot : slot'[a][k] = n
    BY <1>1, <1>7
  <2>4. \A p \in Addr : p # n => \A k \in Slot : slot'[a][k] # p
    BY <1>0, <1>7
  <2> QED
    BY <2>1, <2>2, <2>3, <2>4, <1>0, <1>7, InternalFill
<1>10. ASSUME NEW L, L = Live \cup {} \cup {a}
       PROVE  Inv'
  <2>1. Accounted(L)'
    <3>1. ASSUME NEW p \in Live
          PROVE  /\ extRefs'[p] = External(count', p)
                 /\ intRefs'[p] = Internal(slot', p) + One(p \in running) + One(p \in stock)
      <4>1. /\ extRefs[p] = External(count, p) /\ p \in Addr /\ p # a
            /\ intRefs[p] = Internal(slot, p) + One(p \in running) + One(p \in stock)
        BY <1>0 DEF Accounted
      <4>2. Internal(slot, p) \in Nat /\ One(p \in running) \in Nat /\ One(p \in stock) \in Nat
        BY TokensFinite DEF One
      <4> QED
        BY <4>1, <4>2, <1>4, <1>5, <1>6, <1>9
    <3>2. /\ extRefs'[a] = External(count', a)
          /\ intRefs'[a] = Internal(slot', a) + One(a \in running) + One(a \in stock)
      BY <1>0, <1>4, <1>5, <1>6, <1>9 DEF One
    <3> QED
      BY <3>1, <3>2, <1>2, <1>10 DEF Accounted
  <2>2. Locked(L)'
    BY <1>0, <1>4, <1>5, <1>10 DEF Locked
  <2>3. \A o \in L : intRefs'[o] + extRefs'[o] > 0
    <3>1. ASSUME NEW o \in Live
          PROVE  intRefs'[o] + extRefs'[o] > 0
      <4>1. /\ intRefs[o] + extRefs[o] > 0 /\ o \in Addr /\ o # a
            /\ intRefs[o] \in Nat /\ extRefs[o] \in Nat
        BY <1>0 DEF Referenced, TypeOK
      <4>2. intRefs'[o] \in {intRefs[o], intRefs[o] + 1} /\ extRefs'[o] = extRefs[o]
        BY <4>1, <1>4, <1>5
      <4> QED
        BY <4>1, <4>2
    <3> QED
      BY <3>1, <1>4, <1>5, <1>10
  <2>4. HoldsName(a)'
    BY <1>0, <1>1, <1>5, <1>7 DEF HoldsName
  <2>5. \A k \in Slot : slot'[a][k] # None => slot'[a][k] \in Live \cup {}
    BY <1>7
  <2>6. /\ kind'[a] \notin {"free", "string", "process"}
        /\ a \notin {} /\ {} \in SUBSET Free /\ \A b \in {} : kind'[b] = "string"
        /\ \A p \in Addr : p # a /\ p \notin {} => kind'[p] = kind[p]
        /\ running' \subseteq running \cup {a} /\ a \notin running'
        /\ \A o \in stock' : o \in stock \cup {}
    BY <1>0, <1>2, <1>5
  <2> QED
    BY <2>1, <2>2, <2>3, <2>4, <2>5, <2>6, <1>2, <1>6, <1>7, <1>8, <1>10, Created
<1> QED
  BY <1>10

\* process_spawn: the three things a process holds are of different types.
LEMMA SpawnStep ==
  ASSUME Inv, NEW s \in sessions, NEW a \in Free, NEW exe \in Live, NEW args \in Live,
         NEW f \in Live, ProcessSpawn(s, a, exe, args, f)
  PROVE  Inv'
<1>0. /\ TypeOK /\ Accounted(Live) /\ Intact(Live) /\ Locked(Live) /\ Referenced(Live)
      /\ Live \subseteq Addr /\ a \in Addr /\ a \notin Live /\ s \in Session
      /\ slot \in Slots /\ a \notin running /\ a \notin stock
      /\ exe \in Addr /\ args \in Addr /\ f \in Addr
      /\ None \notin Addr
  BY Types, FreeUnused DEF Inv, Consistent
<1>1. /\ 1 \in Slot /\ 2 \in Slot /\ 3 \in Slot
      /\ kind[exe] = "string" /\ kind[args] = "list" /\ kind[f] \in {"file", "pipe"}
      /\ \A j \in Slot : slot[args][j] # None => kind[slot[args][j]] = "string"
  BY GraphAssumption DEF ProcessSpawn, OfKind, Slot, Files, OnlyStrings, Held
<1>2. exe # args /\ exe # f /\ args # f /\ a # exe /\ a # args /\ a # f
  BY <1>0, <1>1
<1>3. Serving /\ UNCHANGED <<stock, sessions, stack, expiring, phase>>
  BY DEF ProcessSpawn
<1>4. /\ kind'    = [kind EXCEPT ![a] = "process"]
      /\ intRefs' = [OneMore(intRefs, {exe, args, f}) EXCEPT ![a] = 1]
      /\ extRefs' = [extRefs EXCEPT ![a] = 1]
      /\ locks'   = [OneMore(locks, {exe, args}) EXCEPT ![a] = 0]
      /\ count'   = [count EXCEPT ![a][s] = 1]
      /\ slot'    = [slot EXCEPT ![a] = [j \in Slot |-> CASE j = 1 -> exe
                                                          [] j = 2 -> args
                                                          [] j = 3 -> f
                                                          [] OTHER -> None]]
      /\ running' = running \cup {a}
  BY DEF ProcessSpawn, Executable, Arguments, Stdin
<1>5. intRefs \in [Addr -> Nat] /\ locks \in [Addr -> Nat]
  BY <1>0 DEF TypeOK
<1>6. /\ intRefs' \in [Addr -> Nat] /\ intRefs'[a] = 1
      /\ \A p \in Addr : p # a =>
           intRefs'[p] = IF p \in {exe, args, f} THEN intRefs[p] + 1 ELSE intRefs[p]
  BY <1>0, <1>4, <1>5 DEF OneMore
<1>7. /\ locks' \in [Addr -> Nat] /\ locks'[a] = 0
      /\ \A p \in Addr : p # a =>
           locks'[p] = IF p \in {exe, args} THEN locks[p] + 1 ELSE locks[p]
  BY <1>0, <1>4, <1>5 DEF OneMore
<1>8. /\ kind' \in [Addr -> Kind \cup {"free"}] /\ extRefs' \in [Addr -> Nat]
      /\ kind'[a] = "process" /\ extRefs'[a] = 1
      /\ \A p \in Addr : p # a => kind'[p] = kind[p] /\ extRefs'[p] = extRefs[p]
  BY <1>0, <1>4 DEF TypeOK, Kind
<1>9. /\ count' \in Counts
      /\ External(count', a) = 1
      /\ \A p \in Addr : p # a => External(count', p) = External(count, p)
      /\ \A p \in Addr : \A r \in Session :
           count'[p][r] > 0 => r \in sessions /\ (p = a \/ p \in Live)
  BY <1>4, CreatedCounts
<1>10. /\ slot' \in Slots /\ slot'[a][1] = exe /\ slot'[a][2] = args /\ slot'[a][3] = f
       /\ \A p \in Addr : p # a => \A j \in Slot : slot'[p][j] = slot[p][j]
       /\ \A j \in Slot : j \notin {1, 2, 3} => slot'[a][j] = None
  BY <1>0, <1>1, <1>4 DEF Slots
<1>11. \A p \in Addr : p # a => One(p \in running') = One(p \in running)
  BY <1>4 DEF One
<1>12. running' = running \cup {a} /\ One(a \in running') = 1 /\ One(a \in stock') = 0
  BY <1>0, <1>3, <1>4 DEF One
<1> HIDE <1>4
<1>13. TypeOK'
  BY <1>0, <1>3, <1>6, <1>7, <1>8, <1>9, <1>10, <1>12 DEF TypeOK, Counts, Slots
<1>14. /\ \A p \in {exe, args, f} : Internal(slot', p) = Internal(slot, p) + 1
       /\ \A p \in Addr : p \notin {exe, args, f} => Internal(slot', p) = Internal(slot, p)
       /\ Internal(slot, a) = 0
  <2>1. (\A j \in Slot : slot[a][j] = None) /\ Internal(slot, a) = 0
    BY FreeUnused
  <2>2. \A i, j \in Slot : slot'[a][i] = slot'[a][j] /\ slot'[a][i] # None => i = j
    BY <1>2, <1>10
  <2>3. \A p \in {exe, args, f} : p \in Addr /\ \E j \in Slot : slot'[a][j] = p
    BY <1>0, <1>1, <1>10
  <2>4. \A p \in Addr : p \notin {exe, args, f} => \A j \in Slot : slot'[a][j] # p
    BY <1>0, <1>10
  <2> QED
    BY <2>1, <2>2, <2>3, <2>4, <1>0, <1>10, InternalFill
<1>15. ASSUME NEW L, L = Live \cup {} \cup {a}
       PROVE  Inv'
  <2>1. Accounted(L)'
    <3>1. ASSUME NEW p \in Live
          PROVE  /\ extRefs'[p] = External(count', p)
                 /\ intRefs'[p] = Internal(slot', p) + One(p \in running') + One(p \in stock)
      <4>1. /\ extRefs[p] = External(count, p) /\ p \in Addr /\ p # a
            /\ intRefs[p] = Internal(slot, p) + One(p \in running) + One(p \in stock)
        BY <1>0 DEF Accounted
      <4>2. Internal(slot, p) \in Nat /\ One(p \in running) \in Nat /\ One(p \in stock) \in Nat
        BY TokensFinite DEF One
      <4>3. extRefs'[p] = External(count', p) /\ One(p \in running') = One(p \in running)
        BY <4>1, <1>8, <1>9, <1>11
      <4>4. CASE p \in {exe, args, f}
        BY <4>1, <4>2, <4>3, <4>4, <1>6, <1>14
      <4>5. CASE p \notin {exe, args, f}
        BY <4>1, <4>2, <4>3, <4>5, <1>6, <1>14
      <4> QED
        BY <4>3, <4>4, <4>5
    <3>2. /\ extRefs'[a] = External(count', a)
          /\ intRefs'[a] = Internal(slot', a) + One(a \in running') + One(a \in stock')
      BY <1>0, <1>2, <1>6, <1>8, <1>9, <1>12, <1>14
    <3> QED
      BY <3>1, <3>2, <1>3, <1>15 DEF Accounted
  <2>2. Locked(L)'
    <3>1. ASSUME NEW p \in Live, kind'[p] \in {"string", "list"}
          PROVE  locks'[p] = intRefs'[p]
      <4>1. p \in Addr /\ p # a /\ p # f /\ kind[p] \in {"string", "list"}
        BY <3>1, <1>0, <1>1, <1>8
      <4>2. locks[p] = intRefs[p]
        BY <4>1, <1>0 DEF Locked
      <4> QED
        BY <4>1, <4>2, <1>6, <1>7
    <3> QED
      BY <3>1, <1>8, <1>15 DEF Locked
  <2>3. \A o \in L : intRefs'[o] + extRefs'[o] > 0
    <3>1. ASSUME NEW o \in Live
          PROVE  intRefs'[o] + extRefs'[o] > 0
      <4>1. /\ intRefs[o] + extRefs[o] > 0 /\ o \in Addr /\ o # a
            /\ intRefs[o] \in Nat /\ extRefs[o] \in Nat
        BY <1>0 DEF Referenced, TypeOK
      <4>2. intRefs'[o] \in {intRefs[o], intRefs[o] + 1} /\ extRefs'[o] = extRefs[o]
        BY <4>1, <1>6, <1>8
      <4> QED
        BY <4>1, <4>2
    <3> QED
      BY <3>1, <1>6, <1>8, <1>15
  <2>4. HoldsCommand(a)'
    <3>1. \A j \in Slot : slot'[args][j] # None => kind'[slot'[args][j]] = "string"
      <4> SUFFICES ASSUME NEW j \in Slot, slot'[args][j] # None
                   PROVE  kind'[slot'[args][j]] = "string"
        OBVIOUS
      <4>1. slot'[args][j] = slot[args][j]
        BY <1>0, <1>2, <1>10
      <4>2. slot[args][j] \in Live
        BY <4>1, <1>0 DEF Intact
      <4> QED
        BY <4>1, <4>2, <1>0, <1>1, <1>8
    <3> QED
      BY <3>1, <1>0, <1>1, <1>2, <1>8, <1>10 DEF HoldsCommand
  <2>5. \A j \in Slot : slot'[a][j] # None => slot'[a][j] \in Live \cup {}
    BY <1>10
  <2>6. /\ kind'[a] \notin {"free", "string", "file", "pipe"}
        /\ a \notin {} /\ {} \in SUBSET Free /\ \A b \in {} : kind'[b] = "string"
        /\ \A p \in Addr : p # a /\ p \notin {} => kind'[p] = kind[p]
        /\ running' \subseteq running \cup {a} /\ kind'[a] = "process"
        /\ \A o \in stock' : o \in stock \cup {}
    BY <1>0, <1>3, <1>8, <1>12
  <2>7. /\ kind'[a] # "free"
        /\ kind'[a] = "string" => HoldsNothing(a)'
        /\ kind'[a] \in {"file", "pipe"} => HoldsName(a)'
    BY <2>6
  <2>8. \A q \in Addr : q # a => \A j \in Slot : slot'[q][j] = slot[q][j]
    BY <1>10
  <2>9. \A q \in Addr : \A r \in Session :
          count'[q][r] > 0 => r \in sessions /\ (q = a \/ q \in Live)
    BY <1>9
  <2> QED
    BY <2>1, <2>2, <2>3, <2>4, <2>5, <2>6, <2>7, <2>8, <2>9, <1>3, <1>13, <1>15, Created
<1> QED
  BY <1>15

\* pipe_create_: with the first pipe comes the stock string that names it.
LEMMA PipeStep ==
  ASSUME Inv, NEW s \in sessions, NEW a \in Free, NEW n \in Addr, PipeCreate(s, a, n)
  PROVE  Inv'
<1> DEFINE B == IF stock = {} THEN {n} ELSE {}
<1>0. /\ TypeOK /\ Accounted(Live) /\ Intact(Live) /\ Locked(Live) /\ Referenced(Live)
      /\ Live \subseteq Addr /\ a \in Addr /\ a \notin Live /\ s \in Session
      /\ slot \in Slots /\ a \notin running /\ a \notin stock /\ n # a
      /\ None \notin Addr
  BY Types, FreeUnused DEF Inv, Consistent, PipeCreate
<1>1. /\ 1 \in Slot /\ B \in SUBSET Free /\ a \notin B /\ n \in Live \cup B
      /\ n \notin B => kind[n] = "string" /\ n \in stock
  BY <1>0, GraphAssumption DEF PipeCreate, StockString, Slot, Intact
<1>2. n \in B => /\ n \notin running /\ n \notin stock /\ n \notin Live
                 /\ Internal(slot, n) = 0 /\ External(count, n) = 0
  <2> HIDE DEF B
  <2> QED
    BY <1>1, FreeUnused
<1>3. Serving /\ UNCHANGED <<running, sessions, stack, expiring, phase>>
  BY DEF PipeCreate
<1>4. /\ kind'    = [kind EXCEPT ![n] = "string", ![a] = "pipe"]
      /\ intRefs' = [intRefs EXCEPT ![n] = IF stock = {} THEN 2 ELSE @ + 1, ![a] = 0]
      /\ locks'   = [locks EXCEPT ![n] = IF stock = {} THEN 2 ELSE @ + 1, ![a] = 0]
      /\ extRefs' = [extRefs EXCEPT ![n] = IF stock = {} THEN 0 ELSE @, ![a] = 1]
      /\ count'   = [count EXCEPT ![a][s] = 1]
      /\ slot'    = [slot EXCEPT ![a][1] = n]
      /\ stock'   = stock \cup {n}
  BY DEF PipeCreate
<1>5. /\ kind' \in [Addr -> Kind \cup {"free"}] /\ kind'[a] = "pipe" /\ kind'[n] = "string"
      /\ \A p \in Addr : p # a /\ p # n => kind'[p] = kind[p]
  BY <1>0, <1>4 DEF TypeOK, Kind
<1>6. /\ intRefs' \in [Addr -> Nat] /\ intRefs'[a] = 0
      /\ intRefs'[n] = IF n \in B THEN 2 ELSE intRefs[n] + 1
      /\ \A p \in Addr : p # a /\ p # n => intRefs'[p] = intRefs[p]
  <2> DEFINE c == IF stock = {} THEN 2 ELSE intRefs[n] + 1
  <2>0. intRefs \in [Addr -> Nat] /\ intRefs[n] \in Nat /\ (n \in B <=> stock = {})
    BY <1>0 DEF TypeOK
  <2>1. c \in Nat /\ c = IF n \in B THEN 2 ELSE intRefs[n] + 1
    BY <2>0
  <2>2. intRefs' = [intRefs EXCEPT ![n] = c, ![a] = 0]
    BY <1>4
  <2> HIDE <1>4 DEF c, B
  <2> QED
    BY <2>0, <2>1, <2>2, <1>0
<1>7. /\ locks' \in [Addr -> Nat] /\ locks'[a] = 0
      /\ locks'[n] = IF n \in B THEN 2 ELSE locks[n] + 1
      /\ \A p \in Addr : p # a /\ p # n => locks'[p] = locks[p]
  <2> DEFINE c == IF stock = {} THEN 2 ELSE locks[n] + 1
  <2>0. locks \in [Addr -> Nat] /\ locks[n] \in Nat /\ (n \in B <=> stock = {})
    BY <1>0 DEF TypeOK
  <2>1. c \in Nat /\ c = IF n \in B THEN 2 ELSE locks[n] + 1
    BY <2>0
  <2>2. locks' = [locks EXCEPT ![n] = c, ![a] = 0]
    BY <1>4
  <2> HIDE <1>4 DEF c, B
  <2> QED
    BY <2>0, <2>1, <2>2, <1>0
<1>8. /\ extRefs' \in [Addr -> Nat] /\ extRefs'[a] = 1
      /\ extRefs'[n] = IF n \in B THEN 0 ELSE extRefs[n]
      /\ \A p \in Addr : p # a /\ p # n => extRefs'[p] = extRefs[p]
  BY <1>0, <1>4 DEF TypeOK
<1>9. /\ count' \in Counts
      /\ External(count', a) = 1
      /\ \A p \in Addr : p # a => External(count', p) = External(count, p)
      /\ \A p \in Addr : \A r \in Session :
           count'[p][r] > 0 => r \in sessions /\ (p = a \/ p \in Live)
  BY <1>4, CreatedCounts
<1>10. /\ slot' \in Slots /\ slot'[a][1] = n
       /\ \A p \in Addr : p # a => \A j \in Slot : slot'[p][j] = slot[p][j]
       /\ \A j \in Slot : j # 1 => slot'[a][j] = None
  <2>1. \A j \in Slot : slot[a][j] = None
    BY FreeUnused
  <2> QED
    BY <2>1, <1>0, <1>1, <1>4 DEF Slots
<1>11. stock' = stock \cup {n} /\ B \subseteq {n}
  BY <1>4
<1> HIDE <1>4 DEF B
<1>12. TypeOK'
  BY <1>0, <1>3, <1>5, <1>6, <1>7, <1>8, <1>9, <1>10, <1>11 DEF TypeOK, Counts, Slots
<1>13. /\ Internal(slot', n) = Internal(slot, n) + 1
       /\ \A p \in Addr : p # n => Internal(slot', p) = Internal(slot, p)
       /\ Internal(slot, a) = 0
  <2>1. (\A j \in Slot : slot[a][j] = None) /\ Internal(slot, a) = 0
    BY FreeUnused
  <2>2. \A i, j \in Slot : slot'[a][i] = slot'[a][j] /\ slot'[a][i] # None => i = j
    BY <1>10
  <2>3. \E j \in Slot : slot'[a][j] = n
    BY <1>1, <1>10
  <2>4. \A p \in Addr : p # n => \A j \in Slot : slot'[a][j] # p
    BY <1>0, <1>10
  <2> QED
    BY <2>1, <2>2, <2>3, <2>4, <1>0, <1>10, InternalFill
<1>14. ASSUME NEW L, L = Live \cup B \cup {a}
       PROVE  Inv'
  <2>1. Accounted(L)'
    <3>1. ASSUME NEW p \in Live
          PROVE  /\ extRefs'[p] = External(count', p)
                 /\ intRefs'[p] = Internal(slot', p) + One(p \in running) + One(p \in stock')
      <4>1. /\ extRefs[p] = External(count, p) /\ p \in Addr /\ p # a
            /\ intRefs[p] = Internal(slot, p) + One(p \in running) + One(p \in stock)
        BY <1>0 DEF Accounted
      <4>2. Internal(slot, p) \in Nat /\ One(p \in running) \in Nat /\ One(p \in stock) \in Nat
        BY TokensFinite DEF One
      <4>3. p \notin B /\ One(p \in stock') = One(p \in stock)
        BY <1>1, <1>2, <1>11 DEF One
      <4>4. CASE p = n
        BY <4>1, <4>2, <4>3, <4>4, <1>6, <1>8, <1>9, <1>13
      <4>5. CASE p # n
        BY <4>1, <4>2, <4>3, <4>5, <1>6, <1>8, <1>9, <1>13
      <4> QED
        BY <4>4, <4>5
    <3>2. ASSUME n \in B
          PROVE  /\ extRefs'[n] = External(count', n)
                 /\ intRefs'[n] = Internal(slot', n) + One(n \in running) + One(n \in stock')
      <4>1. One(n \in running) = 0 /\ One(n \in stock') = 1
        BY <3>2, <1>2, <1>11 DEF One
      <4> QED
        BY <4>1, <3>2, <1>0, <1>2, <1>6, <1>8, <1>9, <1>13
    <3>3. /\ extRefs'[a] = External(count', a)
          /\ intRefs'[a] = Internal(slot', a) + One(a \in running) + One(a \in stock')
      <4>1. One(a \in running) = 0 /\ One(a \in stock') = 0
        BY <1>0, <1>11 DEF One
      <4> QED
        BY <4>1, <1>0, <1>6, <1>8, <1>9, <1>13
    <3> QED
      BY <3>1, <3>2, <3>3, <1>3, <1>11, <1>14 DEF Accounted
  <2>2. Locked(L)'
    <3>1. ASSUME NEW p \in Live, kind'[p] \in {"string", "list"}
          PROVE  locks'[p] = intRefs'[p]
      <4>1. p \in Addr /\ p # a /\ p \notin B /\ kind[p] \in {"string", "list"}
        BY <3>1, <1>0, <1>1, <1>2, <1>5, <1>11
      <4>2. locks[p] = intRefs[p]
        BY <4>1, <1>0 DEF Locked
      <4> QED
        BY <4>1, <4>2, <1>6, <1>7
    <3> QED
      BY <3>1, <1>5, <1>6, <1>7, <1>11, <1>14 DEF Locked
  <2>3. \A o \in L : intRefs'[o] + extRefs'[o] > 0
    <3>1. ASSUME NEW o \in Live
          PROVE  intRefs'[o] + extRefs'[o] > 0
      <4>1. /\ intRefs[o] + extRefs[o] > 0 /\ o \in Addr /\ o # a /\ o \notin B
            /\ intRefs[o] \in Nat /\ extRefs[o] \in Nat
        BY <1>0, <1>2, <1>11 DEF Referenced, TypeOK
      <4>2. intRefs'[o] \in {intRefs[o], intRefs[o] + 1} /\ extRefs'[o] = extRefs[o]
        BY <4>1, <1>6, <1>8
      <4> QED
        BY <4>1, <4>2
    <3> QED
      BY <3>1, <1>6, <1>8, <1>11, <1>14
  <2>4. HoldsName(a)'
    BY <1>0, <1>1, <1>5, <1>10 DEF HoldsName
  <2>5. \A j \in Slot : slot'[a][j] # None => slot'[a][j] \in Live \cup B
    BY <1>1, <1>10
  <2>6. \A p \in Addr : p # a /\ p \notin B => kind'[p] = kind[p]
    BY <1>1, <1>5
  <2>7. /\ kind'[a] \notin {"free", "string", "process"}
        /\ \A b \in B : kind'[b] = "string"
        /\ running' \subseteq running \cup {a} /\ a \notin running'
        /\ \A o \in stock' : o \in stock \cup B
    BY <1>0, <1>1, <1>3, <1>5, <1>11
  <2> QED
    BY <2>1, <2>2, <2>3, <2>4, <2>5, <2>6, <2>7, <1>1, <1>3, <1>9, <1>10, <1>12, <1>14,
       Created
<1> QED
  BY <1>14

-----------------------------------------------------------------------------
(* The theorems *)

\* The daemon starts with no objects and no sessions.
LEMMA InitInv == Init => Inv
<1> SUFFICES ASSUME Init
             PROVE  Inv
  OBVIOUS
<1>1. \A a \in Addr : kind[a] = "free"
  BY DEF Init
<1>2. Live = {} /\ stack = <<>>
  BY <1>1 DEF Init, Live
<1>3. TypeOK
  <2>1. 0 \in 0..MaxCount
    BY GraphAssumption
  <2>2. count \in [Addr -> [Session -> 0..MaxCount]]
    BY <2>1 DEF Init, NoCounts
  <2>3. slot \in [Addr -> [Slot -> Addr \cup {None}]]
    BY DEF Init, NoSlots
  <2>4. phase \in Phase
    BY DEF Init, Phase
  <2> QED
    BY <2>2, <2>3, <2>4, <1>2 DEF Init, TypeOK
<1>4. StackDistinct
  BY <1>2 DEF StackDistinct
<1>5. FreeIsEmpty
  BY DEF Init, FreeIsEmpty, NoSlots
<1>6. Consistent(Live)
  <2>1. Intact(Live)
    <3>1. \A h \in Addr : \A k \in Slot : slot[h][k] = None
      BY DEF Init, NoSlots
    <3>2. \A o \in Addr : \A s \in Session : count[o][s] = 0
      BY DEF Init, NoCounts
    <3> QED
      BY <3>1, <3>2 DEF Init, Intact
  <2>2. Acyclic(Live)
    BY <1>2 DEF Acyclic
  <2> QED
    BY <2>1, <2>2, <1>2 DEF Consistent, Accounted, Shaped, Locked
<1>7. Referenced(Live)
  BY <1>2 DEF Referenced
<1>8. ExitOrdered
  BY <1>2 DEF Init, ExitOrdered
<1> QED
  BY <1>3, <1>4, <1>5, <1>6, <1>7, <1>8 DEF Inv

\* Every handler, every step of a destruction and of inventory_exit keeps it.
LEMMA NextInv == Inv /\ [Next]_vars => Inv'
<1> SUFFICES ASSUME Inv, [Next]_vars
             PROVE  Inv'
  OBVIOUS
<1>1. CASE Handler
  <2>1. CASE \E s \in Session : SessionCreate(s) \/ SessionExpire(s)
    BY <2>1, SessionsStep
  <2>2. CASE \E o \in Live, s \in sessions : ObjectRelease(o, s)
    BY <2>2, ReleaseStep
  <2>3. CASE \E s \in sessions, a \in Free : StringAllocate(s, a) \/ ListAllocate(s, a)
    BY <2>3, AllocateStep
  <2>4. CASE \E l \in Live, x \in Live : ListAppendTo(l, x)
    BY <2>4, ListAppendStep
  <2>5. CASE \E l \in Live, k \in Slot : ListRemoveFrom(l, k)
    BY <2>5, ListRemoveStep
  <2>6. CASE \E l \in Live, k \in Slot, s \in sessions : ListGetItem(l, k, s)
    BY <2>6, GettersStep
  <2>7. CASE \E s \in sessions, a \in Free, n \in Live : FileOpen(s, a, n)
    BY <2>7, FileOpenStep
  <2>8. CASE \E s \in sessions, a \in Free, n \in Addr : PipeCreate(s, a, n)
    BY <2>8, PipeStep
  <2>9. CASE \E f \in Live, s \in sessions : FileGetInfo(f, s)
    BY <2>9, GettersStep
  <2>10. CASE \E s \in sessions, a \in Free, exe \in Live, args \in Live, f \in Live :
                ProcessSpawn(s, a, exe, args, f)
    BY <2>10, SpawnStep
  <2>11. CASE \E p \in Live, s \in sessions : ProcessGetCommand(p, s) \/ ProcessGetStdio(p, s)
    BY <2>11, GetCommandStep, GettersStep
  <2>12. CASE \E p \in Live : ProcessDies(p)
    BY <2>12, DiesStep
  <2> QED
    BY <1>1, <2>1, <2>2, <2>3, <2>4, <2>5, <2>6, <2>7, <2>8, <2>9, <2>10, <2>11, <2>12
       DEF Handler
<1>2. CASE Cascade
  BY <1>2, DestroyReleaseStep, FreeStep, ExpireStep, SessionsStep DEF Cascade
<1>3. CASE Exit
  BY <1>3, SessionsStep, NextArrayStep, StockStep, ExitDestroyStep DEF Exit
<1>4. CASE UNCHANGED vars
  <2>1. UNCHANGED <<kind, intRefs, extRefs, locks, count, slot, running, stock, sessions,
                    stack, expiring, phase>>
    BY <1>4 DEF vars
  <2>2. Live' = Live /\ (StackDistinct => StackDistinct')
    BY <2>1, LiveSame
  <2>3. Consistent(Live)' /\ Referenced(Live)'
    BY <2>1, <2>2, GraphSame DEF Inv, Consistent, Intact
  <2>4. TypeOK'
    BY <2>1 DEF Inv, TypeOK
  <2>5. FreeIsEmpty' /\ ExitOrdered'
    BY <2>1, <2>2 DEF Inv, FreeIsEmpty, ExitOrdered
  <2> QED
    BY <2>2, <2>3, <2>4, <2>5 DEF Inv
<1> QED
  BY <1>1, <1>2, <1>3, <1>4 DEF Next

\* Inv is an invariant of the daemon's object model.
THEOREM Invariance == Spec => []Inv
BY InitInv, NextInv, PTL DEF Spec

-----------------------------------------------------------------------------
\* Every variable keeps its type; counters never go below zero.
THEOREM TypeCorrect == Spec => []TypeOK
<1>1. Inv => TypeOK
  BY DEF Inv
<1> QED
  BY <1>1, Invariance, PTL

\* The two reference counters of every object equal the references that exist
\* (object_add_external_reference, object_remove_internal_reference and all
\* their callers).
THEOREM CountersExact == Spec => []ReferencesAccounted
<1>1. Inv => ReferencesAccounted
  BY DEF Inv, Consistent, Accounted, ReferencesAccounted, External, Internal, One
<1> QED
  BY <1>1, Invariance, PTL

\* Nothing refers to an object that is being destroyed or has been freed.
THEOREM UsedIsAlive == Spec => []NoDangling
<1>1. Inv => NoDangling
  BY DEF Inv, Consistent, Intact, NoDangling, OfKind
<1> QED
  BY <1>1, Invariance, PTL

\* Strings and lists are locked exactly while somebody holds them.
THEOREM LocksExact == Spec => []LocksFollowReferences
<1>1. Inv => LocksFollowReferences
  BY DEF Inv, Consistent, Locked, LocksFollowReferences, OfKind
<1> QED
  BY <1>1, Invariance, PTL

\* The type check that process_spawn makes of its arguments stays true.
THEOREM ArgumentsTyped == Spec => []ArgumentsStayStrings
<1>1. ASSUME Inv
      PROVE  ArgumentsStayStrings
  <2> SUFFICES ASSUME NEW p \in OfKind("process")
               PROVE  slot[p][2] \in OfKind("list") /\ OnlyStrings(slot[p][2])
    BY DEF ArgumentsStayStrings, Arguments
  <2>1. p \in Live /\ p \in Addr /\ HoldsCommand(p) /\ 2 \in Slot /\ Intact(Live)
    BY <1>1, GraphAssumption DEF OfKind, Inv, Consistent, Shaped, Slot, Live
  <2> QED
    BY <2>1 DEF HoldsCommand, Intact, OfKind, OnlyStrings, Held
<1> QED
  BY <1>1, Invariance, PTL

\* No set of objects keeps itself alive: list_append_to cannot build a cycle.
THEOREM Collected == Spec => []NoGarbage
<1>1. ASSUME Inv
      PROVE  NoGarbage
  <2> SUFFICES ASSUME NEW S \in SUBSET Live, S # {},
                      \A o \in S : extRefs[o] = 0 /\ o \notin running /\ o \notin stock
               PROVE  \E o \in S : \E h \in Addr \ S : \E k \in Slot : slot[h][k] = o
    <3>1. Live \subseteq Addr /\ extRefs \in [Addr -> Nat]
      BY <1>1, Types DEF Inv, TypeOK
    <3> QED
      BY <3>1 DEF NoGarbage
  <2>1. /\ TypeOK /\ Accounted(Live) /\ Acyclic(Live) /\ Referenced(Live)
        /\ slot \in Slots /\ Live \subseteq Addr
    BY <1>1, Types DEF Inv, Consistent
  <2>2. PICK x \in S : \A h \in S : \A k \in Slot : slot[h][k] # x
    BY <2>1 DEF Acyclic
  <2>3. Internal(slot, x) \in Nat /\ intRefs[x] = Internal(slot, x) /\ extRefs[x] = 0
    <3>1. Internal(slot, x) \in Nat
      BY TokensFinite
    <3>2. x \in Live /\ One(x \in running) = 0 /\ One(x \in stock) = 0
      BY DEF One
    <3>3. intRefs[x] = Internal(slot, x) + One(x \in running) + One(x \in stock)
      BY <3>2, <2>1 DEF Accounted
    <3> QED
      BY <3>1, <3>2, <3>3
  <2>4. Internal(slot, x) # 0
    BY <2>1, <2>3 DEF Referenced
  <2>5. PICK h \in Addr, k \in Slot : slot[h][k] = x
    BY <2>1, <2>4, InternalZero
  <2> QED
    BY <2>2, <2>5
<1> QED
  BY <1>1, Invariance, PTL

\* inventory_exit needs no force beyond the processes.
THEOREM ExitClean == Spec => []ExitLeavesNothing
<1>1. Inv => ExitLeavesNothing
  BY DEF Inv, ExitOrdered, ExitLeavesNothing
<1> QED
  BY <1>1, Invariance, PTL

\* No step modifies a list that another object holds.
THEOREM ListsFrozen == Spec => HeldListsFrozen
<1> DEFINE Frozen == \A l \in OfKind("list") :
             (\E h \in Live : \E k \in Slot : slot[h][k] = l) => slot'[l] = slot[l]
<1>1. ASSUME Inv, Next, NEW l \in OfKind("list"),
             NEW g \in Live, NEW i \in Slot, slot[g][i] = l
      PROVE  slot'[l] = slot[l]
  <2>0. /\ l \in Live /\ l \in Addr /\ kind[l] = "list" /\ g \in Addr /\ slot \in Slots
        /\ TypeOK
    BY <1>1, Types DEF OfKind, Inv
  <2>1. locks[l] # 0
    BY <1>1, <2>0, UnlockedUnheld
  <2>2. \A a \in Addr : \A v : a # l => [slot EXCEPT ![a] = v][l] = slot[l]
    BY <2>0 DEF Slots
  <2>3. \A a \in Addr : \A j \in Slot : \A v : a # l => [slot EXCEPT ![a][j] = v][l] = slot[l]
    BY <2>0 DEF Slots
  <2>4. 1 \in Slot
    BY GraphAssumption DEF Slot
  <2>5. CASE \E m \in Live, x \in Live : ListAppendTo(m, x)
    <3>1. PICK m \in Live, x \in Live : ListAppendTo(m, x)
      BY <2>5
    <3>2. m \in Addr /\ m # l /\ 1..MaxItems \subseteq Slot
      BY <3>1, <2>0, <2>1, Types, GraphAssumption DEF ListAppendTo, Slot
    <3>3. PICK j \in Slot : slot' = [slot EXCEPT ![m][j] = x]
      BY <3>1, <3>2 DEF ListAppendTo
    <3> QED
      BY <3>2, <3>3, <2>3
  <2>6. CASE \E m \in Live, j \in Slot : ListRemoveFrom(m, j)
    <3>1. PICK m \in Live, j \in Slot : ListRemoveFrom(m, j)
      BY <2>6
    <3>2. m \in Addr /\ m # l
      BY <3>1, <2>0, <2>1, Types DEF ListRemoveFrom
    <3>3. slot' = [slot EXCEPT ![m][j] = None]
      BY <3>1 DEF ListRemoveFrom, ReleasePlace
    <3> QED
      BY <3>2, <3>3, <2>3
  <2>7. CASE DestroyRelease
    <3>1. stack[Len(stack)] \in Addr /\ stack[Len(stack)] # l
      <4>1. stack \in Seq(Addr) /\ Len(stack) \in 1..Len(stack)
        BY <2>0, <2>7 DEF TypeOK, DestroyRelease
      <4> QED
        BY <4>1, <2>0 DEF Live, Dying
    <3>2. PICK j \in Slot : slot' = [slot EXCEPT ![stack[Len(stack)]][j] = None]
      BY <2>7 DEF DestroyRelease, ReleasePlace, Held
    <3> QED
      BY <3>1, <3>2, <2>3
  <2>8. CASE \E s \in sessions, a \in Free, n \in Addr : FileOpen(s, a, n) \/ PipeCreate(s, a, n)
    <3>1. PICK s \in sessions, a \in Free, n \in Addr : FileOpen(s, a, n) \/ PipeCreate(s, a, n)
      BY <2>8
    <3>2. a \in Addr /\ a # l
      BY <2>0 DEF Free
    <3>3. slot' = [slot EXCEPT ![a][1] = n]
      BY <3>1 DEF FileOpen, PipeCreate
    <3> QED
      BY <3>2, <3>3, <2>3, <2>4
  <2>9. CASE \E s \in sessions, a \in Free, exe \in Live, args \in Live, f \in Live :
               ProcessSpawn(s, a, exe, args, f)
    <3>1. PICK s \in sessions, a \in Free, exe \in Live, args \in Live, f \in Live :
            ProcessSpawn(s, a, exe, args, f)
      BY <2>9
    <3>2. a \in Addr /\ a # l
      BY <2>0 DEF Free
    <3>3. \E v : slot' = [slot EXCEPT ![a] = v]
      BY <3>1 DEF ProcessSpawn
    <3> QED
      BY <3>2, <3>3, <2>2
  <2>10. CASE slot' = slot
    BY <2>10
  <2>11. \A n \in Live : n \in Addr
    BY DEF Live
  <2>12. CASE Handler
    BY <2>12, <2>5, <2>6, <2>8, <2>9, <2>10, <2>11
       DEF Handler, SessionCreate, SessionExpire, ObjectRelease, StringAllocate, ListAllocate,
           ListGetItem, FileGetInfo, ProcessGetCommand, ProcessGetStdio, ProcessDies
  <2>13. CASE Cascade
    BY <2>13, <2>7, <2>10 DEF Cascade, DestroyFree, ExpireReference, ExpireDone
  <2>14. CASE Exit
    BY <2>14, <2>10 DEF Exit, InventoryExit, ExitNextArray, ExitReleaseStock, ExitDestroy
  <2> QED
    BY <1>1, <2>12, <2>13, <2>14 DEF Next
<1>2. Inv /\ [Next]_vars => [Frozen]_vars
  BY <1>1
<1>3. [][Frozen]_vars => HeldListsFrozen
  BY DEF HeldListsFrozen
<1> HIDE DEF Frozen
<1> QED
  BY <1>2, <1>3, Invariance, PTL DEF Spec

-----------------------------------------------------------------------------
(* The end of a destruction.  What a handler has begun is done when no     *)
(* destroy function runs and no session is losing its references.  Work    *)
(* counts what is left to give up before that.                             *)

HeldPlaces(h) == {t \in Addr \X Slot : h[t[1]][t[2]] # None}
Allocated(f)  == {a \in Addr : f[a] # "free"}
Owned(c, s)   == IF s = None THEN {} ELSE {o \in Addr : c[o][s] > 0}

Work ==
  Cardinality(HeldPlaces(slot)) + Cardinality(Allocated(kind))
    + Cardinality(Owned(count, expiring)) + One(expiring # None)

\* Objects, places and sessions are finite, so this is a number, and there is
\* a bound for all states.
LEMMA WorkCounts ==
  ASSUME NEW h, NEW f, NEW c, NEW s
  PROVE  /\ IsFiniteSet(HeldPlaces(h)) /\ Cardinality(HeldPlaces(h)) \in Nat
         /\ Cardinality(HeldPlaces(h)) <= Cardinality(Addr) * MaxSlots
         /\ IsFiniteSet(Allocated(f)) /\ Cardinality(Allocated(f)) \in Nat
         /\ Cardinality(Allocated(f)) <= Cardinality(Addr)
         /\ IsFiniteSet(Owned(c, s)) /\ Cardinality(Owned(c, s)) \in Nat
         /\ Cardinality(Owned(c, s)) <= Cardinality(Addr)
<1>1. IsFiniteSet(Addr) /\ IsFiniteSet(Slot) /\ Cardinality(Slot) = MaxSlots
  BY FS_Interval, GraphAssumption DEF Slot
<1>2. /\ IsFiniteSet(Addr \X Slot)
      /\ Cardinality(Addr \X Slot) = Cardinality(Addr) * MaxSlots
  BY <1>1, FS_Product
<1>3. HeldPlaces(h) \in SUBSET (Addr \X Slot)
  BY DEF HeldPlaces
<1>4. Allocated(f) \in SUBSET Addr /\ Owned(c, s) \in SUBSET Addr
  BY DEF Allocated, Owned
<1>5. IsFiniteSet(HeldPlaces(h)) /\ Cardinality(HeldPlaces(h)) <= Cardinality(Addr \X Slot)
  BY <1>2, <1>3, FS_Subset
<1>6. /\ IsFiniteSet(Allocated(f)) /\ Cardinality(Allocated(f)) <= Cardinality(Addr)
      /\ IsFiniteSet(Owned(c, s)) /\ Cardinality(Owned(c, s)) <= Cardinality(Addr)
  BY <1>1, <1>4, FS_Subset
<1> QED
  BY <1>2, <1>5, <1>6, FS_CardinalityType

\* A destroy function that releases a place leaves one place less held; the
\* object it may begin to destroy with it is still allocated.
LEMMA ReleaseWorks ==
  ASSUME TypeOK, DestroyRelease
  PROVE  Work' = Work - 1
<1> DEFINE h == stack[Len(stack)]
<1>1. h \in Addr
  BY DEF TypeOK, DestroyRelease
<1>2. PICK k \in Slot : slot[h][k] # None /\ slot' = [slot EXCEPT ![h][k] = None]
  BY DEF DestroyRelease, ReleasePlace, Held
<1>3. slot \in Slots
  BY Types
<1> HIDE DEF h
<1>4. HeldPlaces(slot') = HeldPlaces(slot) \ {<<h, k>>}
  <2>1. slot'[h][k] = None
    BY <1>1, <1>2, <1>3 DEF Slots
  <2>2. ASSUME NEW t \in Addr \X Slot, t # <<h, k>>
        PROVE  slot'[t[1]][t[2]] = slot[t[1]][t[2]]
    BY <1>1, <1>2, <1>3, <2>2 DEF Slots
  <2> QED
    BY <2>1, <2>2 DEF HeldPlaces
<1>5. <<h, k>> \in HeldPlaces(slot)
  BY <1>1, <1>2 DEF HeldPlaces
<1>6. Cardinality(HeldPlaces(slot')) = Cardinality(HeldPlaces(slot)) - 1
  BY <1>4, <1>5, WorkCounts, FS_RemoveElement
<1>7. kind' = kind /\ count' = count /\ expiring' = expiring
  BY DEF DestroyRelease
<1> QED
  BY <1>6, <1>7, WorkCounts DEF Work, One

\* An object that is freed was allocated until then: it is destroyed once.
LEMMA FreeWorks ==
  ASSUME TypeOK, StackDistinct, DestroyFree
  PROVE  Work' = Work - 1
<1> DEFINE h == stack[Len(stack)]
<1>1. h \in Addr /\ kind[h] # "free"
  BY DEF TypeOK, StackDistinct, DestroyFree
<1>2. /\ kind' = [kind EXCEPT ![h] = "free"]
      /\ slot' = slot /\ count' = count /\ expiring' = expiring
  BY DEF DestroyFree
<1> HIDE DEF h
<1>3. Allocated(kind') = Allocated(kind) \ {h}
  BY <1>1, <1>2 DEF Allocated, TypeOK
<1>4. h \in Allocated(kind)
  BY <1>1 DEF Allocated
<1>5. Cardinality(Allocated(kind')) = Cardinality(Allocated(kind)) - 1
  BY <1>3, <1>4, WorkCounts, FS_RemoveElement
<1> QED
  BY <1>2, <1>5, WorkCounts DEF Work, One

\* A round of the loop in session_remove_external_references removes one node
\* of the session, and its end the session.
LEMMA ExpireWorks ==
  ASSUME TypeOK, (\E o \in Addr : ExpireReference(o)) \/ ExpireDone
  PROVE  Work' = Work - 1
<1>1. CASE \E o \in Addr : ExpireReference(o)
  <2>1. PICK o \in Addr : ExpireReference(o)
    BY <1>1
  <2>2. /\ expiring \in Session /\ expiring # None /\ count[o][expiring] > 0
        /\ count' = [count EXCEPT ![o][expiring] = 0]
        /\ kind' = kind /\ slot' = slot /\ expiring' = expiring
    BY <2>1 DEF ExpireReference, TypeOK
  <2>3. Owned(count', expiring) = Owned(count, expiring) \ {o}
    <3>1. count'[o][expiring] = 0
      BY <2>2, Types DEF Counts
    <3>2. \A p \in Addr : p # o => count'[p][expiring] = count[p][expiring]
      BY <2>2, Types DEF Counts
    <3> QED
      BY <2>2, <3>1, <3>2 DEF Owned
  <2>4. o \in Owned(count, expiring)
    BY <2>2 DEF Owned
  <2>5. Cardinality(Owned(count', expiring)) = Cardinality(Owned(count, expiring)) - 1
    BY <2>3, <2>4, WorkCounts, FS_RemoveElement
  <2> QED
    BY <2>2, <2>5, WorkCounts DEF Work, One
<1>2. CASE ExpireDone
  <2>1. /\ expiring # None /\ \A o \in Addr : count[o][expiring] = 0
        /\ expiring' = None /\ kind' = kind /\ slot' = slot
    BY <1>2 DEF ExpireDone
  <2>2. Owned(count, expiring) = {} /\ Owned(count', expiring') = {}
    BY <2>1 DEF Owned
  <2> QED
    BY <2>1, <2>2, FS_EmptySet, WorkCounts DEF Work, One
<1> QED
  BY <1>1, <1>2

\* A handler starts only when the one before it is done (the event loop calls
\* them one after the other).
LEMMA HandlerStartsIdle == Handler => Idle
<1> SUFFICES ASSUME Handler
             PROVE  Idle
  OBVIOUS
<1>1. \A s \in Session : SessionCreate(s) \/ SessionExpire(s) => Idle
  BY DEF SessionCreate, SessionExpire, Serving
<1>2. \A o, s : ObjectRelease(o, s) \/ FileGetInfo(o, s) => Serving
  BY DEF ObjectRelease, FileGetInfo
<1>3. \A s, a : StringAllocate(s, a) \/ ListAllocate(s, a) => Serving
  BY DEF StringAllocate, ListAllocate
<1>4. \A l, x : ListAppendTo(l, x) \/ ListRemoveFrom(l, x) => Serving
  BY DEF ListAppendTo, ListRemoveFrom
<1>5. \A x, y, z : ListGetItem(x, y, z) \/ FileOpen(x, y, z) \/ PipeCreate(x, y, z) => Serving
  BY DEF ListGetItem, FileOpen, PipeCreate
<1>6. \A s, a, exe, args, f : ProcessSpawn(s, a, exe, args, f) => Serving
  BY DEF ProcessSpawn
<1>7. \A p, s : ProcessGetCommand(p, s) \/ ProcessGetStdio(p, s) \/ ProcessDies(p) => Serving
  BY DEF ProcessGetCommand, ProcessGetStdio, ProcessDies
<1> QED
  BY <1>1, <1>2, <1>3, <1>4, <1>5, <1>6, <1>7 DEF Handler, Serving

\* A bound of the work of any state.
MaxWork == Cardinality(Addr) * (MaxSlots + 2) + 1

\* No destruction has more to do than to give up everything there can be.
LEMMA WorkBounded == Work \in 0..MaxWork
<1> DEFINE n == Cardinality(Addr)
           held == Cardinality(HeldPlaces(slot))
           objects == Cardinality(Allocated(kind))
           owned == Cardinality(Owned(count, expiring))
<1>1. n \in Nat /\ MaxSlots \in Nat
  BY GraphAssumption, FS_CardinalityType
<1>2. /\ held \in Nat /\ held <= n * MaxSlots
      /\ objects \in Nat /\ objects <= n
      /\ owned \in Nat /\ owned <= n
  BY WorkCounts
<1>3. One(expiring # None) \in 0..1
  BY DEF One
<1>4. n * (MaxSlots + 2) = n * MaxSlots + n + n /\ n * MaxSlots \in Nat
  BY <1>1
<1>5. Work = held + objects + owned + One(expiring # None)
  BY DEF Work
<1>6. MaxWork = n * (MaxSlots + 2) + 1
  BY DEF MaxWork
<1> HIDE DEF n, held, objects, owned
<1> QED
  BY <1>1, <1>2, <1>3, <1>4, <1>5, <1>6

\* Until a destruction is done every step is one unit of its work.
LEMMA BusyWorks ==
  ASSUME Inv, Next, ~ Idle
  PROVE  Cascade /\ Work' = Work - 1
<1>1. ~ Handler
  BY HandlerStartsIdle
<1>2. ~ Exit
  BY DEF Exit, Serving, InventoryExit, ExitNextArray, ExitReleaseStock, ExitDestroy
<1> QED
  BY <1>1, <1>2, ReleaseWorks, FreeWorks, ExpireWorks DEF Next, Cascade, Inv

\* The recursion of the destroy functions and the loop that removes the
\* references of a session come to an end, whatever objects contain each other
\* and however many references the session has: until they do no other handler
\* runs, and each of their steps takes one from a number that never is
\* above MaxWork nor negative.
DestructionsShrink ==
  [][~ Idle => Cascade /\ Work \in 1..MaxWork /\ Work' = Work - 1]_vars

THEOREM DestructionsEnd == Spec => DestructionsShrink
<1> DEFINE Shrink == ~ Idle => Cascade /\ Work \in 1..MaxWork /\ Work' = Work - 1
<1>1. ASSUME Inv, Next, ~ Idle
      PROVE  Cascade /\ Work \in 1..MaxWork /\ Work' = Work - 1
  <2>1. Cascade /\ Work' = Work - 1
    BY <1>1, BusyWorks
  <2>2. Work \in 0..MaxWork
    BY WorkBounded
  <2>3. Work' \in Nat
    <3>1. Work' = Cardinality(HeldPlaces(slot')) + Cardinality(Allocated(kind'))
                    + Cardinality(Owned(count', expiring')) + One(expiring' # None)
      BY DEF Work
    <3> QED
      BY <3>1, WorkCounts DEF One
  <2>4. MaxWork \in Int
    BY GraphAssumption, FS_CardinalityType DEF MaxWork
  <2> QED
    BY <2>1, <2>2, <2>3, <2>4
<1>2. Inv /\ [Next]_vars => [Shrink]_vars
  BY <1>1
<1>3. [][Shrink]_vars => DestructionsShrink
  BY DEF DestructionsShrink
<1> HIDE DEF Shrink
<1> QED
  BY <1>2, <1>3, Invariance, PTL DEF Spec
=============================================================================
