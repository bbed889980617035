-------------------------- MODULE ProgramConfigProofs --------------------------
(***************************************************************************)
(* Theorems about ProgramConfig, for any contents of strings, inputs and   *)
(* files and any number of custom options: the references of a program are *)
(* those of its configuration, program.conf says what is in memory, and    *)
(* what is in memory can be used.                                          *)
(*                                                                         *)
(* References are counted: how often a text occurs in Uses(config) is the  *)
(* sum over the parts of the configuration, and an operation changes one   *)
(* of the parts.                                                           *)
(***************************************************************************)
EXTENDS ProgramConfig, FiniteSetTheorems, SequenceTheorems, TLAPS

\* What the places of a configuration hold: a text or a null pointer.
Place == Text \cup {None}

Config ==
  [command : [1..4 -> Text], stdio : [1..3 -> Redirection], mode : Mode, continues : Flag,
   interval : 0..IntervalLimit - 1, fields : Place, options : Seq(Option)]

\* A configuration that users can set and program_config_load() accepts.
Usable(c) ==
  /\ \A i \in 1..2 : c.stdio[i].kind \notin Unsuitable(i)
  /\ \A i \in 1..3 : c.stdio[i].kind = "file" <=> c.stdio[i].name \in Text
  /\ \A i \in 1..3 : c.stdio[i].name # Empty
  /\ IF c.mode = "cron" THEN c.fields \in Text \ {Empty} ELSE c.fields = None
  /\ OneOfAKind(c.options)

\* How many references a configuration has on a text, part by part.
HeldOf(c, t) ==
  Count(c.command, t) + Count(FileNames(c.stdio), t) + Count(Fields(c.mode, c.fields), t)
  + Count(OptionNames(c.options), t) + Count(OptionValues(c.options), t)

\* Loading the file f gives the configuration c, but for the order of options
\* and a pipe for stderr.
Matches(f, c) ==
  /\ Loaded(f).command = c.command
  /\ Loaded(f).mode = c.mode /\ Loaded(f).fields = c.fields /\ Loaded(f).interval = c.interval
  /\ Loaded(f).continues = c.continues
  /\ \A i \in 1..3 : Loaded(f).stdio[i] = c.stdio[i] \/ (i = 3 /\ c.stdio[3].kind = "pipe")
  /\ SameOptions(Loaded(f).options, c.options)

Typed ==
  /\ up \in BOOLEAN /\ lost \in BOOLEAN
  /\ program \in {"none", "loaded", "purged"} /\ directory \in {"none", "bare", "full"}
  /\ config \in Config /\ Len(config.options) <= MaxOptions
  /\ file \in File /\ Len(file.options) <= MaxOptions /\ OneOfAKind(file.options)
  /\ held \in [Text -> Nat] /\ stray \in [Text -> Nat]

Counted ==
  \A t \in Text : held[t] = stray[t] + (IF program = "none" THEN 0 ELSE HeldOf(config, t))

Stored ==
  /\ ~ up => program = "none"
  /\ program = "loaded" => directory = "full" /\ (lost \/ Matches(file, config))

\* Of what users may not set, and of what the load refuses, a configuration c has
\* only what came the other way: a is what users have set.
Asked(c, a) ==
  /\ a \subseteq {"command", "stdio", "schedule"}
  /\ c.stdio[3].kind = "pipe" => "stdio" \in a
  /\ "command" \in a => c.command[1] # Empty /\ c.command[4] # Empty
  /\ "schedule" \in a => c.interval >= 1

Inv == Typed /\ Usable(config) /\ Counted /\ Stored /\ Asked(config, asked)

-----------------------------------------------------------------------------
(* Counting *)

\* Sets that correspond to each other one to one have the same size.
LEMMA SameSize ==
  ASSUME NEW S, NEW T, IsFiniteSet(S), NEW f \in [S -> T],
         \A x, y \in S : f[x] = f[y] => x = y,
         \A y \in T : \E x \in S : f[x] = y
  PROVE  IsFiniteSet(T) /\ Cardinality(T) = Cardinality(S)
<1>1. f \in Injection(S, T)
  BY DEF Injection, IsInjective
<1>2. f \in Surjection(S, T)
  BY DEF Surjection
<1>3. ExistsBijection(S, T)
  BY <1>1, <1>2 DEF ExistsBijection, Bijection
<1> QED
  BY <1>3, FS_Bijection

\* The places of a text in a sequence are finitely many.
LEMMA CountType ==
  ASSUME NEW s \in Seq(Place), NEW t
  PROVE  /\ Count(s, t) \in Nat
         /\ IsFiniteSet({i \in 1..Len(s) : s[i] = t})
         /\ Count(s, t) = Cardinality({i \in 1..Len(s) : s[i] = t})
<1> DEFINE m == Len(s)
           A == {i \in 1..m : s[i] = t}
<1>1. m \in Nat /\ DOMAIN s = 1..m
  OBVIOUS
<1>2. Count(s, t) = Cardinality(A)
  BY <1>1 DEF Count
<1> HIDE DEF m
<1>3. IsFiniteSet(1..m)
  BY <1>1, FS_Interval
<1>4. A \in SUBSET (1..m)
  OBVIOUS
<1>5. IsFiniteSet(A)
  BY <1>3, <1>4, FS_Subset
<1>6. Cardinality(A) \in Nat
  BY <1>5, FS_CardinalityType
<1> QED
  BY <1>2, <1>5, <1>6 DEF m

\* A text occurs in a concatenation as often as in both parts.
LEMMA CountConcat ==
  ASSUME NEW a \in Seq(Place), NEW b \in Seq(Place), NEW t
  PROVE  a \o b \in Seq(Place) /\ Count(a \o b, t) = Count(a, t) + Count(b, t)
<1> DEFINE m == Len(a)
           n == Len(b)
           c == a \o b
           A == {i \in 1..m : a[i] = t}
           B == {i \in 1..n : b[i] = t}
           C == {i \in 1..(m + n) : c[i] = t}
           D == {i \in (m + 1)..(m + n) : c[i] = t}
           f == [i \in B |-> m + i]
<1>1. m \in Nat /\ n \in Nat
  OBVIOUS
<1>2. /\ c \in Seq(Place) /\ Len(c) = m + n
      /\ \A i \in 1..(m + n) : c[i] = IF i <= m THEN a[i] ELSE b[i - m]
  BY ConcatProperties
<1>3. /\ Count(a, t) = Cardinality(A) /\ IsFiniteSet(A) /\ Cardinality(A) \in Nat
      /\ Count(b, t) = Cardinality(B) /\ IsFiniteSet(B) /\ Cardinality(B) \in Nat
  BY CountType
<1>4. Count(c, t) = Cardinality(C)
  <2>1. Count(c, t) = Cardinality({i \in 1..Len(c) : c[i] = t})
    BY <1>2, CountType
  <2> QED
    BY <2>1, <1>2
<1> HIDE DEF m, n, c
<1>5. C = A \cup D /\ A \cap D = {}
  <2>1. \A i \in 1..m : i \in 1..(m + n) /\ c[i] = a[i] /\ i \notin (m + 1)..(m + n)
    BY <1>1, <1>2
  <2>2. 1..(m + n) = (1..m) \cup ((m + 1)..(m + n))
    BY <1>1
  <2> QED
    BY <2>1, <2>2
<1>6. IsFiniteSet(D) /\ Cardinality(D) = Cardinality(B)
  <2>1. \A i \in B : f[i] \in D
    <3> SUFFICES ASSUME NEW i \in B
                 PROVE  m + i \in D
      OBVIOUS
    <3>1. i \in 1..n /\ b[i] = t
      OBVIOUS
    <3>2. m + i \in (m + 1)..(m + n) /\ m + i \in 1..(m + n) /\ ~ (m + i <= m) /\ (m + i) - m = i
      BY <3>1, <1>1
    <3>3. c[m + i] = t
      BY <3>1, <3>2, <1>2
    <3> QED
      BY <3>2, <3>3
  <2>2. f \in [B -> D]
    BY <2>1
  <2>3. \A x, y \in B : f[x] = f[y] => x = y
    BY <1>1
  <2>4. \A y \in D : \E x \in B : f[x] = y
    <3> SUFFICES ASSUME NEW y \in D
                 PROVE  \E x \in B : m + x = y
      OBVIOUS
    <3>1. y \in (m + 1)..(m + n) /\ c[y] = t
      OBVIOUS
    <3>2. y \in 1..(m + n) /\ ~ (y <= m) /\ y - m \in 1..n /\ m + (y - m) = y
      BY <3>1, <1>1
    <3>3. b[y - m] = t
      BY <3>1, <3>2, <1>2
    <3> QED
      BY <3>2, <3>3
  <2> HIDE DEF B, D, f
  <2> QED
    BY <1>3, <2>2, <2>3, <2>4, SameSize
<1> HIDE DEF A, B, C, D
<1>7. Cardinality(C) = Cardinality(A) + Cardinality(D)
  <2>1. Cardinality(C) = Cardinality(A) + Cardinality(D) - Cardinality(A \cap D)
    BY <1>3, <1>5, <1>6, FS_Union
  <2>2. Cardinality(A \cap D) = 0
    BY <1>5, FS_EmptySet
  <2> QED
    BY <2>1, <2>2, <1>3, <1>6
<1> QED
  BY <1>2, <1>3, <1>4, <1>6, <1>7 DEF c

\* No text occurs in the empty sequence.
LEMMA CountEmpty ==
  ASSUME NEW t
  PROVE  Count(<<>>, t) = 0
<1>1. DOMAIN <<>> = {}
  OBVIOUS
<1>2. {i \in DOMAIN <<>> : <<>>[i] = t} = {}
  BY <1>1
<1> QED
  BY <1>2, FS_EmptySet DEF Count

\* A sequence of one.
LEMMA CountSingle ==
  ASSUME NEW x \in Place, NEW t
  PROVE  <<x>> \in Seq(Place) /\ Count(<<x>>, t) = IF x = t THEN 1 ELSE 0
<1>1. DOMAIN <<x>> = {1} /\ <<x>>[1] = x /\ <<x>> \in Seq(Place)
  OBVIOUS
<1>2. {i \in DOMAIN <<x>> : <<x>>[i] = t} = IF x = t THEN {1} ELSE {}
  BY <1>1
<1> QED
  BY <1>1, <1>2, FS_EmptySet, FS_Singleton DEF Count

\* A sequence of two.
LEMMA CountPair ==
  ASSUME NEW x \in Place, NEW y \in Place, NEW t
  PROVE  /\ <<x, y>> \in Seq(Place)
         /\ Count(<<x, y>>, t) = (IF x = t THEN 1 ELSE 0) + (IF y = t THEN 1 ELSE 0)
<1> DEFINE a == <<x>>
           b == <<y>>
           c == <<x, y>>
<1>1. /\ a \in Seq(Place) /\ Len(a) = 1 /\ a[1] = x
      /\ b \in Seq(Place) /\ Len(b) = 1 /\ b[1] = y
      /\ c \in Seq(Place) /\ Len(c) = 2 /\ c[1] = x /\ c[2] = y
  OBVIOUS
<1>2. Count(a, t) = IF x = t THEN 1 ELSE 0
  BY CountSingle
<1>3. Count(b, t) = IF y = t THEN 1 ELSE 0
  BY CountSingle
<1> HIDE DEF a, b, c
<1>4. /\ a \o b \in Seq(Place) /\ Len(a \o b) = 2
      /\ \A i \in 1..2 : (a \o b)[i] = IF i <= 1 THEN a[i] ELSE b[i - 1]
  <2>1. /\ a \o b \in Seq(Place) /\ Len(a \o b) = Len(a) + Len(b)
        /\ \A i \in 1..(Len(a) + Len(b)) : (a \o b)[i] = IF i <= Len(a) THEN a[i] ELSE b[i - Len(a)]
    BY <1>1, ConcatProperties
  <2> QED
    BY <1>1, <2>1
<1>5. a \o b = c
  <2>1. \A i \in 1..2 : (a \o b)[i] = c[i]
    BY <1>1, <1>4
  <2> QED
    BY <2>1, <1>1, <1>4, SeqEqual
<1>6. Count(a \o b, t) = Count(a, t) + Count(b, t)
  BY <1>1, CountConcat
<1>7. c \in Seq(Place) /\ Count(c, t) = (IF x = t THEN 1 ELSE 0) + (IF y = t THEN 1 ELSE 0)
  BY <1>1, <1>2, <1>3, <1>5, <1>6
<1> QED
  BY <1>7 DEF c

\* Another one at the end.
LEMMA CountAppend ==
  ASSUME NEW s \in Seq(Place), NEW x \in Place, NEW t
  PROVE  Count(Append(s, x), t) = Count(s, t) + (IF x = t THEN 1 ELSE 0)
<1>1. Append(s, x) = s \o <<x>>
  BY AppendIsConcat
<1>2. Count(s \o <<x>>, t) = Count(s, t) + Count(<<x>>, t)
  BY CountSingle, CountConcat
<1> QED
  BY <1>1, <1>2, CountSingle

\* p is s without its place i.
Dropped(s, i, p) ==
  /\ p \in Seq(Place) /\ Len(p) = Len(s) - 1
  /\ \A j \in 1..(Len(s) - 1) : p[j] = s[IF j < i THEN j ELSE j + 1]

\* One less.
LEMMA CountDrop ==
  ASSUME NEW s \in Seq(Place), NEW i \in 1..Len(s), NEW p, Dropped(s, i, p), NEW t
  PROVE  Count(s, t) = Count(p, t) + (IF s[i] = t THEN 1 ELSE 0)
<1> DEFINE m == Len(s)
           A == {j \in 1..m : s[j] = t}
           P == {j \in 1..(m - 1) : p[j] = t}
           f == [j \in P |-> IF j < i THEN j ELSE j + 1]
<1>1. m \in Nat /\ i \in 1..m /\ p \in Seq(Place) /\ Len(p) = m - 1
  BY DEF Dropped
<1>2. \A j \in 1..(m - 1) : p[j] = s[IF j < i THEN j ELSE j + 1]
  BY DEF Dropped
<1>3. /\ Count(s, t) = Cardinality(A) /\ IsFiniteSet(A) /\ Cardinality(A) \in Nat
  BY CountType
<1>4. /\ Count(p, t) = Cardinality(P) /\ IsFiniteSet(P) /\ Cardinality(P) \in Nat
  <2>1. /\ Count(p, t) \in Nat
        /\ IsFiniteSet({j \in 1..Len(p) : p[j] = t})
        /\ Count(p, t) = Cardinality({j \in 1..Len(p) : p[j] = t})
    BY <1>1, CountType
  <2> QED
    BY <2>1, <1>1
<1> HIDE DEF m
<1>5. Cardinality(A \ {i}) = Cardinality(P)
  <2>1. \A j \in P : (IF j < i THEN j ELSE j + 1) \in A \ {i}
    <3> SUFFICES ASSUME NEW j \in P
                 PROVE  (IF j < i THEN j ELSE j + 1) \in A \ {i}
      OBVIOUS
    <3>1. j \in 1..(m - 1) /\ p[j] = t
      OBVIOUS
    <3>2. s[IF j < i THEN j ELSE j + 1] = t
      BY <3>1, <1>2
    <3>3. (IF j < i THEN j ELSE j + 1) \in 1..m /\ (IF j < i THEN j ELSE j + 1) # i
      BY <3>1, <1>1
    <3> QED
      BY <3>2, <3>3
  <2>2. f \in [P -> A \ {i}]
    BY <2>1
  <2>3. \A x, y \in P : f[x] = f[y] => x = y
    <3> SUFFICES ASSUME NEW x \in P, NEW y \in P,
                        (IF x < i THEN x ELSE x + 1) = (IF y < i THEN y ELSE y + 1)
                 PROVE  x = y
      OBVIOUS
    <3>1. x \in 1..(m - 1) /\ y \in 1..(m - 1)
      OBVIOUS
    <3> HIDE DEF P
    <3> QED
      BY <3>1, <1>1
  <2>4. \A y \in A \ {i} : \E x \in P : f[x] = y
    <3> SUFFICES ASSUME NEW y \in A \ {i}
                 PROVE  \E x \in P : (IF x < i THEN x ELSE x + 1) = y
      OBVIOUS
    <3> DEFINE x == IF y < i THEN y ELSE y - 1
    <3>1. y \in 1..m /\ y # i /\ s[y] = t
      OBVIOUS
    <3>2. x \in 1..(m - 1) /\ (IF x < i THEN x ELSE x + 1) = y
      BY <3>1, <1>1
    <3>3. p[x] = t
      <4> HIDE DEF x
      <4> QED
        BY <3>1, <3>2, <1>2
    <3>4. x \in P
      BY <3>2, <3>3
    <3> HIDE DEF x
    <3> QED
      BY <3>2, <3>4
  <2> HIDE DEF A, P, f
  <2> QED
    BY <1>4, <2>2, <2>3, <2>4, SameSize
<1>6. i \in A <=> s[i] = t
  BY <1>1
<1> HIDE DEF A, P
<1>7. Cardinality(A \ {i}) = IF i \in A THEN Cardinality(A) - 1 ELSE Cardinality(A)
  BY <1>3, FS_RemoveElement
<1> QED
  BY <1>3, <1>4, <1>5, <1>6, <1>7

\* Another text in one place.
LEMMA CountReplace ==
  ASSUME NEW s \in Seq(Place), NEW i \in 1..Len(s), NEW v \in Place, NEW t
  PROVE  Count([s EXCEPT ![i] = v], t) + (IF s[i] = t THEN 1 ELSE 0)
           = Count(s, t) + (IF v = t THEN 1 ELSE 0)
<1> DEFINE m == Len(s)
           q == [s EXCEPT ![i] = v]
           A == {j \in 1..m : s[j] = t}
           Q == {j \in 1..m : q[j] = t}
<1>1. m \in Nat /\ i \in 1..m /\ q \in Seq(Place) /\ Len(q) = m
  BY ExceptSeq
<1>2. \A j \in 1..m : q[j] = IF j = i THEN v ELSE s[j]
  OBVIOUS
<1>3. Count(s, t) = Cardinality(A) /\ IsFiniteSet(A)
  BY CountType
<1>4. Count(q, t) = Cardinality(Q) /\ IsFiniteSet(Q)
  <2> HIDE DEF q
  <2>1. /\ IsFiniteSet({j \in 1..Len(q) : q[j] = t})
        /\ Count(q, t) = Cardinality({j \in 1..Len(q) : q[j] = t})
    BY <1>1, CountType
  <2> QED
    BY <2>1, <1>1
<1> HIDE DEF m, q
<1>5. Q \ {i} = A \ {i} /\ (i \in A <=> s[i] = t) /\ (i \in Q <=> v = t)
  BY <1>1, <1>2
<1> HIDE DEF A, Q
<1>6. Cardinality(A \ {i}) = IF i \in A THEN Cardinality(A) - 1 ELSE Cardinality(A)
  BY <1>3, FS_RemoveElement
<1>7. Cardinality(Q \ {i}) = IF i \in Q THEN Cardinality(Q) - 1 ELSE Cardinality(Q)
  BY <1>4, FS_RemoveElement
<1>8. Cardinality(A) \in Nat /\ Cardinality(Q) \in Nat
  BY <1>3, <1>4, FS_CardinalityType
<1> DEFINE k == Cardinality(A)
           l == Cardinality(Q)
           r == Cardinality(A \ {i})
<1>9. r = (IF s[i] = t THEN k - 1 ELSE k) /\ r = (IF v = t THEN l - 1 ELSE l)
  BY <1>5, <1>6, <1>7
<1>10. k \in Nat /\ l \in Nat /\ Count(s, t) = k /\ Count(q, t) = l
  BY <1>3, <1>4, <1>8
<1> HIDE DEF k, l, r
<1>11. Count(q, t) + (IF s[i] = t THEN 1 ELSE 0) = Count(s, t) + (IF v = t THEN 1 ELSE 0)
  BY <1>9, <1>10
<1> QED
  BY <1>11 DEF q

\* What is acquired and released again leaves no trace.
LEMMA AcquireRelease ==
  ASSUME NEW h \in [Text -> Nat], NEW s \in Seq(Place)
  PROVE  Release(Acquire(h, s), s) = h
<1>1. \A t \in Text : Count(s, t) \in Nat /\ h[t] \in Nat
  BY CountType
<1>2. \A t \in Text : (h[t] + Count(s, t)) - Count(s, t) = h[t]
  BY <1>1
<1>3. Release(Acquire(h, s), s) = [t \in Text |-> (h[t] + Count(s, t)) - Count(s, t)]
  BY DEF Release, Acquire
<1>4. Release(Acquire(h, s), s) = [t \in Text |-> h[t]]
  BY <1>2, <1>3
<1> QED
  BY <1>4

\* RemoveAt place by place.
LEMMA RemoveAtPlaces ==
  ASSUME NEW S, NEW s \in Seq(S), NEW i \in 1..Len(s)
  PROVE  /\ RemoveAt(s, i) \in Seq(S) /\ Len(RemoveAt(s, i)) = Len(s) - 1
         /\ \A j \in 1..(Len(s) - 1) : RemoveAt(s, i)[j] = s[IF j < i THEN j ELSE j + 1]
<1> DEFINE m == Len(s)
           a == SubSeq(s, 1, i - 1)
           b == SubSeq(s, i + 1, m)
<1>1. m \in Nat /\ i \in 1..m /\ \A j \in 1..m : s[j] \in S
  OBVIOUS
<1>2. RemoveAt(s, i) = a \o b
  BY DEF RemoveAt
<1> HIDE DEF m
<1>3. a \in Seq(S) /\ Len(a) = i - 1 /\ \A j \in 1..(i - 1) : a[j] = s[j]
  <2>1. 1 \in Int /\ i - 1 \in Int /\ \A j \in 1..(i - 1) : s[j] \in S
    BY <1>1
  <2>2. /\ a \in Seq(S)
        /\ Len(a) = IF 1 <= i - 1 THEN (i - 1) - 1 + 1 ELSE 0
        /\ \A j \in 1..((i - 1) - 1 + 1) : a[j] = s[1 + j - 1]
    BY <2>1, SubSeqProperties
  <2>3. /\ (IF 1 <= i - 1 THEN (i - 1) - 1 + 1 ELSE 0) = i - 1 /\ (i - 1) - 1 + 1 = i - 1
        /\ \A j \in 1..(i - 1) : 1 + j - 1 = j
    BY <1>1
  <2> HIDE DEF a
  <2> QED
    BY <2>2, <2>3
<1>4. b \in Seq(S) /\ Len(b) = m - i /\ \A j \in 1..(m - i) : b[j] = s[i + j]
  <2>1. i + 1 \in Int /\ m \in Int /\ \A j \in (i + 1)..m : s[j] \in S
    BY <1>1
  <2>2. /\ b \in Seq(S)
        /\ Len(b) = IF i + 1 <= m THEN m - (i + 1) + 1 ELSE 0
        /\ \A j \in 1..(m - (i + 1) + 1) : b[j] = s[(i + 1) + j - 1]
    BY <2>1, SubSeqProperties
  <2>3. /\ (IF i + 1 <= m THEN m - (i + 1) + 1 ELSE 0) = m - i /\ m - (i + 1) + 1 = m - i
        /\ \A j \in 1..(m - i) : (i + 1) + j - 1 = i + j
    BY <1>1
  <2> HIDE DEF b
  <2> QED
    BY <2>2, <2>3
<1> HIDE DEF a, b
<1> DEFINE k == i - 1
           l == m - i
<1>5. k \in Nat /\ l \in Nat /\ k + l = m - 1 /\ Len(a) = k /\ Len(b) = l
  BY <1>1, <1>3, <1>4
<1>6. /\ a \o b \in Seq(S) /\ Len(a \o b) = Len(a) + Len(b)
      /\ \A j \in 1..(Len(a) + Len(b)) : (a \o b)[j] = IF j <= Len(a) THEN a[j] ELSE b[j - Len(a)]
  BY <1>3, <1>4, ConcatProperties
<1>7. Len(a) + Len(b) = m - 1 /\ Len(a) = i - 1
  BY <1>5
<1>8. \A j \in 1..(m - 1) : (a \o b)[j] = s[IF j < i THEN j ELSE j + 1]
  <2> SUFFICES ASSUME NEW j \in 1..(m - 1)
               PROVE  (a \o b)[j] = s[IF j < i THEN j ELSE j + 1]
    OBVIOUS
  <2>1. (a \o b)[j] = IF j <= i - 1 THEN a[j] ELSE b[j - (i - 1)]
    BY <1>6, <1>7
  <2>2. CASE j < i
    <3>1. j \in 1..(i - 1) /\ j <= i - 1
      BY <2>2, <1>1
    <3> QED
      BY <3>1, <2>1, <2>2, <1>3
  <2>3. CASE ~ (j < i)
    <3>1. ~ (j <= i - 1) /\ j - (i - 1) \in 1..(m - i) /\ i + (j - (i - 1)) = j + 1
      BY <2>3, <1>1
    <3> QED
      BY <3>1, <2>1, <2>3, <1>4
  <2> QED
    BY <2>2, <2>3
<1> QED
  BY <1>2, <1>6, <1>7, <1>8 DEF m

-----------------------------------------------------------------------------
(* The parts of a configuration *)

\* The assumptions on the texts and the bounds in the form the provers use.
LEMMA Sizes ==
  /\ Empty \in Text /\ Dot \in Text /\ Empty # Dot /\ None \notin Text /\ None \notin Nat
  /\ MaxOptions \in Nat /\ MaxStray \in Nat /\ IntervalLimit \in Nat /\ IntervalLimit > 0
BY TextAssumption

\* A function on the first numbers is a sequence.
LEMMA FunctionIsSeq ==
  \A S : \A n \in Nat : \A f \in [1..n -> S] : f \in Seq(S) /\ Len(f) = n
OBVIOUS

\* The parts as sequences of places.
LEMMA Parts ==
  ASSUME NEW c \in Config
  PROVE  /\ c.command \in Seq(Place) /\ Len(c.command) = 4
         /\ FileNames(c.stdio) \in Seq(Place)
         /\ Fields(c.mode, c.fields) \in Seq(Place)
         /\ c.options \in Seq(Option)
         /\ OptionNames(c.options) \in Seq(Place) /\ Len(OptionNames(c.options)) = Len(c.options)
         /\ OptionValues(c.options) \in Seq(Place) /\ Len(OptionValues(c.options)) = Len(c.options)
<1>1. /\ c.command \in [1..4 -> Place] /\ c.stdio \in [1..3 -> Redirection]
      /\ c.fields \in Place /\ c.options \in Seq(Option)
  BY DEF Config, Place
<1>2. c.command \in Seq(Place) /\ Len(c.command) = 4
  <2> DEFINE a == c.command
  <2>1. a \in [1..4 -> Place]
    BY <1>1
  <2> HIDE DEF a
  <2>2. a \in Seq(Place) /\ Len(a) = 4
    BY <2>1, FunctionIsSeq
  <2> QED
    BY <2>2 DEF a
<1>3. FileNames(c.stdio) \in [1..3 -> Place]
  BY <1>1 DEF FileNames, Redirection, Place
<1>4. Fields(c.mode, c.fields) \in Seq(Place)
  <2>1. <<c.fields>> \in Seq(Place) /\ <<>> \in Seq(Place)
    BY <1>1
  <2> QED
    BY <2>1 DEF Fields
<1> DEFINE o == c.options
           m == Len(o)
<1>5. m \in Nat /\ DOMAIN o = 1..m /\ \A i \in 1..m : o[i].name \in Place /\ o[i].value \in Place
  <2>1. o \in Seq(Option)
    BY <1>1
  <2> HIDE DEF o
  <2>2. Len(o) \in Nat /\ DOMAIN o = 1..Len(o) /\ \A i \in 1..Len(o) : o[i] \in Option
    BY <2>1
  <2>3. \A i \in 1..Len(o) : o[i].name \in Place /\ o[i].value \in Place
    BY <2>2 DEF Option, Place
  <2> QED
    BY <2>2, <2>3
<1> HIDE DEF o, m
<1>6. OptionNames(o) \in [1..m -> Place] /\ OptionValues(o) \in [1..m -> Place]
  BY <1>5 DEF OptionNames, OptionValues
<1>7. /\ OptionNames(o) \in Seq(Place) /\ Len(OptionNames(o)) = m
      /\ OptionValues(o) \in Seq(Place) /\ Len(OptionValues(o)) = m
  BY <1>5, <1>6
<1>8. FileNames(c.stdio) \in Seq(Place)
  BY <1>3, FunctionIsSeq
<1>9. m = Len(c.options) /\ o = c.options
  BY DEF o, m
<1> QED
  BY <1>1, <1>2, <1>4, <1>7, <1>8, <1>9

\* What a configuration holds is what its parts hold.
LEMMA UsesCounted ==
  ASSUME NEW c \in Config, NEW t
  PROVE  Uses(c) \in Seq(Place) /\ Count(Uses(c), t) = HeldOf(c, t) /\ HeldOf(c, t) \in Nat
<1> DEFINE a == c.command
           b == FileNames(c.stdio)
           d == Fields(c.mode, c.fields)
           e == OptionNames(c.options)
           f == OptionValues(c.options)
<1>1. /\ a \in Seq(Place) /\ b \in Seq(Place) /\ d \in Seq(Place)
      /\ e \in Seq(Place) /\ f \in Seq(Place)
  BY Parts
<1>2. Uses(c) = (((a \o b) \o d) \o e) \o f
  BY DEF Uses
<1>3. HeldOf(c, t) = Count(a, t) + Count(b, t) + Count(d, t) + Count(e, t) + Count(f, t)
  BY DEF HeldOf
<1> HIDE DEF a, b, d, e, f
<1>4. a \o b \in Seq(Place) /\ Count(a \o b, t) = Count(a, t) + Count(b, t)
  BY <1>1, CountConcat
<1>5. (a \o b) \o d \in Seq(Place) /\ Count((a \o b) \o d, t) = Count(a \o b, t) + Count(d, t)
  <2> DEFINE u == a \o b
  <2>1. u \in Seq(Place)
    BY <1>4
  <2> HIDE DEF u
  <2>2. u \o d \in Seq(Place) /\ Count(u \o d, t) = Count(u, t) + Count(d, t)
    BY <1>1, <2>1, CountConcat
  <2> QED
    BY <2>2 DEF u
<1>6. /\ ((a \o b) \o d) \o e \in Seq(Place)
      /\ Count(((a \o b) \o d) \o e, t) = Count((a \o b) \o d, t) + Count(e, t)
  <2> DEFINE u == (a \o b) \o d
  <2>1. u \in Seq(Place)
    BY <1>5
  <2> HIDE DEF u
  <2>2. u \o e \in Seq(Place) /\ Count(u \o e, t) = Count(u, t) + Count(e, t)
    BY <1>1, <2>1, CountConcat
  <2> QED
    BY <2>2 DEF u
<1>7. /\ (((a \o b) \o d) \o e) \o f \in Seq(Place)
      /\ Count((((a \o b) \o d) \o e) \o f, t) = Count(((a \o b) \o d) \o e, t) + Count(f, t)
  <2> DEFINE u == ((a \o b) \o d) \o e
  <2>1. u \in Seq(Place)
    BY <1>6
  <2> HIDE DEF u
  <2>2. u \o f \in Seq(Place) /\ Count(u \o f, t) = Count(u, t) + Count(f, t)
    BY <1>1, <2>1, CountConcat
  <2> QED
    BY <2>2 DEF u
<1>8. /\ Count(a, t) \in Nat /\ Count(b, t) \in Nat /\ Count(d, t) \in Nat
      /\ Count(e, t) \in Nat /\ Count(f, t) \in Nat
  BY <1>1, CountType
<1> QED
  BY <1>2, <1>3, <1>4, <1>5, <1>6, <1>7, <1>8

-----------------------------------------------------------------------------
(* Configurations and files *)

\* What program_config_create() makes.
LEMMA CreatedUsable ==
  Created \in Config /\ Created.options = <<>> /\ Usable(Created) /\ Asked(Created, {})
<1>1. Created.command \in [1..4 -> Text]
  <2> DEFINE q == <<Empty, Empty, Empty, Dot>>
  <2>1. DOMAIN q = 1..4 /\ \A i \in 1..4 : q[i] \in Text
    BY Sizes
  <2>2. q = [i \in DOMAIN q |-> q[i]]
    OBVIOUS
  <2> HIDE DEF q
  <2>3. q \in [1..4 -> Text]
    BY <2>1, <2>2
  <2> QED
    BY <2>3 DEF Created, q
<1>2. /\ Created.stdio \in [1..3 -> Redirection]
      /\ \A i \in 1..3 : Created.stdio[i] = [kind |-> "dev_null", name |-> None]
  <2> DEFINE r == [kind |-> "dev_null", name |-> None]
             q == <<r, r, r>>
  <2>1. r \in Redirection
    BY DEF Redirection, Kind
  <2> HIDE DEF r
  <2>2. DOMAIN q = 1..3 /\ \A i \in 1..3 : q[i] = r
    OBVIOUS
  <2>3. q = [i \in DOMAIN q |-> q[i]]
    OBVIOUS
  <2>4. Created.stdio = q
    BY DEF Created, r
  <2> HIDE DEF q
  <2>5. q \in [1..3 -> Redirection]
    BY <2>1, <2>2, <2>3
  <2> QED
    BY <2>2, <2>4, <2>5 DEF r
<1>3. /\ Created.mode = "never" /\ Created.interval = 0 /\ Created.fields = None
      /\ Created.options = <<>> /\ Created.continues = "false"
      /\ Created = [command |-> Created.command, stdio |-> Created.stdio, mode |-> Created.mode,
                    continues |-> Created.continues, interval |-> Created.interval, fields |-> Created.fields,
                    options |-> Created.options]
  BY DEF Created
<1>4. Created.options \in Seq(Option) /\ OneOfAKind(Created.options)
  BY <1>3, EmptySeq DEF OneOfAKind
<1>5. 0 \in 0..IntervalLimit - 1
  BY Sizes
<1>6. Created \in Config
  BY <1>1, <1>2, <1>3, <1>4, <1>5 DEF Config, Place, Mode, Flag
<1>7. Usable(Created)
  <2>1. \A i \in 1..3 : Created.stdio[i].kind = "dev_null" /\ Created.stdio[i].name = None
    BY <1>2
  <2>2. \A i \in 1..2 : "dev_null" \notin Unsuitable(i)
    BY DEF Unsuitable
  <2>3. None \notin Text /\ None # Empty
    BY Sizes
  <2> QED
    BY <1>3, <1>4, <2>1, <2>2, <2>3 DEF Usable
<1>8. Asked(Created, {})
  BY <1>2 DEF Asked
<1> QED
  BY <1>3, <1>6, <1>7, <1>8

\* Whatever is in a file: what program_config_load() makes of a redirection
\* can be used.
LEMMA LoadedStdioUsable ==
  ASSUME NEW i \in 1..3, NEW r \in [kind : Word, name : Text]
  PROVE  /\ LoadedStdio(i, r) \in Redirection
         /\ LoadedStdio(i, r).kind \notin Unsuitable(i)
         /\ LoadedStdio(i, r).kind = "file" <=> LoadedStdio(i, r).name \in Text
         /\ LoadedStdio(i, r).name # Empty
<1> DEFINE bad == r.kind \notin Kind \ Unsuitable(i) \/ (r.kind = "file" /\ r.name = Empty)
           kind == IF bad THEN "dev_null" ELSE r.kind
<1>1. LoadedStdio(i, r) = [kind |-> kind, name |-> IF kind = "file" THEN r.name ELSE None]
  BY DEF LoadedStdio
<1>2. "dev_null" \in Kind /\ "dev_null" \notin Unsuitable(i)
  BY DEF Kind, Unsuitable
<1>3. kind \in Kind /\ kind \notin Unsuitable(i) /\ (kind = "file" => r.name # Empty)
  BY <1>2
<1>4. r.name \in Text /\ None \notin Text /\ Empty \in Text
  BY Sizes
<1> HIDE DEF kind
<1> QED
  BY <1>1, <1>3, <1>4 DEF Redirection

\* The parts of what is loaded.
LEMMA LoadedParts ==
  ASSUME NEW f \in File
  PROVE  /\ Loaded(f).command = f.command /\ Loaded(f).options = f.options
         /\ Loaded(f).stdio = [i \in 1..3 |-> LoadedStdio(i, f.stdio[i])]
         /\ Loaded(f).mode = LoadedMode(f) /\ Loaded(f).interval = LoadedInterval(f)
         /\ Loaded(f).continues = LoadedContinues(f)
         /\ Loaded(f).fields = IF LoadedMode(f) = "cron" THEN f.fields ELSE None
BY DEF Loaded, File

\* The same for the whole configuration.
LEMMA LoadedUsable ==
  ASSUME NEW f \in File, OneOfAKind(f.options)
  PROVE  Loaded(f) \in Config /\ Usable(Loaded(f)) /\ Asked(Loaded(f), {})
<1> DEFINE c == Loaded(f)
<1>1. /\ c.command = f.command /\ c.options = f.options
      /\ c.stdio = [i \in 1..3 |-> LoadedStdio(i, f.stdio[i])]
      /\ c.mode = LoadedMode(f) /\ c.interval = LoadedInterval(f)
      /\ c.continues = LoadedContinues(f)
      /\ c.fields = IF LoadedMode(f) = "cron" THEN f.fields ELSE None
  BY LoadedParts
<1>2. /\ f.command \in [1..4 -> Text] /\ f.options \in Seq(Option)
      /\ \A i \in 1..3 : f.stdio[i] \in [kind : Word, name : Text]
      /\ f.interval \in Nat \cup {None} /\ f.fields \in Text
  BY DEF File
<1>3. \A i \in 1..3 : /\ LoadedStdio(i, f.stdio[i]) \in Redirection
                      /\ LoadedStdio(i, f.stdio[i]).kind \notin Unsuitable(i)
                      /\ LoadedStdio(i, f.stdio[i]).kind = "file"
                           <=> LoadedStdio(i, f.stdio[i]).name \in Text
                      /\ LoadedStdio(i, f.stdio[i]).name # Empty
  BY <1>2, LoadedStdioUsable
<1>4. c.stdio \in [1..3 -> Redirection] /\ \A i \in 1..3 : c.stdio[i] = LoadedStdio(i, f.stdio[i])
  BY <1>1, <1>3
<1>5. LoadedMode(f) \in Mode /\ (LoadedMode(f) = "cron" => f.fields # Empty)
  BY DEF LoadedMode, Mode
<1>6. LoadedInterval(f) \in 0..IntervalLimit - 1
  <2>1. CASE f.interval = None
    BY <2>1, Sizes DEF LoadedInterval
  <2>2. CASE f.interval # None
    <3>1. f.interval \in Nat
      BY <1>2, <2>2
    <3> DEFINE n == f.interval
    <3> HIDE DEF n
    <3>2. \A x \in Nat : x % IntervalLimit \in 0..IntervalLimit - 1
      BY Sizes
    <3>3. LoadedInterval(f) = n % IntervalLimit
      BY <2>2 DEF LoadedInterval, n
    <3> QED
      BY <3>1, <3>2, <3>3 DEF n
  <2> QED
    BY <2>1, <2>2
<1>7. c = [command |-> c.command, stdio |-> c.stdio, mode |-> c.mode,
           continues |-> c.continues, interval |-> c.interval, fields |-> c.fields, options |-> c.options]
  BY DEF Loaded, File
<1> HIDE DEF c
<1>8. c.fields \in Place
  BY <1>1, <1>2 DEF Place
<1>9. c \in Config
  <2>1. LoadedContinues(f) \in Flag
    BY DEF LoadedContinues, Flag
  <2> QED
    BY <1>1, <1>2, <1>4, <1>5, <1>6, <1>7, <1>8, <2>1 DEF Config
<1>10. Usable(c)
  <2>1. \A i \in 1..2 : c.stdio[i].kind \notin Unsuitable(i)
    BY <1>3, <1>4
  <2>2. \A i \in 1..3 : (c.stdio[i].kind = "file" <=> c.stdio[i].name \in Text) /\ c.stdio[i].name # Empty
    BY <1>3, <1>4
  <2>3. IF c.mode = "cron" THEN c.fields \in Text \ {Empty} ELSE c.fields = None
    BY <1>1, <1>2, <1>5
  <2> QED
    BY <1>1, <2>1, <2>2, <2>3 DEF Usable
<1>11. Asked(c, {})
  <2>1. c.stdio[3].kind # "pipe"
    BY <1>3, <1>4 DEF Unsuitable
  <2> QED
    BY <2>1 DEF Asked
<1> QED
  BY <1>9, <1>10, <1>11 DEF c

\* The parts of what program_config_save() writes.
LEMMA WrittenParts ==
  ASSUME NEW c \in Config, Usable(c)
  PROVE  /\ Written(c) \in File
         /\ Written(c).command = c.command /\ Written(c).options = c.options
         /\ Written(c).mode = c.mode /\ Written(c).interval = c.interval
         /\ Written(c).continues = c.continues
         /\ \A i \in 1..3 : Written(c).stdio[i] =
              [kind |-> c.stdio[i].kind,
               name |-> IF c.stdio[i].kind = "file" THEN c.stdio[i].name ELSE Empty]
         /\ Written(c).fields = IF c.mode = "cron" THEN c.fields ELSE Empty
<1> DEFINE f == Written(c)
           Name(i) == IF c.stdio[i].kind = "file" THEN c.stdio[i].name ELSE Empty
<1>1. /\ f.command = c.command /\ f.options = c.options
      /\ f.mode = c.mode /\ f.interval = c.interval /\ f.continues = c.continues
      /\ f.stdio = [i \in 1..3 |-> [kind |-> c.stdio[i].kind, name |-> Name(i)]]
      /\ f.fields = IF c.mode = "cron" THEN c.fields ELSE Empty
      /\ f = [command |-> f.command, stdio |-> f.stdio, mode |-> f.mode,
              continues |-> f.continues, interval |-> f.interval, fields |-> f.fields, options |-> f.options]
  BY DEF Written, Config
<1>2. /\ c.command \in [1..4 -> Text] /\ c.options \in Seq(Option) /\ c.mode \in Mode
      /\ c.interval \in 0..IntervalLimit - 1 /\ c.continues \in Flag
      /\ \A i \in 1..3 : c.stdio[i].kind \in Kind
  BY DEF Config, Redirection
<1>3. \A i \in 1..3 : c.stdio[i].kind \in Word
  BY <1>2, InputAssumption
<1>4. c.mode \in Word /\ c.continues \in Word /\ c.interval \in Nat
  BY <1>2, Sizes, InputAssumption
<1>5. \A i \in 1..3 : Name(i) \in Text
  BY Sizes DEF Usable
<1> HIDE DEF Name
<1>6. f.stdio \in [1..3 -> [kind : Word, name : Text]]
  BY <1>1, <1>3, <1>5
<1>7. f.fields \in Text
  BY <1>1, Sizes DEF Usable
<1> HIDE DEF f
<1>8. f \in File
  BY <1>1, <1>2, <1>4, <1>6, <1>7 DEF File
<1> QED
  BY <1>1, <1>8 DEF f, Name

\* Saving a usable configuration (program_config_save) and loading it again
\* (program_config_load) changes nothing but a pipe for stderr.
THEOREM RoundTrip ==
  ASSUME NEW c \in Config, Usable(c)
  PROVE  Matches(Written(c), c)
<1> DEFINE f == Written(c)
<1>1. /\ f \in File
      /\ f.command = c.command /\ f.options = c.options
      /\ f.mode = c.mode /\ f.interval = c.interval /\ f.continues = c.continues
      /\ \A i \in 1..3 : f.stdio[i] =
           [kind |-> c.stdio[i].kind,
            name |-> IF c.stdio[i].kind = "file" THEN c.stdio[i].name ELSE Empty]
      /\ f.fields = IF c.mode = "cron" THEN c.fields ELSE Empty
  BY WrittenParts
<1> HIDE DEF f
<1>2. /\ Loaded(f).command = f.command /\ Loaded(f).options = f.options
      /\ Loaded(f).stdio = [i \in 1..3 |-> LoadedStdio(i, f.stdio[i])]
      /\ Loaded(f).mode = LoadedMode(f) /\ Loaded(f).interval = LoadedInterval(f)
      /\ Loaded(f).continues = LoadedContinues(f)
      /\ Loaded(f).fields = IF LoadedMode(f) = "cron" THEN f.fields ELSE None
  BY <1>1, LoadedParts
<1>3. c.mode \in Mode /\ c.interval \in 0..IntervalLimit - 1 /\ c.stdio \in [1..3 -> Redirection]
  BY DEF Config
<1>4. LoadedMode(f) = c.mode
  BY <1>1, <1>3 DEF LoadedMode, Usable
<1>5. Loaded(f).fields = c.fields
  BY <1>1, <1>2, <1>4 DEF Usable
<1>6. LoadedInterval(f) = c.interval
  <2>1. c.interval \in Int
    BY <1>3, Sizes
  <2>2. \A x \in 0..IntervalLimit - 1 : x % IntervalLimit = x
    BY Sizes
  <2>3. c.interval % IntervalLimit = c.interval
    BY <1>3, <2>2
  <2>4. f.interval # None
    BY <1>1, <1>3, Sizes
  <2> QED
    BY <1>1, <2>3, <2>4 DEF LoadedInterval
<1>7. \A i \in 1..3 : Loaded(f).stdio[i] = c.stdio[i] \/ (i = 3 /\ c.stdio[3].kind = "pipe")
  <2> SUFFICES ASSUME NEW i \in 1..3, ~ (i = 3 /\ c.stdio[3].kind = "pipe")
               PROVE  Loaded(f).stdio[i] = c.stdio[i]
    OBVIOUS
  <2> DEFINE r == c.stdio[i]
  <2>1. r \in Redirection
    BY <1>3
  <2>2. /\ r.kind = "file" <=> r.name \in Text
        /\ r.name # Empty
    BY DEF Usable
  <2>3. r.kind \notin Unsuitable(i)
    <3>1. CASE i \in 1..2
      BY <3>1 DEF Usable
    <3>2. CASE i = 3
      BY <3>2 DEF Unsuitable
    <3> QED
      BY <3>1, <3>2
  <2>4. f.stdio[i] = [kind |-> r.kind, name |-> IF r.kind = "file" THEN r.name ELSE Empty]
    BY <1>1
  <2>5. Loaded(f).stdio[i] = LoadedStdio(i, f.stdio[i])
    BY <1>2
  <2> HIDE DEF r
  <2>6. r = [kind |-> r.kind, name |-> r.name] /\ r.kind \in Kind /\ (r.kind # "file" => r.name = None)
    BY <2>1, <2>2 DEF Redirection
  <2>7. LoadedStdio(i, f.stdio[i]) = [kind |-> r.kind, name |-> IF r.kind = "file" THEN r.name ELSE None]
    BY <2>2, <2>3, <2>4, <2>6 DEF LoadedStdio
  <2> QED
    BY <2>5, <2>6, <2>7 DEF r
<1>8. SameOptions(Loaded(f).options, c.options)
  BY <1>1, <1>2 DEF SameOptions
<1>9. Loaded(f).continues = c.continues
  BY <1>1, <1>2 DEF LoadedContinues, Config
<1> QED
  BY <1>1, <1>2, <1>4, <1>5, <1>6, <1>7, <1>8, <1>9 DEF Matches, f

-----------------------------------------------------------------------------
(* What the operations have in common *)

\* Users have set nothing else, and nothing of what they set changes.
LEMMA StillAsked ==
  ASSUME Inv, config'.command = config.command, config'.stdio = config.stdio,
         config'.interval = config.interval, asked' = asked
  PROVE  Asked(config', asked')
BY DEF Inv, Asked

\* Nothing changes.
LEMMA Unchanged ==
  ASSUME Inv, UNCHANGED vars
  PROVE  Inv'
<1>1. /\ up' = up /\ program' = program /\ config' = config /\ asked' = asked /\ held' = held
      /\ stray' = stray /\ lost' = lost /\ directory' = directory /\ file' = file
  BY DEF vars
<1>2. Typed'
  BY <1>1 DEF Inv, Typed
<1>3. Usable(config)'
  BY <1>1 DEF Inv
<1>4. Counted'
  BY <1>1 DEF Inv, Counted
<1>5. Stored'
  BY <1>1 DEF Inv, Stored
<1>6. Asked(config', asked')
  BY <1>1 DEF Inv
<1> QED
  BY <1>2, <1>3, <1>4, <1>5, <1>6 DEF Inv

\* A failing operation that releases what it has acquired leaves everything
\* as it was.
LEMMA FailedClean ==
  ASSUME Inv, NEW new \in Seq(Place), NEW n \in 0..Len(new), FailedAfter(new, n, n),
         UNCHANGED stray
  PROVE  Inv'
<1> DEFINE s == SubSeq(new, 1, n)
<1>1. s \in Seq(Place)
  <2> DEFINE m == Len(new)
  <2>1. m \in Nat /\ n \in 0..m /\ \A i \in 1..m : new[i] \in Place
    OBVIOUS
  <2> HIDE DEF m
  <2>2. 1 \in Int /\ n \in Int /\ \A i \in 1..n : new[i] \in Place
    BY <2>1
  <2> QED
    BY <2>2, SubSeqProperties
<1>2. held \in [Text -> Nat]
  BY DEF Inv, Typed
<1>3. held' = Release(Acquire(held, s), s)
  BY DEF FailedAfter
<1> HIDE DEF s
<1>4. held' = held
  BY <1>1, <1>2, <1>3, AcquireRelease
<1> QED
  BY <1>4, Unchanged DEF FailedAfter, vars, disk

\* An operation that succeeds saves a configuration that can be used, and
\* exchanges references for those of the new configuration.
LEMMA Saved ==
  ASSUME Inv, Changeable, config' \in Config, Usable(config'), Len(config'.options) <= MaxOptions,
         held' = [t \in Text |-> held'[t]],
         \A t \in Text : held'[t] = (held[t] + HeldOf(config', t)) - HeldOf(config, t),
         Asked(config', asked'), Saves(config'), UNCHANGED <<up, program, stray, directory>>
  PROVE  Inv'
<1>1. /\ up \in BOOLEAN /\ program = "loaded" /\ directory = "full"
      /\ config \in Config /\ held \in [Text -> Nat] /\ stray \in [Text -> Nat]
  BY DEF Inv, Typed, Stored, Changeable
<1>2. file' = Written(config') /\ lost' = FALSE
  BY DEF Saves
<1>3. Counted'
  <2> SUFFICES ASSUME NEW t \in Text
               PROVE  held'[t] = stray[t] + HeldOf(config', t)
    BY <1>1 DEF Counted
  <2>1. held[t] = stray[t] + HeldOf(config, t)
    BY <1>1 DEF Inv, Counted
  <2>2. HeldOf(config, t) \in Nat /\ HeldOf(config', t) \in Nat /\ stray[t] \in Nat
    BY <1>1, UsesCounted
  <2> QED
    BY <2>1, <2>2
<1>4. held' \in [Text -> Nat]
  <2>1. \A t \in Text : held'[t] = stray[t] + HeldOf(config', t)
    BY <1>1, <1>3 DEF Counted
  <2>2. \A t \in Text : HeldOf(config', t) \in Nat /\ stray[t] \in Nat
    BY <1>1, UsesCounted
  <2> QED
    BY <2>1, <2>2
<1>5. Written(config') \in File /\ Written(config').options = config'.options
  BY WrittenParts
<1>6. Typed'
  BY <1>1, <1>2, <1>4, <1>5 DEF Typed, Usable
<1>7. Stored'
  <2>1. Matches(file', config')
    BY <1>2, RoundTrip
  <2> QED
    BY <1>1, <2>1 DEF Stored, Changeable
<1> QED
  BY <1>3, <1>6, <1>7 DEF Inv

-----------------------------------------------------------------------------
(* Command, redirections and schedule *)

\* What is known of the configuration of a program that can be changed.
LEMMA ConfigParts ==
  ASSUME Inv
  PROVE  /\ config \in Config /\ Usable(config) /\ Len(config.options) <= MaxOptions
         /\ config.command \in [1..4 -> Text] /\ config.stdio \in [1..3 -> Redirection]
         /\ config.mode \in Mode /\ config.interval \in 0..IntervalLimit - 1
         /\ config.continues \in Flag /\ config.fields \in Place /\ config.options \in Seq(Option)
         /\ held \in [Text -> Nat] /\ stray \in [Text -> Nat]
BY DEF Inv, Typed, Config

\* program_set_command() succeeds.
LEMMA SetCommandKeeps ==
  ASSUME Inv, NEW c \in CommandInput, SetCommand(c)
  PROVE  Inv'
<1>1. c \in [1..4 -> Text] /\ c \in [1..4 -> Place]
  BY InputAssumption DEF Place
<1>2. c \in Seq(Place) /\ config.command \in Seq(Place)
  BY <1>1, ConfigParts, Parts, FunctionIsSeq
<1>3. /\ config' = [config EXCEPT !.command = c]
      /\ held' = Release(Acquire(held, c), config.command)
  BY DEF SetCommand
<1>4. /\ config'.command = c /\ config'.stdio = config.stdio /\ config'.mode = config.mode
      /\ config'.interval = config.interval /\ config'.fields = config.fields
      /\ config'.options = config.options /\ config' \in Config
  BY <1>1, <1>3, ConfigParts DEF Config
<1>5. Usable(config')
  BY <1>4, ConfigParts DEF Usable
<1>6. \A t \in Text : held'[t] = (held[t] + HeldOf(config', t)) - HeldOf(config, t)
  <2> SUFFICES ASSUME NEW t \in Text
               PROVE  held'[t] = (held[t] + HeldOf(config', t)) - HeldOf(config, t)
    OBVIOUS
  <2>1. held'[t] = (held[t] + Count(c, t)) - Count(config.command, t)
    BY <1>3 DEF Acquire, Release
  <2>2. /\ Count(c, t) \in Nat /\ Count(config.command, t) \in Nat
        /\ Count(FileNames(config.stdio), t) \in Nat
        /\ Count(Fields(config.mode, config.fields), t) \in Nat
        /\ Count(OptionNames(config.options), t) \in Nat
        /\ Count(OptionValues(config.options), t) \in Nat /\ held[t] \in Nat
    BY <1>2, ConfigParts, Parts, CountType
  <2> QED
    BY <1>4, <2>1, <2>2 DEF HeldOf
<1>7. held' = [t \in Text |-> held'[t]]
  BY <1>3 DEF Release
<1>8. Len(config'.options) <= MaxOptions
  BY <1>4, ConfigParts
<1>9. Asked(config', asked')
  BY <1>4 DEF SetCommand, Inv, Asked
<1> QED
  BY <1>4, <1>5, <1>6, <1>7, <1>8, <1>9, Saved DEF SetCommand

\* program_set_command() refuses an empty working directory that it has
\* acquired.
LEMMA EmptyDirectoryKeeps ==
  ASSUME Inv, NEW c \in CommandInput, EmptyDirectory(c)
  PROVE  Inv'
<1> DEFINE p == SubSeq(c, 1, 3)
           q == SubSeq(c, 1, 4)
<1>1. c \in [1..4 -> Place] /\ c[4] \in Text
  BY InputAssumption DEF Place
<1>2. c \in Seq(Place) /\ Len(c) = 4 /\ \A i \in 1..4 : c[i] \in Place
  BY <1>1, FunctionIsSeq
<1>3. p \in Seq(Place) /\ Len(p) = 3 /\ \A i \in 1..3 : p[i] = c[i]
  <2>1. 1 \in Int /\ 3 \in Int /\ \A i \in 1..3 : c[i] \in Place
    BY <1>2
  <2>2. /\ p \in Seq(Place) /\ Len(p) = IF 1 <= 3 THEN 3 - 1 + 1 ELSE 0
        /\ \A i \in 1..(3 - 1 + 1) : p[i] = c[1 + i - 1]
    BY <2>1, SubSeqProperties
  <2> HIDE DEF p
  <2> QED
    BY <2>2
<1>4. q = c
  <2>1. 1 \in Int /\ 4 \in Int /\ \A i \in 1..4 : c[i] \in Place
    BY <1>2
  <2>2. /\ q \in Seq(Place) /\ Len(q) = IF 1 <= 4 THEN 4 - 1 + 1 ELSE 0
        /\ \A i \in 1..(4 - 1 + 1) : q[i] = c[1 + i - 1]
    BY <2>1, SubSeqProperties
  <2> HIDE DEF q
  <2>3. Len(q) = 4 /\ \A i \in 1..4 : q[i] = c[i]
    BY <2>2
  <2> QED
    BY <1>2, <2>2, <2>3, SeqEqual
<1>5. held' = Release(Acquire(held, q), p) /\ stray' = Acquire(stray, <<c[4]>>)
  BY DEF EmptyDirectory, FailedAfter
<1> HIDE DEF p, q
<1>6. \A t \in Text : held'[t] = held[t] + (IF c[4] = t THEN 1 ELSE 0)
  <2> SUFFICES ASSUME NEW t \in Text
               PROVE  held'[t] = held[t] + (IF c[4] = t THEN 1 ELSE 0)
    OBVIOUS
  <2>1. Count(c, t) = Count(p, t) + (IF c[4] = t THEN 1 ELSE 0)
    <3> DEFINE i == 4
    <3>1. c \in Seq(Place) /\ i \in 1..Len(c) /\ Dropped(c, i, p)
      BY <1>2, <1>3 DEF Dropped
    <3> HIDE DEF i
    <3>2. Count(c, t) = Count(p, t) + (IF c[i] = t THEN 1 ELSE 0)
      BY <3>1, CountDrop
    <3> QED
      BY <3>2 DEF i
  <2>2. Count(p, t) \in Nat /\ held[t] \in Nat
    BY <1>3, CountType, ConfigParts
  <2>3. held'[t] = (held[t] + Count(c, t)) - Count(p, t)
    BY <1>4, <1>5 DEF Acquire, Release
  <2> QED
    BY <2>1, <2>2, <2>3
<1>7. \A t \in Text : stray'[t] = stray[t] + (IF c[4] = t THEN 1 ELSE 0)
  <2>1. \A t \in Text : Count(<<c[4]>>, t) = IF c[4] = t THEN 1 ELSE 0
    BY <1>2, CountSingle
  <2> QED
    BY <1>5, <2>1 DEF Acquire
<1>8. \A t \in Text : held[t] \in Nat /\ stray[t] \in Nat
  BY ConfigParts
<1>9. held' \in [Text -> Nat] /\ stray' \in [Text -> Nat]
  <2>1. held' = [t \in Text |-> held'[t]] /\ stray' = [t \in Text |-> stray'[t]]
    BY <1>5 DEF Acquire, Release
  <2> QED
    BY <1>6, <1>7, <1>8, <2>1
<1>10. /\ up' = up /\ program' = program /\ config' = config /\ asked' = asked /\ lost' = lost
       /\ directory' = directory /\ file' = file
  BY DEF EmptyDirectory, FailedAfter, disk
<1>11. Typed'
  BY <1>9, <1>10 DEF Inv, Typed
<1>12. Counted'
  <2> SUFFICES ASSUME NEW t \in Text
               PROVE  held'[t] = stray'[t] + (IF program = "none" THEN 0 ELSE HeldOf(config, t))
    BY <1>10 DEF Counted
  <2>1. held[t] = stray[t] + (IF program = "none" THEN 0 ELSE HeldOf(config, t))
    BY DEF Inv, Counted
  <2>2. HeldOf(config, t) \in Nat
    BY ConfigParts, UsesCounted
  <2> QED
    BY <1>6, <1>7, <1>8, <2>1, <2>2
<1>13. Usable(config)' /\ Stored' /\ Asked(config', asked')
  BY <1>10 DEF Inv, Stored
<1> QED
  BY <1>11, <1>12, <1>13 DEF Inv

\* Every other failure of program_set_command().
LEMMA SetCommandFailsKeeps ==
  ASSUME Inv, NEW c \in CommandInput, SetCommandFails(c)
  PROVE  Inv'
<1>1. c \in [1..4 -> Place]
  BY InputAssumption DEF Place
<1>2. c \in Seq(Place) /\ Len(c) = 4
  BY <1>1, FunctionIsSeq
<1>3. CASE UNCHANGED stray /\ \E n \in 0..4 : FailedAfter(c, n, n)
  BY <1>2, <1>3, FailedClean
<1>4. CASE EmptyDirectory(c)
  BY <1>4, EmptyDirectoryKeeps
<1>5. ASSUME NEW k \in 1..4, FailedAfter(c, k - 1, k - 1)
      PROVE  \E n \in 0..4 : FailedAfter(c, n, n)
  BY <1>5
<1>6. FailedAfter(c, 1, 1) \/ FailedAfter(c, 4, 4) => \E n \in 0..4 : FailedAfter(c, n, n)
  OBVIOUS
<1> QED
  BY <1>3, <1>4, <1>5, <1>6 DEF SetCommandFails

\* program_set_stdio_redirection() succeeds.
LEMMA SetStdioKeeps ==
  ASSUME Inv, NEW r \in StdioInput, SetStdio(r)
  PROVE  Inv'
<1> DEFINE s == [i \in 1..3 |-> [r[i] EXCEPT !.name = IF r[i].kind = "file" THEN @ ELSE None]]
<1>1. r \in [1..3 -> [kind : Kind, name : Text]]
  BY InputAssumption
<1>2. \A i \in 1..3 : /\ s[i] \in Redirection /\ s[i].kind = r[i].kind
                      /\ s[i].name = IF r[i].kind = "file" THEN r[i].name ELSE None
  <2> SUFFICES ASSUME NEW i \in 1..3
               PROVE  /\ s[i] \in Redirection /\ s[i].kind = r[i].kind
                      /\ s[i].name = IF r[i].kind = "file" THEN r[i].name ELSE None
    OBVIOUS
  <2>1. r[i] \in [kind : Kind, name : Text]
    BY <1>1
  <2>2. s[i] = [r[i] EXCEPT !.name = IF r[i].kind = "file" THEN r[i].name ELSE None]
    OBVIOUS
  <2> HIDE DEF s
  <2> QED
    BY <2>1, <2>2 DEF Redirection
<1>3. s \in [1..3 -> Redirection]
  BY <1>2
<1>4. /\ config' = [config EXCEPT !.stdio = s]
      /\ held' = Release(Acquire(held, FileNames(r)), FileNames(config.stdio))
      /\ ~ Refused(r) /\ NamesGiven(r, 3)
  BY DEF SetStdio
<1>5. FileNames(r) = FileNames(s)
  <2>1. DOMAIN r = 1..3 /\ DOMAIN s = 1..3
    BY <1>1
  <2>2. \A i \in 1..3 : (IF r[i].kind = "file" THEN r[i].name ELSE None)
                          = (IF s[i].kind = "file" THEN s[i].name ELSE None)
    BY <1>2
  <2> HIDE DEF s
  <2> QED
    BY <2>1, <2>2 DEF FileNames
<1> HIDE DEF s
<1>6. /\ config'.command = config.command /\ config'.stdio = s /\ config'.mode = config.mode
      /\ config'.interval = config.interval /\ config'.fields = config.fields
      /\ config'.options = config.options /\ config' \in Config
  BY <1>3, <1>4, ConfigParts DEF Config
<1>7. Usable(config')
  <2>1. \A i \in 1..2 : s[i].kind \notin Unsuitable(i)
    BY <1>2, <1>4 DEF Refused
  <2>2. \A i \in 1..3 : (s[i].kind = "file" <=> s[i].name \in Text) /\ s[i].name # Empty
    <3> SUFFICES ASSUME NEW i \in 1..3
                 PROVE  (s[i].kind = "file" <=> s[i].name \in Text) /\ s[i].name # Empty
      OBVIOUS
    <3>1. r[i].name \in Text /\ (r[i].kind = "file" => r[i].name # Empty)
      BY <1>1, <1>4 DEF NamesGiven
    <3>2. None \notin Text /\ Empty \in Text
      BY Sizes
    <3> QED
      BY <1>2, <3>1, <3>2
  <2> QED
    BY <1>6, <2>1, <2>2, ConfigParts DEF Usable
<1>8. \A t \in Text : held'[t] = (held[t] + HeldOf(config', t)) - HeldOf(config, t)
  <2> SUFFICES ASSUME NEW t \in Text
               PROVE  held'[t] = (held[t] + HeldOf(config', t)) - HeldOf(config, t)
    OBVIOUS
  <2>1. held'[t] = (held[t] + Count(FileNames(s), t)) - Count(FileNames(config.stdio), t)
    BY <1>4, <1>5 DEF Acquire, Release
  <2>2. /\ Count(config.command, t) \in Nat /\ Count(FileNames(config.stdio), t) \in Nat
        /\ Count(Fields(config.mode, config.fields), t) \in Nat
        /\ Count(OptionNames(config.options), t) \in Nat
        /\ Count(OptionValues(config.options), t) \in Nat /\ held[t] \in Nat
    BY ConfigParts, Parts, CountType
  <2>3. Count(FileNames(s), t) \in Nat
    BY <1>6, Parts, CountType
  <2> QED
    BY <1>6, <2>1, <2>2, <2>3 DEF HeldOf
<1>9. held' = [t \in Text |-> held'[t]]
  BY <1>4 DEF Release
<1>10. Len(config'.options) <= MaxOptions
  BY <1>6, ConfigParts
<1>11. Asked(config', asked')
  BY <1>6 DEF SetStdio, Inv, Asked
<1> QED
  BY <1>6, <1>7, <1>8, <1>9, <1>10, <1>11, Saved DEF SetStdio

\* program_set_stdio_redirection() fails.
LEMMA SetStdioFailsKeeps ==
  ASSUME Inv, NEW r \in StdioInput, SetStdioFails(r)
  PROVE  Inv'
<1>1. r \in [1..3 -> [kind : Kind, name : Text]]
  BY InputAssumption
<1>2. FileNames(r) \in [1..3 -> Place]
  BY <1>1 DEF FileNames, Place
<1>3. FileNames(r) \in Seq(Place) /\ Len(FileNames(r)) = 3
  BY <1>2, FunctionIsSeq
<1>4. UNCHANGED stray
  BY DEF SetStdioFails
<1>5. CASE FailedAfter(<<>>, 0, 0)
  <2>1. <<>> \in Seq(Place) /\ 0 \in 0..Len(<<>>)
    OBVIOUS
  <2> QED
    BY <1>4, <1>5, <2>1, FailedClean
<1>6. CASE \E n \in 0..3 : FailedAfter(FileNames(r), n, n)
  BY <1>3, <1>4, <1>6, FailedClean
<1>7. ASSUME NEW k \in 1..3, FailedAfter(FileNames(r), k - 1, k - 1) \/ FailedAfter(FileNames(r), k, k)
      PROVE  \E n \in 0..3 : FailedAfter(FileNames(r), n, n)
  <2>1. k - 1 \in 0..3 /\ k \in 0..3
    OBVIOUS
  <2> QED
    BY <1>7, <2>1
<1>8. FailedAfter(FileNames(r), 3, 3) => \E n \in 0..3 : FailedAfter(FileNames(r), n, n)
  OBVIOUS
<1> QED
  BY <1>5, <1>6, <1>7, <1>8 DEF SetStdioFails

\* program_set_schedule() succeeds.
LEMMA SetScheduleKeeps ==
  ASSUME Inv, NEW s \in ScheduleInput, SetSchedule(s)
  PROVE  Inv'
<1> DEFINE new == Fields(s.mode, s.fields)
           old == Fields(config.mode, config.fields)
<1>1. /\ s.mode \in Mode /\ s.continues \in Flag /\ s.interval \in 0..IntervalLimit - 1
      /\ s.fields \in Text
  BY InputAssumption
<1>2. /\ config' = [config EXCEPT !.mode = s.mode, !.continues = s.continues,
                                  !.interval = s.interval,
                                  !.fields = IF s.mode = "cron" THEN s.fields ELSE None]
      /\ held' = Release(Acquire(held, new), old)
      /\ s.mode = "cron" => s.fields # Empty
  BY DEF SetSchedule
<1>3. /\ config'.command = config.command /\ config'.stdio = config.stdio /\ config'.mode = s.mode
      /\ config'.fields = IF s.mode = "cron" THEN s.fields ELSE None
      /\ config'.interval = s.interval
      /\ config'.options = config.options /\ config' \in Config
  BY <1>1, <1>2, ConfigParts DEF Config, Place
<1>4. Usable(config')
  BY <1>1, <1>2, <1>3, ConfigParts DEF Usable
<1>5. Fields(config'.mode, config'.fields) = new
  BY <1>3 DEF Fields
<1>6. \A t \in Text : held'[t] = (held[t] + HeldOf(config', t)) - HeldOf(config, t)
  <2> SUFFICES ASSUME NEW t \in Text
               PROVE  held'[t] = (held[t] + HeldOf(config', t)) - HeldOf(config, t)
    OBVIOUS
  <2>1. held'[t] = (held[t] + Count(new, t)) - Count(old, t)
    BY <1>2 DEF Acquire, Release
  <2>2. /\ Count(config.command, t) \in Nat /\ Count(FileNames(config.stdio), t) \in Nat
        /\ Count(old, t) \in Nat
        /\ Count(OptionNames(config.options), t) \in Nat
        /\ Count(OptionValues(config.options), t) \in Nat /\ held[t] \in Nat
    BY ConfigParts, Parts, CountType
  <2>3. Count(new, t) \in Nat
    BY <1>3, <1>5, Parts, CountType
  <2> HIDE DEF new
  <2> QED
    BY <1>3, <1>5, <2>1, <2>2, <2>3 DEF HeldOf
<1>7. held' = [t \in Text |-> held'[t]]
  BY <1>2 DEF Release
<1>8. Len(config'.options) <= MaxOptions
  BY <1>3, ConfigParts
<1>9. Asked(config', asked')
  BY <1>3 DEF SetSchedule, Inv, Asked
<1> QED
  BY <1>3, <1>4, <1>6, <1>7, <1>8, <1>9, Saved DEF SetSchedule

\* program_set_schedule() fails.
LEMMA SetScheduleFailsKeeps ==
  ASSUME Inv, NEW s \in ScheduleInput, SetScheduleFails(s)
  PROVE  Inv'
<1> DEFINE new == Fields(s.mode, s.fields)
<1>1. s.fields \in Place
  BY InputAssumption DEF Place
<1>2. <<>> \in Seq(Place) /\ 0 \in 0..Len(<<>>) /\ <<s.fields>> \in Seq(Place)
  BY <1>1
<1>3. new \in Seq(Place)
  BY <1>2 DEF Fields
<1>4. UNCHANGED stray /\ (FailedAfter(<<>>, 0, 0) \/ FailedAfter(new, Len(new), Len(new)))
  BY DEF SetScheduleFails
<1> HIDE DEF new
<1>5. Len(new) \in 0..Len(new)
  BY <1>3
<1> QED
  BY <1>2, <1>3, <1>4, <1>5, FailedClean

-----------------------------------------------------------------------------
(* Custom options *)

\* program_find_custom_option() finds a key, or there is none.
LEMMA Found ==
  ASSUME NEW o \in Seq(Option), NEW key
  PROVE  \/ /\ FindOption(o, key) \in 1..Len(o) /\ o[FindOption(o, key)].key = key
            /\ FindOption(o, key) # 0
         \/ FindOption(o, key) = 0 /\ \A i \in 1..Len(o) : o[i].key # key
<1> DEFINE m == Len(o)
<1>1. DOMAIN o = 1..m /\ m \in Nat
  OBVIOUS
<1> HIDE DEF m
<1>2. CASE \E i \in 1..m : o[i].key = key
  <2>1. FindOption(o, key) = CHOOSE i \in 1..m : o[i].key = key
    BY <1>1, <1>2 DEF FindOption
  <2>2. FindOption(o, key) \in 1..m /\ o[FindOption(o, key)].key = key
    BY <1>2, <2>1
  <2> QED
    BY <1>1, <2>2 DEF m
<1>3. CASE ~ \E i \in 1..m : o[i].key = key
  <2>1. FindOption(o, key) = 0
    BY <1>1, <1>3 DEF FindOption
  <2> QED
    BY <1>3, <2>1 DEF m
<1> QED
  BY <1>2, <1>3

\* Another configuration that differs in its options only.
LEMMA OtherParts ==
  ASSUME NEW c \in Config, NEW o, NEW d, d = [c EXCEPT !.options = o]
  PROVE  d.command = c.command /\ d.stdio = c.stdio /\ d.interval = c.interval
BY DEF Config

\* The references of another configuration that differs in its options only.
LEMMA OtherOptions ==
  ASSUME NEW c \in Config, NEW o \in Seq(Option), NEW d, d = [c EXCEPT !.options = o]
  PROVE  /\ d \in Config /\ d.options = o
         /\ (Usable(c) /\ OneOfAKind(o) => Usable(d))
         /\ \A t : HeldOf(d, t) =
              ((HeldOf(c, t) - Count(OptionNames(c.options), t)) - Count(OptionValues(c.options), t))
              + Count(OptionNames(o), t) + Count(OptionValues(o), t)
<1>1. /\ d.command = c.command /\ d.stdio = c.stdio /\ d.mode = c.mode /\ d.interval = c.interval
      /\ d.fields = c.fields /\ d.options = o /\ d \in Config
  BY DEF Config
<1>2. Usable(c) /\ OneOfAKind(o) => Usable(d)
  BY <1>1 DEF Usable
<1>3. ASSUME NEW t
      PROVE  HeldOf(d, t) =
               ((HeldOf(c, t) - Count(OptionNames(c.options), t)) - Count(OptionValues(c.options), t))
               + Count(OptionNames(o), t) + Count(OptionValues(o), t)
  <2>1. /\ Count(c.command, t) \in Nat /\ Count(FileNames(c.stdio), t) \in Nat
        /\ Count(Fields(c.mode, c.fields), t) \in Nat
        /\ Count(OptionNames(c.options), t) \in Nat /\ Count(OptionValues(c.options), t) \in Nat
    BY Parts, CountType
  <2>2. Count(OptionNames(o), t) \in Nat /\ Count(OptionValues(o), t) \in Nat
    BY <1>1, Parts, CountType
  <2> QED
    BY <1>1, <2>1, <2>2 DEF HeldOf
<1> QED
  BY <1>1, <1>2, <1>3

\* The names and values of options as sequences.
LEMMA NamesAndValues ==
  ASSUME NEW o \in Seq(Option)
  PROVE  /\ Len(o) \in Nat /\ DOMAIN o = 1..Len(o) /\ \A i \in 1..Len(o) : o[i] \in Option
         /\ OptionNames(o) \in Seq(Place) /\ Len(OptionNames(o)) = Len(o)
         /\ OptionValues(o) \in Seq(Place) /\ Len(OptionValues(o)) = Len(o)
         /\ \A i \in 1..Len(o) : OptionNames(o)[i] = o[i].name /\ OptionValues(o)[i] = o[i].value
<1> DEFINE m == Len(o)
<1>1. m \in Nat /\ DOMAIN o = 1..m /\ \A i \in 1..m : o[i] \in Option
  OBVIOUS
<1> HIDE DEF m
<1>2. \A i \in 1..m : o[i].name \in Place /\ o[i].value \in Place
  BY <1>1 DEF Option, Place
<1>3. OptionNames(o) \in [1..m -> Place] /\ OptionValues(o) \in [1..m -> Place]
  BY <1>1, <1>2 DEF OptionNames, OptionValues
<1>4. \A i \in 1..m : OptionNames(o)[i] = o[i].name /\ OptionValues(o)[i] = o[i].value
  BY <1>1 DEF OptionNames, OptionValues
<1>5. /\ OptionNames(o) \in Seq(Place) /\ Len(OptionNames(o)) = m
      /\ OptionValues(o) \in Seq(Place) /\ Len(OptionValues(o)) = m
  BY <1>1, <1>3, FunctionIsSeq
<1> QED
  BY <1>1, <1>4, <1>5 DEF m

\* Names and values are texts.
LEMMA OptionTexts ==
  ASSUME NEW o \in Seq(Option)
  PROVE  \A i \in DOMAIN o : {o[i].name, o[i].value} \subseteq Text
<1> SUFFICES ASSUME NEW i \in DOMAIN o
             PROVE  {o[i].name, o[i].value} \subseteq Text
  OBVIOUS
<1>1. o[i] \in Option
  BY NamesAndValues
<1>2. o[i].name \in Text /\ o[i].value \in Text
  BY <1>1 DEF Option
<1> QED
  BY <1>2

\* An option that is appended.
LEMMA AppendedOption ==
  ASSUME NEW o \in Seq(Option), NEW x \in Option
  PROVE  /\ Append(o, x) \in Seq(Option) /\ Len(Append(o, x)) = Len(o) + 1
         /\ (OneOfAKind(o) /\ (\A i \in 1..Len(o) : o[i].key # x.key) => OneOfAKind(Append(o, x)))
         /\ \A t : /\ Count(OptionNames(Append(o, x)), t)
                        = Count(OptionNames(o), t) + (IF x.name = t THEN 1 ELSE 0)
                   /\ Count(OptionValues(Append(o, x)), t)
                        = Count(OptionValues(o), t) + (IF x.value = t THEN 1 ELSE 0)
<1> DEFINE p == Append(o, x)
           m == Len(o)
<1>1. /\ p \in Seq(Option) /\ Len(p) = m + 1
      /\ \A i \in 1..m : p[i] = o[i]
      /\ p[m + 1] = x
  BY AppendProperties
<1>2. m \in Nat /\ x.name \in Place /\ x.value \in Place
  BY DEF Option, Place
<1>3. /\ OptionNames(o) \in Seq(Place) /\ Len(OptionNames(o)) = m
      /\ OptionValues(o) \in Seq(Place) /\ Len(OptionValues(o)) = m /\ DOMAIN o = 1..m
      /\ \A i \in 1..m : OptionNames(o)[i] = o[i].name /\ OptionValues(o)[i] = o[i].value
  BY NamesAndValues
<1> HIDE DEF p, m
<1>4. /\ OptionNames(p) \in Seq(Place) /\ Len(OptionNames(p)) = m + 1
      /\ OptionValues(p) \in Seq(Place) /\ Len(OptionValues(p)) = m + 1 /\ DOMAIN p = 1..(m + 1)
      /\ \A i \in 1..(m + 1) : OptionNames(p)[i] = p[i].name /\ OptionValues(p)[i] = p[i].value
  BY <1>1, NamesAndValues
<1>5. OptionNames(p) = Append(OptionNames(o), x.name)
  <2> DEFINE a == OptionNames(o)
             b == OptionNames(p)
             c == Append(a, x.name)
  <2>1. /\ a \in Seq(Place) /\ Len(a) = m /\ b \in Seq(Place) /\ Len(b) = m + 1
        /\ \A i \in 1..m : b[i] = a[i]
        /\ b[m + 1] = x.name
    <3>1. m + 1 \in 1..(m + 1) /\ \A i \in 1..m : i \in 1..(m + 1)
      BY <1>2
    <3> QED
      BY <1>1, <1>3, <1>4, <3>1
  <2> HIDE DEF a, b
  <2>2. /\ c \in Seq(Place) /\ Len(c) = m + 1 /\ c[m + 1] = x.name
        /\ \A i \in 1..m : c[i] = a[i]
    BY <1>2, <2>1, AppendProperties
  <2> HIDE DEF c
  <2>3. \A i \in 1..(m + 1) : b[i] = c[i]
    BY <1>2, <2>1, <2>2
  <2>4. b = c
    BY <2>1, <2>2, <2>3, SeqEqual
  <2> QED
    BY <2>4 DEF a, b, c
<1>6. OptionValues(p) = Append(OptionValues(o), x.value)
  <2> DEFINE a == OptionValues(o)
             b == OptionValues(p)
             c == Append(a, x.value)
  <2>1. /\ a \in Seq(Place) /\ Len(a) = m /\ b \in Seq(Place) /\ Len(b) = m + 1
        /\ \A i \in 1..m : b[i] = a[i]
        /\ b[m + 1] = x.value
    <3>1. m + 1 \in 1..(m + 1) /\ \A i \in 1..m : i \in 1..(m + 1)
      BY <1>2
    <3> QED
      BY <1>1, <1>3, <1>4, <3>1
  <2> HIDE DEF a, b
  <2>2. /\ c \in Seq(Place) /\ Len(c) = m + 1 /\ c[m + 1] = x.value
        /\ \A i \in 1..m : c[i] = a[i]
    BY <1>2, <2>1, AppendProperties
  <2> HIDE DEF c
  <2>3. \A i \in 1..(m + 1) : b[i] = c[i]
    BY <1>2, <2>1, <2>2
  <2>4. b = c
    BY <2>1, <2>2, <2>3, SeqEqual
  <2> QED
    BY <2>4 DEF a, b, c
<1>7. OneOfAKind(o) /\ (\A i \in 1..m : o[i].key # x.key) => OneOfAKind(p)
  <2> SUFFICES ASSUME OneOfAKind(o), \A i \in 1..m : o[i].key # x.key,
                      NEW i \in 1..(m + 1), NEW j \in 1..(m + 1), p[i].key = p[j].key
               PROVE  i = j
    BY <1>4 DEF OneOfAKind
  <2>1. \A k, l \in 1..m : o[k].key = o[l].key => k = l
    BY <1>3 DEF OneOfAKind
  <2>2. (i \in 1..m \/ i = m + 1) /\ (j \in 1..m \/ j = m + 1)
    BY <1>2
  <2> QED
    BY <1>1, <2>1, <2>2
<1>8. ASSUME NEW t
      PROVE  /\ Count(OptionNames(p), t) = Count(OptionNames(o), t) + (IF x.name = t THEN 1 ELSE 0)
             /\ Count(OptionValues(p), t) = Count(OptionValues(o), t) + (IF x.value = t THEN 1 ELSE 0)
  BY <1>2, <1>3, <1>5, <1>6, CountAppend
<1> QED
  BY <1>1, <1>7, <1>8 DEF p, m

\* An option that is removed.
LEMMA RemovedOption ==
  ASSUME NEW o \in Seq(Option), NEW i \in 1..Len(o)
  PROVE  /\ RemoveAt(o, i) \in Seq(Option) /\ Len(RemoveAt(o, i)) = Len(o) - 1
         /\ (OneOfAKind(o) => /\ OneOfAKind(RemoveAt(o, i))
                              /\ \A j \in 1..(Len(o) - 1) : RemoveAt(o, i)[j].key # o[i].key)
         /\ {RemoveAt(o, i)[j] : j \in 1..(Len(o) - 1)} \cup {o[i]} = {o[j] : j \in 1..Len(o)}
         /\ \A t : /\ Count(OptionNames(o), t)
                        = Count(OptionNames(RemoveAt(o, i)), t) + (IF o[i].name = t THEN 1 ELSE 0)
                   /\ Count(OptionValues(o), t)
                        = Count(OptionValues(RemoveAt(o, i)), t) + (IF o[i].value = t THEN 1 ELSE 0)
<1> DEFINE p == RemoveAt(o, i)
           m == Len(o)
           Old(j) == IF j < i THEN j ELSE j + 1
<1>1. /\ p \in Seq(Option) /\ Len(p) = m - 1
      /\ \A j \in 1..(m - 1) : p[j] = o[IF j < i THEN j ELSE j + 1]
  BY RemoveAtPlaces
<1>2. m \in Nat /\ i \in 1..m
  OBVIOUS
<1>3. /\ OptionNames(o) \in Seq(Place) /\ Len(OptionNames(o)) = m
      /\ OptionValues(o) \in Seq(Place) /\ Len(OptionValues(o)) = m /\ DOMAIN o = 1..m
      /\ \A j \in 1..m : OptionNames(o)[j] = o[j].name /\ OptionValues(o)[j] = o[j].value
  BY NamesAndValues
<1> HIDE DEF p, m
<1>4. /\ OptionNames(p) \in Seq(Place) /\ Len(OptionNames(p)) = m - 1
      /\ OptionValues(p) \in Seq(Place) /\ Len(OptionValues(p)) = m - 1 /\ DOMAIN p = 1..(m - 1)
      /\ \A j \in 1..(m - 1) : OptionNames(p)[j] = p[j].name /\ OptionValues(p)[j] = p[j].value
  BY <1>1, NamesAndValues
<1>5. \A j \in 1..(m - 1) : Old(j) \in 1..m /\ Old(j) # i
  BY <1>2
<1>6. \A j, k \in 1..(m - 1) : Old(j) = Old(k) => j = k
  BY <1>2
<1>7. \A j \in 1..(m - 1) : p[j] = o[Old(j)]
  BY <1>1
<1>8. \A k \in 1..m : k # i => \E j \in 1..(m - 1) : Old(j) = k
  <2> SUFFICES ASSUME NEW k \in 1..m, k # i
               PROVE  \E j \in 1..(m - 1) : Old(j) = k
    OBVIOUS
  <2>1. CASE k < i
    <3>1. k \in 1..(m - 1) /\ Old(k) = k
      BY <1>2, <2>1
    <3> QED
      BY <3>1
  <2>2. CASE ~ (k < i)
    <3>1. k - 1 \in 1..(m - 1) /\ Old(k - 1) = k
      BY <1>2, <2>2
    <3> QED
      BY <3>1
  <2> QED
    BY <2>1, <2>2
<1>9. \A j \in 1..(m - 1) : /\ OptionNames(p)[j] = OptionNames(o)[IF j < i THEN j ELSE j + 1]
                            /\ OptionValues(p)[j] = OptionValues(o)[IF j < i THEN j ELSE j + 1]
  <2>1. \A j \in 1..(m - 1) : /\ OptionNames(p)[j] = OptionNames(o)[Old(j)]
                              /\ OptionValues(p)[j] = OptionValues(o)[Old(j)]
    <3> HIDE DEF Old
    <3> QED
      BY <1>3, <1>4, <1>5, <1>7
  <2> QED
    BY <2>1
<1> HIDE DEF Old
<1>10. OneOfAKind(o) => OneOfAKind(p) /\ \A j \in 1..(m - 1) : p[j].key # o[i].key
  <2> SUFFICES ASSUME OneOfAKind(o)
               PROVE  OneOfAKind(p) /\ \A j \in 1..(m - 1) : p[j].key # o[i].key
    OBVIOUS
  <2>1. \A k, l \in 1..m : o[k].key = o[l].key => k = l
    BY <1>3 DEF OneOfAKind
  <2>2. \A j \in 1..(m - 1) : p[j].key # o[i].key
    BY <1>2, <1>5, <1>7, <2>1
  <2>3. \A j, k \in 1..(m - 1) : p[j].key = p[k].key => j = k
    BY <1>5, <1>6, <1>7, <2>1
  <2> QED
    BY <1>4, <2>2, <2>3 DEF OneOfAKind
<1>11. {p[j] : j \in 1..(m - 1)} \cup {o[i]} = {o[j] : j \in 1..m}
  <2> DEFINE A == {p[j] : j \in 1..(m - 1)}
             B == {o[j] : j \in 1..m}
  <2>1. A \subseteq B
    <3>1. \A j \in 1..(m - 1) : Old(j) \in 1..m /\ p[j] = o[Old(j)]
      BY <1>5, <1>7
    <3> QED
      BY <3>1
  <2>2. o[i] \in B
    BY <1>2
  <2>3. ASSUME NEW k \in 1..m, k # i
        PROVE  o[k] \in A
    <3>1. PICK j \in 1..(m - 1) : Old(j) = k
      BY <1>8, <2>3
    <3>2. p[j] = o[k]
      BY <1>7, <3>1
    <3> QED
      BY <3>2
  <2>4. B \subseteq A \cup {o[i]}
    <3> HIDE DEF A
    <3> QED
      BY <2>3
  <2> HIDE DEF A, B
  <2>5. A \cup {o[i]} = B
    BY <2>1, <2>2, <2>4
  <2> QED
    BY <2>5 DEF A, B
<1>12. ASSUME NEW t
       PROVE  /\ Count(OptionNames(o), t) = Count(OptionNames(p), t) + (IF o[i].name = t THEN 1 ELSE 0)
              /\ Count(OptionValues(o), t) = Count(OptionValues(p), t) + (IF o[i].value = t THEN 1 ELSE 0)
  <2>1. OptionNames(o)[i] = o[i].name /\ OptionValues(o)[i] = o[i].value
    BY <1>2, <1>3
  <2> DEFINE a == OptionNames(o)
             b == OptionNames(p)
             c == OptionValues(o)
             d == OptionValues(p)
  <2>2. a \in Seq(Place) /\ i \in 1..Len(a) /\ Dropped(a, i, b)
    BY <1>2, <1>3, <1>4, <1>9 DEF Dropped
  <2>3. c \in Seq(Place) /\ i \in 1..Len(c) /\ Dropped(c, i, d)
    BY <1>2, <1>3, <1>4, <1>9 DEF Dropped
  <2> HIDE DEF a, b, c, d
  <2>4. Count(a, t) = Count(b, t) + (IF a[i] = t THEN 1 ELSE 0)
    BY <2>2, CountDrop
  <2>5. Count(c, t) = Count(d, t) + (IF c[i] = t THEN 1 ELSE 0)
    BY <2>3, CountDrop
  <2> QED
    BY <2>1, <2>4, <2>5 DEF a, b, c, d
<1> QED
  BY <1>1, <1>10, <1>11, <1>12 DEF p, m

\* p is o with v as the value of option i.
Revalued(o, i, v, p) ==
  /\ p \in Seq(Option) /\ Len(p) = Len(o)
  /\ \A j \in 1..Len(o) : /\ p[j].name = o[j].name /\ p[j].key = o[j].key
                           /\ p[j].value = IF j = i THEN v ELSE o[j].value

\* An option that gets another value.
LEMMA ChangedOption ==
  ASSUME NEW o \in Seq(Option), NEW i \in 1..Len(o), NEW v \in Text, NEW p, Revalued(o, i, v, p)
  PROVE  /\ (OneOfAKind(o) => OneOfAKind(p))
         /\ OptionNames(p) = OptionNames(o)
         /\ \A t : Count(OptionValues(p), t) + (IF o[i].value = t THEN 1 ELSE 0)
                     = Count(OptionValues(o), t) + (IF v = t THEN 1 ELSE 0)
<1> DEFINE m == Len(o)
<1>1. m \in Nat /\ i \in 1..m /\ DOMAIN o = 1..m
  OBVIOUS
<1>2. p \in Seq(Option) /\ Len(p) = m /\ DOMAIN p = 1..m
  BY DEF Revalued
<1>3. \A j \in 1..m : /\ p[j].name = o[j].name /\ p[j].key = o[j].key
                       /\ p[j].value = IF j = i THEN v ELSE o[j].value
  BY DEF Revalued
<1> HIDE DEF m
<1>4. OptionNames(p) = OptionNames(o)
  BY <1>1, <1>2, <1>3 DEF OptionNames
<1>5. OneOfAKind(o) => OneOfAKind(p)
  BY <1>1, <1>2, <1>3 DEF OneOfAKind
<1>6. /\ OptionValues(o) \in Seq(Place) /\ Len(OptionValues(o)) = m
      /\ \A j \in 1..m : OptionValues(o)[j] = o[j].value
  BY NamesAndValues DEF m
<1>7. OptionValues(p) = [OptionValues(o) EXCEPT ![i] = v]
  <2> DEFINE a == OptionValues(o)
             b == OptionValues(p)
  <2>1. /\ b \in Seq(Place) /\ Len(b) = m
        /\ \A j \in 1..m : b[j] = p[j].value
    BY <1>1, <1>2, NamesAndValues
  <2>2. a \in Seq(Place) /\ Len(a) = m /\ \A j \in 1..m : a[j] = o[j].value
    BY <1>6
  <2> HIDE DEF a, b
  <2>3. \A j \in 1..m : b[j] = IF j = i THEN v ELSE a[j]
    BY <1>3, <2>1, <2>2
  <2> DEFINE c == [a EXCEPT ![i] = v]
  <2>4. v \in Place
    BY DEF Place
  <2>5. c \in Seq(Place) /\ Len(c) = m /\ \A j \in 1..m : c[j] = IF j = i THEN v ELSE a[j]
    BY <1>1, <2>2, <2>4, ExceptSeq
  <2> HIDE DEF c
  <2>6. b = c
    BY <2>1, <2>3, <2>5, SeqEqual
  <2> QED
    BY <2>6 DEF a, b, c
<1>8. ASSUME NEW t
       PROVE  Count(OptionValues(p), t) + (IF o[i].value = t THEN 1 ELSE 0)
                = Count(OptionValues(o), t) + (IF v = t THEN 1 ELSE 0)
  <2> DEFINE a == OptionValues(o)
  <2>1. a \in Seq(Place) /\ i \in 1..Len(a) /\ v \in Place /\ a[i] = o[i].value
    BY <1>1, <1>6 DEF Place
  <2> HIDE DEF a
  <2>2. Count([a EXCEPT ![i] = v], t) + (IF a[i] = t THEN 1 ELSE 0)
          = Count(a, t) + (IF v = t THEN 1 ELSE 0)
    BY <2>1, CountReplace
  <2> QED
    BY <1>7, <2>1, <2>2 DEF a
<1> QED
  BY <1>4, <1>5, <1>8

\* program_set_custom_option_value() succeeds.
LEMMA SetOptionKeeps ==
  ASSUME Inv, NEW x \in OptionInput, SetOption(x)
  PROVE  Inv'
<1> DEFINE o == config.options
           i == FindOption(o, x.key)
<1>1. x \in Option /\ x.name \in Text /\ x.value \in Text
  BY InputAssumption DEF Option
<1>2. /\ config \in Config /\ o \in Seq(Option) /\ held \in [Text -> Nat]
      /\ Usable(config) /\ OneOfAKind(o) /\ Len(o) <= MaxOptions
  BY ConfigParts DEF Usable
<1>3. \/ i \in 1..Len(o) /\ o[i].key = x.key /\ i # 0
      \/ i = 0 /\ \A j \in 1..Len(o) : o[j].key # x.key
  BY <1>2, Found
<1>4. /\ Changeable /\ Saves(config') /\ UNCHANGED <<up, program, asked, stray, directory>>
      /\ (i = 0 => /\ Len(o) < MaxOptions
                   /\ config' = [config EXCEPT !.options = Append(o, x)]
                   /\ held' = Acquire(held, <<x.value, x.name>>))
      /\ (i # 0 => /\ config' = [config EXCEPT !.options[i].value = x.value]
                   /\ held' = Release(Acquire(held, <<x.value>>), <<o[i].value>>))
  BY DEF SetOption
<1>5. \A t \in Text : /\ HeldOf(config, t) \in Nat /\ held[t] \in Nat
                      /\ Count(OptionNames(o), t) \in Nat /\ Count(OptionValues(o), t) \in Nat
  BY <1>2, UsesCounted, Parts, CountType
<1>6. CASE i = 0
  <2> DEFINE p == Append(o, x)
  <2>1. /\ p \in Seq(Option) /\ Len(p) = Len(o) + 1 /\ OneOfAKind(p)
        /\ \A t : /\ Count(OptionNames(p), t) = Count(OptionNames(o), t) + (IF x.name = t THEN 1 ELSE 0)
                  /\ Count(OptionValues(p), t) = Count(OptionValues(o), t) + (IF x.value = t THEN 1 ELSE 0)
    BY <1>1, <1>2, <1>3, <1>6, AppendedOption
  <2>2. /\ config' = [config EXCEPT !.options = p]
        /\ held' = Acquire(held, <<x.value, x.name>>) /\ Len(o) < MaxOptions
    BY <1>4, <1>6
  <2> HIDE DEF p
  <2>3. /\ config' \in Config /\ config'.options = p /\ Usable(config')
        /\ \A t : HeldOf(config', t) =
             ((HeldOf(config, t) - Count(OptionNames(o), t)) - Count(OptionValues(o), t))
             + Count(OptionNames(p), t) + Count(OptionValues(p), t)
    BY <1>2, <2>1, <2>2, OtherOptions
  <2>4. \A t \in Text : held'[t] = (held[t] + HeldOf(config', t)) - HeldOf(config, t)
    <3> SUFFICES ASSUME NEW t \in Text
                 PROVE  held'[t] = (held[t] + HeldOf(config', t)) - HeldOf(config, t)
      OBVIOUS
    <3>1. Count(<<x.value, x.name>>, t) = (IF x.value = t THEN 1 ELSE 0) + (IF x.name = t THEN 1 ELSE 0)
      <4>1. x.value \in Place /\ x.name \in Place
        BY <1>1 DEF Place
      <4> QED
        BY <4>1, CountPair
    <3>2. held'[t] = held[t] + Count(<<x.value, x.name>>, t)
      BY <2>2 DEF Acquire
    <3> DEFINE n == IF x.name = t THEN 1 ELSE 0
               v == IF x.value = t THEN 1 ELSE 0
    <3>3. n \in Nat /\ v \in Nat /\ held'[t] = held[t] + (v + n)
      BY <3>1, <3>2
    <3>4. Count(OptionNames(p), t) = Count(OptionNames(o), t) + n
      BY <2>1
    <3>5. Count(OptionValues(p), t) = Count(OptionValues(o), t) + v
      BY <2>1
    <3> HIDE DEF n, v
    <3>6. HeldOf(config', t) =
            ((HeldOf(config, t) - Count(OptionNames(o), t)) - Count(OptionValues(o), t))
            + Count(OptionNames(p), t) + Count(OptionValues(p), t)
      BY <2>3
    <3>7. /\ HeldOf(config, t) \in Nat /\ held[t] \in Nat
          /\ Count(OptionNames(o), t) \in Nat /\ Count(OptionValues(o), t) \in Nat
      BY <1>5
    <3> QED
      BY <3>3, <3>4, <3>5, <3>6, <3>7
  <2>5. held' = [t \in Text |-> held'[t]]
    BY <2>2 DEF Acquire
  <2>6. Len(o) \in Nat /\ MaxOptions \in Nat
    BY <1>2, Sizes
  <2>7. Len(config'.options) <= MaxOptions
    <3> HIDE DEF o
    <3> QED
      BY <2>1, <2>2, <2>3, <2>6
  <2>8. Asked(config', asked')
    BY <1>2, <1>4, <2>1, <2>2, OtherParts, StillAsked
  <2> QED
    BY <1>4, <2>3, <2>4, <2>5, <2>7, <2>8, Saved
<1>7. CASE i # 0
  <2> DEFINE p == [o EXCEPT ![i] = [o[i] EXCEPT !.value = x.value]]
  <2>1. i \in 1..Len(o)
    BY <1>3, <1>7
  <2>2. /\ config' = [config EXCEPT !.options = p]
        /\ held' = Release(Acquire(held, <<x.value>>), <<o[i].value>>)
    BY <1>4, <1>7
  <2> HIDE DEF i
  <2>3. /\ p \in Seq(Option) /\ Len(p) = Len(o) /\ OneOfAKind(p)
        /\ OptionNames(p) = OptionNames(o)
        /\ \A t : Count(OptionValues(p), t) + (IF o[i].value = t THEN 1 ELSE 0)
                    = Count(OptionValues(o), t) + (IF x.value = t THEN 1 ELSE 0)
    <3> DEFINE y == [o[i] EXCEPT !.value = x.value]
    <3>1. x.value \in Text /\ o \in Seq(Option) /\ OneOfAKind(o) /\ o[i] \in Option
      BY <1>1, <1>2, <2>1
    <3>2. y \in Option /\ y.name = o[i].name /\ y.key = o[i].key /\ y.value = x.value
      BY <3>1 DEF Option
    <3>3. p = [o EXCEPT ![i] = y]
      OBVIOUS
    <3> HIDE DEF y, p, o
    <3>4. p \in Seq(Option) /\ Len(p) = Len(o) /\ \A j \in 1..Len(o) : p[j] = IF j = i THEN y ELSE o[j]
      BY <2>1, <3>1, <3>2, <3>3, ExceptSeq
    <3>5. \A j \in 1..Len(o) : /\ p[j].name = o[j].name /\ p[j].key = o[j].key
                               /\ p[j].value = IF j = i THEN x.value ELSE o[j].value
      BY <3>2, <3>4
    <3>6. Revalued(o, i, x.value, p)
      BY <3>4, <3>5 DEF Revalued
    <3> QED
      BY <2>1, <3>1, <3>4, <3>6, ChangedOption
  <2> HIDE DEF p
  <2>4. /\ config' \in Config /\ config'.options = p /\ Usable(config')
        /\ \A t : HeldOf(config', t) =
             ((HeldOf(config, t) - Count(OptionNames(o), t)) - Count(OptionValues(o), t))
             + Count(OptionNames(p), t) + Count(OptionValues(p), t)
    BY <1>2, <2>2, <2>3, OtherOptions
  <2>5. o[i].value \in Place /\ x.value \in Place
    <3>1. o[i] \in Option
      BY <1>2, <2>1, NamesAndValues
    <3> QED
      BY <1>1, <3>1 DEF Option, Place
  <2>6. \A t \in Text : held'[t] = (held[t] + HeldOf(config', t)) - HeldOf(config, t)
    <3> SUFFICES ASSUME NEW t \in Text
                 PROVE  held'[t] = (held[t] + HeldOf(config', t)) - HeldOf(config, t)
      OBVIOUS
    <3>1. Count(<<x.value>>, t) = (IF x.value = t THEN 1 ELSE 0)
      BY <2>5, CountSingle
    <3>2. Count(<<o[i].value>>, t) = (IF o[i].value = t THEN 1 ELSE 0)
      BY <2>5, CountSingle
    <3>3. held'[t] = (held[t] + Count(<<x.value>>, t)) - Count(<<o[i].value>>, t)
      BY <2>2 DEF Acquire, Release
    <3>4. Count(OptionValues(p), t) \in Nat
      BY <2>4, Parts, CountType
    <3>5. /\ HeldOf(config', t) =
               ((HeldOf(config, t) - Count(OptionNames(o), t)) - Count(OptionValues(o), t))
               + Count(OptionNames(o), t) + Count(OptionValues(p), t)
      BY <2>3, <2>4
    <3>6. Count(OptionValues(p), t) + (IF o[i].value = t THEN 1 ELSE 0)
            = Count(OptionValues(o), t) + (IF x.value = t THEN 1 ELSE 0)
      BY <2>3
    <3>7. /\ HeldOf(config, t) \in Nat /\ held[t] \in Nat
          /\ Count(OptionNames(o), t) \in Nat /\ Count(OptionValues(o), t) \in Nat
      BY <1>5
    <3> QED
      BY <3>1, <3>2, <3>3, <3>4, <3>5, <3>6, <3>7
  <2>7. held' = [t \in Text |-> held'[t]]
    BY <2>2 DEF Release
  <2>8. Len(config'.options) <= MaxOptions
    BY <1>2, <2>3, <2>4
  <2>9. Asked(config', asked')
    BY <1>2, <1>4, <2>2, <2>3, OtherParts, StillAsked
  <2> QED
    BY <1>4, <2>4, <2>6, <2>7, <2>8, <2>9, Saved
<1> QED
  BY <1>6, <1>7

\* program_set_custom_option_value() fails.
LEMMA SetOptionFailsKeeps ==
  ASSUME Inv, NEW x \in OptionInput, SetOptionFails(x)
  PROVE  Inv'
<1>1. x.name \in Place /\ x.value \in Place
  BY InputAssumption DEF Option, Place
<1>2. /\ <<>> \in Seq(Place) /\ 0 \in 0..Len(<<>>)
      /\ <<x.value>> \in Seq(Place) /\ 1 \in 0..Len(<<x.value>>)
      /\ <<x.value, x.name>> \in Seq(Place) /\ 2 \in 0..Len(<<x.value, x.name>>)
  BY <1>1
<1>3. CASE FailedAfter(<<>>, 0, 0) /\ UNCHANGED stray
  BY <1>2, <1>3, FailedClean
<1>4. CASE FailedAfter(<<x.value>>, 1, 1) /\ UNCHANGED stray
  BY <1>2, <1>4, FailedClean
<1>5. CASE FailedAfter(<<x.value, x.name>>, 2, 2) /\ UNCHANGED stray
  BY <1>2, <1>5, FailedClean
<1> QED
  BY <1>3, <1>4, <1>5 DEF SetOptionFails

\* program_remove_custom_option() succeeds.
LEMMA RemoveOptionKeeps ==
  ASSUME Inv, NEW x \in OptionInput, RemoveOption(x)
  PROVE  Inv'
<1> DEFINE o == config.options
           i == FindOption(o, x.key)
           p == RemoveAt(o, i)
<1>1. /\ config \in Config /\ o \in Seq(Option) /\ held \in [Text -> Nat]
      /\ Usable(config) /\ OneOfAKind(o) /\ Len(o) <= MaxOptions
  BY ConfigParts DEF Usable
<1>2. /\ Changeable /\ Saves(config') /\ UNCHANGED <<up, program, asked, stray, directory>>
      /\ i # 0
      /\ config' = [config EXCEPT !.options = p]
      /\ held' = Release(held, <<o[i].name, o[i].value>>)
  BY DEF RemoveOption
<1>3. i \in 1..Len(o)
  BY <1>1, <1>2, Found
<1> HIDE DEF i
<1>4. /\ p \in Seq(Option) /\ Len(p) = Len(o) - 1 /\ OneOfAKind(p)
      /\ \A t : /\ Count(OptionNames(o), t) = Count(OptionNames(p), t) + (IF o[i].name = t THEN 1 ELSE 0)
                /\ Count(OptionValues(o), t) = Count(OptionValues(p), t) + (IF o[i].value = t THEN 1 ELSE 0)
  BY <1>1, <1>3, RemovedOption
<1> HIDE DEF p
<1>5. /\ config' \in Config /\ config'.options = p /\ Usable(config')
      /\ \A t : HeldOf(config', t) =
           ((HeldOf(config, t) - Count(OptionNames(o), t)) - Count(OptionValues(o), t))
           + Count(OptionNames(p), t) + Count(OptionValues(p), t)
  BY <1>1, <1>2, <1>4, OtherOptions
<1>6. o[i].name \in Place /\ o[i].value \in Place
  <2>1. o[i] \in Option
    BY <1>1, <1>3, NamesAndValues
  <2> QED
    BY <2>1 DEF Option, Place
<1>7. \A t \in Text : held'[t] = (held[t] + HeldOf(config', t)) - HeldOf(config, t)
  <2> SUFFICES ASSUME NEW t \in Text
               PROVE  held'[t] = (held[t] + HeldOf(config', t)) - HeldOf(config, t)
    OBVIOUS
  <2>1. Count(<<o[i].name, o[i].value>>, t)
          = (IF o[i].name = t THEN 1 ELSE 0) + (IF o[i].value = t THEN 1 ELSE 0)
    BY <1>6, CountPair
  <2>2. held'[t] = held[t] - Count(<<o[i].name, o[i].value>>, t)
    BY <1>2 DEF Release
  <2>3. /\ Count(OptionNames(p), t) \in Nat /\ Count(OptionValues(p), t) \in Nat
        /\ HeldOf(config, t) \in Nat /\ held[t] \in Nat
    BY <1>1, <1>5, Parts, CountType, UsesCounted
  <2> DEFINE n == IF o[i].name = t THEN 1 ELSE 0
             v == IF o[i].value = t THEN 1 ELSE 0
  <2>4. n \in Nat /\ v \in Nat /\ held'[t] = held[t] - (n + v)
    BY <2>1, <2>2
  <2>5. Count(OptionNames(o), t) = Count(OptionNames(p), t) + n
    BY <1>4
  <2>6. Count(OptionValues(o), t) = Count(OptionValues(p), t) + v
    BY <1>4
  <2> HIDE DEF n, v
  <2>7. HeldOf(config', t) =
          ((HeldOf(config, t) - Count(OptionNames(o), t)) - Count(OptionValues(o), t))
          + Count(OptionNames(p), t) + Count(OptionValues(p), t)
    BY <1>5
  <2> QED
    BY <2>3, <2>4, <2>5, <2>6, <2>7
<1>8. held' = [t \in Text |-> held'[t]]
  BY <1>2 DEF Release
<1>9. Len(config'.options) <= MaxOptions
  <2>1. Len(o) \in Nat /\ MaxOptions \in Nat
    BY <1>1, Sizes
  <2> HIDE DEF o
  <2> QED
    BY <1>1, <1>4, <1>5, <2>1
<1>10. Asked(config', asked')
  BY <1>1, <1>2, <1>4, OtherParts, StillAsked
<1> QED
  BY <1>2, <1>5, <1>7, <1>8, <1>9, <1>10, Saved

\* Removing fails, and the option is put back at the end.
LEMMA PutBackKeeps ==
  ASSUME Inv, Changeable, NEW i \in 1..Len(config.options),
         config' = [config EXCEPT
           !.options = Append(RemoveAt(config.options, i), config.options[i])],
         UNCHANGED <<up, program, asked, held, stray, lost, disk>>
  PROVE  Inv'
<1> DEFINE o == config.options
           x == o[i]
           p == RemoveAt(o, i)
           q == Append(p, x)
<1>1. /\ config \in Config /\ o \in Seq(Option) /\ held \in [Text -> Nat]
      /\ Usable(config) /\ OneOfAKind(o) /\ Len(o) <= MaxOptions
  BY ConfigParts DEF Usable
<1>2. x \in Option
  BY <1>1
<1>3. /\ p \in Seq(Option) /\ Len(p) = Len(o) - 1 /\ OneOfAKind(p)
      /\ \A j \in 1..(Len(o) - 1) : p[j].key # x.key
      /\ {p[j] : j \in 1..(Len(o) - 1)} \cup {x} = {o[j] : j \in 1..Len(o)}
      /\ \A t : /\ Count(OptionNames(o), t) = Count(OptionNames(p), t) + (IF x.name = t THEN 1 ELSE 0)
                /\ Count(OptionValues(o), t) = Count(OptionValues(p), t) + (IF x.value = t THEN 1 ELSE 0)
  BY <1>1, RemovedOption
<1>4. config' = [config EXCEPT !.options = q]
  OBVIOUS
<1> DEFINE m == Len(o)
<1>5. m \in Nat /\ i \in 1..m
  BY <1>1
<1> HIDE DEF p, x, o
<1>6. \A j \in 1..Len(p) : p[j].key # x.key
  BY <1>3
<1>7. /\ q \in Seq(Option) /\ Len(q) = Len(p) + 1 /\ OneOfAKind(q)
      /\ \A t : /\ Count(OptionNames(q), t) = Count(OptionNames(p), t) + (IF x.name = t THEN 1 ELSE 0)
                /\ Count(OptionValues(q), t) = Count(OptionValues(p), t) + (IF x.value = t THEN 1 ELSE 0)
  BY <1>2, <1>3, <1>6, AppendedOption
<1>8. /\ \A j \in 1..Len(p) : q[j] = p[j]
      /\ q[Len(p) + 1] = x
  BY <1>2, <1>3, AppendProperties
<1> HIDE DEF q, m
<1>9. Len(p) = m - 1 /\ Len(q) = m
  BY <1>3, <1>5, <1>7 DEF m
<1>10. SameOptions(q, o)
  <2>1. DOMAIN q = 1..m /\ DOMAIN o = 1..m /\ Len(o) = m
    BY <1>1, <1>7, <1>9 DEF m
  <2> DEFINE P == {p[j] : j \in 1..(m - 1)}
             Q == {q[j] : j \in 1..m}
             O == {o[j] : j \in 1..m}
  <2>2. P \cup {x} = O
    BY <1>3 DEF m
  <2>3. Q = P \cup {x}
    <3>1. 1..m = (1..(m - 1)) \cup {m} /\ (m - 1) + 1 = m
      BY <1>5
    <3>2. \A j \in 1..(m - 1) : q[j] = p[j]
      BY <1>8, <1>9
    <3>3. q[m] = x
      BY <1>8, <1>9, <3>1
    <3>4. Q \subseteq P \cup {x}
      BY <3>1, <3>2, <3>3
    <3>5. P \subseteq Q /\ x \in Q
      BY <3>1, <3>2, <3>3
    <3> HIDE DEF P, Q
    <3> QED
      BY <3>4, <3>5
  <2>4. Q = O
    BY <2>2, <2>3
  <2> QED
    BY <1>9, <2>1, <2>4 DEF SameOptions
<1>11. /\ config' \in Config /\ config'.options = q /\ Usable(config')
       /\ \A t : HeldOf(config', t) =
            ((HeldOf(config, t) - Count(OptionNames(o), t)) - Count(OptionValues(o), t))
            + Count(OptionNames(q), t) + Count(OptionValues(q), t)
  <2>1. q \in Seq(Option) /\ OneOfAKind(q)
    BY <1>7
  <2>2. config \in Config /\ Usable(config)
    BY <1>1
  <2>3. config' \in Config /\ config'.options = q /\ Usable(config')
    BY <1>4, <2>1, <2>2, OtherOptions
  <2>4. \A t : HeldOf(config', t) =
          ((HeldOf(config, t) - Count(OptionNames(config.options), t))
             - Count(OptionValues(config.options), t))
          + Count(OptionNames(q), t) + Count(OptionValues(q), t)
    BY <1>4, <2>1, <2>2, OtherOptions
  <2> QED
    BY <2>3, <2>4 DEF o
<1>12. /\ config'.command = config.command /\ config'.stdio = config.stdio
       /\ config'.mode = config.mode /\ config'.interval = config.interval
       /\ config'.fields = config.fields /\ config'.continues = config.continues
  BY <1>1, <1>4 DEF Config
<1>13. \A t \in Text : HeldOf(config', t) = HeldOf(config, t)
  <2> SUFFICES ASSUME NEW t \in Text
               PROVE  HeldOf(config', t) = HeldOf(config, t)
    OBVIOUS
  <2>1. /\ Count(OptionNames(o), t) \in Nat /\ Count(OptionValues(o), t) \in Nat
        /\ HeldOf(config, t) \in Nat
        /\ Count(OptionNames(p), t) \in Nat /\ Count(OptionValues(p), t) \in Nat
    BY <1>1, <1>3, NamesAndValues, CountType, UsesCounted
  <2>2. /\ Count(OptionNames(o), t) = Count(OptionNames(p), t) + (IF x.name = t THEN 1 ELSE 0)
        /\ Count(OptionValues(o), t) = Count(OptionValues(p), t) + (IF x.value = t THEN 1 ELSE 0)
    BY <1>3
  <2>3. /\ Count(OptionNames(q), t) = Count(OptionNames(p), t) + (IF x.name = t THEN 1 ELSE 0)
        /\ Count(OptionValues(q), t) = Count(OptionValues(p), t) + (IF x.value = t THEN 1 ELSE 0)
    BY <1>7
  <2>4. HeldOf(config', t) =
          ((HeldOf(config, t) - Count(OptionNames(o), t)) - Count(OptionValues(o), t))
          + Count(OptionNames(q), t) + Count(OptionValues(q), t)
    BY <1>11
  <2> QED
    BY <2>1, <2>2, <2>3, <2>4
<1>14. /\ up' = up /\ program' = program /\ held' = held /\ stray' = stray /\ lost' = lost
       /\ directory' = directory /\ file' = file
  BY DEF disk
<1>15. Len(config'.options) <= MaxOptions
  BY <1>1, <1>9, <1>11 DEF m
<1>16. Typed'
  BY <1>11, <1>14, <1>15 DEF Inv, Typed
<1>17. Counted'
  BY <1>13, <1>14 DEF Inv, Counted
<1>18. Matches(file, config) => Matches(file, config')
  <2>1. SameOptions(Loaded(file).options, o) => SameOptions(Loaded(file).options, q)
    BY <1>10 DEF SameOptions
  <2> QED
    BY <1>11, <1>12, <2>1 DEF Matches, o
<1>19. Stored'
  BY <1>12, <1>14, <1>18 DEF Inv, Stored
<1>20. Asked(config', asked')
  BY <1>12, StillAsked
<1> QED
  BY <1>11, <1>16, <1>17, <1>19, <1>20 DEF Inv

\* Removing fails and the option is not put back: its references belong to
\* nothing any more.
LEMMA LostKeeps ==
  ASSUME Inv, Changeable, NEW i \in 1..Len(config.options),
         config' = [config EXCEPT !.options = RemoveAt(config.options, i)],
         stray' = Acquire(stray, <<config.options[i].name, config.options[i].value>>),
         lost' = TRUE, UNCHANGED <<up, program, asked, held, disk>>
  PROVE  Inv'
<1> DEFINE o == config.options
           x == o[i]
           p == RemoveAt(o, i)
<1>1. /\ config \in Config /\ o \in Seq(Option) /\ held \in [Text -> Nat]
      /\ stray \in [Text -> Nat]
      /\ Usable(config) /\ OneOfAKind(o) /\ Len(o) <= MaxOptions
  BY ConfigParts DEF Usable
<1>2. x.name \in Place /\ x.value \in Place
  <2>1. o[i] \in Option
    BY <1>1
  <2> QED
    BY <2>1 DEF Option, Place
<1>3. /\ p \in Seq(Option) /\ Len(p) = Len(o) - 1 /\ OneOfAKind(p)
      /\ \A t : /\ Count(OptionNames(o), t) = Count(OptionNames(p), t) + (IF x.name = t THEN 1 ELSE 0)
                /\ Count(OptionValues(o), t) = Count(OptionValues(p), t) + (IF x.value = t THEN 1 ELSE 0)
  BY <1>1, RemovedOption
<1> HIDE DEF p
<1>4. config' \in Config /\ config'.options = p /\ Usable(config')
  BY <1>1, <1>3, OtherOptions DEF p
<1>5. \A t : HeldOf(config', t) =
        ((HeldOf(config, t) - Count(OptionNames(o), t)) - Count(OptionValues(o), t))
        + Count(OptionNames(p), t) + Count(OptionValues(p), t)
  BY <1>1, <1>3, OtherOptions DEF p
<1> HIDE DEF x
<1>6. \A t \in Text : stray'[t] = stray[t] + (IF x.name = t THEN 1 ELSE 0) + (IF x.value = t THEN 1 ELSE 0)
  <2> SUFFICES ASSUME NEW t \in Text
               PROVE  stray'[t] = stray[t] + (IF x.name = t THEN 1 ELSE 0) + (IF x.value = t THEN 1 ELSE 0)
    OBVIOUS
  <2>1. Count(<<x.name, x.value>>, t) = (IF x.name = t THEN 1 ELSE 0) + (IF x.value = t THEN 1 ELSE 0)
    BY <1>2, CountPair
  <2>2. stray'[t] = stray[t] + Count(<<x.name, x.value>>, t)
    BY DEF Acquire, x
  <2>3. stray[t] \in Nat
    BY <1>1
  <2> QED
    BY <2>1, <2>2, <2>3
<1>7. stray' \in [Text -> Nat]
  <2>1. stray' = [t \in Text |-> stray'[t]]
    BY DEF Acquire
  <2>2. \A t \in Text : stray[t] \in Nat
    BY <1>1
  <2>3. \A t \in Text : stray'[t] \in Nat
    BY <1>6, <2>2
  <2> QED
    BY <2>1, <2>3
<1>8. /\ up' = up /\ program' = program /\ held' = held
      /\ directory' = directory /\ file' = file
  BY DEF disk
<1>9. Len(config'.options) <= MaxOptions
  <2>1. Len(o) \in Nat /\ MaxOptions \in Nat
    BY <1>1, Sizes
  <2> HIDE DEF o
  <2> QED
    BY <1>1, <1>3, <1>4, <2>1
<1>10. Typed'
  BY <1>4, <1>7, <1>8, <1>9 DEF Inv, Typed
<1>11. Counted'
  <2> SUFFICES ASSUME NEW t \in Text
               PROVE  held[t] = stray'[t] + HeldOf(config', t)
    BY <1>8 DEF Counted, Changeable
  <2>1. held[t] = stray[t] + HeldOf(config, t)
    BY DEF Inv, Counted, Changeable
  <2>2. /\ Count(OptionNames(p), t) \in Nat /\ Count(OptionValues(p), t) \in Nat
        /\ HeldOf(config, t) \in Nat /\ stray[t] \in Nat
    BY <1>1, <1>3, NamesAndValues, CountType, UsesCounted
  <2>3. /\ Count(OptionNames(o), t) = Count(OptionNames(p), t) + (IF x.name = t THEN 1 ELSE 0)
        /\ Count(OptionValues(o), t) = Count(OptionValues(p), t) + (IF x.value = t THEN 1 ELSE 0)
    BY <1>3
  <2>4. HeldOf(config', t) =
          ((HeldOf(config, t) - Count(OptionNames(o), t)) - Count(OptionValues(o), t))
          + Count(OptionNames(p), t) + Count(OptionValues(p), t)
    BY <1>5
  <2>5. stray'[t] = stray[t] + (IF x.name = t THEN 1 ELSE 0) + (IF x.value = t THEN 1 ELSE 0)
    BY <1>6
  <2> DEFINE n == IF x.name = t THEN 1 ELSE 0
             v == IF x.value = t THEN 1 ELSE 0
  <2>6. n \in Nat /\ v \in Nat
    OBVIOUS
  <2>7. /\ Count(OptionNames(o), t) = Count(OptionNames(p), t) + n
        /\ Count(OptionValues(o), t) = Count(OptionValues(p), t) + v
        /\ stray'[t] = stray[t] + n + v
    BY <2>3, <2>5
  <2> DEFINE N == Count(OptionNames(p), t)
             V == Count(OptionValues(p), t)
             h == HeldOf(config, t)
             s == stray[t]
  <2>8. N \in Nat /\ V \in Nat /\ h \in Nat /\ s \in Nat
    BY <2>2
  <2>9. HeldOf(config', t) = ((h - (N + n)) - (V + v)) + N + V /\ held[t] = s + h /\ stray'[t] = s + n + v
    <3> HIDE DEF n, v
    <3> QED
      BY <2>1, <2>4, <2>7
  <2> HIDE DEF o, n, v, N, V, h, s
  <2> QED
    BY <2>6, <2>8, <2>9
<1>12. Asked(config', asked')
  BY <1>1, <1>3, OtherParts, StillAsked DEF p
<1>13. Stored'
  BY <1>8 DEF Inv, Stored
<1> QED
  BY <1>4, <1>10, <1>11, <1>12, <1>13 DEF Inv

\* program_remove_custom_option() fails.
LEMMA RemoveOptionFailsKeeps ==
  ASSUME Inv, NEW x \in OptionInput, RemoveOptionFails(x)
  PROVE  Inv'
<1> DEFINE i == FindOption(config.options, x.key)
<1>1. config.options \in Seq(Option)
  BY ConfigParts
<1>2. /\ Changeable /\ i # 0 /\ UNCHANGED <<up, program, asked, held, disk>>
      /\ \/ /\ config' = [config EXCEPT
                 !.options = Append(RemoveAt(config.options, i), config.options[i])]
            /\ UNCHANGED <<stray, lost>>
         \/ /\ config' = [config EXCEPT !.options = RemoveAt(config.options, i)]
            /\ stray' = Acquire(stray, <<config.options[i].name, config.options[i].value>>)
            /\ lost' = TRUE
  BY DEF RemoveOptionFails
<1>3. i \in 1..Len(config.options)
  BY <1>1, <1>2, Found
<1> HIDE DEF i
<1> QED
  BY <1>2, <1>3, PutBackKeeps, LostKeeps

-----------------------------------------------------------------------------
(* The program and the daemon *)

\* A program that is there from now on, with the references of its
\* configuration.
LEMMA Appeared ==
  ASSUME Inv, program = "none", NEW c \in Config, config' = c, Usable(c), Len(c.options) <= MaxOptions,
         held' = Acquire(held, Uses(c)), program' = "loaded", up' = TRUE, directory' = "full",
         UNCHANGED stray, lost' \in BOOLEAN,
         file' \in File, Len(file'.options) <= MaxOptions, OneOfAKind(file'.options),
         Matches(file', c), asked' = {}, Asked(c, {})
  PROVE  Inv'
<1>1. held \in [Text -> Nat] /\ stray \in [Text -> Nat]
  BY ConfigParts
<1>2. \A t \in Text : held'[t] = stray[t] + HeldOf(c, t) /\ held'[t] \in Nat
  <2> SUFFICES ASSUME NEW t \in Text
               PROVE  held'[t] = stray[t] + HeldOf(c, t) /\ held'[t] \in Nat
    OBVIOUS
  <2>1. held[t] = stray[t] + 0
    BY DEF Inv, Counted
  <2>2. Count(Uses(c), t) = HeldOf(c, t) /\ HeldOf(c, t) \in Nat
    BY UsesCounted
  <2>3. held'[t] = held[t] + Count(Uses(c), t)
    BY DEF Acquire
  <2> QED
    BY <1>1, <2>1, <2>2, <2>3
<1>3. held' \in [Text -> Nat]
  <2>1. held' = [t \in Text |-> held'[t]]
    BY DEF Acquire
  <2> QED
    BY <1>2, <2>1
<1>4. Typed'
  BY <1>1, <1>3 DEF Typed
<1>5. Counted'
  BY <1>2 DEF Counted
<1>6. Stored'
  BY DEF Stored
<1> QED
  BY <1>4, <1>5, <1>6 DEF Inv

\* A program that is gone, and in memory nothing but references that nobody
\* will release.
LEMMA Gone ==
  ASSUME Inv, program' = "none", config' \in Config, Usable(config'), Asked(config', asked'),
         Len(config'.options) <= MaxOptions,
         up' \in BOOLEAN, lost' \in BOOLEAN, directory' \in {"none", "bare", "full"},
         stray' \in [Text -> Nat], held' = stray',
         file' \in File, Len(file'.options) <= MaxOptions, OneOfAKind(file'.options)
  PROVE  Inv'
<1>1. Typed'
  BY DEF Typed
<1>2. \A t \in Text : held'[t] = stray'[t] + 0
  OBVIOUS
<1>3. Counted'
  BY <1>2 DEF Counted
<1>4. Stored'
  BY DEF Stored
<1> QED
  BY <1>1, <1>3, <1>4 DEF Inv

\* What is known of the file.
LEMMA FileParts ==
  ASSUME Inv
  PROVE  /\ file \in File /\ Len(file.options) <= MaxOptions /\ OneOfAKind(file.options)
         /\ up \in BOOLEAN /\ lost \in BOOLEAN /\ directory \in {"none", "bare", "full"}
BY DEF Inv, Typed

\* The file of a new program.
LEMMA CreatedFile ==
  /\ Written(Created) \in File /\ Written(Created).options = <<>>
  /\ Len(Written(Created).options) <= MaxOptions /\ OneOfAKind(Written(Created).options)
  /\ Matches(Written(Created), Created)
<1>1. Created \in Config /\ Created.options = <<>> /\ Usable(Created)
  BY CreatedUsable
<1>2. Written(Created) \in File /\ Written(Created).options = Created.options
  BY <1>1, WrittenParts
<1>3. Matches(Written(Created), Created)
  BY <1>1, RoundTrip
<1>4. Len(<<>>) <= MaxOptions
  BY Sizes
<1>5. OneOfAKind(Created.options)
  BY <1>1 DEF Usable
<1> QED
  BY <1>1, <1>2, <1>3, <1>4, <1>5

\* Nothing is held without references.
LEMMA NothingHeld == NoRefs \in [Text -> Nat]
BY DEF NoRefs

\* program_define() succeeds.
LEMMA DefineKeeps ==
  ASSUME Inv, Define
  PROVE  Inv'
<1>1. /\ Created \in Config /\ Usable(Created) /\ Len(Created.options) <= MaxOptions
      /\ Asked(Created, {})
  BY CreatedUsable, Sizes
<1>2. /\ program = "none" /\ config' = Created /\ asked' = {} /\ held' = Acquire(held, Uses(Created))
      /\ program' = "loaded" /\ up' = TRUE /\ directory' = "full" /\ UNCHANGED stray
      /\ lost' \in BOOLEAN /\ file' = Written(Created)
  BY FileParts DEF Define, Saves
<1> QED
  BY <1>1, <1>2, CreatedFile, Appeared

\* program_define() fails, or the daemon dies in it.
LEMMA DefineFailsKeeps ==
  ASSUME Inv, DefineFails \/ CrashInDefine
  PROVE  Inv'
<1>1. program = "none"
  BY DEF DefineFails, CrashInDefine
<1>2. CASE DefineFails
  <2>1. /\ up' = up /\ program' = program /\ config' = config /\ asked' = asked
        /\ held' = held /\ stray' = stray
        /\ lost' = lost /\ directory' = "full" /\ file' = Written(Created)
    BY <1>2 DEF DefineFails, memory
  <2>2. held = stray
    <3>1. \A t \in Text : held[t] = stray[t] + 0 /\ stray[t] \in Nat
      BY <1>1, ConfigParts DEF Inv, Counted
    <3>2. \A t \in Text : held[t] = stray[t]
      BY <3>1
    <3> QED
      BY <3>2, ConfigParts
  <2> QED
    BY <1>1, <2>1, <2>2, ConfigParts, FileParts, CreatedFile, Gone DEF Inv
<1>3. CASE CrashInDefine
  <2>1. /\ up' = FALSE /\ program' = program /\ config' = config /\ asked' = asked
        /\ held' = NoRefs /\ stray' = NoRefs
        /\ lost' = lost /\ directory' = "bare" /\ file' = file
    BY <1>3 DEF CrashInDefine
  <2> QED
    BY <1>1, <2>1, ConfigParts, FileParts, NothingHeld, Gone DEF Inv
<1> QED
  BY <1>2, <1>3

\* program_purge()
LEMMA PurgeKeeps ==
  ASSUME Inv, Purge
  PROVE  Inv'
<1>1. /\ program = "loaded" /\ program' = "purged" /\ directory' = "none" /\ up' = up
      /\ config' = config /\ asked' = asked /\ held' = held /\ stray' = stray
      /\ lost' = lost /\ file' = file /\ up
  BY DEF Purge, Changeable
<1>2. Typed'
  BY <1>1 DEF Inv, Typed
<1>3. Counted'
  BY <1>1 DEF Inv, Counted
<1>4. Stored'
  BY <1>1 DEF Stored
<1> QED
  BY <1>1, <1>2, <1>3, <1>4 DEF Inv

\* program_destroy()
LEMMA FreeKeeps ==
  ASSUME Inv, Free
  PROVE  Inv'
<1>1. /\ program = "purged" /\ program' = "none" /\ config' = Created /\ asked' = {} /\ lost' = FALSE
      /\ held' = Release(held, Uses(config)) /\ up' = up /\ stray' = stray
      /\ directory' = directory /\ file' = file
  BY DEF Free, disk
<1>2. held' = stray
  <2>1. \A t \in Text : held[t] - Count(Uses(config), t) = stray[t]
    <3> SUFFICES ASSUME NEW t \in Text
                 PROVE  held[t] - Count(Uses(config), t) = stray[t]
      OBVIOUS
    <3>1. held[t] = stray[t] + HeldOf(config, t)
      BY <1>1 DEF Inv, Counted
    <3>2. Count(Uses(config), t) = HeldOf(config, t) /\ HeldOf(config, t) \in Nat /\ stray[t] \in Nat
      BY ConfigParts, UsesCounted
    <3> QED
      BY <3>1, <3>2
  <2>2. held' = [t \in Text |-> held[t] - Count(Uses(config), t)]
    BY <1>1 DEF Release
  <2> QED
    BY <2>1, <2>2, ConfigParts
<1>3. /\ Created \in Config /\ Usable(Created) /\ Len(Created.options) <= MaxOptions
      /\ Asked(Created, {})
  BY CreatedUsable, Sizes
<1> QED
  BY <1>1, <1>2, <1>3, ConfigParts, FileParts, Gone

\* The daemon ends.
LEMMA StopKeeps ==
  ASSUME Inv, Stop
  PROVE  Inv'
<1>1. /\ program' = "none" /\ config' = Created /\ asked' = {} /\ lost' = FALSE /\ up' = FALSE
      /\ held' = NoRefs /\ stray' = NoRefs /\ directory' = directory /\ file' = file
  BY DEF Stop, disk
<1>2. /\ Created \in Config /\ Usable(Created) /\ Len(Created.options) <= MaxOptions
      /\ Asked(Created, {})
  BY CreatedUsable, Sizes
<1> QED
  BY <1>1, <1>2, FileParts, NothingHeld, Gone

\* The daemon starts and loads the program, or leaves it out.
LEMMA StartKeeps ==
  ASSUME Inv, Start
  PROVE  Inv'
<1>1. ~ up /\ up' = TRUE /\ program = "none"
  BY DEF Start, Inv, Stored
<1>2. stray' = stray /\ lost' = lost /\ directory' = directory /\ file' = file
  BY DEF Start, disk
<1>3. CASE /\ directory = "full" /\ program' = "loaded" /\ config' = Loaded(file) /\ asked' = {}
           /\ held' = Acquire(held, Uses(Loaded(file)))
  <2>1. /\ Loaded(file) \in Config /\ Usable(Loaded(file)) /\ Len(Loaded(file).options) <= MaxOptions
        /\ Asked(Loaded(file), {})
    BY FileParts, LoadedUsable, LoadedParts
  <2>2. Matches(file, Loaded(file))
    BY DEF Matches, SameOptions
  <2> QED
    BY <1>1, <1>2, <1>3, <2>1, <2>2, FileParts, Appeared
<1>4. CASE UNCHANGED <<program, config, asked, held>>
  <2>1. program' = "none" /\ config' = config /\ asked' = asked /\ held' = held
    BY <1>1, <1>4
  <2>2. Typed'
    BY <1>1, <1>2, <2>1 DEF Inv, Typed
  <2>3. Counted'
    BY <1>1, <1>2, <2>1 DEF Inv, Counted
  <2>4. Stored'
    BY <2>1 DEF Stored
  <2> QED
    BY <2>1, <2>2, <2>3, <2>4 DEF Inv
<1> QED
  BY <1>3, <1>4 DEF Start

\* Somebody edits the file.
LEMMA EditKeeps ==
  ASSUME Inv, Edit
  PROVE  Inv'
<1>1. /\ ~ up /\ program = "none" /\ up' = up /\ program' = program /\ config' = config
      /\ asked' = asked /\ held' = held /\ stray' = stray /\ lost' = lost /\ directory' = directory
      /\ file' \in EditedFile
  BY DEF Edit, memory, Inv, Stored
<1>2. file' \in File /\ OneOfAKind(file'.options) /\ Len(file'.options) <= MaxOptions
  BY <1>1, InputAssumption
<1>3. Typed'
  BY <1>1, <1>2 DEF Inv, Typed
<1>4. Counted'
  BY <1>1 DEF Inv, Counted
<1>5. Stored'
  BY <1>1 DEF Stored
<1> QED
  BY <1>1, <1>3, <1>4, <1>5 DEF Inv

-----------------------------------------------------------------------------
(* The theorems *)

\* At the beginning there is no program and nothing is held.
LEMMA InitInv == Init => Inv
<1> SUFFICES ASSUME Init
             PROVE  Inv
  OBVIOUS
<1>1. /\ up = TRUE /\ program = "none" /\ config = Created /\ asked = {}
      /\ held = NoRefs /\ stray = NoRefs /\ lost = FALSE /\ directory = "none" /\ file = Written(Created)
  BY DEF Init
<1>2. /\ Created \in Config /\ Usable(Created) /\ Len(Created.options) <= MaxOptions
      /\ Asked(Created, {})
  BY CreatedUsable, Sizes
<1>3. Typed
  BY <1>1, <1>2, CreatedFile, NothingHeld DEF Typed
<1>4. Counted
  <2>1. \A t \in Text : NoRefs[t] = NoRefs[t] + 0
    BY DEF NoRefs
  <2> QED
    BY <1>1, <2>1 DEF Counted
<1>5. Stored
  BY <1>1 DEF Stored
<1> QED
  BY <1>1, <1>2, <1>3, <1>4, <1>5 DEF Inv

\* Every operation keeps the invariant.
LEMMA NextInv == Inv /\ [Next]_vars => Inv'
<1> SUFFICES ASSUME Inv, [Next]_vars
             PROVE  Inv'
  OBVIOUS
<1>1. CASE \E c \in CommandInput : SetCommand(c) \/ SetCommandFails(c)
  BY <1>1, SetCommandKeeps, SetCommandFailsKeeps
<1>2. CASE \E r \in StdioInput : SetStdio(r) \/ SetStdioFails(r)
  BY <1>2, SetStdioKeeps, SetStdioFailsKeeps
<1>3. CASE \E s \in ScheduleInput : SetSchedule(s) \/ SetScheduleFails(s)
  BY <1>3, SetScheduleKeeps, SetScheduleFailsKeeps
<1>4. CASE \E o \in OptionInput :
             SetOption(o) \/ SetOptionFails(o) \/ RemoveOption(o) \/ RemoveOptionFails(o)
  BY <1>4, SetOptionKeeps, SetOptionFailsKeeps, RemoveOptionKeeps, RemoveOptionFailsKeeps
<1>5. CASE Define \/ DefineFails \/ CrashInDefine
  BY <1>5, DefineKeeps, DefineFailsKeeps
<1>6. CASE Purge \/ Free \/ Stop \/ Start \/ Edit
  BY <1>6, PurgeKeeps, FreeKeeps, StopKeeps, StartKeeps, EditKeeps
<1>7. CASE UNCHANGED vars
  BY <1>7, Unchanged
<1> QED
  BY <1>1, <1>2, <1>3, <1>4, <1>5, <1>6, <1>7 DEF Next

\* The inductive invariant: the configuration can be used, its references are
\* held, and the file says what it is.
THEOREM Invariance == Spec => []Inv
<1>1. Init => Inv
  BY InitInv
<1>2. Inv /\ [Next]_vars => Inv'
  BY NextInv
<1> QED
  BY <1>1, <1>2, PTL DEF Spec

\* On every path of every operation of program_config.c and program.c,
\* failures included, the program holds as many references on a string or list
\* as there are places for it in the configuration, and as many more as the two
\* known leaks have left.
THEOREM ReferencesAreExact == Spec => []ReferencesExact
<1>1. Inv => ReferencesExact
  <2> SUFFICES ASSUME Inv
               PROVE  ReferencesExact
    OBVIOUS
  <2>1. ConfigTyped(config)
    <3>1. \A i \in DOMAIN config.options : {config.options[i].name, config.options[i].value} \subseteq Text
      BY ConfigParts, OptionTexts
    <3> QED
      BY <3>1, ConfigParts DEF ConfigTyped, Place
  <2>2. ConfigTyped(Loaded(file))
    <3> DEFINE c == Loaded(file)
    <3>1. c \in Config /\ Len(c.options) <= MaxOptions
      BY FileParts, LoadedUsable, LoadedParts
    <3> HIDE DEF c
    <3>2. /\ c.command \in [1..4 -> Text] /\ c.stdio \in [1..3 -> Redirection] /\ c.mode \in Mode
          /\ c.continues \in Flag /\ c.interval \in 0..IntervalLimit - 1 /\ c.fields \in Place /\ c.options \in Seq(Option)
      BY <3>1 DEF Config
    <3>3. \A i \in DOMAIN c.options : {c.options[i].name, c.options[i].value} \subseteq Text
      BY <3>2, OptionTexts
    <3>4. ConfigTyped(c)
      BY <3>1, <3>2, <3>3 DEF ConfigTyped, Place
    <3> QED
      BY <3>4 DEF c
  <2>3. TypeOK
    BY <2>1, <2>2 DEF TypeOK, Inv, Typed, Asked
  <2>4. held = Acquire(stray, IF program = "none" THEN <<>> ELSE Uses(config))
    <3> DEFINE u == IF program = "none" THEN <<>> ELSE Uses(config)
    <3>1. \A t \in Text : Count(u, t) = IF program = "none" THEN 0 ELSE HeldOf(config, t)
      BY ConfigParts, UsesCounted, CountEmpty
    <3> HIDE DEF u
    <3>2. \A t \in Text : held[t] = stray[t] + Count(u, t)
      BY <3>1 DEF Inv, Counted
    <3>3. held = [t \in Text |-> stray[t] + Count(u, t)]
      BY <3>2, ConfigParts
    <3>4. held = Acquire(stray, u)
      BY <3>3 DEF Acquire
    <3> QED
      BY <3>4 DEF u
  <2> QED
    BY <2>3, <2>4 DEF ReferencesExact
<1> QED
  BY <1>1, Invariance, PTL

\* Whatever has succeeded or failed before, program_config_load() makes of
\* program.conf what is in memory: a crash at any time loses nothing.
THEOREM FileMatchesMemory == Spec => []FileIsMemory
<1>1. Inv => FileIsMemory
  BY DEF Inv, Stored, Matches, FileIsMemory
<1> QED
  BY <1>1, Invariance, PTL

\* Whatever the file says and users ask for, the configuration in memory can be
\* used: what program_config_load() refuses is there only where a user has asked
\* for it since, which only a stderr pipe can be, and what the operations refuse
\* only where the file says so.
THEOREM ConfigStaysUsable == Spec => []ConfigUsable
<1>1. Inv => ConfigUsable
  <2> SUFFICES ASSUME Inv, program = "loaded"
               PROVE  ConfigUsable
    BY DEF ConfigUsable
  <2>1. Usable(config) /\ Asked(config, asked)
    BY DEF Inv
  <2>2. \A i \in 1..3 : config.stdio[i].kind \in Unsuitable(i) => i = 3 /\ "stdio" \in asked
    <3>1. 1..3 = (1..2) \cup {3} /\ Unsuitable(3) = {"pipe"}
      BY DEF Unsuitable
    <3> QED
      BY <2>1, <3>1 DEF Usable, Asked
  <2> QED
    BY <2>1, <2>2 DEF Usable, Asked, ConfigUsable
<1> QED
  BY <1>1, Invariance, PTL

=============================================================================
