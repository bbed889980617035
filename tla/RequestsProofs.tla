--------------------------- MODULE RequestsProofs ---------------------------
(***************************************************************************)
(* Theorems about Requests: the framing of requests and the refinement of  *)
(* RequestService, for any set of requests, any sizes of header and buffer *)
(* and any number of requests and callbacks.                               *)
(*                                                                         *)
(* Framed relates each unit to the next one.  That what follows a whole    *)
(* packet is the next header (NextPacket) takes more: Stream says where    *)
(* the unit that is j places behind another one belongs.                   *)
(***************************************************************************)
EXTENDS Requests, SequenceTheorems, TLAPS

Unit == Nat \X Nat

Code == {"success", "failed", "unknown_object", "unknown_session", "invalid_parameter",
         "not_supported", "unknown_error"}

\* Packets for the first n requests, or (to = 0) for none of them.
PacketTo(n) == [to : 0..n, kind : {"response", "callback"}, code : Code, lost : BOOLEAN]

\* u, units of the requests s, begins behind the first d of them.
Begins(u, s, d, t) ==
  /\ u = <<>> => d = Len(s) /\ ~ t
  /\ u # <<>> => u[1][1] = d + 1 /\ u[1][2] = 1

\* It ends with the last one, which is complete unless the peer died in it (t).
Finishes(u, s, t) ==
  u # <<>> => /\ u[Len(u)][1] = Len(s)
              /\ t => u[Len(u)][2] < s[Len(s)].length
              /\ ~ t => u[Len(u)][2] = s[Len(s)].length

\* Units name requests that were sent, in order.
Ordered(u, s, d) ==
  /\ \A i \in 1..Len(u) : /\ u[i][1] \in (d + 1)..Len(s)
                          /\ u[i][2] \in 1..s[u[i][1]].length
  /\ \A i, j \in 1..Len(u) : i <= j => u[i][1] <= u[j][1]

\* The rest of a packet follows each of its units without a gap, and the next
\* packet follows its last one.
Gapless(u, s) ==
  /\ \A i, j \in 1..Len(u) :
       i <= j /\ u[i][2] + (j - i) <= s[u[i][1]].length =>
         u[j][1] = u[i][1] /\ u[j][2] = u[i][2] + (j - i)
  /\ \A i \in 1..(Len(u) - 1) :
       u[i][2] = s[u[i][1]].length => u[i + 1][1] = u[i][1] + 1 /\ u[i + 1][2] = 1

Stream(u, s, d, t) ==
  Begins(u, s, d, t) /\ Finishes(u, s, t) /\ Ordered(u, s, d) /\ Gapless(u, s)

\* The source of the connection is called, and the loop of brickd_handle_read()
\* runs, only while the connection exists.
Watched ==
  /\ pc = "loop" => connected
  /\ "brickd" \in ready => connected
  /\ peerOpen => ~ torn

Received ==
  Serving => /\ Stream(buffer \o wire, sent, served, torn)
             /\ checked => HeaderComplete /\ Header.valid
             /\ pc # "loop" => Len(buffer) < BufferSize

Inv ==
  /\ TypeOK
  /\ out \in Seq(PacketTo(Len(sent)))
  /\ Len(buffer) <= BufferSize
  /\ Watched
  /\ Received

-----------------------------------------------------------------------------
(* Sequences of units *)

\* Units(n, k) are the first k units of request n.
LEMMA UnitsProperties ==
  ASSUME NEW n \in Nat, NEW k \in Nat
  PROVE  /\ Units(n, k) \in Seq(Unit)
         /\ Len(Units(n, k)) = k
         /\ \A i \in 1..k : Units(n, k)[i][1] = n /\ Units(n, k)[i][2] = i
<1>1. \A i \in 1..k : <<n, i>> \in Unit
  BY DEF Unit
<1>2. Units(n, k) \in [1..k -> Unit]
  BY <1>1 DEF Units
<1>3. Units(n, k) \in Seq(Unit) /\ Len(Units(n, k)) = k
  BY <1>2
<1>4. \A i \in 1..k : Units(n, k)[i] = <<n, i>>
  BY DEF Units
<1> QED
  BY <1>3, <1>4

\* The same place by place, with the lengths m of u and z of s.
Placed(u, s, d, t, m, z) ==
  /\ m = 0 => d = z /\ ~ t
  /\ m > 0 => /\ u[1][1] = d + 1 /\ u[1][2] = 1
              /\ u[m][1] = z
              /\ t => u[m][2] < s[z].length
              /\ ~ t => u[m][2] = s[z].length
  /\ \A i \in 1..m : u[i][1] \in (d + 1)..z /\ u[i][2] \in 1..s[u[i][1]].length
  /\ \A i, j \in 1..m : i <= j => u[i][1] <= u[j][1]
  /\ \A i, j \in 1..m : i <= j /\ u[i][2] + (j - i) <= s[u[i][1]].length =>
                          u[j][1] = u[i][1] /\ u[j][2] = u[i][2] + (j - i)
  /\ \A i \in 1..(m - 1) : u[i][2] = s[u[i][1]].length =>
                             u[i + 1][1] = u[i][1] + 1 /\ u[i + 1][2] = 1

\* Stream speaks of sequences, Placed of their places.
LEMMA StreamPlaced ==
  ASSUME NEW u \in Seq(Unit), NEW s \in Seq(Request), NEW d \in Nat, NEW t \in BOOLEAN
  PROVE  Stream(u, s, d, t) <=> Placed(u, s, d, t, Len(u), Len(s))
<1> DEFINE m == Len(u)
           z == Len(s)
<1>1. m \in Nat /\ (u = <<>> <=> m = 0) /\ (u # <<>> <=> m > 0)
  BY EmptySeq
<1>2. Begins(u, s, d, t) <=> /\ m = 0 => d = z /\ ~ t
                             /\ m > 0 => u[1][1] = d + 1 /\ u[1][2] = 1
  BY <1>1 DEF Begins
<1>3. Finishes(u, s, t) <=> (m > 0 => /\ u[m][1] = z
                                      /\ t => u[m][2] < s[z].length
                                      /\ ~ t => u[m][2] = s[z].length)
  BY <1>1 DEF Finishes
<1>4. Ordered(u, s, d) <=>
        /\ \A i \in 1..m : u[i][1] \in (d + 1)..z /\ u[i][2] \in 1..s[u[i][1]].length
        /\ \A i, j \in 1..m : i <= j => u[i][1] <= u[j][1]
  BY DEF Ordered
<1>5. Gapless(u, s) <=>
        /\ \A i, j \in 1..m : i <= j /\ u[i][2] + (j - i) <= s[u[i][1]].length =>
                                u[j][1] = u[i][1] /\ u[j][2] = u[i][2] + (j - i)
        /\ \A i \in 1..(m - 1) : u[i][2] = s[u[i][1]].length =>
                                   u[i + 1][1] = u[i][1] + 1 /\ u[i + 1][2] = 1
  BY DEF Gapless
<1> HIDE DEF m, z
<1>6. Stream(u, s, d, t) <=> Placed(u, s, d, t, m, z)
  BY <1>2, <1>3, <1>4, <1>5 DEF Stream, Placed
<1> QED
  BY <1>6 DEF m, z

\* A packet that is there completely is the first one in the stream, and not
\* the one the peer died in; behind it the stream goes on with the next one.
LEMMA StreamConsume ==
  ASSUME NEW u \in Seq(Unit), NEW s \in Seq(Request), NEW d \in Nat, NEW t \in BOOLEAN,
         Stream(u, s, d, t), u # <<>>, Len(u) >= s[d + 1].length
  PROVE  /\ d + 1 \in 1..Len(s) /\ (t => d + 1 < Len(s))
         /\ Stream(SubSeq(u, s[d + 1].length + 1, Len(u)), s, d + 1, t)
<1> DEFINE n == s[d + 1].length
           m == Len(u)
           z == Len(s)
           w == SubSeq(u, n + 1, m)
<1>1. m \in Nat /\ m >= 1 /\ z \in Nat
  BY EmptySeq
<1>2. Placed(u, s, d, t, m, z)
  BY StreamPlaced
<1>3. \A i \in 1..m : u[i] \in Unit
  OBVIOUS
<1>4. \A i \in 1..z : s[i] \in Request
  OBVIOUS
<1>5. n <= m
  OBVIOUS
<1> HIDE DEF m, z
<1>6. d + 1 \in 1..z
  BY <1>1, <1>2 DEF Placed
<1>7. n \in Nat /\ 1 <= n
  <2>1. s[d + 1] \in Request
    BY <1>6, <1>4
  <2> QED
    BY <2>1, RequestAssumption, SizesAssumption
<1>8. n = s[d + 1].length
  OBVIOUS
<1> HIDE DEF n, w
<1>9. /\ w \in Seq(Unit)
      /\ Len(w) = m - n
      /\ \A i \in 1..(m - n) : w[i] = u[n + i]
  <2>1. n + 1 \in Int /\ m \in Int /\ \A i \in (n + 1)..m : u[i] \in Unit
    BY <1>1, <1>3, <1>7
  <2>2. /\ w \in Seq(Unit)
        /\ Len(w) = IF n + 1 <= m THEN m - (n + 1) + 1 ELSE 0
        /\ \A i \in 1..(m - (n + 1) + 1) : w[i] = u[(n + 1) + i - 1]
    BY <2>1, SubSeqProperties DEF w
  <2>3. (IF n + 1 <= m THEN m - (n + 1) + 1 ELSE 0) = m - n
    BY <1>1, <1>5, <1>7
  <2>4. /\ m - (n + 1) + 1 = m - n
        /\ \A i \in 1..(m - n) : (n + 1) + i - 1 = n + i
    BY <1>1, <1>5, <1>7
  <2> HIDE DEF w
  <2> QED
    BY <2>2, <2>3, <2>4
<1>10. u[n][1] = d + 1 /\ u[n][2] = n
  <2>1. 1 \in 1..m /\ n \in 1..m /\ 1 <= n /\ m > 0
    BY <1>1, <1>5, <1>7
  <2>2. u[1][1] = d + 1 /\ u[1][2] = 1
    BY <2>1, <1>2 DEF Placed
  <2>3. u[1][2] + (n - 1) = n /\ u[1][2] + (n - 1) <= s[u[1][1]].length
    BY <2>2, <1>7, <1>8
  <2>4. u[n][1] = u[1][1] /\ u[n][2] = u[1][2] + (n - 1)
    BY <2>1, <2>3, <1>2 DEF Placed
  <2> QED
    BY <2>2, <2>3, <2>4
<1> DEFINE k == m - n
           e == d + 1
<1>11. k \in Nat /\ m = n + k /\ e \in Nat /\ Len(w) = k
  BY <1>1, <1>5, <1>7, <1>9
<1>12. \A i \in 1..k : /\ n + i \in 1..m /\ n + 1 <= n + i /\ w[i] = u[n + i]
                       /\ u[n + i] \in Unit
  <2>1. \A i \in 1..k : n + i \in 1..m /\ n + 1 <= n + i
    BY <1>1, <1>7
  <2> QED
    BY <2>1, <1>3, <1>9
<1>13. e = d + 1 /\ e \in 1..z /\ u[n][1] = e /\ u[n][2] = n /\ n = s[e].length
  BY <1>6, <1>8, <1>10
<1> HIDE DEF k, e
<1>14. ASSUME k = 0
       PROVE  Placed(w, s, e, t, k, z) /\ (t => e < z)
  <2>1. e = z /\ ~ t
    BY <1>14, <1>11, <1>13, <1>1, <1>2, <1>7 DEF Placed
  <2>2. Placed(w, s, e, t, k, z)
    BY <2>1, <1>14 DEF Placed
  <2> QED
    BY <2>1, <2>2
<1>15. ASSUME k > 0
       PROVE  Placed(w, s, e, t, k, z) /\ (t => e < z)
  <2>1. n + 1 \in 1..m /\ n \in 1..m /\ n \in 1..(m - 1) /\ 1 \in 1..k /\ k \in 1..k
    BY <1>1, <1>7, <1>11, <1>15
  <2>2. u[n + 1][1] = e + 1 /\ u[n + 1][2] = 1
    BY <2>1, <1>2, <1>13 DEF Placed
  <2>3. e < z
    <3>1. u[n + 1][1] \in (d + 1)..z
      BY <2>1, <1>2 DEF Placed
    <3> QED
      BY <3>1, <2>2, <1>1, <1>11
  <2>4. /\ w[1][1] = e + 1 /\ w[1][2] = 1
        /\ w[k][1] = z
        /\ t => w[k][2] < s[z].length
        /\ ~ t => w[k][2] = s[z].length
    <3>1. w[1] = u[n + 1] /\ w[k] = u[m] /\ m > 0
      BY <2>1, <1>1, <1>11, <1>12
    <3> QED
      BY <3>1, <2>2, <1>2 DEF Placed
  <2>5. \A i \in 1..k : w[i][1] \in (e + 1)..z /\ w[i][2] \in 1..s[w[i][1]].length
    <3> SUFFICES ASSUME NEW i \in 1..k
                 PROVE  w[i][1] \in (e + 1)..z /\ w[i][2] \in 1..s[w[i][1]].length
      OBVIOUS
    <3>1. u[n + 1][1] <= u[n + i][1]
      BY <2>1, <1>12, <1>2 DEF Placed
    <3>2. u[n + i][1] \in (d + 1)..z /\ u[n + i][2] \in 1..s[u[n + i][1]].length
      BY <1>12, <1>2 DEF Placed
    <3>3. u[n + i][1] \in (e + 1)..z
      BY <3>1, <3>2, <2>2, <1>11, <1>1
    <3> QED
      BY <3>2, <3>3, <1>12
  <2>6. \A i, j \in 1..k : i <= j => w[i][1] <= w[j][1]
    <3>1. \A i, j \in 1..k : i <= j => n + i <= n + j
      BY <1>7, <1>11
    <3> QED
      BY <3>1, <1>12, <1>2 DEF Placed
  <2>7. \A i, j \in 1..k : i <= j /\ w[i][2] + (j - i) <= s[w[i][1]].length =>
                             w[j][1] = w[i][1] /\ w[j][2] = w[i][2] + (j - i)
    <3> SUFFICES ASSUME NEW i \in 1..k, NEW j \in 1..k, i <= j,
                        w[i][2] + (j - i) <= s[w[i][1]].length
                 PROVE  w[j][1] = w[i][1] /\ w[j][2] = w[i][2] + (j - i)
      OBVIOUS
    <3>1. n + i <= n + j /\ (n + j) - (n + i) = j - i
      BY <1>7, <1>11
    <3>2. u[n + i][2] + ((n + j) - (n + i)) <= s[u[n + i][1]].length
      BY <3>1, <1>12
    <3>3. u[n + j][1] = u[n + i][1] /\ u[n + j][2] = u[n + i][2] + ((n + j) - (n + i))
      BY <3>1, <3>2, <1>12, <1>2 DEF Placed
    <3> QED
      BY <3>1, <3>3, <1>12
  <2>8. \A i \in 1..(k - 1) : w[i][2] = s[w[i][1]].length =>
                                w[i + 1][1] = w[i][1] + 1 /\ w[i + 1][2] = 1
    <3> SUFFICES ASSUME NEW i \in 1..(k - 1), w[i][2] = s[w[i][1]].length
                 PROVE  w[i + 1][1] = w[i][1] + 1 /\ w[i + 1][2] = 1
      OBVIOUS
    <3>1. i \in 1..k /\ i + 1 \in 1..k /\ n + i \in 1..(m - 1) /\ n + (i + 1) = (n + i) + 1
      BY <1>1, <1>11, <1>7
    <3>2. w[i] = u[n + i] /\ w[i + 1] = u[(n + i) + 1]
      BY <3>1, <1>12
    <3>3. u[(n + i) + 1][1] = u[n + i][1] + 1 /\ u[(n + i) + 1][2] = 1
      BY <3>1, <3>2, <1>2 DEF Placed
    <3> QED
      BY <3>2, <3>3
  <2>9. Placed(w, s, e, t, k, z)
    BY <2>4, <2>5, <2>6, <2>7, <2>8, <1>15 DEF Placed
  <2> QED
    BY <2>3, <2>9
<1>16. Placed(w, s, e, t, k, z) /\ (t => e < z)
  BY <1>11, <1>14, <1>15
<1>17. Stream(w, s, e, t)
  BY <1>16, <1>9, <1>11, StreamPlaced DEF z
<1> QED
  BY <1>16, <1>17, <1>6 DEF w, e, n, m, z

\* Another request goes to the end of a stream whose last one is whole.
LEMMA StreamExtend ==
  ASSUME NEW u \in Seq(Unit), NEW s \in Seq(Request), NEW d \in Nat,
         Stream(u, s, d, FALSE), d <= Len(s), NEW r \in Request, NEW k \in 1..r.length
  PROVE  Stream(u \o Units(Len(s) + 1, k), Append(s, r), d, k < r.length)
<1> DEFINE z == Len(s)
           m == Len(u)
           q == Append(s, r)
           new == Units(z + 1, k)
           w == u \o new
           t == k < r.length
<1>1. z \in Nat /\ m \in Nat /\ k \in Nat /\ 1 <= k /\ r.length \in Nat /\ k <= r.length
  BY RequestAssumption
<1>2. q \in Seq(Request) /\ z + 1 = Len(q) /\ q[z + 1] = r /\ \A i \in 1..z : q[i] = s[i]
  BY AppendProperties
<1>3. z + 1 \in Nat
  BY <1>1
<1>4. /\ new \in Seq(Unit) /\ Len(new) = k
      /\ \A i \in 1..k : new[i][1] = z + 1 /\ new[i][2] = i
  <2> HIDE DEF z
  <2> QED
    BY <1>1, <1>3, UnitsProperties
<1>5. /\ w \in Seq(Unit) /\ m + k = Len(w)
      /\ \A i \in 1..(m + k) : w[i] = IF i <= m THEN u[i] ELSE new[i - m]
  <2> HIDE DEF new
  <2> QED
    BY <1>4, ConcatProperties
<1>6. Placed(u, s, d, FALSE, m, z)
  BY StreamPlaced
<1>7. \A i \in 1..z : s[i] \in Request /\ s[i].length \in Nat
  BY RequestAssumption
<1>8. d \in 0..z /\ t \in BOOLEAN
  BY <1>1
<1> HIDE DEF m, z, q, new, w
<1>9. \A i \in 1..m : /\ i \in 1..(m + k) /\ w[i] = u[i]
                      /\ u[i][1] \in 1..z /\ q[u[i][1]] = s[u[i][1]]
                      /\ s[u[i][1]].length \in Nat /\ u[i][2] \in Nat
  <2>1. \A i \in 1..m : i \in 1..(m + k) /\ i <= m
    BY <1>1
  <2>2. \A i \in 1..m : u[i][1] \in 1..z
    <3>1. \A i \in 1..m : u[i][1] \in (d + 1)..z
      BY <1>6 DEF Placed
    <3>2. (d + 1)..z \subseteq 1..z
      BY <1>1, <1>8
    <3> QED
      BY <3>1, <3>2
  <2>3. \A i \in 1..m : q[u[i][1]] = s[u[i][1]] /\ s[u[i][1]].length \in Nat
    BY <2>2, <1>2, <1>7
  <2>4. \A i \in 1..m : u[i][2] \in Nat
    BY <1>6, <2>3 DEF Placed
  <2> QED
    BY <2>1, <2>2, <2>3, <2>4, <1>5
<1>10. \A i \in (m + 1)..(m + k) : w[i][1] = z + 1 /\ w[i][2] = i - m
  <2>1. \A i \in (m + 1)..(m + k) : i - m \in 1..k /\ i \in 1..(m + k) /\ ~ (i <= m)
    BY <1>1
  <2>2. \A i \in (m + 1)..(m + k) : w[i] = new[i - m]
    BY <2>1, <1>5
  <2> QED
    BY <2>1, <2>2, <1>4
<1>11. \A i \in 1..(m + k) : i \in 1..m \/ i \in (m + 1)..(m + k)
  BY <1>1
<1>12. /\ w[1][1] = d + 1 /\ w[1][2] = 1
       /\ w[m + k][1] = z + 1 /\ w[m + k][2] = k
  <2>1. w[m + k][1] = z + 1 /\ w[m + k][2] = k
    BY <1>1, <1>10
  <2>2. CASE m = 0
    <3>1. 1 \in (m + 1)..(m + k) /\ 1 - m = 1
      BY <2>2, <1>1
    <3>2. w[1][1] = z + 1 /\ w[1][2] = 1
      BY <3>1, <1>10
    <3>3. d = z
      BY <2>2, <1>6 DEF Placed
    <3> QED
      BY <2>1, <3>2, <3>3
  <2>3. CASE m > 0
    <3>1. 1 \in 1..m
      BY <2>3, <1>1
    <3>2. w[1] = u[1]
      BY <3>1, <1>9
    <3>3. u[1][1] = d + 1 /\ u[1][2] = 1
      BY <2>3, <1>6 DEF Placed
    <3> QED
      BY <2>1, <3>2, <3>3
  <2> QED
    BY <2>2, <2>3, <1>1
<1>13. \A i \in 1..(m + k) : w[i][1] \in (d + 1)..(z + 1) /\ w[i][2] \in 1..q[w[i][1]].length
  <2> SUFFICES ASSUME NEW i \in 1..(m + k)
               PROVE  w[i][1] \in (d + 1)..(z + 1) /\ w[i][2] \in 1..q[w[i][1]].length
    OBVIOUS
  <2>1. CASE i \in 1..m
    <3>1. w[i] = u[i] /\ u[i][1] \in (d + 1)..z /\ u[i][2] \in 1..q[u[i][1]].length
      BY <2>1, <1>6, <1>9 DEF Placed
    <3>2. u[i][1] \in (d + 1)..(z + 1)
      BY <3>1, <1>1, <1>8
    <3> QED
      BY <3>1, <3>2
  <2>2. CASE i \in (m + 1)..(m + k)
    <3>1. w[i][1] = z + 1 /\ w[i][2] = i - m
      BY <2>2, <1>10
    <3>2. i - m \in 1..r.length /\ z + 1 \in (d + 1)..(z + 1)
      BY <2>2, <1>1, <1>8
    <3> QED
      BY <3>1, <3>2, <1>2
  <2> QED
    BY <2>1, <2>2, <1>11
<1>14. \A i, j \in 1..(m + k) : i <= j => w[i][1] <= w[j][1]
  <2> SUFFICES ASSUME NEW i \in 1..(m + k), NEW j \in 1..(m + k), i <= j
               PROVE  w[i][1] <= w[j][1]
    OBVIOUS
  <2>1. CASE j \in 1..m
    <3>1. i \in 1..m
      BY <2>1, <1>1
    <3> QED
      BY <3>1, <2>1, <1>6, <1>9 DEF Placed
  <2>2. CASE j \in (m + 1)..(m + k)
    BY <2>2, <1>13, <1>10, <1>1
  <2> QED
    BY <2>1, <2>2, <1>11
<1>15. \A i, j \in 1..(m + k) : i <= j /\ w[i][2] + (j - i) <= q[w[i][1]].length =>
                                  w[j][1] = w[i][1] /\ w[j][2] = w[i][2] + (j - i)
  <2> SUFFICES ASSUME NEW i \in 1..(m + k), NEW j \in 1..(m + k), i <= j,
                      w[i][2] + (j - i) <= q[w[i][1]].length
               PROVE  w[j][1] = w[i][1] /\ w[j][2] = w[i][2] + (j - i)
    OBVIOUS
  <2>1. CASE i \in (m + 1)..(m + k)
    <3>1. j \in (m + 1)..(m + k)
      BY <2>1, <1>1
    <3> QED
      BY <3>1, <2>1, <1>1, <1>10
  <2>2. CASE i \in 1..m
    <3>1. u[i][2] + (j - i) <= s[u[i][1]].length /\ w[i] = u[i]
      BY <2>2, <1>9
    <3>2. CASE j \in 1..m
      <4>1. u[j][1] = u[i][1] /\ u[j][2] = u[i][2] + (j - i)
        BY <3>1, <3>2, <2>2, <1>6 DEF Placed
      <4>2. w[j] = u[j]
        BY <3>2, <1>9
      <4> QED
        BY <3>1, <4>1, <4>2
    <3>3. CASE j \in (m + 1)..(m + k)
      <4> DEFINE a == u[i][2]
                 l == s[u[i][1]].length
      <4>1. a \in Nat /\ l \in Nat /\ m \in 1..m /\ i <= m /\ m > 0
        BY <2>2, <1>1, <1>9
      <4>2. a + (j - i) <= l
        BY <3>1
      <4>3. a + (m - i) <= l /\ a + (m - i) < a + (j - i)
        <5> HIDE DEF a, l
        <5> QED
          BY <4>1, <4>2, <3>3, <1>1
      <4>4. u[m][1] = u[i][1] /\ u[m][2] = a + (m - i)
        BY <4>1, <4>3, <2>2, <1>6 DEF Placed
      <4>5. a + (m - i) = l
        BY <4>1, <4>4, <1>6 DEF Placed
      <4> QED
        <5> HIDE DEF a, l
        <5> QED
          BY <4>1, <4>2, <4>3, <4>5, <3>3, <1>1
    <3> QED
      BY <3>2, <3>3, <1>11
  <2> QED
    BY <2>1, <2>2, <1>11
<1>16. \A i \in 1..((m + k) - 1) : w[i][2] = q[w[i][1]].length =>
                                   w[i + 1][1] = w[i][1] + 1 /\ w[i + 1][2] = 1
  <2> SUFFICES ASSUME NEW i \in 1..((m + k) - 1), w[i][2] = q[w[i][1]].length
               PROVE  w[i + 1][1] = w[i][1] + 1 /\ w[i + 1][2] = 1
    OBVIOUS
  <2>1. CASE i \in 1..(m - 1)
    <3>1. i \in 1..m /\ i + 1 \in 1..m
      BY <2>1, <1>1
    <3>2. w[i] = u[i] /\ w[i + 1] = u[i + 1] /\ q[u[i][1]] = s[u[i][1]]
      BY <3>1, <1>9
    <3> QED
      BY <3>2, <2>1, <1>6 DEF Placed
  <2>2. CASE i = m
    <3>1. w[i] = u[m] /\ i + 1 \in (m + 1)..(m + k) /\ m > 0 /\ (i + 1) - m = 1
      BY <2>2, <1>1, <1>9
    <3>2. w[i + 1][1] = z + 1 /\ w[i + 1][2] = 1
      BY <3>1, <1>10
    <3> QED
      BY <3>1, <3>2, <1>6 DEF Placed
  <2>3. CASE i \in (m + 1)..(m + k - 1)
    <3>1. i \in (m + 1)..(m + k) /\ i - m < k
      BY <2>3, <1>1
    <3>2. w[i][1] = z + 1 /\ w[i][2] = i - m
      BY <3>1, <1>10
    <3> QED
      BY <3>1, <3>2, <1>1, <1>2
  <2> QED
    BY <2>1, <2>2, <2>3, <1>1
<1>17. Placed(w, q, d, t, m + k, z + 1)
  <2> DEFINE x == m + k
             y == z + 1
  <2>1. x # 0
    BY <1>1
  <2>2. /\ w[1][1] = d + 1 /\ w[1][2] = 1
        /\ w[x][1] = y
        /\ t => w[x][2] < q[y].length
        /\ ~ t => w[x][2] = q[y].length
    <3>1. /\ w[1][1] = d + 1 /\ w[1][2] = 1
          /\ w[x][1] = y /\ w[x][2] = k /\ q[y].length = r.length
      BY <1>2, <1>12
    <3>2. ~ (k < r.length) => k = r.length
      BY <1>1
    <3> HIDE DEF x, y
    <3> QED
      BY <3>1, <3>2
  <2>3. \A i \in 1..x : w[i][1] \in (d + 1)..y /\ w[i][2] \in 1..q[w[i][1]].length
    BY <1>13
  <2>4. \A i, j \in 1..x : i <= j => w[i][1] <= w[j][1]
    BY <1>14
  <2>5. \A i, j \in 1..x : i <= j /\ w[i][2] + (j - i) <= q[w[i][1]].length =>
                             w[j][1] = w[i][1] /\ w[j][2] = w[i][2] + (j - i)
    BY <1>15
  <2>6. \A i \in 1..(x - 1) : w[i][2] = q[w[i][1]].length =>
                                w[i + 1][1] = w[i][1] + 1 /\ w[i + 1][2] = 1
    BY <1>16
  <2> HIDE DEF t, x, y
  <2>7. Placed(w, q, d, t, x, y)
    BY ONLY <2>1, <2>2, <2>3, <2>4, <2>5, <2>6, Zenon DEF Placed
  <2> QED
    BY <2>7 DEF x, y
<1>18. Stream(w, q, d, t)
  <2> HIDE DEF t
  <2> QED
    BY <1>2, <1>5, <1>8, <1>17, StreamPlaced
<1> QED
  BY <1>18 DEF w, q, z, new

\* The places of two sequences one after the other.
LEMMA ConcatPlaces ==
  ASSUME NEW r \in Seq(Unit), NEW s \in Seq(Unit)
  PROVE  \A a, b : a = Len(r) /\ b = Len(s) =>
           /\ r \o s \in Seq(Unit) /\ Len(r \o s) = a + b
           /\ \A i \in 1..(a + b) : (r \o s)[i] = IF i <= a THEN r[i] ELSE s[i - a]
BY ConcatProperties

\* Where sequences of units are put together first makes no difference.
LEMMA ConcatIsAssociative ==
  ASSUME NEW r \in Seq(Unit), NEW s \in Seq(Unit), NEW t \in Seq(Unit)
  PROVE  (r \o s) \o t = r \o (s \o t)
<1> DEFINE a == Len(r)
           b == Len(s)
           c == Len(t)
           rs == r \o s
           st == s \o t
           left == rs \o t
           right == r \o st
<1>1. a \in Nat /\ b \in Nat /\ c \in Nat /\ Len(r) = a /\ Len(t) = c
  OBVIOUS
<1>2. /\ rs \in Seq(Unit) /\ Len(rs) = a + b
      /\ \A i \in 1..(a + b) : rs[i] = IF i <= a THEN r[i] ELSE s[i - a]
  BY ConcatProperties
<1>3. /\ st \in Seq(Unit) /\ Len(st) = b + c
      /\ \A i \in 1..(b + c) : st[i] = IF i <= b THEN s[i] ELSE t[i - b]
  BY ConcatProperties
<1> HIDE DEF rs, st, a, b, c
<1>4. /\ left \in Seq(Unit) /\ Len(left) = (a + b) + c
      /\ \A i \in 1..((a + b) + c) : left[i] = IF i <= a + b THEN rs[i] ELSE t[i - (a + b)]
  <2> DEFINE x == a + b
  <2>1. rs \in Seq(Unit) /\ x = Len(rs) /\ c = Len(t)
    BY <1>1, <1>2
  <2> HIDE DEF x
  <2>2. /\ left \in Seq(Unit) /\ Len(left) = x + c
        /\ \A i \in 1..(x + c) : left[i] = IF i <= x THEN rs[i] ELSE t[i - x]
    BY <2>1, ConcatPlaces
  <2> QED
    BY <2>2 DEF x
<1>5. /\ right \in Seq(Unit) /\ Len(right) = a + (b + c)
      /\ \A i \in 1..(a + (b + c)) : right[i] = IF i <= a THEN r[i] ELSE st[i - a]
  <2> DEFINE x == b + c
  <2>1. st \in Seq(Unit) /\ x = Len(st) /\ a = Len(r)
    BY <1>1, <1>3
  <2> HIDE DEF x
  <2>2. /\ right \in Seq(Unit) /\ Len(right) = a + x
        /\ \A i \in 1..(a + x) : right[i] = IF i <= a THEN r[i] ELSE st[i - a]
    BY <2>1, ConcatPlaces
  <2> QED
    BY <2>2 DEF x
<1> HIDE DEF left, right
<1>6. (a + b) + c = a + (b + c)
  BY <1>1
<1>7. \A i \in 1..((a + b) + c) : left[i] = right[i]
  <2> SUFFICES ASSUME NEW i \in 1..((a + b) + c)
               PROVE  left[i] = right[i]
    OBVIOUS
  <2>1. CASE i <= a
    <3>1. i <= a + b /\ i \in 1..(a + b)
      BY <2>1, <1>1
    <3> QED
      BY <3>1, <2>1, <1>2, <1>4, <1>5, <1>6
  <2>2. CASE ~ (i <= a) /\ i <= a + b
    <3>1. i \in 1..(a + b) /\ i - a \in 1..(b + c) /\ i - a <= b
      BY <2>2, <1>1
    <3> QED
      BY <3>1, <2>2, <1>2, <1>3, <1>4, <1>5, <1>6
  <2>3. CASE ~ (i <= a + b)
    <3>1. ~ (i <= a) /\ i - a \in 1..(b + c) /\ ~ (i - a <= b) /\ (i - a) - b = i - (a + b)
      BY <2>3, <1>1
    <3> QED
      BY <3>1, <2>3, <1>3, <1>4, <1>5, <1>6
  <2> QED
    BY <2>1, <2>2, <2>3
<1>8. left = right
  <2> DEFINE x == (a + b) + c
  <2>1. left \in Seq(Unit) /\ right \in Seq(Unit) /\ Len(left) = x /\ Len(right) = x
    BY <1>4, <1>5, <1>6
  <2>2. \A i \in 1..x : left[i] = right[i]
    BY <1>7
  <2> HIDE DEF x
  <2> QED
    BY <2>1, <2>2, SeqEqual
<1> QED
  BY <1>8 DEF left, right, rs, st

\* ReadUnits moves units from the wire to the buffer and keeps their order.
LEMMA ReadKeepsOrder ==
  ASSUME NEW b \in Seq(Unit), NEW w \in Seq(Unit), NEW k \in 1..Len(w)
  PROVE  /\ b \o SubSeq(w, 1, k) \in Seq(Unit) /\ SubSeq(w, k + 1, Len(w)) \in Seq(Unit)
         /\ Len(b \o SubSeq(w, 1, k)) = Len(b) + k
         /\ (b \o SubSeq(w, 1, k)) \o SubSeq(w, k + 1, Len(w)) = b \o w
<1> DEFINE m == Len(w)
           head == SubSeq(w, 1, k)
           rest == SubSeq(w, k + 1, m)
<1>1. m \in Nat /\ k \in Nat /\ k >= 1 /\ k <= m /\ \A i \in 1..m : w[i] \in Unit
  OBVIOUS
<1>2. head \in Seq(Unit) /\ Len(head) = k
  <2> HIDE DEF m
  <2>1. \A i \in 1..k : w[i] \in Unit
    BY <1>1
  <2>2. SubSeq(w, 1, k) \in Seq(Unit) /\ Len(SubSeq(w, 1, k)) = IF 1 <= k THEN k - 1 + 1 ELSE 0
    BY <2>1, <1>1, SubSeqProperties
  <2>3. (IF 1 <= k THEN k - 1 + 1 ELSE 0) = k
    BY <1>1
  <2> QED
    BY <2>2, <2>3
<1>3. rest \in Seq(Unit)
  <2> HIDE DEF m
  <2>1. k + 1 \in Int /\ m \in Int /\ \A i \in (k + 1)..m : w[i] \in Unit
    BY <1>1
  <2> QED
    BY <2>1, SubSeqProperties
<1>4. head \o rest = w
  <2>1. 1 \in 1..(Len(w) + 1) /\ k \in (1 - 1)..Len(w) /\ Len(w) \in k..Len(w)
    BY <1>1
  <2>2. head \o rest = SubSeq(w, 1, Len(w))
    BY <2>1, ConcatAdjacentSubSeq
  <2> QED
    BY <2>2, SubSeqFull
<1> HIDE DEF head, rest
<1>5. (b \o head) \o rest = b \o w
  <2>1. (b \o head) \o rest = b \o (head \o rest)
    BY <1>2, <1>3, ConcatIsAssociative
  <2> QED
    BY <2>1, <1>4
<1>6. b \o head \in Seq(Unit) /\ Len(b \o head) = Len(b) + k
  BY <1>2, ConcatProperties
<1> QED
  BY <1>3, <1>5, <1>6 DEF head, rest

\* The memmove() of brickd_handle_read() takes the first units of all that is
\* there.
LEMMA MoveKeepsOrder ==
  ASSUME NEW b \in Seq(Unit), NEW w \in Seq(Unit), NEW n \in 1..Len(b)
  PROVE  /\ SubSeq(b, n + 1, Len(b)) \in Seq(Unit)
         /\ Len(SubSeq(b, n + 1, Len(b))) = Len(b) - n
         /\ SubSeq(b, n + 1, Len(b)) \o w = SubSeq(b \o w, n + 1, Len(b \o w))
<1> DEFINE m == Len(b)
           l == Len(w)
           c == SubSeq(b, n + 1, m)
           u == b \o w
           v == SubSeq(u, n + 1, m + l)
<1>1. /\ m \in Nat /\ l \in Nat /\ n \in Nat /\ n >= 1 /\ n <= m
      /\ \A i \in 1..m : b[i] \in Unit
  OBVIOUS
<1>2. /\ u \in Seq(Unit) /\ Len(u) = m + l
      /\ \A i \in 1..(m + l) : u[i] = IF i <= m THEN b[i] ELSE w[i - m]
  BY ConcatProperties
<1>3. \A i \in 1..(m + l) : u[i] \in Unit
  BY <1>2
<1>4. Len(w) = l
  OBVIOUS
<1> HIDE DEF m, l, u
<1>5. c \in Seq(Unit) /\ Len(c) = m - n /\ \A i \in 1..(m - n) : c[i] = b[n + i]
  <2>1. n + 1 \in Int /\ m \in Int /\ \A i \in (n + 1)..m : b[i] \in Unit
    BY <1>1
  <2>2. /\ c \in Seq(Unit)
        /\ Len(c) = IF n + 1 <= m THEN m - (n + 1) + 1 ELSE 0
        /\ \A i \in 1..(m - (n + 1) + 1) : c[i] = b[(n + 1) + i - 1]
    BY <2>1, SubSeqProperties
  <2>3. /\ (IF n + 1 <= m THEN m - (n + 1) + 1 ELSE 0) = m - n
        /\ m - (n + 1) + 1 = m - n
        /\ \A i \in 1..(m - n) : (n + 1) + i - 1 = n + i
    BY <1>1
  <2> HIDE DEF c
  <2> QED
    BY <2>2, <2>3
<1>6. /\ v \in Seq(Unit) /\ Len(v) = (m + l) - n
      /\ \A i \in 1..((m + l) - n) : v[i] = u[n + i]
  <2>1. n + 1 \in Int /\ m + l \in Int /\ \A i \in (n + 1)..(m + l) : u[i] \in Unit
    BY <1>1, <1>3
  <2>2. /\ v \in Seq(Unit)
        /\ Len(v) = IF n + 1 <= m + l THEN (m + l) - (n + 1) + 1 ELSE 0
        /\ \A i \in 1..((m + l) - (n + 1) + 1) : v[i] = u[(n + 1) + i - 1]
    BY <2>1, SubSeqProperties
  <2>3. /\ (IF n + 1 <= m + l THEN (m + l) - (n + 1) + 1 ELSE 0) = (m + l) - n
        /\ (m + l) - (n + 1) + 1 = (m + l) - n
        /\ \A i \in 1..((m + l) - n) : (n + 1) + i - 1 = n + i
    BY <1>1
  <2> HIDE DEF v
  <2> QED
    BY <2>2, <2>3
<1> HIDE DEF c, v
<1>7. /\ c \o w \in Seq(Unit) /\ Len(c \o w) = (m - n) + l
      /\ \A i \in 1..((m - n) + l) : (c \o w)[i] = IF i <= m - n THEN c[i] ELSE w[i - (m - n)]
  BY <1>4, <1>5, ConcatPlaces
<1>8. (m - n) + l = (m + l) - n
  BY <1>1
<1>9. \A i \in 1..((m + l) - n) : (c \o w)[i] = v[i]
  <2> SUFFICES ASSUME NEW i \in 1..((m + l) - n)
               PROVE  (c \o w)[i] = v[i]
    OBVIOUS
  <2>1. n + i \in 1..(m + l) /\ v[i] = u[n + i]
    BY <1>1, <1>6
  <2>2. (c \o w)[i] = IF i <= m - n THEN c[i] ELSE w[i - (m - n)]
    BY <1>7, <1>8
  <2>3. CASE i <= m - n
    <3>1. i \in 1..(m - n) /\ n + i <= m
      BY <2>3, <1>1
    <3> QED
      BY <3>1, <2>1, <2>2, <1>2, <1>5
  <2>4. CASE ~ (i <= m - n)
    <3>1. ~ (n + i <= m) /\ (n + i) - m = i - (m - n)
      BY <2>4, <1>1
    <3> QED
      BY <3>1, <2>1, <2>2, <2>4, <1>2
  <2> QED
    BY <2>3, <2>4
<1>10. c \o w = v
  <2> DEFINE x == c \o w
             y == (m + l) - n
  <2>1. x \in Seq(Unit) /\ v \in Seq(Unit) /\ Len(x) = y /\ Len(v) = y /\ \A i \in 1..y : x[i] = v[i]
    BY <1>6, <1>7, <1>8, <1>9
  <2> HIDE DEF x, y
  <2>2. x = v
    BY <2>1, SeqEqual
  <2> QED
    BY <2>2 DEF x
<1>11. v = SubSeq(u, n + 1, Len(u))
  BY <1>2 DEF v
<1> QED
  BY <1>5, <1>10, <1>11 DEF c, m, u
-----------------------------------------------------------------------------
(* The steps *)

Booleans == {connected, disconnected, checked, peerOpen, backlog, orphan, torn} \subseteq BOOLEAN

\* Framed says of each two units that follow each other what Stream says of
\* all.
LEMMA ReceivedIsFramed == Inv => Framed
<1> SUFFICES ASSUME Inv
             PROVE  Framed
  OBVIOUS
<1> DEFINE rest == buffer \o wire
           m == Len(rest)
           z == Len(sent)
           Follows(u, v) == \/ v = <<u[1], u[2] + 1>> /\ u[2] < sent[u[1]].length
                            \/ v = <<u[1] + 1, 1>>    /\ u[2] = sent[u[1]].length
<1>1. TypeOK
  BY DEF Inv
<1>2. /\ buffer \in Seq(Unit) /\ wire \in Seq(Unit) /\ rest \in Seq(Unit)
      /\ sent \in Seq(Request) /\ served \in Nat /\ torn \in BOOLEAN
  BY <1>1 DEF TypeOK, Unit
<1>3. ASSUME Serving
      PROVE  /\ rest = <<>> => served = z
             /\ rest # <<>> => /\ rest[1] = <<served + 1, 1>>
                               /\ \A i \in 1..m - 1 : Follows(rest[i], rest[i + 1])
                               /\ torn \/ rest[m] = <<z, Last(sent).length>>
             /\ checked => HeaderComplete /\ Header.valid
             /\ pc # "loop" => Space > 0
  <2>1. Stream(rest, sent, served, torn)
    BY <1>3 DEF Inv, Received
  <2>2. Placed(rest, sent, served, torn, m, z)
    BY <1>2, <2>1, StreamPlaced
  <2>3. \A i \in 1..m : rest[i] = <<rest[i][1], rest[i][2]>>
    <3>1. \A i \in 1..m : rest[i] \in Nat \X Nat
      BY <1>2 DEF Unit
    <3> HIDE DEF rest, m
    <3> QED
      BY <3>1
  <2>4. m \in Nat /\ (rest = <<>> => m = 0) /\ (rest # <<>> => m > 0) /\ z \in Nat
    BY <1>2, EmptySeq
  <2>5. Last(sent) = sent[z]
    BY DEF Last
  <2>6. checked => HeaderComplete /\ Header.valid
    BY <1>3 DEF Inv, Received
  <2>7. pc # "loop" => Space > 0
    <3>1. pc # "loop" => Len(buffer) < BufferSize
      BY <1>3 DEF Inv, Received
    <3>2. Len(buffer) \in Nat /\ BufferSize \in Nat
      BY <1>2, SizesAssumption
    <3> QED
      BY <3>1, <3>2 DEF Space
  <2>8. \A i \in 1..m : sent[rest[i][1]].length \in Nat
    <3>1. \A i \in 1..m : rest[i][1] \in (served + 1)..z
      BY <2>2 DEF Placed
    <3>2. \A i \in 1..m : rest[i][1] \in 1..z
      BY <3>1, <1>2, <2>4
    <3>3. \A n \in 1..z : sent[n] \in Request
      BY <1>2
    <3> QED
      BY <3>2, <3>3, RequestAssumption
  <2> HIDE DEF rest, m, z
  <2>9. m > 0 => rest[1] = <<served + 1, 1>> /\ (torn \/ rest[m] = <<z, Last(sent).length>>)
    <3>1. ASSUME m > 0
          PROVE  /\ rest[1] = <<rest[1][1], rest[1][2]>> /\ rest[m] = <<rest[m][1], rest[m][2]>>
      BY <3>1, <2>3, <2>4
    <3> QED
      BY <3>1, <2>2, <2>5, <1>2 DEF Placed
  <2>10. \A i \in 1..m - 1 : Follows(rest[i], rest[i + 1])
    <3> SUFFICES ASSUME NEW i \in 1..m - 1
                 PROVE  Follows(rest[i], rest[i + 1])
      OBVIOUS
    <3>1. i \in 1..m /\ i + 1 \in 1..m /\ i <= i + 1 /\ (i + 1) - i = 1
      BY <2>4
    <3>2. rest[i + 1] = <<rest[i + 1][1], rest[i + 1][2]>>
      BY <3>1, <2>3
    <3>3. rest[i][2] \in 1..sent[rest[i][1]].length /\ sent[rest[i][1]].length \in Nat
      BY <3>1, <2>2, <2>8 DEF Placed
    <3>4. CASE rest[i][2] = sent[rest[i][1]].length
      <4>1. rest[i + 1][1] = rest[i][1] + 1 /\ rest[i + 1][2] = 1
        BY <3>4, <2>2 DEF Placed
      <4> QED
        BY <4>1, <3>2, <3>4
    <3>5. CASE rest[i][2] < sent[rest[i][1]].length
      <4>1. rest[i][2] + ((i + 1) - i) <= sent[rest[i][1]].length
        BY <3>1, <3>3, <3>5
      <4>2. rest[i + 1][1] = rest[i][1] /\ rest[i + 1][2] = rest[i][2] + ((i + 1) - i)
        BY <3>1, <4>1, <2>2 DEF Placed
      <4>3. rest[i + 1][2] = rest[i][2] + 1
        BY <4>2, <3>1
      <4> QED
        BY <4>2, <4>3, <3>2, <3>5
    <3> QED
      BY <3>3, <3>4, <3>5
  <2>11. rest = <<>> => served = z
    BY <2>2, <2>4 DEF Placed
  <2> QED
    BY <2>4, <2>6, <2>7, <2>9, <2>10, <2>11
<1> QED
  BY <1>1, <1>3 DEF Framed

\* A step that does nothing for a client: what is left of the stream stays,
\* or the connection is no longer served.
LEMMA QuietInv ==
  ASSUME Inv, UNCHANGED callVars,
         pc' \in {"poll", "round", "loop"}, ready' \subseteq {"server", "brickd", "other"},
         Booleans', buffer' \in Seq(Unit), Len(buffer') <= BufferSize, wire' \in Seq(Unit),
         Watched',
         Serving' => /\ Serving /\ torn' = torn
                     /\ buffer' \o wire' = buffer \o wire
                     /\ checked' => (HeaderComplete /\ Header.valid)'
                     /\ pc' # "loop" => Len(buffer') < BufferSize
  PROVE  Inv'
<1>1. UNCHANGED <<sent, served, ran, out>>
  BY DEF callVars
<1>2. TypeOK'
  BY <1>1 DEF Inv, TypeOK, Booleans, Unit
<1>3. (out \in Seq(PacketTo(Len(sent))))'
  BY <1>1 DEF Inv
<1>4. Received'
  <2>1. ASSUME Serving'
        PROVE  Stream(buffer' \o wire', sent', served', torn')
    <3>1. Stream(buffer \o wire, sent, served, torn)
      BY <2>1 DEF Inv, Received
    <3>2. /\ buffer' \o wire' = buffer \o wire /\ sent' = sent
          /\ served' = served /\ torn' = torn
      BY <1>1, <2>1
    <3> QED
      BY <3>1, <3>2
  <2> QED
    BY <2>1 DEF Received
<1> QED
  BY <1>2, <1>3, <1>4 DEF Inv

\* What the parts of the invariant say of the values of the variables.
LEMMA InvTypes ==
  ASSUME Inv
  PROVE  /\ pc \in {"poll", "round", "loop"} /\ ready \subseteq {"server", "brickd", "other"}
         /\ Booleans /\ Watched
         /\ buffer \in Seq(Unit) /\ Len(buffer) \in Nat /\ Len(buffer) <= BufferSize
         /\ wire \in Seq(Unit)
         /\ sent \in Seq(Request) /\ Len(sent) \in Nat /\ Len(sent) <= MaxSent
         /\ served \in Nat /\ served <= Len(sent) /\ ran \subseteq 1..Len(sent)
         /\ out \in Seq(PacketTo(Len(sent)))
         /\ BufferSize \in Nat /\ HeaderSize \in Nat /\ HeaderSize < BufferSize
BY SizesAssumption DEF Inv, TypeOK, Booleans, Unit

\* The steps of the peer but for sending.
LEMMA PeerInv ==
  ASSUME Inv, PeerConnects \/ PeerCloses \/ PeerAbandons
  PROVE  Inv'
<1>1. UNCHANGED callVars /\ UNCHANGED <<pc, ready, connected, disconnected, buffer, checked, wire, torn>>
  BY DEF PeerConnects, PeerCloses, PeerAbandons, callVars, loopVars, linkVars, inputVars
<1>2. {peerOpen', backlog', orphan'} \subseteq BOOLEAN
  BY InvTypes DEF PeerConnects, PeerCloses, PeerAbandons, Booleans
<1>5. peerOpen' => peerOpen
  BY DEF PeerConnects, PeerCloses, PeerAbandons
<1>3. Booleans' /\ Watched'
  BY <1>1, <1>2, <1>5, InvTypes DEF Booleans, Watched
<1>4. Serving' => Serving /\ (checked' => (HeaderComplete /\ Header.valid)')
                          /\ (pc' # "loop" => Len(buffer') < BufferSize)
  BY <1>1 DEF Serving, Inv, Received, HeaderComplete, Header, Current, callVars
<1> QED
  BY <1>1, <1>3, <1>4, InvTypes, QuietInv

\* A step that touches neither the stream nor the buffer.
LEMMA SameInputInv ==
  ASSUME Inv, UNCHANGED callVars, UNCHANGED <<buffer, wire, torn>>,
         pc' \in {"poll", "round", "loop"}, ready' \subseteq {"server", "brickd", "other"},
         Booleans', Watched',
         Serving' => /\ Serving
                     /\ checked' => checked \/ (HeaderComplete /\ Header.valid)
                     /\ pc' # "loop" => pc # "loop" \/ Len(buffer) < BufferSize
  PROVE  Inv'
<1>1. Serving' => /\ Serving
                  /\ checked' => (HeaderComplete /\ Header.valid)'
                  /\ pc' # "loop" => Len(buffer') < BufferSize
  BY DEF Inv, Received, HeaderComplete, Header, Current, callVars
<1> QED
  BY <1>1, InvTypes, QuietInv

\* The event loop asks which sources are ready.
LEMMA PollInv ==
  ASSUME Inv, Poll
  PROVE  Inv'
<1>1. UNCHANGED callVars /\ UNCHANGED <<connected, disconnected, buffer, checked, wire, torn, peerOpen, backlog, orphan>>
  BY DEF Poll, linkVars, inputVars, peerVars
<1>2. pc = "poll" /\ pc' = "round" /\ ready' \subseteq {"server", "brickd", "other"}
      /\ ("brickd" \in ready' => connected)
  BY DEF Poll, ReadyNow
<1>3. Booleans' /\ Watched' /\ (Serving' => Serving)
  BY <1>1, <1>2, InvTypes DEF Booleans, Watched, Serving
<1> QED
  BY <1>1, <1>2, <1>3, SameInputInv

\* network_cleanup_brickd_and_socats: a connection that is served is not
\* touched.
LEMMA CleanupInv ==
  ASSUME Inv, Cleanup
  PROVE  Inv'
<1>1. UNCHANGED callVars /\ UNCHANGED <<ready, disconnected, buffer, checked, torn, backlog, orphan>>
  BY DEF Cleanup, inputVars
<1>2. pc = "round" /\ pc' = "poll" /\ ready = {} /\ connected' = (connected /\ ~ disconnected)
  BY DEF Cleanup, Serving
<1>3. connected' \in BOOLEAN /\ peerOpen' \in BOOLEAN
  BY <1>2, InvTypes DEF Booleans, Cleanup
<1>4. (peerOpen' => peerOpen) /\ wire' \in Seq(Unit)
  BY InvTypes, EmptySeq DEF Cleanup
<1>5. Booleans'
  BY <1>1, <1>3, InvTypes DEF Booleans
<1>6. Watched'
  BY <1>1, <1>2, <1>4, InvTypes DEF Watched
<1>7. Serving' => Serving /\ wire' = wire
  BY <1>1, <1>2 DEF Serving, Cleanup
<1>8. Serving' => /\ checked' => (HeaderComplete /\ Header.valid)'
                  /\ pc' # "loop" => Len(buffer') < BufferSize
  BY <1>1, <1>2, <1>7 DEF Inv, Received, HeaderComplete, Header, Current, callVars
<1>9. ready' = {} /\ pc' \in {"poll", "round", "loop"}
  BY <1>1, <1>2
<1> QED
  BY <1>1, <1>4, <1>5, <1>6, <1>7, <1>8, <1>9, InvTypes, QuietInv

\* A source is called whose handler does nothing, or nothing but refuse.
LEMMA IgnoredInv ==
  ASSUME Inv, Refuse \/ AcceptInterrupted \/ ReadNothing
  PROVE  Inv'
<1>1. UNCHANGED callVars /\ UNCHANGED <<pc, connected, disconnected, buffer, checked, wire, torn, peerOpen, orphan>>
  BY DEF Refuse, AcceptInterrupted, ReadNothing, linkVars, inputVars, peerVars
<1>2. ready' \subseteq ready
  BY DEF Refuse, AcceptInterrupted, ReadNothing, Called
<1>3. backlog' \in BOOLEAN
  BY InvTypes DEF Refuse, AcceptInterrupted, ReadNothing, peerVars, Booleans
<1>4. Booleans' /\ Watched' /\ (Serving' => Serving)
  BY <1>1, <1>2, <1>3, InvTypes DEF Booleans, Watched, Serving
<1>5. ready' \subseteq {"server", "brickd", "other"} /\ pc' \in {"poll", "round", "loop"}
  BY <1>1, <1>2, InvTypes
<1> QED
  BY <1>1, <1>4, <1>5, SameInputInv

\* A socket that was accepted and not served: there is no connection before
\* or after it.
LEMMA AcceptFailsInv ==
  ASSUME Inv, AcceptFails
  PROVE  Inv'
<1>1. /\ UNCHANGED callVars /\ UNCHANGED <<pc, connected, wire, peerOpen, torn>>
      /\ ~ connected /\ ready' \subseteq ready
      /\ buffer' = <<>> /\ checked' = FALSE /\ disconnected' = FALSE /\ backlog' = FALSE /\ orphan' = TRUE
  BY DEF AcceptFails, Called, brickd_create
<1>2. Booleans'
  BY <1>1, InvTypes DEF Booleans
<1>3. Watched' /\ ~ Serving'
  BY <1>1, InvTypes DEF Watched, Serving
<1>4. buffer' \in Seq(Unit) /\ Len(buffer') <= BufferSize
  <2>1. Len(<<>>) = 0 /\ <<>> \in Seq(Unit)
    BY EmptySeq
  <2> QED
    BY <1>1, <2>1, InvTypes
<1>5. ready' \subseteq {"server", "brickd", "other"} /\ pc' \in {"poll", "round", "loop"} /\ wire' \in Seq(Unit)
  BY <1>1, InvTypes
<1> QED
  BY <1>1, <1>2, <1>3, <1>4, <1>5, QuietInv

\* Packets of a handler, some of which may get lost.
LEMMA DispatchTypes ==
  ASSUME NEW n \in Nat, NEW before \in Seq(PacketTo(n)), NEW packets \in Seq(PacketTo(n)),
         dispatch_response(before, packets)
  PROVE  out' \in Seq(PacketTo(n)) /\ disconnected' \in BOOLEAN
<1>1. PICK lost \in SUBSET (1..Len(packets)) :
        /\ out' = before \o Written(packets, lost)
        /\ disconnected' \in {FALSE, Len(packets) \in lost}
  BY DEF dispatch_response
<1> DEFINE m == Len(packets)
           t == Written(packets, lost)
<1>2. m \in Nat /\ DOMAIN packets = 1..m /\ \A i \in 1..m : packets[i] \in PacketTo(n)
  BY LenProperties
<1>3. t \in Seq(PacketTo(n))
  <2>1. ASSUME NEW i \in 1..m
        PROVE  [packets[i] EXCEPT !.lost = i \in lost] \in PacketTo(n)
    <3>1. packets[i] \in PacketTo(n) /\ (i \in lost) \in BOOLEAN
      BY <1>2
    <3> QED
      BY <3>1 DEF PacketTo
  <2>2. t = [i \in 1..m |-> [packets[i] EXCEPT !.lost = i \in lost]]
    BY <1>2 DEF Written
  <2> HIDE DEF t, m
  <2>3. t \in [1..m -> PacketTo(n)]
    BY <2>1, <2>2
  <2> QED
    BY <1>2, <2>3
<1> HIDE DEF t
<1>4. before \o t \in Seq(PacketTo(n))
  BY <1>3, ConcatProperties
<1>5. disconnected' \in BOOLEAN
  <2> DEFINE last == Len(packets) \in lost
  <2>1. last \in BOOLEAN
    OBVIOUS
  <2>2. disconnected' \in {FALSE, last}
    BY <1>1
  <2> HIDE DEF last
  <2> QED
    BY <2>1, <2>2
<1> QED
  BY <1>1, <1>4, <1>5 DEF t

\* Callbacks of events belong to no request.
LEMMA NotesTyped ==
  ASSUME NEW k \in Nat, NEW n \in Nat
  PROVE  Notes(k) \in Seq(PacketTo(n))
<1>1. Packet(0, "callback", "success") \in PacketTo(n)
  BY DEF Packet, PacketTo, Code
<1>2. Notes(k) \in [1..k -> PacketTo(n)]
  BY <1>1 DEF Notes
<1> QED
  BY <1>2

\* A new connection starts with nothing sent and nothing received.
LEMMA AcceptInv ==
  ASSUME Inv, Accept
  PROVE  Inv'
<1>1. /\ UNCHANGED <<pc, orphan>> /\ ready' \subseteq ready
      /\ buffer' = <<>> /\ checked' = FALSE /\ backlog' = FALSE
      /\ connected' = TRUE /\ peerOpen' = TRUE /\ torn' = FALSE /\ wire' = <<>>
      /\ sent' = <<>> /\ served' = 0 /\ ran' = {}
  BY DEF Accept, Called, brickd_create
<1>2. pc = "round"
  BY DEF Accept, Called
<1>3. MaxSent \in Nat /\ MaxBurst \in Nat
  BY SizesAssumption
<1>0. out' \in Seq(PacketTo(0)) /\ disconnected' \in BOOLEAN
  <2>1. PICK k \in 0..MaxBurst : dispatch_response(<<>>, Notes(k))
    BY DEF Accept
  <2>2. <<>> \in Seq(PacketTo(0)) /\ Notes(k) \in Seq(PacketTo(0))
    BY <1>3, NotesTyped, EmptySeq
  <2> QED
    BY <2>1, <2>2, DispatchTypes
<1>4. Len(<<>>) = 0 /\ DOMAIN <<>> = 1..0
  BY EmptySeq
<1>5. {connected', disconnected', checked', peerOpen', backlog', orphan', torn'} \subseteq BOOLEAN
  BY <1>0, <1>1, InvTypes DEF Booleans
<1>6. /\ buffer' \in Seq(Nat \X Nat) /\ wire' \in Seq(Nat \X Nat) /\ sent' \in Seq(Request)
      /\ out' \in Seq(PacketTo(Len(sent')))
  BY <1>0, <1>1, <1>4, EmptySeq
<1>7. Len(sent') <= MaxSent /\ served' \in 0..Len(sent') /\ ran' \subseteq 1..Len(sent')
  BY <1>1, <1>3, <1>4
<1>8. \A i \in DOMAIN out' : out'[i].to \in 0..Len(sent')
  <2>1. \A i \in DOMAIN out' : out'[i] \in PacketTo(0)
    BY <1>0
  <2> QED
    BY <1>1, <1>4, <2>1 DEF PacketTo
<1>9. TypeOK'
  BY <1>1, <1>2, <1>5, <1>6, <1>7, <1>8, InvTypes DEF TypeOK
<1>10. Len(buffer') <= BufferSize /\ Len(buffer') < BufferSize
  BY <1>1, <1>4, SizesAssumption
<1>11. Watched'
  BY <1>1, InvTypes DEF Watched
<1>12. Stream(buffer' \o wire', sent', served', torn')
  <2>1. buffer' \o wire' = <<>>
    BY <1>1, ConcatEmptySeq, EmptySeq
  <2>2. Stream(<<>>, <<>>, 0, FALSE)
    BY <1>4 DEF Stream, Begins, Finishes, Ordered, Gapless
  <2> QED
    BY <2>1, <2>2, <1>1
<1>13. Received'
  BY <1>1, <1>10, <1>12 DEF Received
<1> QED
  BY <1>6, <1>9, <1>10, <1>11, <1>13 DEF Inv

\* The end of the stream, a header that is not accepted, or a failed writer: the
\* connection is not served any longer.
LEMMA DisconnectInv ==
  ASSUME Inv, ReadEnds \/ RejectHeader \/ brickd_recipient_disconnect
  PROVE  Inv'
<1>1. UNCHANGED callVars /\ UNCHANGED <<connected, buffer, checked, wire, torn, peerOpen, backlog, orphan>>
      /\ disconnected' = TRUE
  BY DEF ReadEnds, RejectHeader, brickd_recipient_disconnect, inputVars, peerVars
<1>2. ready' \subseteq ready /\ pc' \in {pc, "round"}
  BY DEF ReadEnds, RejectHeader, brickd_recipient_disconnect, Called
<1>3. Booleans' /\ ~ Serving'
  BY <1>1, InvTypes DEF Booleans, Serving
<1>4. Watched'
  BY <1>1, <1>2, InvTypes DEF Watched
<1>5. ready' \subseteq {"server", "brickd", "other"} /\ pc' \in {"poll", "round", "loop"}
  BY <1>2, InvTypes
<1> QED
  BY <1>1, <1>3, <1>4, <1>5, SameInputInv

\* The header at the start of the buffer is that of the request after the last
\* served one.
LEMMA CurrentIsNext ==
  ASSUME Inv, Serving, HeaderComplete
  PROVE  /\ buffer # <<>> /\ Len(buffer) >= 1 /\ buffer \o wire # <<>>
         /\ Current = served + 1 /\ Current \in 1..Len(sent)
         /\ Header = sent[served + 1] /\ Header \in Request
<1> DEFINE u == buffer \o wire
<1>1. Len(buffer) >= 1 /\ buffer # <<>>
  <2>1. Len(buffer) >= 1
    BY InvTypes, SizesAssumption DEF HeaderComplete
  <2>2. Len(<<>>) = 0
    BY EmptySeq
  <2> QED
    BY <2>1, <2>2
<1>2. u \in Seq(Unit) /\ Len(u) = Len(buffer) + Len(wire) /\ u[1] = buffer[1]
  <2>1. /\ u \in Seq(Unit) /\ Len(u) = Len(buffer) + Len(wire)
        /\ \A i \in 1..(Len(buffer) + Len(wire)) :
             u[i] = IF i <= Len(buffer) THEN buffer[i] ELSE wire[i - Len(buffer)]
    BY InvTypes, ConcatProperties
  <2>2. 1 \in 1..(Len(buffer) + Len(wire))
    BY <1>1, InvTypes
  <2> QED
    BY <2>1, <2>2, <1>1
<1>3. Len(u) >= 1 /\ Len(u) \in Nat
  BY <1>1, <1>2, InvTypes
<1>4. Placed(u, sent, served, torn, Len(u), Len(sent))
  BY <1>2, InvTypes, StreamPlaced DEF Inv, Received, Booleans
<1>5. u[1][1] = served + 1 /\ u[1][1] \in (served + 1)..Len(sent)
  <2> DEFINE m == Len(u)
             z == Len(sent)
  <2>1. m \in Nat /\ m > 0 /\ 1 \in 1..m /\ Placed(u, sent, served, torn, m, z)
    BY <1>3, <1>4
  <2> HIDE DEF u, m, z
  <2>2. u[1][1] = served + 1 /\ u[1][1] \in (served + 1)..z
    BY <2>1 DEF Placed
  <2> QED
    BY <2>2 DEF z
<1>6. Current = served + 1 /\ Current \in 1..Len(sent)
  BY <1>2, <1>5, InvTypes DEF Current
<1>7. Header = sent[served + 1] /\ Header \in Request
  BY <1>6, InvTypes DEF Header
<1>8. u # <<>>
  <2>1. Len(<<>>) = 0
    BY EmptySeq
  <2> QED
    BY <2>1, <1>3
<1> QED
  BY <1>1, <1>6, <1>7, <1>8

\* A read moves units from the wire into the free part of the buffer.
LEMMA ReadUnitsInv ==
  ASSUME Inv, ReadUnits
  PROVE  Inv'
<1>1. PICK k \in 1..Len(wire) :
        /\ k <= Space
        /\ buffer' = buffer \o SubSeq(wire, 1, k)
        /\ wire' = SubSeq(wire, k + 1, Len(wire))
  BY DEF ReadUnits
<1>2. /\ UNCHANGED callVars /\ UNCHANGED <<connected, disconnected, checked, torn, peerOpen, backlog, orphan>>
      /\ pc' = "loop" /\ "brickd" \in ready /\ ready' \subseteq ready
  BY DEF ReadUnits, Called, linkVars
<1>3. /\ buffer' \in Seq(Unit) /\ wire' \in Seq(Unit)
      /\ Len(buffer') = Len(buffer) + k
      /\ buffer' \o wire' = buffer \o wire
  BY <1>1, InvTypes, ReadKeepsOrder
<1>4. Len(buffer') <= BufferSize /\ Len(buffer') >= Len(buffer) /\ k \in Nat
  <2>1. k \in Nat
    BY <1>1, InvTypes
  <2>2. k <= BufferSize - Len(buffer)
    BY <1>1 DEF Space
  <2> HIDE DEF Space
  <2> QED
    BY <1>3, <2>1, <2>2, InvTypes
<1>5. Booleans' /\ Watched'
  BY <1>2, InvTypes DEF Booleans, Watched
<1>6. ASSUME Serving'
      PROVE  Serving /\ (checked' => (HeaderComplete /\ Header.valid)')
  <2>1. Serving
    BY <1>2, <1>6 DEF Serving
  <2>2. ASSUME checked'
        PROVE  (HeaderComplete /\ Header.valid)'
    <3>1. checked /\ HeaderComplete /\ Header.valid
      BY <1>2, <2>1, <2>2 DEF Inv, Received
    <3>2. buffer'[1] = buffer[1]
      <4>1. 1 \in 1..Len(buffer)
        BY <2>1, <3>1, CurrentIsNext, InvTypes
      <4>2. SubSeq(wire, 1, k) \in Seq(Unit)
        <5>1. \A i \in 1..k : wire[i] \in Unit
          BY <1>1, InvTypes
        <5> QED
          BY <5>1, <1>4, SubSeqProperties
      <4> DEFINE t == SubSeq(wire, 1, k)
      <4> HIDE DEF t
      <4>3. /\ \A i \in 1..(Len(buffer) + Len(t)) :
                 (buffer \o t)[i] = IF i <= Len(buffer) THEN buffer[i] ELSE t[i - Len(buffer)]
            /\ Len(t) \in Nat
        BY <4>2, InvTypes, ConcatProperties DEF t
      <4>4. 1 \in 1..(Len(buffer) + Len(t)) /\ 1 <= Len(buffer)
        BY <4>1, <4>3, InvTypes
      <4>5. (buffer \o t)[1] = buffer[1]
        BY <4>3, <4>4
      <4> QED
        BY <4>5, <1>1 DEF t
    <3>3. HeaderComplete'
      BY <3>1, <1>3, <1>4, InvTypes DEF HeaderComplete
    <3>4. Header' = Header
      BY <3>2, <1>2 DEF Header, Current, callVars
    <3> QED
      BY <3>1, <3>3, <3>4
  <2> QED
    BY <2>1, <2>2
<1>7. ready' \subseteq {"server", "brickd", "other"} /\ pc' \in {"poll", "round", "loop"}
  BY <1>2, InvTypes
<1> QED
  BY <1>2, <1>3, <1>4, <1>5, <1>6, <1>7, QuietInv

\* The loop ends for lack of a header; there is space for it then.
LEMMA LoopEndsInv ==
  ASSUME Inv, LoopEnds
  PROVE  Inv'
<1>1. UNCHANGED callVars /\ UNCHANGED <<ready, connected, disconnected, buffer, checked, wire, torn, peerOpen, backlog, orphan>>
      /\ pc' = "round" /\ (disconnected \/ ~ HeaderComplete)
  BY DEF LoopEnds, linkVars, inputVars, peerVars
<1>2. Booleans' /\ Watched' /\ (Serving' => Serving)
  BY <1>1, InvTypes DEF Booleans, Watched, Serving
<1>3. ASSUME Serving'
      PROVE  Len(buffer) < BufferSize
  <2>1. ~ HeaderComplete
    BY <1>1, <1>3 DEF Serving
  <2> QED
    BY <2>1, InvTypes DEF HeaderComplete
<1> QED
  BY <1>1, <1>2, <1>3, InvTypes, SameInputInv

\* The loop ends for lack of the rest of a packet that fits the buffer.
LEMMA AwaitRestInv ==
  ASSUME Inv, AwaitRest
  PROVE  Inv'
<1>1. UNCHANGED callVars /\ UNCHANGED <<ready, connected, disconnected, buffer, wire, torn, peerOpen, backlog, orphan>>
      /\ pc' = "round" /\ checked' = TRUE
      /\ pc = "loop" /\ ~ disconnected /\ HeaderComplete /\ HeaderAccepted /\ ~ PacketComplete
  BY DEF AwaitRest, linkVars, peerVars
<1>2. Serving
  BY <1>1, InvTypes DEF Serving, Watched
<1>3. Header.valid
  BY <1>1, <1>2 DEF HeaderAccepted, Inv, Received
<1>4. Len(buffer) < BufferSize
  <2>1. Header \in Request
    BY <1>1, <1>2, CurrentIsNext
  <2>2. Header.length \in Nat /\ Header.length <= BufferSize
    BY <2>1, <1>3, RequestAssumption
  <2>3. ~ (Len(buffer) >= Header.length)
    BY <1>1 DEF PacketComplete
  <2> HIDE DEF Header
  <2> QED
    BY <2>2, <2>3, InvTypes
<1>5. Booleans' /\ Watched'
  BY <1>1, InvTypes DEF Booleans, Watched
<1> QED
  BY <1>1, <1>2, <1>3, <1>4, <1>5, InvTypes, SameInputInv

\* A packet can be written for more requests, too.
LEMMA PacketsWiden ==
  ASSUME NEW n \in Nat, NEW s \in Seq(PacketTo(n))
  PROVE  s \in Seq(PacketTo(n + 1))
<1>1. PacketTo(n) \subseteq PacketTo(n + 1)
  <2>1. 0..n \subseteq 0..(n + 1)
    OBVIOUS
  <2> QED
    BY <2>1 DEF PacketTo
<1>2. Len(s) \in Nat /\ s \in [1..Len(s) -> PacketTo(n)]
  BY LenProperties
<1> DEFINE m == Len(s)
<1> HIDE DEF m
<1>3. m \in Nat /\ s \in [1..m -> PacketTo(n + 1)]
  BY <1>1, <1>2 DEF m
<1> QED
  BY <1>3

\* What is sent goes to the end of the stream.
LEMMA PeerSendsInv ==
  ASSUME Inv, NEW r \in Request, NEW k \in 1..r.length, PeerSends(r, k)
  PROVE  Inv'
<1> DEFINE z == Len(sent)
           new == Units(z + 1, k)
<1>1. /\ peerOpen /\ z < MaxSent
      /\ sent' = Append(sent, r)
      /\ peerOpen' = (k = r.length) /\ torn' = (k < r.length)
      /\ UNCHANGED <<pc, ready, connected, disconnected, buffer, checked, backlog, orphan, served, ran, out>>
  BY DEF PeerSends, loopVars, linkVars, inputVars
<1>2. sent' \in Seq(Request) /\ Len(sent') = z + 1 /\ \A i \in 1..z : sent'[i] = sent[i]
  BY <1>1, InvTypes, AppendProperties
<1>3. z \in Nat /\ k \in Nat /\ r.length \in Nat /\ 1 <= k /\ k <= r.length
  BY InvTypes, RequestAssumption
<1>4. wire' = wire \o new
  BY <1>2 DEF PeerSends
<1>5. new \in Seq(Unit)
  BY <1>3, UnitsProperties
<1>6. wire' \in Seq(Unit) /\ buffer' \o wire' = (buffer \o wire) \o new
  <2> HIDE DEF new
  <2>1. wire \o new \in Seq(Unit)
    BY <1>5, InvTypes, ConcatProperties
  <2>2. (buffer \o wire) \o new = buffer \o (wire \o new)
    BY <1>5, InvTypes, ConcatIsAssociative
  <2> QED
    BY <2>1, <2>2, <1>1, <1>4
<1>7. Booleans'
  <2>1. peerOpen' \in BOOLEAN /\ torn' \in BOOLEAN
    BY <1>1
  <2> QED
    BY <1>1, <2>1, InvTypes DEF Booleans
<1>8. Watched'
  <2>1. ~ (k = r.length /\ k < r.length)
    BY <1>3
  <2>2. peerOpen' <=> k = r.length
    BY <1>1
  <2>3. torn' <=> k < r.length
    BY <1>1
  <2>4. peerOpen' => ~ torn'
    BY <2>1, <2>2, <2>3
  <2> QED
    BY <1>1, <2>4, InvTypes DEF Watched
<1>9. out' \in Seq(PacketTo(Len(sent')))
  BY <1>1, <1>2, <1>3, InvTypes, PacketsWiden
<1>10. TypeOK'
  <2>1. pc' \in {"poll", "round", "loop"} /\ ready' \subseteq {"server", "brickd", "other"}
    BY <1>1, InvTypes
  <2>2. buffer' \in Seq(Nat \X Nat) /\ wire' \in Seq(Nat \X Nat)
    BY <1>1, <1>6, InvTypes DEF Unit
  <2>3. MaxSent \in Nat
    BY SizesAssumption
  <2> DEFINE y == Len(sent')
  <2>4. y = z + 1
    BY <1>2
  <2>5. z < MaxSent /\ served <= z /\ ran \subseteq 1..z /\ z \in Nat /\ served \in Nat
    BY <1>1, InvTypes
  <2>6. \A i \in DOMAIN out' : out'[i].to \in 0..y
    <3>1. \A i \in DOMAIN out' : out'[i] \in PacketTo(y)
      BY <1>9
    <3> HIDE DEF y
    <3> QED
      BY <3>1 DEF PacketTo
  <2> HIDE DEF y, z
  <2>7. y <= MaxSent /\ served \in 0..y /\ ran \subseteq 1..y
    BY <2>3, <2>4, <2>5
  <2> QED
    BY <2>1, <2>2, <2>6, <2>7, <1>1, <1>2, <1>7 DEF TypeOK, Booleans, y
<1>11. Received'
  <2> SUFFICES ASSUME Serving'
               PROVE  /\ Stream(buffer' \o wire', sent', served', torn')
                      /\ checked' => (HeaderComplete /\ Header.valid)'
                      /\ pc' # "loop" => Len(buffer') < BufferSize
    BY DEF Received
  <2>1. Serving
    BY <1>1 DEF Serving
  <2>2. Stream(buffer \o wire, sent, served, FALSE)
    <3>1. torn = FALSE
      BY <1>1, InvTypes DEF Watched, Booleans
    <3> QED
      BY <2>1, <3>1 DEF Inv, Received
  <2>3. Stream((buffer \o wire) \o new, Append(sent, r), served, k < r.length)
    <3>1. buffer \o wire \in Seq(Unit)
      BY InvTypes, ConcatProperties
    <3> QED
      BY <2>2, <3>1, InvTypes, StreamExtend
  <2>4. Stream(buffer' \o wire', sent', served', torn')
    BY <2>3, <1>1, <1>6
  <2>5. checked' => (HeaderComplete /\ Header.valid)'
    <3> SUFFICES ASSUME checked'
                 PROVE  (HeaderComplete /\ Header.valid)'
      OBVIOUS
    <3>1. HeaderComplete /\ Header.valid
      BY <2>1, <1>1 DEF Inv, Received
    <3>2. Current \in 1..z
      BY <2>1, <3>1, CurrentIsNext
    <3>3. Current' = Current /\ HeaderComplete'
      BY <1>1, <3>1 DEF Current, HeaderComplete
    <3>4. Header' = Header
      BY <3>2, <3>3, <1>2 DEF Header
    <3> QED
      BY <3>1, <3>3, <3>4
  <2>6. pc' # "loop" => Len(buffer') < BufferSize
    BY <2>1, <1>1 DEF Inv, Received
  <2> QED
    BY <2>4, <2>5, <2>6
<1>12. Len(buffer') <= BufferSize
  BY <1>1, InvTypes
<1> QED
  BY <1>8, <1>9, <1>10, <1>11, <1>12 DEF Inv

\* What the loop of brickd_handle_read() finds at the start of the buffer, and
\* what the memmove() leaves there.
LEMMA NextPacketFacts ==
  ASSUME Inv, Serving, PacketComplete, NextPacket
  PROVE  /\ Current = served + 1 /\ Current \in 1..Len(sent) /\ (torn => Current < Len(sent))
         /\ Header = sent[served + 1] /\ Header \in Request /\ Header.valid
         /\ buffer' \in Seq(Unit) /\ Len(buffer') <= BufferSize /\ checked' = FALSE
         /\ Stream(buffer' \o wire, sent, Current, torn)
<1> DEFINE n == Header.length
           u == buffer \o wire
<1>1. /\ Current = served + 1 /\ Current \in 1..Len(sent)
      /\ Header = sent[served + 1] /\ Header \in Request
      /\ u # <<>>
  BY CurrentIsNext DEF PacketComplete
<1>2. Header.valid
  BY DEF PacketComplete, HeaderAccepted, Inv, Received
<1>3. n \in Nat /\ n >= HeaderSize /\ HeaderSize > 0
  BY <1>1, RequestAssumption, SizesAssumption
<1>4. Len(buffer) >= n
  BY DEF PacketComplete
<1>5. buffer' = SubSeq(buffer, n + 1, Len(buffer)) /\ checked' = FALSE
  BY DEF NextPacket
<1>6. n = sent[served + 1].length
  BY <1>1
<1> HIDE DEF n
<1>7. n \in 1..Len(buffer)
  BY <1>3, <1>4, InvTypes
<1>8. /\ buffer' \in Seq(Unit) /\ Len(buffer') = Len(buffer) - n
      /\ buffer' \o wire = SubSeq(u, n + 1, Len(u))
  BY <1>5, <1>7, InvTypes, MoveKeepsOrder
<1>9. Len(buffer') <= BufferSize
  BY <1>3, <1>7, <1>8, InvTypes
<1>10. u \in Seq(Unit) /\ Len(u) = Len(buffer) + Len(wire)
  BY InvTypes, ConcatProperties
<1>11. Len(u) >= n
  BY <1>4, <1>10, <1>3, InvTypes
<1>12. Stream(u, sent, served, torn)
  BY DEF Inv, Received
<1>13. torn \in BOOLEAN
  BY InvTypes DEF Booleans
<1> HIDE DEF u
<1>14. /\ torn => served + 1 < Len(sent)
       /\ Stream(SubSeq(u, n + 1, Len(u)), sent, served + 1, torn)
  BY <1>1, <1>6, <1>10, <1>11, <1>12, <1>13, InvTypes, StreamConsume
<1> QED
  BY <1>1, <1>2, <1>5, <1>8, <1>9, <1>14

\* A packet leaves the buffer, whether it is handled or dropped.
LEMMA ServedInv ==
  ASSUME Inv, Serving, pc = "loop", PacketComplete, NextPacket, served' = Current,
         UNCHANGED <<loopVars, connected, peerVars, sent>>,
         disconnected' \in BOOLEAN, out' \in Seq(PacketTo(Len(sent))),
         ran' = ran \/ ran' = ran \cup {Current}
  PROVE  Inv'
<1>1. UNCHANGED <<pc, ready, connected, wire, peerOpen, torn, backlog, orphan, sent>>
  BY DEF loopVars, peerVars
<1>2. /\ Current \in 1..Len(sent)
      /\ buffer' \in Seq(Unit) /\ Len(buffer') <= BufferSize /\ checked' = FALSE
      /\ Stream(buffer' \o wire, sent, Current, torn)
  BY NextPacketFacts
<1>3. Booleans'
  BY <1>1, <1>2, InvTypes DEF Booleans
<1>4. Watched'
  BY <1>1, InvTypes DEF Watched
<1>5. served' \in 0..Len(sent') /\ ran' \subseteq 1..Len(sent')
  BY <1>1, <1>2, InvTypes
<1>6. \A i \in DOMAIN out' : out'[i].to \in 0..Len(sent')
  <2> DEFINE z == Len(sent)
  <2>1. \A i \in DOMAIN out' : out'[i] \in PacketTo(z)
    OBVIOUS
  <2> HIDE DEF z
  <2>2. \A i \in DOMAIN out' : out'[i].to \in 0..z
    BY <2>1 DEF PacketTo
  <2> QED
    BY <2>2, <1>1 DEF z
<1>7. TypeOK'
  BY <1>1, <1>2, <1>3, <1>5, <1>6, InvTypes DEF TypeOK, Booleans, Unit
<1>8. Received'
  BY <1>1, <1>2 DEF Received
<1> QED
  BY <1>1, <1>2, <1>4, <1>7, <1>8 DEF Inv

-----------------------------------------------------------------------------
(* The packets of a request *)

\* The codes and the responses of RequestService.
Codes(done) == Service!Errors \cup IF done THEN {"success"} ELSE {}

Closing(r, n, done) ==
  IF Service!Answered(r) THEN {<<Packet(n, "response", c)>> : c \in Codes(done)} ELSE {<<>>}

Told(r, n, done) ==
  {<<>>} \cup (IF r.mine /\ r.call = "async"
              THEN {<<Packet(n, "callback", c)>> : c \in Codes(done)} ELSE {})
         \cup (IF done /\ r.tells THEN {Notes(k) : k \in 0..MaxBurst} ELSE {})

\* The answers of RequestService, in the words of Requests.
LEMMA AnswersAre ==
  ASSUME NEW r, NEW n, NEW done
  PROVE  Service!Answers(r, n, done) = {a \o b : a \in Told(r, n, done), b \in Closing(r, n, done)}
BY DEF Service!Answers, Told, Closing, Codes, Service!Packet, Packet, Service!Notes, Notes

\* Callbacks, then the response.
LEMMA ToldAnswers ==
  ASSUME NEW r, NEW n, NEW done, NEW a \in Told(r, n, done), NEW b \in Closing(r, n, done)
  PROVE  a \o b \in Service!Answers(r, n, done)
<1> DEFINE S == Told(r, n, done)
           T == Closing(r, n, done)
<1>1. a \in S /\ b \in T /\ Service!Answers(r, n, done) = {x \o y : x \in S, y \in T}
  BY AnswersAre
<1> HIDE DEF S, T
<1> QED
  BY <1>1

\* No callbacks.
LEMMA ClosingAnswers ==
  ASSUME NEW r, NEW n, NEW done, NEW b \in Closing(r, n, done)
  PROVE  b \in Service!Answers(r, n, done)
<1>1. <<>> \in Told(r, n, done)
  BY DEF Told
<1>2. <<>> \o b = b
  <2>1. PICK x : b = <<x>> \/ b = <<>>
    BY DEF Closing
  <2>2. <<x>> \in Seq({x}) /\ <<>> \in Seq({x})
    OBVIOUS
  <2> QED
    BY <2>1, <2>2, ConcatEmptySeq
<1>3. <<>> \o b \in Service!Answers(r, n, done)
  BY <1>1, ToldAnswers
<1> QED
  BY <1>2, <1>3

\* What a call answers if a response is expected is a response the API
\* promises, unless the call has a result to return.
LEMMA ExpectedCloses ==
  ASSUME NEW r \in Request, r.mine, r.call # "function" \/ ~ r.sized,
         NEW n, NEW done, NEW c \in Codes(done)
  PROVE  api_send_response_if_expected(r, n, c) \in Closing(r, n, done)
<1>1. Service!Answered(r) <=> r.expected
  BY DEF Service!Answered
<1> QED
  BY <1>1 DEF Closing, api_send_response_if_expected

\* The response of a call with a result.
LEMMA ResultCloses ==
  ASSUME NEW r \in Request, r.mine, r.call = "function", r.sized,
         NEW n, NEW done, NEW c \in Codes(done)
  PROVE  <<Packet(n, "response", c)>> \in Closing(r, n, done)
BY DEF Closing, Service!Answered

\* Whatever way api_handle_request takes, its packets are answers that the
\* API promises, and it reports success only of what it executed.
LEMMA HandledAnswers ==
  ASSUME NEW r \in Request, r.mine, NEW n \in Nat, api_handle_request(r, n)
  PROVE  \E done \in {FALSE, r.mine /\ r.sized /\ r.call # "unknown"} :
           /\ ran' = IF done THEN ran \cup {n} ELSE ran
           /\ \E packets \in Service!Answers(r, n, done) : dispatch_response(out, packets)
<1> DEFINE may == r.mine /\ r.sized /\ r.call # "unknown"
<1>1. Codes(FALSE) = Service!Errors /\ Codes(FALSE) \subseteq Codes(TRUE) /\ "success" \in Codes(TRUE)
  BY DEF Codes
<1>2. {"not_supported", "invalid_parameter", "unknown_object", "unknown_session",
       "unknown_error", "failed"} \subseteq Codes(FALSE)
  BY <1>1 DEF Service!Errors
<1>3. r.call \in {"function", "procedure", "async", "unknown"}
  BY RequestAssumption
<1>4. ASSUME NEW p, ran' = ran, p \in Service!Answers(r, n, FALSE), dispatch_response(out, p)
      PROVE  \E done \in {FALSE, may} :
               /\ ran' = IF done THEN ran \cup {n} ELSE ran
               /\ \E packets \in Service!Answers(r, n, done) : dispatch_response(out, packets)
  <2> HIDE DEF may
  <2> QED
    BY <1>4
<1>5. CASE r.call = "unknown"
  <2>1. ran' = ran /\ dispatch_response(out, api_send_response_if_expected(r, n, "not_supported"))
    BY <1>5 DEF api_handle_request
  <2>2. api_send_response_if_expected(r, n, "not_supported") \in Service!Answers(r, n, FALSE)
    BY <1>2, <1>5, ExpectedCloses, ClosingAnswers
  <2> QED
    BY <1>4, <2>1, <2>2
<1>6. CASE r.call # "unknown" /\ ~ r.sized
  <2>1. ran' = ran /\ dispatch_response(out, api_send_response_if_expected(r, n, "invalid_parameter"))
    BY <1>6 DEF api_handle_request
  <2>2. api_send_response_if_expected(r, n, "invalid_parameter") \in Service!Answers(r, n, FALSE)
    BY <1>2, <1>6, ExpectedCloses, ClosingAnswers
  <2> QED
    BY <1>4, <2>1, <2>2
<1>7. CASE r.call # "unknown" /\ r.sized
  <2>1. Execute(r, n)
    BY <1>7 DEF api_handle_request
  <2>2. CASE \E error \in LookupErrors(r) :
               ran' = ran /\ dispatch_response(out, PacketsOfFailedLookup(r, n, error))
    <3>1. PICK error \in {"unknown_object", "unknown_session"} :
            ran' = ran /\ dispatch_response(out, PacketsOfFailedLookup(r, n, error))
      BY <2>2 DEF LookupErrors
    <3>2. error \in Codes(FALSE) /\ api_get_packet_error_code[error] \in Codes(FALSE)
      BY <1>2 DEF api_get_packet_error_code
    <3>3. PacketsOfFailedLookup(r, n, error) \in Service!Answers(r, n, FALSE)
      <4>1. CASE r.call = "function"
        <5>1. PacketsOfFailedLookup(r, n, error) = <<Packet(n, "response", error)>>
          BY <4>1 DEF PacketsOfFailedLookup
        <5> QED
          BY <5>1, <4>1, <1>7, <3>2, ResultCloses, ClosingAnswers
      <4>2. CASE r.call # "function"
        <5> DEFINE a == api_send_response_if_expected(r, n, api_get_packet_error_code[error])
        <5>1. a \in Closing(r, n, FALSE)
          BY <4>2, <3>2, ExpectedCloses
        <5>2. PacketsOfFailedLookup(r, n, error)
                = (IF r.call = "async" THEN <<Packet(n, "callback", error)>> ELSE <<>>) \o a
          BY <4>2 DEF PacketsOfFailedLookup
        <5> HIDE DEF a
        <5>3. CASE r.call = "async"
          <6> DEFINE b == <<Packet(n, "callback", error)>>
          <6>1. b \in Told(r, n, FALSE)
            BY <5>3, <3>2 DEF Told
          <6>2. PacketsOfFailedLookup(r, n, error) = b \o a
            BY <5>2, <5>3
          <6> HIDE DEF b
          <6> QED
            BY <6>1, <6>2, <5>1, ToldAnswers
        <5>4. CASE r.call # "async"
          <6>1. <<>> \in Told(r, n, FALSE)
            BY DEF Told
          <6>2. PacketsOfFailedLookup(r, n, error) = <<>> \o a
            BY <5>2, <5>4
          <6> QED
            BY <6>1, <6>2, <5>1, ToldAnswers
        <5> QED
          BY <5>3, <5>4
      <4> QED
        BY <4>1, <4>2
    <3> QED
      BY <1>4, <3>1, <3>3
  <2>3. CASE \E result \in {"success", "failed"} :
               /\ ran' = ran \cup {n}
               /\ \E packets \in PacketsOfBody(r, n, result) : dispatch_response(out, packets)
    <3>1. PICK result \in {"success", "failed"} :
            /\ ran' = ran \cup {n}
            /\ \E packets \in PacketsOfBody(r, n, result) : dispatch_response(out, packets)
      BY <2>3
    <3>2. PICK packets \in PacketsOfBody(r, n, result) : dispatch_response(out, packets)
      BY <3>1
    <3>3. result \in Codes(TRUE)
      BY <1>1, <1>2
    <3>4. packets \in Service!Answers(r, n, TRUE)
      <4> DEFINE response == IF r.call = "function" THEN <<Packet(n, "response", result)>>
                             ELSE api_send_response_if_expected(r, n, result)
                 told == {<<>>} \cup (IF r.call = "async" THEN {<<Packet(n, "callback", result)>>} ELSE {})
                                \cup (IF r.tells THEN {Notes(k) : k \in 0..MaxBurst} ELSE {})
      <4>1. response \in Closing(r, n, TRUE)
        BY <1>7, <3>3, ExpectedCloses, ResultCloses
      <4>2. told \subseteq Told(r, n, TRUE)
        BY <3>3 DEF Told
      <4>3. PacketsOfBody(r, n, result) = {callbacks \o response : callbacks \in told}
        BY DEF PacketsOfBody
      <4> HIDE DEF response, told
      <4>4. PICK callbacks \in told : packets = callbacks \o response
        BY <3>2, <4>3
      <4> QED
        BY <4>1, <4>2, <4>4, ToldAnswers
    <3>5. may
      BY <1>7
    <3> HIDE DEF may
    <3>6. TRUE \in {FALSE, may}
      BY <3>5
    <3> QED
      BY <3>1, <3>2, <3>4, <3>6 DEF may
  <2> QED
    BY <2>1, <2>2, <2>3 DEF Execute
<1> QED
  BY <1>5, <1>6, <1>7

\* Answers are packets for the request.
LEMMA AnswersTyped ==
  ASSUME NEW r, NEW z \in Nat, NEW n \in 0..z, NEW done, NEW p \in Service!Answers(r, n, done)
  PROVE  p \in Seq(PacketTo(z))
<1>1. Codes(done) \subseteq Code
  BY DEF Codes, Code, Service!Errors
<1>2. ASSUME NEW c \in Codes(done), NEW kind \in {"response", "callback"}
      PROVE  <<Packet(n, kind, c)>> \in Seq(PacketTo(z))
  <2>1. Packet(n, kind, c) \in PacketTo(z)
    BY <1>1 DEF Packet, PacketTo
  <2> HIDE DEF Packet
  <2> QED
    BY <2>1
<1>3. \A a \in Closing(r, n, done) : a \in Seq(PacketTo(z))
  BY <1>2, EmptySeq DEF Closing
<1>4. \A a \in Told(r, n, done) : a \in Seq(PacketTo(z))
  <2>1. \A k \in 0..MaxBurst : Notes(k) \in Seq(PacketTo(z))
    BY SizesAssumption, NotesTyped
  <2> QED
    BY <1>2, <2>1, EmptySeq DEF Told
<1>5. PICK a \in Told(r, n, done), b \in Closing(r, n, done) : p = a \o b
  BY AnswersAre
<1> QED
  BY <1>3, <1>4, <1>5, ConcatProperties

-----------------------------------------------------------------------------
(* The invariant *)

\* A request for somebody else is skipped.
LEMMA DropForeignInv ==
  ASSUME Inv, DropForeign
  PROVE  Inv'
<1>1. /\ pc = "loop" /\ ~ disconnected /\ PacketComplete /\ NextPacket /\ served' = Current
      /\ UNCHANGED <<loopVars, peerVars, sent>> /\ UNCHANGED <<connected, disconnected, ran, out>>
  BY DEF DropForeign, linkVars
<1>2. Serving
  BY <1>1, InvTypes DEF Serving, Watched
<1>3. disconnected' \in BOOLEAN /\ out' \in Seq(PacketTo(Len(sent)))
  BY <1>1, InvTypes DEF Booleans
<1> QED
  BY <1>1, <1>2, <1>3, ServedInv

\* A request is handled: its packets are for it and for no later one.
LEMMA HandleRequestInv ==
  ASSUME Inv, HandleRequest
  PROVE  Inv'
<1>1. /\ pc = "loop" /\ ~ disconnected /\ PacketComplete /\ NextPacket /\ served' = Current
      /\ UNCHANGED <<loopVars, connected, peerVars, sent>>
      /\ Header.mine /\ api_handle_request(Header, Current)
  BY DEF HandleRequest
<1>2. Serving
  BY <1>1, InvTypes DEF Serving, Watched
<1>3. Header \in Request /\ Current \in Nat /\ Current \in 0..Len(sent) /\ Len(sent) \in Nat
  BY <1>1, <1>2, NextPacketFacts, InvTypes
<1>4. PICK done \in BOOLEAN :
        /\ ran' = IF done THEN ran \cup {Current} ELSE ran
        /\ \E packets \in Service!Answers(Header, Current, done) : dispatch_response(out, packets)
  <2> DEFINE may == Header.mine /\ Header.sized /\ Header.call # "unknown"
  <2>2. PICK done \in {FALSE, may} :
          /\ ran' = IF done THEN ran \cup {Current} ELSE ran
          /\ \E packets \in Service!Answers(Header, Current, done) : dispatch_response(out, packets)
    BY <1>1, <1>3, HandledAnswers
  <2>3. done \in BOOLEAN
    BY <2>2
  <2> QED
    BY <2>2, <2>3
<1>5. PICK packets \in Service!Answers(Header, Current, done) : dispatch_response(out, packets)
  BY <1>4
<1>6. packets \in Seq(PacketTo(Len(sent)))
  BY <1>3, <1>5, AnswersTyped
<1>7. out' \in Seq(PacketTo(Len(sent))) /\ disconnected' \in BOOLEAN
  BY <1>3, <1>5, <1>6, InvTypes, DispatchTypes
<1>8. ran' = ran \/ ran' = ran \cup {Current}
  BY <1>4
<1> QED
  BY <1>1, <1>2, <1>7, <1>8, ServedInv

\* What OtherEvent does to the connection: it tells the client, or nothing.
LEMMA OtherEventCases ==
  ASSUME OtherEvent
  PROVE  /\ Called("other") /\ UNCHANGED <<pc, connected, inputVars, peerVars, sent, served, ran>>
         /\ \/ Serving /\ dispatch_response(out, Notes(1))
            \/ UNCHANGED <<out, disconnected>>
<1> DEFINE few == Len(SelectSeq(out, LAMBDA p : p.to = 0)) < MaxCallbacks
<1>1. /\ Called("other") /\ UNCHANGED <<pc, connected, inputVars, peerVars, sent, served, ran>>
      /\ IF Serving /\ few
         THEN dispatch_response(out, Notes(1))
         ELSE UNCHANGED <<out, disconnected>>
  BY DEF OtherEvent
<1> HIDE DEF few
<1> QED
  BY <1>1

\* A callback belongs to no request.
LEMMA OtherEventInv ==
  ASSUME Inv, OtherEvent
  PROVE  Inv'
<1>1. UNCHANGED <<pc, connected, buffer, checked, wire, peerOpen, torn, backlog, orphan, sent, served, ran>>
      /\ ready' \subseteq ready
  BY OtherEventCases DEF Called, inputVars, peerVars
<1> DEFINE z == Len(sent)
           note == Notes(1)
<1>2. z \in Nat
  BY InvTypes
<1>3. out' \in Seq(PacketTo(z)) /\ disconnected' \in BOOLEAN
  <2>1. note \in Seq(PacketTo(z))
    BY <1>2, NotesTyped
  <2>2. CASE Serving /\ dispatch_response(out, note)
    <3> HIDE DEF note
    <3> QED
      BY <1>2, <2>1, <2>2, InvTypes, DispatchTypes
  <2>3. CASE UNCHANGED <<out, disconnected>>
    BY <2>3, InvTypes DEF Booleans
  <2> QED
    BY <2>2, <2>3, OtherEventCases
<1>4. Booleans' /\ Watched'
  BY <1>1, <1>3, InvTypes DEF Booleans, Watched
<1>5. \A i \in DOMAIN out' : out'[i].to \in 0..z
  <2>1. \A i \in DOMAIN out' : out'[i] \in PacketTo(z)
    BY <1>3
  <2> HIDE DEF z
  <2> QED
    BY <2>1 DEF PacketTo
<1>6. TypeOK'
  BY <1>1, <1>4, <1>5, InvTypes DEF TypeOK, Booleans, Unit, Inv
<1>7. Received'
  <2>1. ASSUME Serving'
        PROVE  /\ Stream(buffer' \o wire', sent', served', torn')
               /\ checked' => (HeaderComplete /\ Header.valid)'
               /\ pc' # "loop" => Len(buffer') < BufferSize
    <3>1. Serving
      BY <1>1, <2>1, OtherEventCases DEF Serving
    <3> QED
      BY <3>1, <1>1 DEF Inv, Received, HeaderComplete, Header, Current
  <2> QED
    BY <2>1 DEF Received
<1>8. (out \in Seq(PacketTo(Len(sent))))' /\ (Len(buffer) <= BufferSize)'
  BY <1>1, <1>3, InvTypes
<1> QED
  BY <1>4, <1>6, <1>7, <1>8 DEF Inv

\* Before the first connection.
LEMMA InitInv == Init => Inv
<1> SUFFICES ASSUME Init
             PROVE  Inv
  OBVIOUS
<1>1. Len(<<>>) = 0 /\ DOMAIN <<>> = 1..0
  BY EmptySeq
<1>2. buffer \in Seq(Nat \X Nat) /\ wire \in Seq(Nat \X Nat) /\ sent \in Seq(Request)
      /\ out \in Seq(PacketTo(Len(sent)))
  BY EmptySeq DEF Init
<1>3. TypeOK
  <2>1. {connected, disconnected, checked, peerOpen, backlog, orphan, torn} \subseteq BOOLEAN
    BY DEF Init
  <2>2. Len(sent) <= MaxSent /\ served \in 0..Len(sent) /\ ran \subseteq 1..Len(sent)
    BY <1>1, SizesAssumption DEF Init
  <2>3. \A i \in DOMAIN out : out[i].to \in 0..Len(sent)
    BY <1>1 DEF Init
  <2>4. pc \in {"poll", "round", "loop"} /\ ready \subseteq {"server", "brickd", "other"}
    BY DEF Init
  <2> QED
    BY <1>2, <2>1, <2>2, <2>3, <2>4 DEF TypeOK
<1>4. Len(buffer) <= BufferSize
  BY <1>1, SizesAssumption DEF Init
<1>5. Watched /\ Received
  BY DEF Init, Watched, Received, Serving
<1> QED
  BY <1>2, <1>3, <1>4, <1>5 DEF Inv

\* Every step of Next keeps the invariant.
LEMMA NextInv == Inv /\ [Next]_vars => Inv'
<1> SUFFICES ASSUME Inv, [Next]_vars
             PROVE  Inv'
  OBVIOUS
<1>1. CASE UNCHANGED vars
  <2>1. UNCHANGED callVars /\ UNCHANGED <<buffer, wire, torn>>
        /\ UNCHANGED <<pc, ready, connected, disconnected, checked, peerOpen, backlog, orphan>>
    BY <1>1 DEF vars, loopVars, linkVars, inputVars, peerVars
  <2>2. Booleans' /\ Watched' /\ (Serving' => Serving)
    BY <2>1, InvTypes DEF Booleans, Watched, Serving
  <2>3. Serving' => (pc' # "loop" => pc # "loop" \/ Len(buffer) < BufferSize)
    BY <2>1
  <2> QED
    BY <2>1, <2>2, <2>3, InvTypes, SameInputInv
<1>2. CASE Handlers
  BY <1>2, IgnoredInv, AcceptInv, AcceptFailsInv, DisconnectInv, ReadUnitsInv, OtherEventInv
     DEF Handlers
<1>3. CASE Loop
  BY <1>3, LoopEndsInv, DisconnectInv, AwaitRestInv, DropForeignInv, HandleRequestInv DEF Loop
<1>4. CASE Poll \/ Cleanup
  BY <1>4, PollInv, CleanupInv
<1>5. CASE PeerConnects \/ PeerCloses \/ PeerAbandons
  BY <1>5, PeerInv
<1>6. CASE \E r \in Request : \E k \in 1..r.length : PeerSends(r, k)
  BY <1>6, PeerSendsInv
<1> QED
  BY <1>1, <1>2, <1>3, <1>4, <1>5, <1>6 DEF Next, Daemon

\* The invariant holds in every behaviour of redapid and its peer.
THEOREM Invariance == Spec => []Inv
<1>1. Init => Inv
  BY InitInv
<1>2. Inv /\ [Next]_vars => Inv'
  BY NextInv
<1> QED
  BY <1>1, <1>2, PTL DEF Spec

\* The buffer of brickd_handle_read() and the wire hold the unserved requests,
\* whole and in order, however the bytes arrive.
THEOREM RequestsAreFramed == Spec => []Framed
<1>1. Inv => Framed
  BY ReceivedIsFramed
<1> QED
  BY <1>1, Invariance, PTL

-----------------------------------------------------------------------------
(* What the client sees *)

\* Steps that no client notices.
LEMMA Unnoticed ==
  ASSUME UNCHANGED <<torn, sent, served, ran, out>>, Serving' <=> Serving
  PROVE  UNCHANGED Service!service
<1>1. Serving' = Serving
  BY DEF Serving
<1>2. (IF torn THEN Front(sent) ELSE sent)' = (IF torn THEN Front(sent) ELSE sent)
  OBVIOUS
<1> QED
  BY <1>1, <1>2 DEF Service!service

\* The event loop, a refused connection, a read, what the peer does but for
\* sending, and a packet that is not complete are not noticed.
LEMMA QuietSteps ==
  ASSUME Inv,
         \/ Poll \/ Cleanup \/ Refuse \/ AcceptFails \/ AcceptInterrupted \/ ReadNothing
         \/ ReadUnits \/ LoopEnds \/ AwaitRest
         \/ PeerConnects \/ PeerCloses \/ PeerAbandons \/ UNCHANGED vars
  PROVE  UNCHANGED Service!service
<1>1. UNCHANGED <<torn, sent, served, ran, out>>
  BY DEF Poll, Cleanup, Refuse, AcceptFails, AcceptInterrupted, ReadNothing, ReadUnits, LoopEnds,
         AwaitRest, PeerConnects, PeerCloses, PeerAbandons, vars, callVars, peerVars
<1>2. CASE Cleanup
  <2>1. connected' = Serving /\ disconnected' = disconnected
    BY <1>2 DEF Cleanup
  <2>2. Serving' <=> Serving
    BY <2>1 DEF Serving
  <2> QED
    BY <1>1, <2>2, Unnoticed
<1>3. CASE AcceptFails
  <2>1. ~ connected /\ connected' = connected
    BY <1>3 DEF AcceptFails
  <2>2. Serving' <=> Serving
    BY <2>1 DEF Serving
  <2> QED
    BY <1>1, <2>2, Unnoticed
<1>4. CASE UNCHANGED <<connected, disconnected>>
  <2>1. Serving' <=> Serving
    BY <1>4 DEF Serving
  <2> QED
    BY <1>1, <2>1, Unnoticed
<1>5. Cleanup \/ AcceptFails \/ UNCHANGED <<connected, disconnected>>
  BY DEF Poll, Refuse, AcceptInterrupted, ReadNothing, ReadUnits, LoopEnds, AwaitRest,
         PeerConnects, PeerCloses, PeerAbandons, vars, linkVars
<1> QED
  BY <1>2, <1>3, <1>4, <1>5

\* The connection is lost, or was lost before.
LEMMA DisconnectCloses ==
  ASSUME Inv, ReadEnds \/ RejectHeader \/ brickd_recipient_disconnect
  PROVE  Service!Close \/ UNCHANGED Service!service
<1>1. UNCHANGED <<connected, torn, sent, served, ran, out>> /\ disconnected' = TRUE
  BY DEF ReadEnds, RejectHeader, brickd_recipient_disconnect, peerVars, callVars
<1>2. CASE Serving
  <2>1. Serving' = FALSE
    BY <1>1 DEF Serving
  <2>2. (IF torn THEN Front(sent) ELSE sent)' = (IF torn THEN Front(sent) ELSE sent)
    BY <1>1
  <2>3. UNCHANGED <<served, ran, out>>
    BY <1>1
  <2> QED
    BY <1>2, <2>1, <2>2, <2>3 DEF Service!Close
<1>3. CASE ~ Serving
  <2>1. Serving' <=> Serving
    BY <1>1, <1>3 DEF Serving
  <2> QED
    BY <1>1, <2>1, Unnoticed
<1> QED
  BY <1>2, <1>3

\* network_dispatch_response does what the API promises of packets.
LEMMA DispatchDelivers ==
  ASSUME NEW before, NEW packets, connected' = TRUE, dispatch_response(before, packets)
  PROVE  Service!Deliver(before, packets)
<1>1. PICK lost \in SUBSET (1..Len(packets)) :
        /\ out' = before \o Written(packets, lost)
        /\ disconnected' \in {FALSE, Len(packets) \in lost}
  BY DEF dispatch_response
<1>2. Serving' \in {TRUE, Len(packets) \notin lost}
  <2>1. disconnected' = FALSE \/ (disconnected' <=> Len(packets) \in lost)
    BY <1>1
  <2>2. Serving' \/ (Serving' <=> Len(packets) \notin lost)
    BY <2>1 DEF Serving
  <2> QED
    BY <2>2 DEF Serving
<1>3. Written(packets, lost) = Service!Written(packets, lost)
  BY DEF Written, Service!Written
<1> QED
  BY <1>1, <1>2, <1>3 DEF Service!Deliver

\* Both modules speak of the same callbacks.
LEMMA NotesAre ==
  ASSUME NEW k
  PROVE  Service!Notes(k) = Notes(k)
BY DEF Notes, Service!Notes, Packet, Service!Packet

\* Another Brick Daemon takes the place of the one that is gone.
LEMMA AcceptRenews ==
  ASSUME Inv, Accept
  PROVE  Service!Renew
<1>1. /\ ~ connected /\ connected' = TRUE /\ torn' = FALSE
      /\ sent' = <<>> /\ served' = 0 /\ ran' = {}
  BY DEF Accept
<1>2. ~ Serving
  BY <1>1 DEF Serving
<1>3. (IF torn THEN Front(sent) ELSE sent)' = <<>>
  BY <1>1
<1>4. PICK k \in 0..MaxBurst : dispatch_response(<<>>, Notes(k))
  BY DEF Accept
<1>5. Service!Deliver(<<>>, Service!Notes(k))
  BY <1>1, <1>4, DispatchDelivers, NotesAre
<1> QED
  BY <1>1, <1>2, <1>3, <1>5 DEF Service!Renew

\* Front takes the last element away.
LEMMA FrontOfAppend ==
  ASSUME NEW s \in Seq(Request), NEW r \in Request
  PROVE  Front(Append(s, r)) = s
<1> DEFINE z == Len(s)
           q == Append(s, r)
<1>1. z \in Nat /\ q \in Seq(Request) /\ Len(q) = z + 1 /\ \A i \in 1..z : q[i] = s[i]
  BY AppendProperties
<1>2. Front(q) = SubSeq(q, 1, Len(q) - 1)
  BY DEF Front
<1> HIDE DEF z, q
<1>3. Len(q) - 1 = z
  BY <1>1
<1> DEFINE f == SubSeq(q, 1, z)
<1>4. f \in Seq(Request) /\ Len(f) = z /\ \A i \in 1..z : f[i] = q[i]
  <2>1. 1 \in Int /\ z \in Int /\ \A i \in 1..z : q[i] \in Request
    BY <1>1
  <2>2. /\ f \in Seq(Request)
        /\ Len(f) = IF 1 <= z THEN z - 1 + 1 ELSE 0
        /\ \A i \in 1..(z - 1 + 1) : f[i] = q[1 + i - 1]
    BY <2>1, SubSeqProperties
  <2>3. (IF 1 <= z THEN z - 1 + 1 ELSE 0) = z /\ z - 1 + 1 = z /\ \A i \in 1..z : 1 + i - 1 = i
    BY <1>1
  <2> HIDE DEF f
  <2> QED
    BY <2>2, <2>3
<1> HIDE DEF f
<1>5. \A i \in 1..z : f[i] = s[i]
  BY <1>1, <1>4
<1>6. Len(s) = z
  BY DEF z
<1>7. f = s
  BY <1>4, <1>5, <1>6, SeqEqual
<1> QED
  BY <1>2, <1>3, <1>7 DEF f, q

\* A request counts as sent when its last unit is.
LEMMA PeerSendsSends ==
  ASSUME Inv, NEW r \in Request, NEW k \in 1..r.length, PeerSends(r, k)
  PROVE  Service!Send \/ UNCHANGED Service!service
<1>1. /\ peerOpen /\ sent' = Append(sent, r) /\ torn' = (k < r.length)
      /\ UNCHANGED <<connected, disconnected, served, ran, out>>
  BY DEF PeerSends, linkVars
<1>2. ~ torn
  BY <1>1, InvTypes DEF Watched
<1>3. Serving' = Serving
  BY <1>1 DEF Serving
<1>4. CASE torn'
  <2>1. Front(sent') = sent
    BY <1>1, InvTypes, FrontOfAppend
  <2>2. (IF torn THEN Front(sent) ELSE sent)' = (IF torn THEN Front(sent) ELSE sent)
    BY <1>2, <1>4, <2>1
  <2> QED
    BY <1>1, <1>3, <2>2 DEF Service!service
<1>5. CASE ~ torn'
  <2>1. (IF torn THEN Front(sent) ELSE sent)' = Append(IF torn THEN Front(sent) ELSE sent, r)
    BY <1>1, <1>2, <1>5
  <2> QED
    BY <1>1, <1>3, <2>1 DEF Service!Send
<1> QED
  BY <1>4, <1>5

\* A callback that belongs to no request is delivered or not.
LEMMA OtherEventNotifies ==
  ASSUME Inv, OtherEvent
  PROVE  Service!Notify \/ UNCHANGED Service!service
<1>1. UNCHANGED <<connected, torn, sent, served, ran>>
  BY OtherEventCases DEF peerVars
<1>2. CASE UNCHANGED <<out, disconnected>>
  <2>1. Serving' <=> Serving
    BY <1>1, <1>2 DEF Serving
  <2> QED
    BY <1>1, <1>2, <2>1, Unnoticed
<1>3. CASE Serving /\ dispatch_response(out, Notes(1))
  <2>1. Service!Deliver(out, Service!Notes(1))
    <3>1. connected' = TRUE
      BY <1>1, <1>3, InvTypes DEF Serving, Booleans
    <3> QED
      BY <1>3, <3>1, DispatchDelivers, NotesAre
  <2>2. (IF torn THEN Front(sent) ELSE sent)' = (IF torn THEN Front(sent) ELSE sent)
    BY <1>1
  <2>3. UNCHANGED <<served, ran>>
    BY <1>1
  <2> QED
    BY <1>3, <2>1, <2>2, <2>3 DEF Service!Notify
<1> QED
  BY <1>2, <1>3, OtherEventCases

\* The request that is served next was sent completely.
LEMMA NextIsWhole ==
  ASSUME Inv, Serving, PacketComplete, NextPacket
  PROVE  LET whole == IF torn THEN Front(sent) ELSE sent IN
         served < Len(whole) /\ whole[served + 1] = Header
<1> DEFINE z == Len(sent)
           f == SubSeq(sent, 1, z - 1)
<1>1. /\ served + 1 \in 1..z /\ (torn => served + 1 < z) /\ Header = sent[served + 1]
      /\ served \in Nat /\ z \in Nat
  BY NextPacketFacts, InvTypes
<1>2. CASE ~ torn
  BY <1>1, <1>2
<1>3. CASE torn
  <2>1. Front(sent) = f
    BY DEF Front
  <2>2. \A i \in 1..(z - 1) : sent[i] \in Request
    BY InvTypes
  <2> HIDE DEF z
  <2>3. 1 \in Int /\ z - 1 \in Int /\ 1 <= z - 1
    BY <1>1, <1>3
  <2>4. /\ Len(f) = IF 1 <= z - 1 THEN (z - 1) - 1 + 1 ELSE 0
        /\ \A i \in 1..((z - 1) - 1 + 1) : f[i] = sent[1 + i - 1]
    BY <2>2, <2>3, SubSeqProperties
  <2>5. /\ (IF 1 <= z - 1 THEN (z - 1) - 1 + 1 ELSE 0) = z - 1
        /\ served + 1 \in 1..((z - 1) - 1 + 1) /\ 1 + (served + 1) - 1 = served + 1
    BY <1>1, <1>3, <2>3
  <2> HIDE DEF f
  <2>6. Len(f) = z - 1 /\ f[served + 1] = sent[served + 1]
    BY <2>4, <2>5
  <2>7. served < Len(f)
    BY <1>1, <1>3, <2>6
  <2> QED
    BY <1>1, <1>3, <2>1, <2>6, <2>7
<1> QED
  BY <1>2, <1>3

\* A request that is handled, or skipped because it is for somebody else, is
\* served.
LEMMA RequestIsServed ==
  ASSUME Inv, DropForeign \/ HandleRequest
  PROVE  Service!Serve
<1> DEFINE whole == IF torn THEN Front(sent) ELSE sent
<1>1. /\ pc = "loop" /\ ~ disconnected /\ PacketComplete /\ NextPacket /\ served' = Current
      /\ UNCHANGED <<connected, torn, sent>>
  BY DEF DropForeign, HandleRequest, linkVars, peerVars
<1>2. Serving
  BY <1>1, InvTypes DEF Serving, Watched
<1>3. /\ Current = served + 1 /\ Header = sent[served + 1] /\ Header \in Request /\ Header.valid
      /\ served \in Nat /\ Current \in Nat
  BY <1>1, <1>2, NextPacketFacts, InvTypes
<1>4. served < Len(whole) /\ whole[served + 1] = Header
  BY <1>1, <1>2, NextIsWhole
<1>5. whole' = whole
  BY <1>1
<1>6. ASSUME NEW done \in {FALSE, Header.mine /\ Header.sized /\ Header.call # "unknown"},
             ran' = (IF done THEN ran \cup {Current} ELSE ran),
             NEW packets \in Service!Answers(Header, Current, done),
             Service!Deliver(out, packets)
      PROVE  Service!Serve
  <2>1. Service!Deliver(out, packets)
    BY <1>6
  <2>2. \E d \in {FALSE, Header.mine /\ Header.sized /\ Header.call # "unknown"} :
          /\ ran' = IF d THEN ran \cup {served + 1} ELSE ran
          /\ \E p \in Service!Answers(Header, served + 1, d) : Service!Deliver(out, p)
    BY <1>3, <1>6
  <2>3. served' = served + 1
    BY <1>1, <1>3
  <2> HIDE DEF whole
  <2>4. /\ Serving /\ served < Len(whole)
        /\ LET r == whole[served + 1] IN
           /\ r.valid
           /\ \E d \in {FALSE, r.mine /\ r.sized /\ r.call # "unknown"} :
                /\ ran' = IF d THEN ran \cup {served + 1} ELSE ran
                /\ \E p \in Service!Answers(r, served + 1, d) : Service!Deliver(out, p)
    BY <1>2, <1>3, <1>4, <2>2
  <2> QED
    BY <1>5, <2>3, <2>4 DEF Service!Serve, whole
<1>7. CASE DropForeign
  <2>1. ~ Header.mine /\ UNCHANGED <<disconnected, ran, out>>
    BY <1>7 DEF DropForeign, linkVars
  <2>2. <<>> \in Service!Answers(Header, Current, FALSE)
    <3>1. <<>> \in Closing(Header, Current, FALSE)
      BY <2>1 DEF Closing, Service!Answered
    <3> QED
      BY <3>1, ClosingAnswers
  <2>3. Service!Deliver(out, <<>>)
    <3>1. {} \in SUBSET (1..Len(<<>>))
      OBVIOUS
    <3>2. out' = out \o Service!Written(<<>>, {})
      <4>1. Service!Written(<<>>, {}) = <<>>
        BY DEF Service!Written
      <4>2. out \o <<>> = out
        BY InvTypes, ConcatEmptySeq
      <4> QED
        BY <2>1, <4>1, <4>2
    <3>3. Serving' = TRUE
      BY <1>1, <1>2, <2>1 DEF Serving
    <3> QED
      BY <3>1, <3>2, <3>3 DEF Service!Deliver
  <2>4. ran' = (IF FALSE THEN ran \cup {Current} ELSE ran)
    BY <2>1
  <2> QED
    BY <1>6, <2>2, <2>3, <2>4
<1>8. CASE HandleRequest
  <2>1. Header.mine /\ api_handle_request(Header, Current)
    BY <1>8 DEF HandleRequest
  <2>2. PICK done \in {FALSE, Header.mine /\ Header.sized /\ Header.call # "unknown"} :
          /\ ran' = IF done THEN ran \cup {Current} ELSE ran
          /\ \E packets \in Service!Answers(Header, Current, done) : dispatch_response(out, packets)
    <3>1. Header \in Request /\ Current \in Nat
      BY <1>3
    <3> QED
      BY <2>1, <3>1, HandledAnswers
  <2>3. PICK packets \in Service!Answers(Header, Current, done) : dispatch_response(out, packets)
    BY <2>2
  <2>4. Service!Deliver(out, packets)
    <3>1. connected' = TRUE
      BY <1>1, <1>2, InvTypes DEF Serving, Booleans
    <3> QED
      BY <2>3, <3>1, DispatchDelivers
  <2> QED
    BY <1>6, <2>2, <2>3, <2>4
<1> QED
  BY <1>7, <1>8

\* However the bytes of the requests arrive and whatever happens in between,
\* a client sees the service that RequestService describes.
THEOREM Implementation == Spec => ImplementsService
<1>1. Init => Service!Init
  <2> SUFFICES ASSUME Init
               PROVE  Service!Init
    OBVIOUS
  <2>1. ~ Serving /\ (IF torn THEN Front(sent) ELSE sent) = <<>>
    BY DEF Init, Serving
  <2> QED
    BY <2>1 DEF Init, Service!Init
<1>2. Inv /\ [Next]_vars => [Service!Next]_Service!service
  <2> SUFFICES ASSUME Inv, [Next]_vars
               PROVE  Service!Next \/ UNCHANGED Service!service
    OBVIOUS
  <2>1. CASE Handlers
    BY <2>1, QuietSteps, AcceptRenews, DisconnectCloses, OtherEventNotifies DEF Handlers, Service!Next
  <2>2. CASE Loop
    BY <2>2, QuietSteps, DisconnectCloses, RequestIsServed DEF Loop, Service!Next
  <2>3. CASE Poll \/ Cleanup \/ PeerConnects \/ PeerCloses \/ PeerAbandons \/ UNCHANGED vars
    BY <2>3, QuietSteps
  <2>4. CASE \E r \in Request : \E k \in 1..r.length : PeerSends(r, k)
    BY <2>4, PeerSendsSends DEF Service!Next
  <2> QED
    BY <2>1, <2>2, <2>3, <2>4 DEF Next, Daemon
<1> QED
  BY <1>1, <1>2, Invariance, PTL DEF Spec, ImplementsService, Service!Spec
=============================================================================
