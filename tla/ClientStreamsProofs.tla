------------------------ MODULE ClientStreamsProofs ------------------------
(***************************************************************************)
(* The pool and the table share the indices handed out so far; what the    *)
(* page writes reaches the stream it was written along, and so does a blob *)
(* of the server: for every server, every page, queues of any length, and  *)
(* any number of streams, although indices are used again at once.         *)
(*                                                                         *)
(* Two inductive invariants: Output, for the streams of the page, and      *)
(* Input, for those of the server.                                         *)
(***************************************************************************)
EXTENDS ClientStreams, SequenceTheorems, TLAPS

\* The pool and the table, and what they hold.
Shape(c) == c.next \in Nat /\ c.free \in Seq(Nat)

Fits(c) == Shape(c) /\ Partition(c)

-----------------------------------------------------------------------------
\* createOutputStream takes the oldest free index, or the next one, for the table.
LEMMA CreateFits ==
  ASSUME NEW c, NEW id, Fits(c)
  PROVE  Fits(createOutputStream(c, id))
<1> DEFINE d == createOutputStream(c, id)
<1> USE DEF Fits, Shape
<1>1. CASE c.free # <<>>
  <2>1. c.free # <<>> /\ c.free \in Seq(Nat) BY <1>1
  <2>2. d.next = c.next /\ d.free = Tail(c.free) /\ d.output = With(c.output, Head(c.free), id)
    BY <1>1 DEF createOutputStream, nextIndex
  <2>3. /\ Tail(c.free) \in Seq(Nat)
        /\ Len(Tail(c.free)) = Len(c.free) - 1 /\ Len(c.free) \in Nat /\ Len(c.free) > 0
        /\ \A k \in 1..(Len(c.free) - 1) : Tail(c.free)[k] = c.free[k + 1]
        /\ Head(c.free) = c.free[1]
    BY <2>1
  <2>4. DOMAIN d.output = DOMAIN c.output \cup {c.free[1]}
    BY <2>2, <2>3 DEF With
  <2>5. Shape(d) BY <2>2, <2>3
  <2>6. DOMAIN d.free = 1..(Len(c.free) - 1) /\ DOMAIN c.free = 1..Len(c.free)
    BY <2>2, <2>3
  <2>7. \A k \in DOMAIN d.free : k + 1 \in DOMAIN c.free /\ d.free[k] = c.free[k + 1]
    BY <2>2, <2>3, <2>6
  <2>8. \A j, k \in DOMAIN c.free : j # k => c.free[j] # c.free[k] BY DEF Partition
  <2>9. \A k \in DOMAIN c.free : c.free[k] \notin DOMAIN c.output BY DEF Partition
  <2>10. \A j, k \in DOMAIN d.free : j # k => d.free[j] # d.free[k]
    <3> SUFFICES ASSUME NEW j \in DOMAIN d.free, NEW k \in DOMAIN d.free, j # k
                 PROVE  d.free[j] # d.free[k]
      OBVIOUS
    <3>1. j + 1 # k + 1 BY <2>6
    <3>2. c.free[j + 1] # c.free[k + 1] BY <3>1, <2>7, <2>8
    <3> QED BY <3>2, <2>7
  <2>11. \A k \in DOMAIN d.free : d.free[k] \notin DOMAIN d.output
    <3> SUFFICES ASSUME NEW k \in DOMAIN d.free
                 PROVE  d.free[k] \notin DOMAIN c.output /\ d.free[k] # c.free[1]
      BY <2>4
    <3>1. k + 1 # 1 /\ 1 \in DOMAIN c.free BY <2>3, <2>6
    <3>2. c.free[k + 1] # c.free[1] BY <3>1, <2>7, <2>8
    <3>3. c.free[k + 1] \notin DOMAIN c.output BY <2>7, <2>9
    <3> QED BY <3>2, <3>3, <2>7
  <2>12. {c.free[k] : k \in DOMAIN c.free} = {c.free[1]} \cup {d.free[k] : k \in DOMAIN d.free}
    <3>1. \A k \in DOMAIN c.free : k = 1 \/ (k - 1 \in DOMAIN d.free /\ d.free[k - 1] = c.free[k])
      BY <2>3, <2>6, <2>7
    <3>2. 1 \in DOMAIN c.free BY <2>3, <2>6
    <3> QED BY <3>1, <3>2, <2>7
  <2>13. DOMAIN d.output \cup {d.free[k] : k \in DOMAIN d.free} = 0..(d.next - 1)
    BY <2>2, <2>4, <2>12 DEF Partition
  <2> QED BY <2>5, <2>10, <2>11, <2>13 DEF Partition
<1>2. CASE c.free = <<>>
  <2>1. d.next = c.next + 1 /\ d.free = c.free /\ d.output = With(c.output, c.next, id)
    BY <1>2 DEF createOutputStream, nextIndex
  <2>2. DOMAIN d.output = DOMAIN c.output \cup {c.next} BY <2>1 DEF With
  <2>3. Shape(d) BY <2>1
  <2>4. c.next \notin 0..(c.next - 1) /\ 0..c.next = 0..(c.next - 1) \cup {c.next} OBVIOUS
  <2>5. (c.next + 1) - 1 = c.next OBVIOUS
  <2>6. \A k \in DOMAIN c.free : c.free[k] # c.next BY <2>4 DEF Partition
  <2> QED BY <2>1, <2>2, <2>3, <2>4, <2>5, <2>6 DEF Partition
<1> QED BY <1>1, <1>2

\* free moves an index from the table to the end of the pool.
LEMMA FreeFits ==
  ASSUME NEW c, Fits(c), NEW i \in DOMAIN c.output
  PROVE  Fits(free(c, i))
<1> DEFINE d == free(c, i)
           n == Len(c.free)
<1> USE DEF Fits, Shape
<1>1. d.next = c.next /\ d.free = Append(c.free, i) /\ d.output = Without(c.output, i)
  BY DEF free
<1>2. i \in 0..(c.next - 1) /\ i \in Nat BY DEF Partition
<1>3. /\ Append(c.free, i) \in Seq(Nat)
      /\ n \in Nat /\ DOMAIN c.free = 1..n /\ DOMAIN d.free = 1..(n + 1)
      /\ \A k \in 1..n : d.free[k] = c.free[k]
      /\ d.free[n + 1] = i
  BY <1>1, <1>2
<1>4. DOMAIN d.output = DOMAIN c.output \ {i} BY <1>1 DEF Without
<1>5. Shape(d) BY <1>1, <1>3
<1>6. \A k \in DOMAIN c.free : c.free[k] # i BY DEF Partition
<1>7. \A k \in DOMAIN d.free : (k \in DOMAIN c.free /\ d.free[k] = c.free[k]) \/ (k = n + 1 /\ d.free[k] = i)
  BY <1>3
<1>8. \A j, k \in DOMAIN d.free : j # k => d.free[j] # d.free[k]
  BY <1>6, <1>7 DEF Partition
<1>9. \A k \in DOMAIN d.free : d.free[k] \notin DOMAIN d.output
  BY <1>4, <1>7 DEF Partition
<1>10. {d.free[k] : k \in DOMAIN d.free} = {c.free[k] : k \in DOMAIN c.free} \cup {i}
  <2>1. n + 1 \in DOMAIN d.free /\ \A k \in DOMAIN c.free : k \in DOMAIN d.free BY <1>3
  <2> QED BY <2>1, <1>3, <1>7
<1>11. DOMAIN d.output \cup {d.free[k] : k \in DOMAIN d.free} = 0..(d.next - 1)
  BY <1>1, <1>4, <1>10 DEF Partition
<1> QED BY <1>5, <1>8, <1>9, <1>11 DEF Partition


-----------------------------------------------------------------------------
(* What is known of the streams of the page: whatever the page writes next *)
(* along a stream, and what it has written and is under way, meets that    *)
(* stream at the server, or none.                                          *)

Ops ==
  Kinds \cup {"open", "end", "blob", "ack", "refusal", "event", "get", "filesystem", "undefine",
             "sync", "error", "disconnect"}

Messages == [op : Ops, index : Nat, id : Int]

Writes == {"blob", "end"}

\* Index i of the table is stream x.
InTable(c, i, x) == i \in DOMAIN c.output /\ c.output[i] = x

\* The page writes along what is in the table, and each stream is in it once.
Follows(m, c) ==
  /\ \A x \in DOMAIN m : InTable(c, m[x], x)
  /\ \A i \in DOMAIN c.output : c.output[i] \in DOMAIN m /\ m[c.output[i]] = i

PoolOK(c, n) == Fits(c) /\ n \in Nat /\ \A i \in DOMAIN c.output : c.output[i] \in 1..n

IsOpen(m)    == m.op = "open"
OpenAt(m, i) == m.op = "open" /\ m.index = i

\* The j-th message is the last before the k-th that opens a stream at index i.
LastOpen(s, j, k, i) ==
  j < k /\ OpenAt(s[j], i) /\ \A l \in DOMAIN s : j < l /\ l < k => ~OpenAt(s[l], i)

\* A k-th message about index i would find stream x there, or none.
Meets(s, h, k, i, x) ==
  /\ \A j \in DOMAIN s : LastOpen(s, j, k, i) => s[j].id = x
  /\ (\A j \in DOMAIN s : j < k => ~OpenAt(s[j], i)) => (i \in DOMAIN h => h[i] = x)

WritesMeet(s, h) ==
  \A k \in DOMAIN s : s[k].op \in Writes => Meets(s, h, k, s[k].index, s[k].id)

TableMeets(c, s, h) ==
  \A i \in DOMAIN c.output : Meets(s, h, Len(s) + 1, i, c.output[i])

Streams(c, n, ts, tc, h) ==
  /\ PoolOK(c, n) /\ ts \in Seq(Messages) /\ tc \in Seq(Messages)
  /\ \A i \in DOMAIN h : i \in Nat /\ h[i] \in Int
  /\ WritesMeet(ts, h)

Output(c, n, ts, tc, h, up) == Streams(c, n, ts, tc, h) /\ (up => TableMeets(c, ts, h))

-----------------------------------------------------------------------------
(* What a new stream and the end of one do to the table                    *)

LEMMA CreateTable ==
  ASSUME NEW c, NEW n, PoolOK(c, n)
  PROVE  LET d == createOutputStream(c, n + 1)
             i == nextIndex(c)
         IN  /\ PoolOK(d, n + 1) /\ i \in Nat /\ i \notin DOMAIN c.output
             /\ DOMAIN d.output = DOMAIN c.output \cup {i} /\ d.output[i] = n + 1
             /\ \A j \in DOMAIN c.output : d.output[j] = c.output[j]
<1> DEFINE d == createOutputStream(c, n + 1)
           i == nextIndex(c)
<1> USE DEF PoolOK
<1>1. Fits(d) BY CreateFits
<1>2. i \notin DOMAIN c.output /\ i \in Nat
  <2>1. CASE c.free # <<>>
    <3>1. i = c.free[1] /\ 1 \in DOMAIN c.free /\ c.free[1] \in Nat
      BY <2>1 DEF nextIndex, Fits, Shape
    <3> QED BY <3>1 DEF Fits, Partition
  <2>2. CASE c.free = <<>>
    <3>1. i = c.next /\ c.next \in Nat /\ c.next \notin 0..(c.next - 1)
      BY <2>2 DEF nextIndex, Fits, Shape
    <3> QED BY <3>1 DEF Fits, Partition
  <2> QED BY <2>1, <2>2
<1>3. d.output = With(c.output, i, n + 1) BY DEF createOutputStream
<1>4. /\ DOMAIN d.output = DOMAIN c.output \cup {i} /\ d.output[i] = n + 1
      /\ \A j \in DOMAIN c.output : d.output[j] = c.output[j]
  BY <1>2, <1>3 DEF With
<1>5. \A j \in DOMAIN d.output : d.output[j] \in 1..(n + 1)
  <2> SUFFICES ASSUME NEW j \in DOMAIN d.output PROVE d.output[j] \in 1..(n + 1) OBVIOUS
  <2>1. CASE j = i BY <2>1, <1>4
  <2>2. CASE j # i BY <2>2, <1>4
  <2> QED BY <2>1, <2>2
<1> QED BY <1>1, <1>2, <1>4, <1>5

LEMMA FreeTable ==
  ASSUME NEW c, NEW n, PoolOK(c, n), NEW i \in DOMAIN c.output
  PROVE  LET d == free(c, i)
         IN  /\ PoolOK(d, n) /\ i \in Nat
             /\ DOMAIN d.output = DOMAIN c.output \ {i}
             /\ \A j \in DOMAIN d.output : d.output[j] = c.output[j]
<1> DEFINE d == free(c, i)
<1> USE DEF PoolOK
<1>1. Fits(d) BY FreeFits
<1>2. d.output = Without(c.output, i) /\ i \in Nat BY DEF free, Fits, Shape, Partition
<1>3. /\ DOMAIN d.output = DOMAIN c.output \ {i}
      /\ \A j \in DOMAIN d.output : d.output[j] = c.output[j]
  BY <1>2 DEF Without
<1>4. \A j \in DOMAIN d.output : d.output[j] \in 1..n BY <1>3
<1> QED BY <1>1, <1>2, <1>3, <1>4

\* The page's own record follows the table.
LEMMA CreateFollows ==
  ASSUME NEW c, NEW n, NEW m, PoolOK(c, n), Follows(m, c)
  PROVE  Follows(With(m, n + 1, nextIndex(c)), createOutputStream(c, n + 1))
<1> DEFINE d == createOutputStream(c, n + 1)
           i == nextIndex(c)
           o == With(m, n + 1, i)
<1>1. /\ i \notin DOMAIN c.output
      /\ DOMAIN d.output = DOMAIN c.output \cup {i} /\ d.output[i] = n + 1
      /\ \A j \in DOMAIN c.output : d.output[j] = c.output[j]
  BY CreateTable
<1>2. \A j \in DOMAIN c.output : c.output[j] # n + 1
  <2>1. \A x \in 1..n : x # n + 1 BY DEF PoolOK
  <2> QED BY <2>1 DEF PoolOK
<1>3. /\ DOMAIN o = DOMAIN m \cup {n + 1} /\ o[n + 1] = i
      /\ \A x \in DOMAIN m : x # n + 1 => o[x] = m[x]
  BY DEF With
<1> HIDE DEF d, i, o
<1>4. ASSUME NEW x \in DOMAIN o PROVE InTable(d, o[x], x)
  <2>1. CASE x = n + 1 BY <1>1, <1>3, <2>1 DEF InTable
  <2>2. CASE x # n + 1 BY <1>1, <1>3, <2>2 DEF InTable, Follows
  <2> QED BY <2>1, <2>2
<1>5. ASSUME NEW j \in DOMAIN d.output PROVE d.output[j] \in DOMAIN o /\ o[d.output[j]] = j
  <2>1. CASE j = i BY <1>1, <1>3, <2>1
  <2>2. CASE j # i
    <3>1. j \in DOMAIN c.output /\ d.output[j] = c.output[j] /\ c.output[j] # n + 1
      BY <1>1, <1>2, <2>2
    <3> QED BY <1>3, <3>1 DEF Follows
  <2> QED BY <2>1, <2>2
<1> QED BY <1>4, <1>5 DEF Follows, d, i, o

LEMMA FreeFollows ==
  ASSUME NEW c, NEW n, NEW m, PoolOK(c, n), Follows(m, c), NEW i \in DOMAIN c.output
  PROVE  Follows(Without(m, c.output[i]), free(c, i))
<1> DEFINE d == free(c, i)
           o == Without(m, c.output[i])
<1>1. /\ DOMAIN d.output = DOMAIN c.output \ {i}
      /\ \A j \in DOMAIN d.output : d.output[j] = c.output[j]
  BY FreeTable
<1>2. DOMAIN o = DOMAIN m \ {c.output[i]} /\ \A x \in DOMAIN o : o[x] = m[x] BY DEF Without
<1> HIDE DEF d, o
<1>3. \A x \in DOMAIN o : InTable(d, o[x], x) BY <1>1, <1>2 DEF Follows, InTable
<1>4. \A j \in DOMAIN d.output : d.output[j] \in DOMAIN o /\ o[d.output[j]] = j
  BY <1>1, <1>2 DEF Follows
<1> QED BY <1>3, <1>4 DEF Follows, d, o

-----------------------------------------------------------------------------
(* Messages that are added to a queue and taken from it                    *)

Grown(s, m, t) ==
  /\ Len(s) \in Nat /\ Len(t) = Len(s) + 1 /\ t[Len(s) + 1] = m
  /\ DOMAIN s = 1..Len(s) /\ DOMAIN t = 1..(Len(s) + 1)
  /\ \A k \in 1..Len(s) : t[k] = s[k]

Shrunk(s, t) ==
  /\ Len(t) \in Nat /\ Len(s) = Len(t) + 1
  /\ DOMAIN s = 1..(Len(t) + 1) /\ DOMAIN t = 1..Len(t)
  /\ \A k \in 1..Len(t) : t[k] = s[k + 1]

LEMMA AppendGrows ==
  ASSUME NEW s \in Seq(Messages), NEW m \in Messages
  PROVE  Grown(s, m, Append(s, m)) /\ Append(s, m) \in Seq(Messages) /\ s \o <<m>> = Append(s, m)
<1>1. /\ Len(s) \in Nat /\ DOMAIN s = 1..Len(s) /\ DOMAIN Append(s, m) = 1..(Len(s) + 1)
      /\ Len(Append(s, m)) = Len(s) + 1
      /\ Append(s, m)[Len(s) + 1] = m /\ \A k \in 1..Len(s) : Append(s, m)[k] = s[k]
  OBVIOUS
<1>2. Grown(s, m, Append(s, m)) BY <1>1 DEF Grown
<1> QED BY <1>2

LEMMA TailShrinks ==
  ASSUME NEW s \in Seq(Messages), s # <<>>
  PROVE  /\ Shrunk(s, Tail(s)) /\ Tail(s) \in Seq(Messages) /\ Head(s) = s[1] /\ 1 \in DOMAIN s
         /\ Head(s) \in Messages
<1>1. /\ Len(s) \in Nat /\ Len(s) # 0 /\ DOMAIN s = 1..Len(s) /\ DOMAIN Tail(s) = 1..(Len(s) - 1)
      /\ Len(Tail(s)) = Len(s) - 1 /\ \A k \in 1..(Len(s) - 1) : Tail(s)[k] = s[k + 1]
  OBVIOUS
<1>2. (Len(s) - 1) + 1 = Len(s) /\ Len(s) - 1 \in Nat BY <1>1
<1>3. Shrunk(s, Tail(s)) BY <1>1, <1>2 DEF Shrunk
<1> QED BY <1>3

LEMMA MessageTyped ==
  ASSUME NEW op \in Ops, NEW i \in Nat, NEW x \in Int
  PROVE  /\ Message(op, i, x) \in Messages
         /\ Message(op, i, x).op = op /\ Message(op, i, x).index = i /\ Message(op, i, x).id = x
BY DEF Message, Messages

\* A message that is added comes after every other.
LEMMA MeetsEarlier ==
  ASSUME NEW s, NEW m, NEW t, Grown(s, m, t), NEW h, NEW i, NEW x,
         NEW k \in 1..(Len(s) + 1), Meets(s, h, k, i, x)
  PROVE  Meets(t, h, k, i, x)
<1>1. \A j \in DOMAIN t : j < k => j \in DOMAIN s /\ t[j] = s[j] BY DEF Grown
<1>2. \A j \in DOMAIN s : j \in DOMAIN t /\ t[j] = s[j] BY DEF Grown
<1>3. ASSUME NEW j \in DOMAIN t, LastOpen(t, j, k, i) PROVE t[j].id = x
  <2>1. j \in DOMAIN s /\ t[j] = s[j] /\ j < k BY <1>1, <1>3 DEF LastOpen
  <2>2. LastOpen(s, j, k, i) BY <1>2, <1>3, <2>1 DEF LastOpen
  <2> QED BY <2>1, <2>2 DEF Meets
<1>4. ASSUME \A j \in DOMAIN t : j < k => ~OpenAt(t[j], i) PROVE i \in DOMAIN h => h[i] = x
  BY <1>2, <1>4 DEF Meets
<1> QED BY <1>3, <1>4 DEF Meets

\* A message that opens nothing there leaves what the next one meets.
LEMMA MeetsBeyond ==
  ASSUME NEW s, NEW m, NEW t, Grown(s, m, t), NEW h, NEW i, NEW x,
         ~OpenAt(m, i), Meets(s, h, Len(s) + 1, i, x)
  PROVE  Meets(t, h, Len(t) + 1, i, x)
<1> DEFINE z == Len(s)
<1>0. z \in Nat /\ Len(t) = z + 1 /\ DOMAIN s = 1..z /\ DOMAIN t = 1..(z + 1) /\ t[z + 1] = m
      /\ \A j \in 1..z : t[j] = s[j]
  BY DEF Grown
<1>1. \A j \in DOMAIN t : OpenAt(t[j], i) => j \in DOMAIN s /\ t[j] = s[j] /\ j < z + 1
  BY <1>0
<1>2. \A j \in DOMAIN s : j \in DOMAIN t /\ t[j] = s[j] /\ j < z + 1 /\ j < Len(t) + 1
  BY <1>0
<1> HIDE DEF z
<1>3. ASSUME NEW j \in DOMAIN t, LastOpen(t, j, Len(t) + 1, i) PROVE t[j].id = x
  <2>1. j \in DOMAIN s /\ t[j] = s[j] /\ j < z + 1 BY <1>1, <1>3 DEF LastOpen
  <2>2. LastOpen(s, j, z + 1, i) BY <1>2, <1>3, <2>1 DEF LastOpen
  <2> QED BY <2>1, <2>2 DEF Meets, z
<1>4. ASSUME \A j \in DOMAIN t : j < Len(t) + 1 => ~OpenAt(t[j], i) PROVE i \in DOMAIN h => h[i] = x
  BY <1>2, <1>4 DEF Meets, z
<1> QED BY <1>3, <1>4 DEF Meets

\* The next message after an open meets the stream it opens.
LEMMA MeetsNew ==
  ASSUME NEW s, NEW m, NEW t, Grown(s, m, t), NEW h, IsOpen(m)
  PROVE  Meets(t, h, Len(t) + 1, m.index, m.id)
<1> DEFINE z == Len(s)
<1>0. z \in Nat /\ Len(t) = z + 1 /\ DOMAIN t = 1..(z + 1) /\ t[z + 1] = m
  BY DEF Grown
<1> HIDE DEF z
<1>1. z + 1 \in DOMAIN t /\ OpenAt(t[z + 1], m.index) /\ z + 1 < Len(t) + 1
  BY <1>0 DEF OpenAt, IsOpen
<1>2. \A j \in DOMAIN t : j = z + 1 \/ (j < z + 1 /\ z + 1 < Len(t) + 1) BY <1>0
<1>3. \A j \in DOMAIN t : LastOpen(t, j, Len(t) + 1, m.index) => j = z + 1
  BY <1>1, <1>2 DEF LastOpen
<1> QED BY <1>0, <1>1, <1>3 DEF Meets

\* What is under way still finds at the server what it would have found.
Heard(h, m) ==
  CASE m.op = "open" -> With(h, m.index, m.id)
    [] m.op = "end"  -> Without(h, m.index)
    [] OTHER         -> h

LEMMA MeetsHeard ==
  ASSUME NEW s, NEW t, Shrunk(s, t), NEW h, NEW i, NEW x,
         NEW k \in 1..(Len(t) + 1), Meets(s, h, k + 1, i, x)
  PROVE  Meets(t, Heard(h, s[1]), k, i, x)
<1> DEFINE g == Heard(h, s[1])
<1>1. \A j \in DOMAIN t : /\ j \in Nat /\ j + 1 \in DOMAIN s /\ t[j] = s[j + 1]
                          /\ j < k <=> j + 1 < k + 1
  BY DEF Shrunk
<1>2. \A j \in DOMAIN s : 1 < j => j - 1 \in DOMAIN t /\ t[j - 1] = s[j] /\ j \in Nat BY DEF Shrunk
<1>3. \A j \in DOMAIN s : j = 1 \/ 1 < j BY DEF Shrunk
<1>4. 1 \in DOMAIN s /\ 1 < k + 1 /\ k \in Nat BY DEF Shrunk
<1>5. ASSUME NEW j \in DOMAIN t, LastOpen(t, j, k, i) PROVE t[j].id = x
  <2>1. j + 1 \in DOMAIN s /\ t[j] = s[j + 1] /\ j + 1 < k + 1 /\ j \in Nat
    BY <1>1, <1>5 DEF LastOpen
  <2>2. ASSUME NEW l \in DOMAIN s, j + 1 < l, l < k + 1 PROVE ~OpenAt(s[l], i)
    <3>1. l - 1 \in DOMAIN t /\ t[l - 1] = s[l] /\ j < l - 1 /\ l - 1 < k
      <4>1. l \in Nat BY DEF Shrunk
      <4>2. 1 < l BY <2>1, <2>2, <4>1
      <4> QED BY <1>2, <1>4, <2>1, <2>2, <4>1, <4>2
    <3> QED BY <1>5, <3>1 DEF LastOpen
  <2>3. LastOpen(s, j + 1, k + 1, i) BY <1>5, <2>1, <2>2 DEF LastOpen
  <2> QED BY <2>1, <2>3 DEF Meets
<1>6. ASSUME \A j \in DOMAIN t : j < k => ~OpenAt(t[j], i), i \in DOMAIN g PROVE g[i] = x
  <2>1. \A l \in DOMAIN s : 1 < l /\ l < k + 1 => ~OpenAt(s[l], i)
    <3> SUFFICES ASSUME NEW l \in DOMAIN s, 1 < l, l < k + 1 PROVE ~OpenAt(s[l], i) OBVIOUS
    <3>1. l - 1 \in DOMAIN t /\ t[l - 1] = s[l] /\ l - 1 < k BY <1>2, <1>4
    <3> QED BY <1>6, <3>1
  <2>2. CASE OpenAt(s[1], i)
    <3>1. LastOpen(s, 1, k + 1, i) BY <1>4, <2>1, <2>2 DEF LastOpen
    <3>2. s[1].id = x BY <1>4, <3>1 DEF Meets
    <3> QED BY <2>2, <3>2 DEF Heard, With, OpenAt
  <2>3. CASE ~OpenAt(s[1], i)
    <3>1. \A l \in DOMAIN s : l < k + 1 => ~OpenAt(s[l], i) BY <1>3, <2>1, <2>3
    <3>2. i \in DOMAIN h => h[i] = x BY <3>1 DEF Meets
    <3>3. i \in DOMAIN h /\ g[i] = h[i] BY <1>6, <2>3 DEF Heard, With, Without, OpenAt
    <3> QED BY <3>2, <3>3
  <2> QED BY <2>2, <2>3
<1> HIDE DEF g
<1> QED BY <1>5, <1>6 DEF Meets, g

-----------------------------------------------------------------------------
(* The queues after each kind of step                                      *)

\* What the tunnel makes of a message.
Put(up, s, m) == IF up THEN Append(s, m) ELSE s

\* A message, whatever it is; what is written goes along a stream of the table.
LEMMA PutKeepsStreams ==
  ASSUME NEW c, NEW n, NEW ts, NEW tc, NEW h, Output(c, n, ts, tc, h, TRUE),
         NEW m \in Messages, m.op \in Writes => InTable(c, m.index, m.id)
  PROVE  Streams(c, n, Append(ts, m), tc, h)
<1> DEFINE t == Append(ts, m)
<1>1. ts \in Seq(Messages) /\ WritesMeet(ts, h) /\ TableMeets(c, ts, h) BY DEF Output, Streams
<1>2. Grown(ts, m, t) /\ t \in Seq(Messages) BY <1>1, AppendGrows
<1> HIDE DEF t
<1>3. WritesMeet(t, h)
  <2> SUFFICES ASSUME NEW k \in DOMAIN t, t[k].op \in Writes
               PROVE  Meets(t, h, k, t[k].index, t[k].id)
    BY DEF WritesMeet
  <2>1. \/ k \in DOMAIN ts /\ t[k] = ts[k]
        \/ k = Len(ts) + 1 /\ t[k] = m
    BY <1>2 DEF Grown
  <2>2. k \in 1..(Len(ts) + 1) BY <1>2 DEF Grown
  <2>3. Meets(ts, h, k, t[k].index, t[k].id)
    <3>1. CASE k \in DOMAIN ts /\ t[k] = ts[k] BY <1>1, <3>1 DEF WritesMeet
    <3>2. CASE k = Len(ts) + 1 /\ t[k] = m BY <1>1, <3>2 DEF TableMeets, InTable
    <3> QED BY <2>1, <3>1, <3>2
  <2> QED BY <1>2, <2>2, <2>3, MeetsEarlier
<1> QED BY <1>2, <1>3 DEF Output, Streams, t

\* A message that opens no stream.
LEMMA SayKeeps ==
  ASSUME NEW c, NEW n, NEW ts, NEW tc, NEW h, NEW up \in BOOLEAN, Output(c, n, ts, tc, h, up),
         NEW m \in Messages, ~IsOpen(m), m.op \in Writes => InTable(c, m.index, m.id)
  PROVE  Output(c, n, Put(up, ts, m), tc, h, up)
<1>1. CASE ~up BY <1>1 DEF Put
<1>2. CASE up
  <2> DEFINE t == Append(ts, m)
  <2>1. Streams(c, n, t, tc, h) BY <1>2, PutKeepsStreams
  <2>2. ts \in Seq(Messages) /\ TableMeets(c, ts, h) BY <1>2 DEF Output, Streams
  <2>3. Grown(ts, m, t) BY <2>2, AppendGrows
  <2> HIDE DEF t
  <2>4. \A i : ~OpenAt(m, i) BY DEF OpenAt, IsOpen
  <2>5. TableMeets(c, t, h) BY <2>2, <2>3, <2>4, MeetsBeyond DEF TableMeets
  <2> QED BY <1>2, <2>1, <2>5 DEF Output, Put, t
<1> QED BY <1>1, <1>2

\* A new stream, and the message that opens it.
LEMMA OpenKeeps ==
  ASSUME NEW c, NEW n, NEW ts, NEW tc, NEW h, NEW up \in BOOLEAN, Output(c, n, ts, tc, h, up)
  PROVE  Output(createOutputStream(c, n + 1), n + 1,
                Put(up, ts, Message("open", nextIndex(c), n + 1)), tc, h, up)
<1> DEFINE d == createOutputStream(c, n + 1)
           i == nextIndex(c)
           m == Message("open", i, n + 1)
<1>1. PoolOK(c, n) /\ n \in Nat /\ ts \in Seq(Messages) /\ tc \in Seq(Messages)
  BY DEF Output, Streams, PoolOK
<1>2. /\ PoolOK(d, n + 1) /\ i \in Nat /\ i \notin DOMAIN c.output
      /\ DOMAIN d.output = DOMAIN c.output \cup {i} /\ d.output[i] = n + 1
      /\ \A j \in DOMAIN c.output : d.output[j] = c.output[j]
  BY <1>1, CreateTable
<1> HIDE DEF d, i
<1>3. m \in Messages /\ m.op = "open" /\ m.index = i /\ m.id = n + 1
  <2>1. n + 1 \in Int BY <1>1
  <2>2. "open" \in Ops BY DEF Ops
  <2> QED BY <2>2, <1>2, <2>1, MessageTyped
<1> HIDE DEF m
<1>4. m.op \notin Writes BY <1>3 DEF Writes
<1>5. CASE ~up
  BY <1>2, <1>5 DEF Output, Streams, Put, d, i, m
<1>6. CASE up
  <2> DEFINE t == Append(ts, m)
  <2>1. Grown(ts, m, t) /\ t \in Seq(Messages) BY <1>1, <1>3, AppendGrows
  <2>2. Streams(c, n, t, tc, h) /\ TableMeets(c, ts, h)
    BY <1>3, <1>4, <1>6, PutKeepsStreams DEF Output
  <2> HIDE DEF t
  <2>3. ASSUME NEW j \in DOMAIN d.output PROVE Meets(t, h, Len(t) + 1, j, d.output[j])
    <3>1. CASE j = i BY <1>2, <1>3, <2>1, <3>1, MeetsNew DEF IsOpen
    <3>2. CASE j # i
      <4>1. j \in DOMAIN c.output /\ d.output[j] = c.output[j] /\ ~OpenAt(m, j)
        BY <1>2, <1>3, <3>2 DEF OpenAt
      <4>2. Meets(ts, h, Len(ts) + 1, j, c.output[j]) BY <2>2, <4>1 DEF TableMeets
      <4> QED BY <2>1, <4>1, <4>2, MeetsBeyond
    <3> QED BY <3>1, <3>2
  <2>4. TableMeets(d, t, h) BY <2>3 DEF TableMeets
  <2> QED BY <1>2, <1>6, <2>2, <2>4 DEF Output, Streams, Put, d, i, m, t
<1> QED BY <1>5, <1>6

\* A stream that leaves the table.
LEMMA FreeKeeps ==
  ASSUME NEW c, NEW n, NEW ts, NEW tc, NEW h, NEW up \in BOOLEAN, Output(c, n, ts, tc, h, up),
         NEW i \in DOMAIN c.output
  PROVE  Output(free(c, i), n, ts, tc, h, up)
<1> DEFINE d == free(c, i)
<1>1. /\ PoolOK(d, n) /\ DOMAIN d.output = DOMAIN c.output \ {i}
      /\ \A j \in DOMAIN d.output : d.output[j] = c.output[j]
  BY FreeTable DEF Output, Streams
<1> HIDE DEF d
<1>2. TableMeets(c, ts, h) => TableMeets(d, ts, h) BY <1>1 DEF TableMeets
<1> QED BY <1>1, <1>2 DEF Output, Streams, d

\* A message of the server.
LEMMA TellKeeps ==
  ASSUME NEW c, NEW n, NEW ts, NEW tc, NEW h, NEW up \in BOOLEAN, Output(c, n, ts, tc, h, up),
         NEW m \in Messages
  PROVE  Output(c, n, ts, Append(tc, m), h, up)
<1>1. Append(tc, m) \in Seq(Messages) BY AppendGrows DEF Output, Streams
<1> QED BY <1>1 DEF Output, Streams

\* A message of the server that has arrived.
LEMMA TakeKeeps ==
  ASSUME NEW c, NEW n, NEW ts, NEW tc, NEW h, NEW up \in BOOLEAN, Output(c, n, ts, tc, h, up),
         tc # <<>>
  PROVE  Output(c, n, ts, Tail(tc), h, up)
<1>1. Tail(tc) \in Seq(Messages) BY TailShrinks DEF Output, Streams
<1> QED BY <1>1 DEF Output, Streams

\* The tunnel closes, with or without what was under way to the page.
LEMMA CloseKeeps ==
  ASSUME NEW c, NEW n, NEW ts, NEW tc, NEW h, NEW up \in BOOLEAN, Output(c, n, ts, tc, h, up)
  PROVE  Output(c, n, ts, tc, h, FALSE) /\ Output(c, n, ts, <<>>, h, FALSE)
<1>1. <<>> \in Seq(Messages) OBVIOUS
<1> QED BY <1>1 DEF Output, Streams

\* The server gives a stream up.
LEMMA LetGoKeeps ==
  ASSUME NEW c, NEW n, NEW ts, NEW tc, NEW h, NEW up \in BOOLEAN, Output(c, n, ts, tc, h, up),
         NEW i
  PROVE  Output(c, n, ts, tc, Without(h, i), up)
<1> DEFINE g == Without(h, i)
<1>1. \A j \in DOMAIN g : j \in DOMAIN h /\ g[j] = h[j] BY DEF Without
<1> HIDE DEF g
<1>2. \A k, j, x : Meets(ts, h, k, j, x) => Meets(ts, g, k, j, x) BY <1>1 DEF Meets
<1>3. WritesMeet(ts, h) => WritesMeet(ts, g) BY <1>2 DEF WritesMeet
<1>4. TableMeets(c, ts, h) => TableMeets(c, ts, g) BY <1>2 DEF TableMeets
<1> QED BY <1>1, <1>3, <1>4 DEF Output, Streams, g

\* A message that arrives at the server.
LEMMA HearKeeps ==
  ASSUME NEW c, NEW n, NEW ts, NEW tc, NEW h, NEW up \in BOOLEAN, Output(c, n, ts, tc, h, up),
         ts # <<>>
  PROVE  Output(c, n, Tail(ts), tc, Heard(h, Head(ts)), up)
<1> DEFINE t == Tail(ts)
           m == Head(ts)
           g == Heard(h, m)
<1>1. ts \in Seq(Messages) /\ WritesMeet(ts, h) BY DEF Output, Streams
<1>2. Shrunk(ts, t) /\ t \in Seq(Messages) /\ m = ts[1] /\ m \in Messages BY <1>1, TailShrinks
<1> HIDE DEF t, m
<1>3. \A i \in DOMAIN g : i \in Nat /\ g[i] \in Int
  <2>1. m.index \in Nat /\ m.id \in Int BY <1>2 DEF Messages
  <2>2. \A i \in DOMAIN h : i \in Nat /\ h[i] \in Int BY DEF Output, Streams
  <2> QED BY <2>1, <2>2 DEF Heard, With, Without
<1>4. \A k \in 1..(Len(t) + 1) : \A i, x : Meets(ts, h, k + 1, i, x) => Meets(t, g, k, i, x)
  BY <1>2, MeetsHeard
<1> HIDE DEF g
<1>5. WritesMeet(t, g)
  <2> SUFFICES ASSUME NEW k \in DOMAIN t, t[k].op \in Writes
               PROVE  Meets(t, g, k, t[k].index, t[k].id)
    BY DEF WritesMeet
  <2>1. k \in 1..(Len(t) + 1) /\ k + 1 \in DOMAIN ts /\ t[k] = ts[k + 1] BY <1>2 DEF Shrunk
  <2>2. Meets(ts, h, k + 1, t[k].index, t[k].id) BY <1>1, <2>1 DEF WritesMeet
  <2> QED BY <1>4, <2>1, <2>2
<1>6. TableMeets(c, ts, h) => TableMeets(c, t, g)
  <2> SUFFICES ASSUME TableMeets(c, ts, h), NEW i \in DOMAIN c.output
               PROVE  Meets(t, g, Len(t) + 1, i, c.output[i])
    BY DEF TableMeets
  <2>1. Len(t) + 1 \in 1..(Len(t) + 1) /\ Len(ts) + 1 = (Len(t) + 1) + 1 BY <1>2 DEF Shrunk
  <2>2. Meets(ts, h, (Len(t) + 1) + 1, i, c.output[i]) BY <2>1 DEF TableMeets
  <2> QED BY <1>4, <2>1, <2>2
<1> QED BY <1>2, <1>3, <1>5, <1>6 DEF Output, Streams, t, g, m

-----------------------------------------------------------------------------
(* What is known of the streams of the server: the stream the page has and *)
(* the messages about streams on their way to it, in one line, take turns  *)
(* as the server sent them.                                                *)

Nothing == [op |-> "nothing", index |-> 0, id |-> 0]

\* The stream at index 0 that a blob would be handed to, as the message that opened it.
Mark(in) == IF 0 \in DOMAIN in /\ in[0].wanted THEN Message("file", 0, in[0].id) ELSE Nothing

Line(in, tc) == [k \in 0..Len(tc) |-> IF k = 0 THEN Mark(in) ELSE tc[k]]

IsMark(m) == m.op \in Kinds \cup {"end", "nothing"}
Along(m)  == m.op \in Kinds \cup {"blob", "end"}

\* What may come after an end, an open, or when the page has no stream.
Allowed(mark, m) ==
  \/ mark.op = "nothing"
  \/ mark.op = "end" /\ m.op \in Kinds
  \/ mark.op \in Kinds /\ m.op \in {"blob", "end"} /\ m.id = mark.id

\* j is the last place before k that opens or ends a stream.
Prior(s, j, k) == j < k /\ IsMark(s[j]) /\ \A l \in DOMAIN s : j < l /\ l < k => ~IsMark(s[l])

InTurn(s) == \A j, k \in DOMAIN s : Prior(s, j, k) /\ Along(s[k]) => Allowed(s[j], s[k])

\* The last place agrees with what the server has open.
Agrees(s, off) ==
  \A k \in DOMAIN s : IsMark(s[k]) /\ (\A l \in DOMAIN s : k < l => ~IsMark(s[l])) =>
    /\ s[k].op = "end" => 0 \notin DOMAIN off
    /\ s[k].op \in Kinds => 0 \in DOMAIN off /\ off[0] = s[k].id

Refuses(ts, x) == \E k \in DOMAIN ts : ts[k].op = "refusal" /\ ts[k].id = x

News(n) == (-n)..(-1)

\* Each stream of the server opens once, and never after it was refused.
Fresh(s, ts, off, n) ==
  /\ \A i \in DOMAIN off : i = 0 /\ off[i] \in News(n)
  /\ \A k \in DOMAIN s : s[k].op \in Kinds => s[k].id \in News(n) /\ ~Refuses(ts, s[k].id)
  /\ \A j, k \in DOMAIN s : j # k /\ s[j].op \in Kinds /\ s[k].op \in Kinds => s[j].id # s[k].id
  /\ \A x : Refuses(ts, x) => x \in News(n)

Input(in, tc, ts, off, n, up) ==
  /\ n \in Nat /\ InTurn(Line(in, tc)) /\ Fresh(Line(in, tc), ts, off, n)
  /\ \A k \in DOMAIN tc : Along(tc[k]) => tc[k].index = 0 /\ tc[k].id < 0
  /\ up => Agrees(Line(in, tc), off)

LEMMA LineGrows ==
  ASSUME NEW in, NEW tc \in Seq(Messages), NEW m \in Messages
  PROVE  \E z \in Nat :
           LET s == Line(in, tc)
               t == Line(in, Append(tc, m))
           IN  /\ DOMAIN s = 0..z /\ DOMAIN t = 0..(z + 1) /\ t[z + 1] = m
               /\ \A k \in 0..z : t[k] = s[k]
<1> DEFINE z == Len(tc)
<1>1. z \in Nat /\ Len(Append(tc, m)) = z + 1 /\ Append(tc, m)[z + 1] = m OBVIOUS
<1>2. \A k \in 1..z : Append(tc, m)[k] = tc[k] OBVIOUS
<1>3. \A k \in 0..z : k = 0 \/ k \in 1..z OBVIOUS
<1>4. 0..z \subseteq 0..(z + 1) /\ z + 1 \in 0..(z + 1) /\ z + 1 # 0 BY <1>1
<1> HIDE DEF z
<1>5. DOMAIN Line(in, tc) = 0..z BY DEF Line, z
<1>6. DOMAIN Line(in, Append(tc, m)) = 0..(z + 1) BY <1>1 DEF Line
<1>7. Line(in, Append(tc, m))[z + 1] = m BY <1>1, <1>4 DEF Line
<1>8. \A k \in 0..z : Line(in, Append(tc, m))[k] = Line(in, tc)[k]
  BY <1>1, <1>2, <1>3, <1>4 DEF Line, z
<1> QED BY <1>1, <1>5, <1>6, <1>7, <1>8

\* The line t is s without its first two places, with another first place.
Shifted(s, t) ==
  \E z \in Nat : DOMAIN s = 0..(z + 1) /\ DOMAIN t = 0..z /\ \A k \in 1..z : t[k] = s[k + 1]

LEMMA LineShrinks ==
  ASSUME NEW in, NEW to, NEW tc \in Seq(Messages), tc # <<>>
  PROVE  /\ Shifted(Line(in, tc), Line(to, Tail(tc)))
         /\ Line(in, tc)[0] = Mark(in) /\ Line(in, tc)[1] = Head(tc)
         /\ Line(to, Tail(tc))[0] = Mark(to)
<1>1. PICK z \in Nat : DOMAIN tc = 1..(z + 1) /\ DOMAIN Tail(tc) = 1..z
                       /\ \A k \in 1..z : Tail(tc)[k] = tc[k + 1]
  BY TailShrinks DEF Shrunk
<1>2. Len(tc) = z + 1 /\ Len(Tail(tc)) = z
  <2>1. Len(tc) \in Nat /\ DOMAIN tc = 1..Len(tc) OBVIOUS
  <2>2. Tail(tc) \in Seq(Messages) OBVIOUS
  <2>3. Len(Tail(tc)) \in Nat /\ DOMAIN Tail(tc) = 1..Len(Tail(tc)) BY <2>2
  <2>4. \A a, b \in Nat : 1..a = 1..b => a = b OBVIOUS
  <2> QED BY <1>1, <2>1, <2>3, <2>4
<1>3. Head(tc) = tc[1] OBVIOUS
<1>4. DOMAIN Line(in, tc) = 0..(z + 1) /\ DOMAIN Line(to, Tail(tc)) = 0..z BY <1>2 DEF Line
<1>5. 0 \in 0..(z + 1) /\ 1 \in 0..(z + 1) /\ 0 \in 0..z OBVIOUS
<1>6. \A k \in 1..z : k \in 0..z /\ k # 0 /\ k + 1 \in 0..(z + 1) /\ k + 1 # 0 OBVIOUS
<1>7. Line(in, tc)[0] = Mark(in) /\ Line(in, tc)[1] = Head(tc) /\ Line(to, Tail(tc))[0] = Mark(to)
  BY <1>2, <1>3, <1>5 DEF Line
<1>8. \A k \in 1..z : Line(to, Tail(tc))[k] = Line(in, tc)[k + 1]
  BY <1>1, <1>2, <1>6 DEF Line
<1> QED BY <1>4, <1>7, <1>8 DEF Shifted

LEMMA MarkIs ==
  ASSUME NEW in
  PROVE  /\ IsMark(Mark(in)) /\ Mark(in).op \in Kinds \cup {"nothing"}
         /\ Mark(in).op = "nothing" => Mark(in) = Nothing
BY DEF Mark, IsMark, Nothing, Message, Kinds

\* What the server may say, and what it has open then.
Offer(off, n, m, next, count) ==
  /\ count \in Nat /\ n <= count
  /\ Along(m) => m.index = 0 /\ m.id < 0
  /\ m.op \in Kinds => 0 \notin DOMAIN off /\ m.id = -(n + 1) /\ count = n + 1
                        /\ 0 \in DOMAIN next /\ next[0] = m.id
  /\ m.op \in {"blob", "end"} => 0 \in DOMAIN off /\ off[0] = m.id
  /\ m.op = "end" => 0 \notin DOMAIN next
  /\ \A i \in DOMAIN next : i = 0 /\ next[i] \in News(count)
  /\ ~IsMark(m) => next = off

LEMMA OfferKeeps ==
  ASSUME NEW in, NEW tc \in Seq(Messages), NEW ts, NEW off, NEW n, Input(in, tc, ts, off, n, TRUE),
         NEW m \in Messages, NEW next, NEW count, Offer(off, n, m, next, count)
  PROVE  Input(in, Append(tc, m), ts, next, count, TRUE)
<1> DEFINE s == Line(in, tc)
           t == Line(in, Append(tc, m))
<1>1. PICK z \in Nat : /\ DOMAIN s = 0..z /\ DOMAIN t = 0..(z + 1) /\ t[z + 1] = m
                       /\ \A k \in 0..z : t[k] = s[k]
  BY LineGrows
<1>2. InTurn(s) /\ Fresh(s, ts, off, n) /\ Agrees(s, off) /\ n \in Nat /\ count \in Nat /\ n <= count
  BY DEF Input, Offer
<1> HIDE DEF s, t
<1>3. \A k \in DOMAIN t : (k \in DOMAIN s /\ t[k] = s[k] /\ k < z + 1) \/ (k = z + 1 /\ t[k] = m)
  BY <1>1
<1>4. \A k \in DOMAIN s : k \in DOMAIN t /\ t[k] = s[k] /\ k < z + 1 BY <1>1
<1>5. z + 1 \in DOMAIN t /\ \A k \in DOMAIN t : ~(z + 1 < k) BY <1>1
<1>6. InTurn(t)
  <2> SUFFICES ASSUME NEW j \in DOMAIN t, NEW k \in DOMAIN t, Prior(t, j, k), Along(t[k])
               PROVE  Allowed(t[j], t[k])
    BY DEF InTurn
  <2>1. j \in DOMAIN s /\ t[j] = s[j] /\ j < k /\ IsMark(s[j])
    <3>1. j < k /\ IsMark(t[j]) BY DEF Prior
    <3> QED BY <3>1, <1>3, <1>5
  <2>2. \A l \in DOMAIN s : j < l /\ l < k => ~IsMark(s[l]) BY <1>4 DEF Prior
  <2>3. CASE k \in DOMAIN s /\ t[k] = s[k]
    <3>1. Prior(s, j, k) BY <2>1, <2>2 DEF Prior
    <3> QED BY <3>1, <2>1, <2>3, <1>2 DEF InTurn
  <2>4. CASE k = z + 1 /\ t[k] = m
    <3>1. \A l \in DOMAIN s : j < l => ~IsMark(s[l]) BY <2>2, <2>4, <1>4
    <3>2. /\ s[j].op = "end" => 0 \notin DOMAIN off
          /\ s[j].op \in Kinds => 0 \in DOMAIN off /\ off[0] = s[j].id
      BY <2>1, <3>1, <1>2 DEF Agrees
    <3>3. s[j].op \in Kinds \/ s[j].op = "end" \/ s[j].op = "nothing" BY <2>1 DEF IsMark
    <3>4. /\ m.op \in Kinds => 0 \notin DOMAIN off
          /\ m.op \in {"blob", "end"} => 0 \in DOMAIN off /\ off[0] = m.id
      BY DEF Offer
    <3>5. m.op \in Kinds \/ m.op \in {"blob", "end"} BY <2>4 DEF Along
    <3> QED BY <2>1, <2>4, <3>2, <3>3, <3>4, <3>5 DEF Allowed
  <2> QED BY <2>3, <2>4, <1>3
<1>7. Agrees(t, next)
  <2> SUFFICES ASSUME NEW k \in DOMAIN t, IsMark(t[k]), \A l \in DOMAIN t : k < l => ~IsMark(t[l])
               PROVE  /\ t[k].op = "end" => 0 \notin DOMAIN next
                      /\ t[k].op \in Kinds => 0 \in DOMAIN next /\ next[0] = t[k].id
    BY DEF Agrees
  <2>1. CASE t[k] = m BY <2>1 DEF Offer
  <2>2. CASE k \in DOMAIN s /\ t[k] = s[k] /\ k < z + 1
    <3>1. ~IsMark(m) BY <2>2, <1>1, <1>5
    <3>2. \A l \in DOMAIN s : k < l => ~IsMark(s[l]) BY <1>4
    <3> QED BY <2>2, <3>1, <3>2, <1>2 DEF Agrees, Offer
  <2> QED BY <2>1, <2>2, <1>3
<1>8. News(n) \subseteq News(count) /\ News(n) \subseteq Int /\ \A x \in News(n) : x # -(n + 1)
  BY <1>2 DEF News
<1>9. \A x : Refuses(ts, x) => x \in News(n) BY <1>2 DEF Fresh
<1>10. m.op \in Kinds => m.id \in News(count) /\ m.id = -(n + 1)
  BY <1>2 DEF Offer, News
<1>11. Fresh(t, ts, next, count)
  <2>1. \A k \in DOMAIN s : s[k].op \in Kinds => s[k].id \in News(n) /\ ~Refuses(ts, s[k].id)
    BY <1>2 DEF Fresh
  <2>2. \A k \in DOMAIN t : t[k].op \in Kinds => t[k].id \in News(count) /\ ~Refuses(ts, t[k].id)
    BY <2>1, <1>3, <1>8, <1>9, <1>10
  <2>3. ASSUME NEW j \in DOMAIN t, NEW k \in DOMAIN t, j # k, t[j].op \in Kinds, t[k].op \in Kinds
        PROVE  t[j].id # t[k].id
    <3>1. CASE j \in DOMAIN s /\ k \in DOMAIN s BY <2>3, <3>1, <1>2, <1>4 DEF Fresh
    <3>2. CASE j \notin DOMAIN s BY <2>1, <2>3, <3>2, <1>3, <1>8, <1>10
    <3>3. CASE k \notin DOMAIN s BY <2>1, <2>3, <3>3, <1>3, <1>8, <1>10
    <3> QED BY <3>1, <3>2, <3>3
  <2>4. \A x : Refuses(ts, x) => x \in News(count) BY <1>8, <1>9
  <2>5. \A i \in DOMAIN next : i = 0 /\ next[i] \in News(count) BY DEF Offer
  <2> QED BY <2>2, <2>3, <2>4, <2>5 DEF Fresh
<1>12. \A k \in DOMAIN Append(tc, m) : Along(Append(tc, m)[k]) =>
          Append(tc, m)[k].index = 0 /\ Append(tc, m)[k].id < 0
  <2> DEFINE q == Append(tc, m)
  <2>1. Grown(tc, m, q) BY AppendGrows
  <2> HIDE DEF q
  <2>2. \A k \in DOMAIN q : (k \in DOMAIN tc /\ q[k] = tc[k]) \/ q[k] = m BY <2>1 DEF Grown
  <2>3. \A k \in DOMAIN q : Along(q[k]) => q[k].index = 0 /\ q[k].id < 0
    BY <2>2 DEF Input, Offer
  <2> QED BY <2>3 DEF q
<1> QED BY <1>2, <1>6, <1>7, <1>11, <1>12 DEF Input, t

\* How the page takes the next message: the stream it has afterwards, and what
\* it refuses.
Taken(in, m, to, ts, say) ==
  /\ ~IsMark(m) => Mark(to) = Mark(in)
  /\ IsMark(m) => \/ Mark(to) = Nothing
                  \/ m.op \in Kinds /\ Mark(to).op \in Kinds /\ Mark(to).id = m.id
  /\ \A x : Refuses(say, x) => Refuses(ts, x) \/ (m.op \in Kinds /\ Mark(to) = Nothing /\ x = m.id)

LEMMA TakenKeeps ==
  ASSUME NEW in, NEW tc \in Seq(Messages), NEW ts, NEW off, NEW n, NEW up \in BOOLEAN,
         Input(in, tc, ts, off, n, up), tc # <<>>, NEW to, NEW say, Taken(in, Head(tc), to, ts, say)
  PROVE  Input(to, Tail(tc), say, off, n, up)
<1> DEFINE s == Line(in, tc)
           t == Line(to, Tail(tc))
           m == Head(tc)
<1>0. Shifted(s, t) /\ s[0] = Mark(in) /\ s[1] = m /\ t[0] = Mark(to) BY LineShrinks
<1> HIDE DEF s, t, m
<1>1. PICK z \in Nat : /\ DOMAIN s = 0..(z + 1) /\ DOMAIN t = 0..z
                       /\ s[0] = Mark(in) /\ s[1] = m /\ t[0] = Mark(to)
                       /\ \A k \in 1..z : t[k] = s[k + 1]
  BY <1>0 DEF Shifted
<1>2. InTurn(s) /\ Fresh(s, ts, off, n) /\ (up => Agrees(s, off)) /\ n \in Nat BY DEF Input, s
<1>3. IsMark(Mark(in)) /\ IsMark(Mark(to)) BY MarkIs
<1>4. Nothing.op = "nothing" /\ Nothing.op \notin Kinds /\ Nothing.op # "end" BY DEF Nothing, Kinds
<1>5. /\ ~IsMark(m) => Mark(to) = Mark(in)
      /\ IsMark(m) => \/ Mark(to) = Nothing
                      \/ m.op \in Kinds /\ Mark(to).op \in Kinds /\ Mark(to).id = m.id
      /\ \A x : Refuses(say, x) => Refuses(ts, x) \/ (m.op \in Kinds /\ Mark(to) = Nothing /\ x = m.id)
  BY DEF Taken, m
<1>6. \A k \in DOMAIN t : k = 0 \/ (k > 0 /\ k + 1 \in DOMAIN s /\ t[k] = s[k + 1]) BY <1>1
<1>7. \A k \in DOMAIN s : k = 0 \/ k = 1 \/ (k > 1 /\ k - 1 \in DOMAIN t /\ t[k - 1] = s[k])
  BY <1>1
<1>8. 0 \in DOMAIN t /\ 0 \in DOMAIN s /\ 1 \in DOMAIN s /\ DOMAIN s \subseteq Int /\ DOMAIN t \subseteq Int
  BY <1>1
\* The place in the line before that the page's stream now comes from.
<1> DEFINE a == IF IsMark(m) THEN 1 ELSE 0
<1>9. /\ a \in DOMAIN s /\ a \in {0, 1} /\ IsMark(s[a]) /\ (a = 0 => ~IsMark(s[1]))
      /\ t[0] = s[a] \/ t[0] = Nothing \/ (s[a].op \in Kinds /\ t[0].op \in Kinds /\ t[0].id = s[a].id)
  BY <1>1, <1>3, <1>5, <1>8
<1> HIDE DEF a
<1>10. InTurn(t)
  <2> SUFFICES ASSUME NEW j \in DOMAIN t, NEW k \in DOMAIN t, Prior(t, j, k), Along(t[k])
               PROVE  Allowed(t[j], t[k])
    BY DEF InTurn
  <2>1. j < k /\ IsMark(t[j]) /\ \A l \in DOMAIN t : j < l /\ l < k => ~IsMark(t[l]) BY DEF Prior
  <2>2. k > 0 /\ k + 1 \in DOMAIN s /\ t[k] = s[k + 1] BY <2>1, <1>1, <1>6
  <2>3. CASE j = 0
    <3>1. ASSUME NEW l \in DOMAIN s, a < l, l < k + 1 PROVE ~IsMark(s[l])
      <4>1. CASE l = 0 \/ l = 1 BY <3>1, <4>1, <1>9
      <4>2. CASE l > 1 /\ l - 1 \in DOMAIN t /\ t[l - 1] = s[l]
        <5>1. 0 < l - 1 /\ l - 1 < k BY <3>1, <4>2, <1>8
        <5> QED BY <2>1, <2>3, <4>2, <5>1
      <4> QED BY <4>1, <4>2, <1>7
    <3>2. a < k + 1 BY <2>2, <1>8, <1>9
    <3>3. Prior(s, a, k + 1) BY <3>1, <3>2, <1>9 DEF Prior
    <3>4. Allowed(s[a], s[k + 1]) BY <3>3, <2>2, <1>2, <1>9 DEF InTurn
    <3> QED BY <3>4, <2>2, <2>3, <1>4, <1>9 DEF Allowed, Kinds
  <2>4. CASE j > 0 /\ j + 1 \in DOMAIN s /\ t[j] = s[j + 1]
    <3>1. ASSUME NEW l \in DOMAIN s, j + 1 < l, l < k + 1 PROVE ~IsMark(s[l])
      <4>1. l > 1 BY <3>1, <2>4, <1>8
      <4>2. l - 1 \in DOMAIN t /\ t[l - 1] = s[l] BY <4>1, <1>7
      <4>3. j < l - 1 /\ l - 1 < k BY <3>1, <1>8
      <4> QED BY <2>1, <4>2, <4>3
    <3>2. j + 1 < k + 1 BY <2>1, <1>8
    <3>3. Prior(s, j + 1, k + 1) BY <3>1, <3>2, <2>1, <2>4 DEF Prior
    <3> QED BY <3>3, <2>2, <2>4, <1>2 DEF InTurn
  <2> QED BY <2>3, <2>4, <1>6
<1>11. ASSUME up PROVE Agrees(t, off)
  <2>1. Agrees(s, off) BY <1>2, <1>11
  <2> SUFFICES ASSUME NEW k \in DOMAIN t, IsMark(t[k]), \A l \in DOMAIN t : k < l => ~IsMark(t[l])
               PROVE  /\ t[k].op = "end" => 0 \notin DOMAIN off
                      /\ t[k].op \in Kinds => 0 \in DOMAIN off /\ off[0] = t[k].id
    BY DEF Agrees
  <2>2. CASE k = 0
    <3>1. ASSUME NEW l \in DOMAIN s, a < l PROVE ~IsMark(s[l])
      <4>1. CASE l = 0 \/ l = 1 BY <3>1, <4>1, <1>9
      <4>2. CASE l > 1 /\ l - 1 \in DOMAIN t /\ t[l - 1] = s[l]
        <5>1. 0 < l - 1 BY <3>1, <4>2, <1>8
        <5> QED BY <2>2, <4>2, <5>1
      <4> QED BY <4>1, <4>2, <1>7
    <3>2. /\ s[a].op = "end" => 0 \notin DOMAIN off
          /\ s[a].op \in Kinds => 0 \in DOMAIN off /\ off[0] = s[a].id
      BY <2>1, <3>1, <1>9 DEF Agrees
    <3>3. "end" \notin Kinds BY DEF Kinds
    <3> QED BY <2>2, <3>2, <3>3, <1>4, <1>9
  <2>3. CASE k > 0 /\ k + 1 \in DOMAIN s /\ t[k] = s[k + 1]
    <3>1. ASSUME NEW l \in DOMAIN s, k + 1 < l PROVE ~IsMark(s[l])
      <4>1. l > 1 BY <3>1, <2>3, <1>8
      <4>2. l - 1 \in DOMAIN t /\ t[l - 1] = s[l] BY <4>1, <1>7
      <4>3. k < l - 1 BY <3>1, <1>8
      <4> QED BY <4>2, <4>3
    <3> QED BY <3>1, <2>1, <2>3 DEF Agrees
  <2> QED BY <2>2, <2>3, <1>6
<1>12. Fresh(t, say, off, n)
  <2>1. /\ \A k \in DOMAIN s : s[k].op \in Kinds => s[k].id \in News(n) /\ ~Refuses(ts, s[k].id)
        /\ \A j, k \in DOMAIN s : j # k /\ s[j].op \in Kinds /\ s[k].op \in Kinds => s[j].id # s[k].id
        /\ \A x : Refuses(ts, x) => x \in News(n)
    BY <1>2 DEF Fresh
  \* An open in the new line is an open of the old one.
  <2> DEFINE b(k) == IF k = 0 THEN a ELSE k + 1
  <2>2. \A k \in DOMAIN t : t[k].op \in Kinds =>
          b(k) \in DOMAIN s /\ s[b(k)].op \in Kinds /\ s[b(k)].id = t[k].id
    BY <1>4, <1>6, <1>9
  <2>3. \A j, k \in DOMAIN t : j # k => b(j) # b(k)
    <3> SUFFICES ASSUME NEW j \in DOMAIN t, NEW k \in DOMAIN t, j # k PROVE b(j) # b(k) OBVIOUS
    <3>1. j \in Int /\ k \in Int /\ (j = 0 \/ j > 0) /\ (k = 0 \/ k > 0) BY <1>6, <1>8
    <3>2. a = 0 \/ a = 1 BY <1>9
    <3> QED BY <3>1, <3>2
  \* What is refused now was the head of the line, which is not in it any more.
  <2>4. ASSUME NEW k \in DOMAIN t, t[k].op \in Kinds PROVE ~Refuses(say, t[k].id)
    <3>1. CASE m.op \in Kinds /\ Mark(to) = Nothing
      <4>1. k # 0 BY <2>4, <3>1, <1>1, <1>4
      <4>2. k > 0 /\ b(k) # 1 BY <4>1, <1>6, <1>8
      <4>3. s[b(k)].id # m.id BY <2>1, <2>2, <2>4, <3>1, <4>2, <1>1, <1>8
      <4> QED BY <4>3, <2>1, <2>2, <2>4, <1>5
    <3>2. CASE ~(m.op \in Kinds /\ Mark(to) = Nothing)
      BY <3>2, <2>1, <2>2, <2>4, <1>5
    <3> QED BY <3>1, <3>2
  <2>5. \A k \in DOMAIN t : t[k].op \in Kinds => t[k].id \in News(n) BY <2>1, <2>2
  <2>6. \A j, k \in DOMAIN t : j # k /\ t[j].op \in Kinds /\ t[k].op \in Kinds => t[j].id # t[k].id
    <3> HIDE DEF b
    <3> QED BY <2>1, <2>2, <2>3
  <2>7. \A x : Refuses(say, x) => x \in News(n) BY <2>1, <1>1, <1>5, <1>8
  <2> QED BY <2>4, <2>5, <2>6, <2>7, <1>2 DEF Fresh
<1>13. \A k \in DOMAIN Tail(tc) : Along(Tail(tc)[k]) => Tail(tc)[k].index = 0 /\ Tail(tc)[k].id < 0
  <2> DEFINE q == Tail(tc)
  <2>1. Shrunk(tc, q) BY TailShrinks
  <2> HIDE DEF q
  <2>2. \A k \in DOMAIN q : k + 1 \in DOMAIN tc /\ q[k] = tc[k + 1] BY <2>1 DEF Shrunk
  <2>3. \A k \in DOMAIN q : Along(q[k]) => q[k].index = 0 /\ q[k].id < 0 BY <2>2 DEF Input
  <2> QED BY <2>3 DEF q
<1> QED BY <1>2, <1>10, <1>11, <1>12, <1>13 DEF Input, t

\* What the page says does not touch the streams of the server, unless it refuses one.
LEMMA SayKeepsInput ==
  ASSUME NEW in, NEW tc, NEW ts, NEW off, NEW n, NEW up, Input(in, tc, ts, off, n, up),
         NEW say, \A x : Refuses(say, x) => Refuses(ts, x)
  PROVE  Input(in, tc, say, off, n, up)
BY DEF Input, Fresh

\* The server takes a refusal for the stream it is about.
LEMMA HearKeepsInput ==
  ASSUME NEW in, NEW tc, NEW ts \in Seq(Messages), NEW off, NEW n, NEW up \in BOOLEAN,
         Input(in, tc, ts, off, n, up), ts # <<>>, NEW next,
         next = off \/ (/\ next = Without(off, Head(ts).index) /\ Head(ts).op = "refusal"
                        /\ Head(ts).index \in DOMAIN off /\ off[Head(ts).index] = Head(ts).id)
  PROVE  Input(in, tc, Tail(ts), next, n, up)
<1> DEFINE s == Line(in, tc)
           m == Head(ts)
<1>1. Shrunk(ts, Tail(ts)) /\ m = ts[1] /\ 1 \in DOMAIN ts BY TailShrinks
<1>2. \A k \in DOMAIN Tail(ts) : k + 1 \in DOMAIN ts /\ Tail(ts)[k] = ts[k + 1] BY <1>1 DEF Shrunk
<1> HIDE DEF m
<1>3. \A x : Refuses(Tail(ts), x) => Refuses(ts, x) BY <1>2 DEF Refuses
<1>4. Input(in, tc, Tail(ts), off, n, up) BY <1>3, SayKeepsInput
<1>5. CASE next = off BY <1>4, <1>5
<1>6. CASE /\ next = Without(off, m.index) /\ m.op = "refusal"
           /\ m.index \in DOMAIN off /\ off[m.index] = m.id
  <2>1. Fresh(s, ts, off, n) BY DEF Input
  <2>2. m.index = 0 BY <1>6, <2>1 DEF Fresh
  <2>3. \A i \in DOMAIN next : i \in DOMAIN off /\ next[i] = off[i] BY <1>6 DEF Without
  <2>4. 0 \notin DOMAIN next BY <1>6, <2>2 DEF Without
  <2>5. Refuses(ts, off[0]) BY <1>1, <1>6, <2>2 DEF Refuses
  <2> HIDE DEF s
  <2>6. \A k \in DOMAIN s : s[k].op \in Kinds => s[k].id # off[0] BY <2>1, <2>5 DEF Fresh
  <2>7. Agrees(s, off) => Agrees(s, next) BY <2>4, <2>6 DEF Agrees
  <2>8. Fresh(s, Tail(ts), next, n) BY <1>4, <2>3 DEF Input, Fresh, s
  <2> QED BY <1>4, <2>7, <2>8 DEF Input, s
<1> QED BY <1>5, <1>6 DEF m

\* The tunnel closes, with or without what was under way to the page.
LEMMA CloseKeepsInput ==
  ASSUME NEW in, NEW tc \in Seq(Messages), NEW ts, NEW off, NEW n, NEW up \in BOOLEAN,
         Input(in, tc, ts, off, n, up)
  PROVE  Input(in, tc, ts, off, n, FALSE) /\ Input(in, <<>>, ts, off, n, FALSE)
<1>1. Input(in, tc, ts, off, n, FALSE) BY DEF Input
<1> DEFINE s == Line(in, tc)
           t == Line(in, <<>>)
<1>2. DOMAIN t = {0} /\ t[0] = Mark(in) BY DEF Line
<1>3. 0 \in DOMAIN s /\ s[0] = Mark(in)
  <2>1. Len(tc) \in Nat OBVIOUS
  <2>2. 0 \in 0..Len(tc) BY <2>1
  <2> QED BY <2>2 DEF Line
<1>4. Fresh(s, ts, off, n) /\ n \in Nat BY DEF Input
<1> HIDE DEF s, t
<1>5. InTurn(t)
  <2>1. \A j, k \in DOMAIN t : ~(j < k) BY <1>2
  <2> QED BY <2>1 DEF InTurn, Prior
<1>6. Fresh(t, ts, off, n) BY <1>2, <1>3, <1>4 DEF Fresh
<1>7. DOMAIN <<>> = {} OBVIOUS
<1> QED BY <1>1, <1>4, <1>5, <1>6, <1>7 DEF Input, t

-----------------------------------------------------------------------------
(* The inductive invariant, and the steps                                  *)

Streaming(c, n, ts, tc, h, in, off, k, up) ==
  Output(c, n, ts, tc, h, up) /\ Input(in, tc, ts, off, k, up)

Phases ==
  /\ objects \subseteq Nat /\ tunnelOpen \in BOOLEAN
  /\ state = "IDLE" =>
       /\ ~tunnelOpen /\ toServer = <<>> /\ toClient = <<>>
       /\ DOMAIN held = {} /\ DOMAIN offered = {} /\ Mark(input) = Nothing
  /\ state = "DISCONNECTED" => ~tunnelOpen

IInv ==
  /\ Streaming(client, made, toServer, toClient, held, input, offered, offers, tunnelOpen)
  /\ Phases /\ Follows(mine, client)

LEMMA PutSays ==
  ASSUME NEW ts \in Seq(Messages), NEW m \in Messages, NEW up \in BOOLEAN
  PROVE  /\ Put(up, ts, m) \in Seq(Messages)
         /\ \A x : Refuses(Put(up, ts, m), x) => Refuses(ts, x) \/ (m.op = "refusal" /\ x = m.id)
         /\ \A k \in DOMAIN Put(up, ts, m) :
              (k \in DOMAIN ts /\ Put(up, ts, m)[k] = ts[k]) \/ Put(up, ts, m)[k] = m
<1> DEFINE t == Put(up, ts, m)
<1>1. t \in Seq(Messages) BY AppendGrows DEF Put
<1>2. CASE up
  <2>1. Grown(ts, m, t) BY <1>2, AppendGrows DEF Put
  <2> HIDE DEF t
  <2>2. \A k \in DOMAIN t : (k \in DOMAIN ts /\ t[k] = ts[k]) \/ t[k] = m BY <2>1 DEF Grown
  <2> QED BY <1>1, <2>2 DEF Refuses, t
<1>3. CASE ~up BY <1>1, <1>3 DEF Put
<1> QED BY <1>2, <1>3

LEMMA SentPuts ==
  ASSUME toServer \in Seq(Messages), NEW m \in Messages
  PROVE  Sent(<<m>>) = Put(tunnelOpen, toServer, m)
BY AppendGrows DEF Sent, Put

LEMMA SentPutsBoth ==
  ASSUME toServer \in Seq(Messages), NEW a \in Messages, NEW b \in Messages, tunnelOpen = TRUE
  PROVE  /\ Sent(<<a>> \o <<b>>) = Put(TRUE, Put(TRUE, toServer, a), b)
         /\ Sent(<<a>> \o <<>>) = Put(TRUE, toServer, a)
         /\ Sent(<<>> \o <<>>) = toServer
<1> DEFINE p == <<a>>
           q == <<b>>
<1>1. p \in Seq(Messages) /\ q \in Seq(Messages) OBVIOUS
<1> HIDE DEF p, q
<1>2. toServer \o (p \o q) = (toServer \o p) \o q BY <1>1, ConcatAssociative
<1>3. toServer \o p = Append(toServer, a) /\ Append(toServer, a) \in Seq(Messages)
  BY AppendGrows DEF p
<1>4. Append(toServer, a) \o q = Append(Append(toServer, a), b) BY <1>3, AppendGrows DEF q
<1>5. toServer \o (p \o q) = Append(Append(toServer, a), b) BY <1>2, <1>3, <1>4
<1>6. p \o <<>> = p BY <1>1, ConcatEmptySeq
<1>7. <<>> \o <<>> = <<>> OBVIOUS
<1>8. toServer \o <<>> = toServer OBVIOUS
<1> QED BY <1>3, <1>5, <1>6, <1>7, <1>8 DEF Sent, Put, p, q

\* Something is said that opens and refuses no stream.
LEMMA SayStep ==
  ASSUME NEW c, NEW n, NEW ts, NEW tc, NEW h, NEW in, NEW off, NEW k, NEW up \in BOOLEAN,
         Streaming(c, n, ts, tc, h, in, off, k, up),
         NEW m \in Messages, m.op \notin {"open", "refusal"},
         m.op \in Writes => InTable(c, m.index, m.id)
  PROVE  Streaming(c, n, Put(up, ts, m), tc, h, in, off, k, up)
<1>1. ts \in Seq(Messages) BY DEF Streaming, Output, Streams
<1>2. Output(c, n, Put(up, ts, m), tc, h, up) BY SayKeeps DEF Streaming, IsOpen
<1>3. Input(in, tc, Put(up, ts, m), off, k, up) BY <1>1, PutSays, SayKeepsInput DEF Streaming
<1> QED BY <1>2, <1>3 DEF Streaming

LEMMA EndStep ==
  ASSUME NEW c, NEW n, NEW ts, NEW tc, NEW h, NEW in, NEW off, NEW k, NEW up \in BOOLEAN,
         Streaming(c, n, ts, tc, h, in, off, k, up), NEW i \in DOMAIN c.output
  PROVE  /\ Message("end", i, c.output[i]) \in Messages
         /\ Streaming(free(c, i), n, Put(up, ts, Message("end", i, c.output[i])), tc, h, in, off, k, up)
<1> DEFINE m == Message("end", i, c.output[i])
<1>1. ts \in Seq(Messages) /\ PoolOK(c, n) BY DEF Streaming, Output, Streams
<1>2. m \in Messages /\ m.op = "end"
  <2>1. i \in Nat BY <1>1, FreeTable
  <2>2. n \in Nat /\ c.output[i] \in 1..n BY <1>1 DEF PoolOK
  <2>3. c.output[i] \in Int BY <2>2
  <2>4. "end" \in Ops BY DEF Ops
  <2> QED BY <2>1, <2>3, <2>4, MessageTyped
<1>3. m.op \in Writes => InTable(c, m.index, m.id) BY DEF Message, InTable
<1> HIDE DEF m
<1>4. Output(c, n, Put(up, ts, m), tc, h, up) BY <1>2, <1>3, SayKeeps DEF Streaming, IsOpen
<1>5. Output(free(c, i), n, Put(up, ts, m), tc, h, up) BY <1>4, FreeKeeps
<1>6. Input(in, tc, Put(up, ts, m), off, k, up)
  BY <1>1, <1>2, PutSays, SayKeepsInput DEF Streaming
<1> QED BY <1>2, <1>5, <1>6 DEF Streaming, m

LEMMA OpenStep ==
  ASSUME NEW c, NEW n, NEW ts, NEW tc, NEW h, NEW in, NEW off, NEW k, NEW up \in BOOLEAN,
         Streaming(c, n, ts, tc, h, in, off, k, up)
  PROVE  /\ Message("open", nextIndex(c), n + 1) \in Messages
         /\ Streaming(createOutputStream(c, n + 1), n + 1,
                      Put(up, ts, Message("open", nextIndex(c), n + 1)), tc, h, in, off, k, up)
<1> DEFINE m == Message("open", nextIndex(c), n + 1)
<1>1. ts \in Seq(Messages) /\ PoolOK(c, n) BY DEF Streaming, Output, Streams
<1>2. m \in Messages /\ m.op = "open"
  <2>1. nextIndex(c) \in Nat BY <1>1, CreateTable
  <2>2. n \in Nat BY <1>1 DEF PoolOK
  <2>3. n + 1 \in Int BY <2>2
  <2>4. "open" \in Ops BY DEF Ops
  <2> QED BY <2>1, <2>3, <2>4, MessageTyped
<1>3. Output(createOutputStream(c, n + 1), n + 1, Put(up, ts, m), tc, h, up)
  BY OpenKeeps DEF Streaming
<1> HIDE DEF m
<1>4. Input(in, tc, Put(up, ts, m), off, k, up)
  BY <1>1, <1>2, PutSays, SayKeepsInput DEF Streaming
<1> QED BY <1>2, <1>3, <1>4 DEF Streaming, m

\* A message arrives that is not about a stream of the server, and changes nothing.
LEMMA TakeStep ==
  ASSUME NEW c, NEW n, NEW ts, NEW tc, NEW h, NEW in, NEW off, NEW k, NEW up \in BOOLEAN,
         Streaming(c, n, ts, tc, h, in, off, k, up), tc # <<>>, ~IsMark(Head(tc))
  PROVE  Streaming(c, n, ts, Tail(tc), h, in, off, k, up)
<1>1. tc \in Seq(Messages) BY DEF Streaming, Output, Streams
<1>2. Output(c, n, ts, Tail(tc), h, up) BY TakeKeeps DEF Streaming
<1>3. Taken(in, Head(tc), in, ts, ts) BY DEF Taken
<1>4. Input(in, Tail(tc), ts, off, k, up) BY <1>1, <1>3, TakenKeeps DEF Streaming
<1> QED BY <1>2, <1>4 DEF Streaming

LEMMA CloseStep ==
  ASSUME NEW c, NEW n, NEW ts, NEW tc, NEW h, NEW in, NEW off, NEW k, NEW up \in BOOLEAN,
         Streaming(c, n, ts, tc, h, in, off, k, up)
  PROVE  /\ Streaming(c, n, ts, tc, h, in, off, k, FALSE)
         /\ Streaming(c, n, ts, <<>>, h, in, off, k, FALSE)
<1>1. tc \in Seq(Messages) BY DEF Streaming, Output, Streams
<1>2. Output(c, n, ts, tc, h, FALSE) /\ Output(c, n, ts, <<>>, h, FALSE)
  BY CloseKeeps DEF Streaming
<1>3. Input(in, tc, ts, off, k, FALSE) /\ Input(in, <<>>, ts, off, k, FALSE)
  BY <1>1, CloseKeepsInput DEF Streaming
<1> QED BY <1>2, <1>3 DEF Streaming

-----------------------------------------------------------------------------
(* The page                                                                *)

USE DEF pageVars, serverVars

LEMMA InitInv == Init => IInv
<1> SUFFICES ASSUME Init PROVE IInv OBVIOUS
<1>1. /\ client = [next |-> 0, free |-> <<>>, output |-> <<>>] /\ input = <<>> /\ made = 0
      /\ mine = <<>>
      /\ toServer = <<>> /\ toClient = <<>> /\ held = <<>> /\ offered = <<>> /\ offers = 0
      /\ state = "IDLE" /\ tunnelOpen = FALSE /\ objects = {}
  BY DEF Init
<1>2. DOMAIN client.output = {} /\ DOMAIN client.free = {} /\ Len(client.free) = 0 /\ client.next = 0
      /\ DOMAIN <<>> = {}
  BY <1>1
<1>3. Fits(client)
  <2>1. 0..(client.next - 1) = {} BY <1>1
  <2>2. Shape(client) BY <1>1 DEF Shape
  <2> QED BY <1>2, <2>1, <2>2 DEF Fits, Partition
<1>4. PoolOK(client, made) BY <1>1, <1>2, <1>3 DEF PoolOK
<1>5. Follows(mine, client) BY <1>1, <1>2 DEF Follows
<1>6. <<>> \in Seq(Messages) OBVIOUS
<1>7. Output(client, made, toServer, toClient, held, tunnelOpen)
  BY <1>1, <1>2, <1>4, <1>6 DEF Output, Streams, WritesMeet
<1>8. Mark(input) = Nothing BY <1>1, <1>2 DEF Mark
<1>9. Input(input, toClient, toServer, offered, offers, tunnelOpen)
  <2> DEFINE s == Line(input, toClient)
  <2>1. DOMAIN s = {0} /\ s[0] = Nothing BY <1>1, <1>8 DEF Line
  <2>2. \A x : ~Refuses(toServer, x) BY <1>1, <1>2 DEF Refuses
  <2> HIDE DEF s
  <2>3. Nothing.op \notin Kinds BY DEF Nothing, Kinds
  <2>4. InTurn(s)
    <3>1. \A j, k \in DOMAIN s : ~(j < k) BY <2>1
    <3> QED BY <3>1 DEF InTurn, Prior
  <2>5. Fresh(s, toServer, offered, offers) BY <1>1, <1>2, <2>1, <2>2, <2>3 DEF Fresh
  <2> QED BY <1>1, <1>2, <2>4, <2>5 DEF Input, s
<1>10. Phases BY <1>1, <1>2, <1>8 DEF Phases
<1> QED BY <1>5, <1>7, <1>9, <1>10 DEF IInv, Streaming

LEMMA ConnectStep == ASSUME IInv, connect PROVE IInv'
<1>1. /\ state = "IDLE" /\ state' = "WAITING" /\ tunnelOpen' = TRUE
      /\ UNCHANGED <<client, mine, input, objects, made, toServer, toClient, held, offered, offers>>
  BY DEF connect
<1>2. /\ toServer = <<>> /\ toClient = <<>> /\ DOMAIN held = {} /\ DOMAIN offered = {}
      /\ Mark(input) = Nothing /\ objects \subseteq Nat
  BY <1>1 DEF IInv, Phases
<1>3. DOMAIN <<>> = {} OBVIOUS
<1>4. TableMeets(client, toServer, held) BY <1>2, <1>3 DEF TableMeets, Meets
<1>5. Agrees(Line(input, toClient), offered)
  <2>1. DOMAIN Line(input, toClient) = {0} /\ Line(input, toClient)[0] = Nothing
    BY <1>2 DEF Line
  <2>2. Nothing.op # "end" /\ Nothing.op \notin Kinds BY DEF Nothing, Kinds
  <2> QED BY <2>1, <2>2 DEF Agrees
<1>6. Streaming(client, made, toServer, toClient, held, input, offered, offers, TRUE)
  BY <1>4, <1>5 DEF IInv, Streaming, Output, Input
<1>7. Phases' BY <1>1, <1>2 DEF Phases
<1>8. Follows(mine, client) BY DEF IInv
<1> QED BY <1>1, <1>6, <1>7, <1>8 DEF IInv

\* disconnect, and the handlers that end in it.
LEMMA DisconnectedStep ==
  ASSUME NEW tc, disconnected, Phases, Follows(mine, client), toClient' \in {tc, <<>>},
         Streaming(client, made, toServer, tc, held, input, offered, offers, tunnelOpen)
  PROVE  IInv'
<1>1. /\ UNCHANGED <<client, mine, input, objects, made, held, offered, offers>>
      /\ objects \subseteq Nat /\ tunnelOpen \in BOOLEAN
  BY DEF disconnected, Phases
<1>2. CASE state = "DISCONNECTED"
  <2>1. UNCHANGED <<state, tunnelOpen, toServer>> /\ tunnelOpen = FALSE
    BY <1>1, <1>2 DEF disconnected, Phases
  <2>2. /\ Streaming(client, made, toServer, tc, held, input, offered, offers, FALSE)
        /\ Streaming(client, made, toServer, <<>>, held, input, offered, offers, FALSE)
    BY <1>1, CloseStep
  <2>3. Phases' BY <1>1, <1>2, <2>1 DEF Phases
  <2> QED BY <1>1, <2>1, <2>2, <2>3 DEF IInv
<1>3. CASE state # "DISCONNECTED"
  <2> DEFINE m == Message("disconnect", 0, 0)
             s == Put(tunnelOpen, toServer, m)
  <2>1. state' = "DISCONNECTED" /\ tunnelOpen' = FALSE /\ toServer' = Sent(<<m>>)
    BY <1>3 DEF disconnected
  <2>2. m \in Messages /\ m.op \notin {"open", "refusal"} /\ m.op \notin Writes
    <3>1. "disconnect" \in Ops BY DEF Ops
    <3> QED BY <3>1, MessageTyped DEF Writes
  <2> HIDE DEF m
  <2>3. toServer \in Seq(Messages) BY DEF Streaming, Output, Streams
  <2>4. toServer' = s BY <2>1, <2>2, <2>3, SentPuts
  <2>5. Streaming(client, made, s, tc, held, input, offered, offers, tunnelOpen)
    BY <1>1, <2>2, SayStep
  <2> HIDE DEF s
  <2>6. /\ Streaming(client, made, s, tc, held, input, offered, offers, FALSE)
        /\ Streaming(client, made, s, <<>>, held, input, offered, offers, FALSE)
    BY <1>1, <2>5, CloseStep
  <2>7. Phases' BY <1>1, <2>1 DEF Phases
  <2> QED BY <1>1, <2>1, <2>4, <2>6, <2>7 DEF IInv
<1> QED BY <1>2, <1>3

LEMMA CloseTunnelStep == ASSUME IInv, disconnect \/ TunnelCloses PROVE IInv'
<1>1. /\ Streaming(client, made, toServer, toClient, held, input, offered, offers, tunnelOpen)
      /\ Phases /\ Follows(mine, client) /\ tunnelOpen \in BOOLEAN /\ toClient' = <<>>
  BY DEF IInv, Phases, disconnect, TunnelCloses
<1>2. CASE disconnect
  BY <1>1, <1>2, DisconnectedStep DEF disconnect
<1>3. CASE TunnelCloses
  <2>1. /\ UNCHANGED <<state, client, mine, input, objects, made, toServer, held, offered, offers>>
        /\ tunnelOpen' = FALSE
    BY <1>3 DEF TunnelCloses
  <2>2. Streaming(client, made, toServer, <<>>, held, input, offered, offers, FALSE)
    BY <1>1, CloseStep
  <2>3. Phases' BY <1>1, <2>1 DEF Phases
  <2> QED BY <1>1, <2>1, <2>2, <2>3 DEF IInv
<1> QED BY <1>2, <1>3

\* What the page writes along is in the table.
LEMMA MineTyped ==
  ASSUME IInv, NEW x \in DOMAIN mine
  PROVE  InTable(client, mine[x], x) /\ mine[x] \in Nat /\ x \in Int
<1>1. InTable(client, mine[x], x) /\ PoolOK(client, made)
  BY DEF IInv, Follows, Streaming, Output, Streams
<1>2. x \in 1..made /\ made \in Nat BY <1>1 DEF InTable, PoolOK
<1>3. mine[x] \in Nat BY <1>1, FreeTable DEF InTable
<1> QED BY <1>1, <1>2, <1>3

\* An event, a request and a blob.
LEMMA InstructionStep ==
  ASSUME IInv, NEW op \in {"event", "get", "blob"}, NEW i \in Nat, NEW x \in Int,
         Instruction(op, i, x), op = "blob" => InTable(client, i, x)
  PROVE  IInv'
<1> DEFINE m == Message(op, i, x)
<1>1. /\ isConnected /\ toServer' = Sent(<<m>>)
      /\ UNCHANGED <<state, tunnelOpen, client, mine, input, objects, made, toClient, held, offered,
                     offers>>
  BY DEF Instruction
<1>2. m \in Messages /\ m.op = op /\ m.index = i /\ m.id = x
  <2>1. op \in Ops BY DEF Ops
  <2> QED BY <2>1, MessageTyped
<1> HIDE DEF m
<1>3. m.op \notin {"open", "refusal"} /\ (m.op \in Writes => InTable(client, m.index, m.id))
  BY <1>2 DEF Writes
<1>4. /\ Streaming(client, made, toServer, toClient, held, input, offered, offers, tunnelOpen)
      /\ Phases /\ Follows(mine, client) /\ tunnelOpen \in BOOLEAN /\ toServer \in Seq(Messages)
  BY DEF IInv, Phases, Streaming, Output, Streams
<1>5. toServer' = Put(tunnelOpen, toServer, m) BY <1>1, <1>2, <1>4, SentPuts
<1>6. Streaming(client, made, Put(tunnelOpen, toServer, m), toClient, held, input, offered, offers, tunnelOpen)
  BY <1>2, <1>3, <1>4, SayStep
<1>7. Phases' BY <1>1, <1>4 DEF Phases, isConnected
<1> QED BY <1>1, <1>4, <1>5, <1>6, <1>7 DEF IInv

LEMMA CreateStreamStep == ASSUME IInv, createStream PROVE IInv'
<1> DEFINE m == Message("open", nextIndex(client), made + 1)
<1>1. /\ state # "IDLE" /\ made' = made + 1 /\ toServer' = Sent(<<m>>)
      /\ client' = createOutputStream(client, made + 1)
      /\ mine' = With(mine, made + 1, nextIndex(client))
      /\ UNCHANGED <<state, tunnelOpen, input, objects, toClient, held, offered, offers>>
  BY DEF createStream
<1>2. /\ Streaming(client, made, toServer, toClient, held, input, offered, offers, tunnelOpen)
      /\ Phases /\ Follows(mine, client) /\ tunnelOpen \in BOOLEAN /\ toServer \in Seq(Messages)
      /\ PoolOK(client, made)
  BY DEF IInv, Phases, Streaming, Output, Streams
<1>3. Follows(mine', client') BY <1>1, <1>2, CreateFollows
<1>4. /\ m \in Messages
      /\ Streaming(client', made + 1, Put(tunnelOpen, toServer, m), toClient, held, input, offered,
                   offers, tunnelOpen)
  BY <1>1, <1>2, OpenStep
<1> HIDE DEF m
<1>5. toServer' = Put(tunnelOpen, toServer, m) BY <1>1, <1>2, <1>4, SentPuts
<1>6. Phases' BY <1>1, <1>2 DEF Phases
<1> QED BY <1>1, <1>3, <1>4, <1>5, <1>6 DEF IInv

LEMMA EndStreamStep == ASSUME IInv, NEW x \in DOMAIN mine, endStream(x) PROVE IInv'
<1> DEFINE i == mine[x]
           m == Message("end", i, client.output[i])
<1>1. i \in DOMAIN client.output /\ client.output[i] = x BY MineTyped DEF InTable
<1>2. /\ isConnected /\ toServer' = Sent(<<m>>) /\ client' = free(client, i)
      /\ mine' = Without(mine, client.output[i])
      /\ UNCHANGED <<state, tunnelOpen, input, objects, made, toClient, held, offered, offers>>
  BY <1>1 DEF endStream, Freed
<1>3. /\ Streaming(client, made, toServer, toClient, held, input, offered, offers, tunnelOpen)
      /\ Phases /\ Follows(mine, client) /\ tunnelOpen \in BOOLEAN /\ toServer \in Seq(Messages)
      /\ PoolOK(client, made)
  BY DEF IInv, Phases, Streaming, Output, Streams
<1> HIDE DEF i
<1>4. /\ m \in Messages
      /\ Streaming(client', made, Put(tunnelOpen, toServer, m), toClient, held, input, offered, offers,
                   tunnelOpen)
  BY <1>1, <1>2, <1>3, EndStep
<1>5. Follows(mine', client') BY <1>1, <1>2, <1>3, FreeFollows
<1> HIDE DEF m
<1>6. toServer' = Put(tunnelOpen, toServer, m) BY <1>2, <1>3, <1>4, SentPuts
<1>7. Phases' BY <1>2, <1>3 DEF Phases, isConnected
<1> QED BY <1>2, <1>4, <1>5, <1>6, <1>7 DEF IInv

-----------------------------------------------------------------------------
(* What the page receives                                                  *)

\* The handler tells the stream that has the index, and what it sends is about that
\* one, whichever stream the answer is about.
LEMMA HandleAckStep ==
  ASSUME IInv, toClient # <<>>, tunnelOpen, toClient' = Tail(toClient),
         Head(toClient).op \in {"ack", "refusal"}, HandleAck(Head(toClient))
  PROVE  IInv'
<1> DEFINE m == Head(toClient)
           i == m.index
           stream == client.output[i]
<1>1. /\ Streaming(client, made, toServer, toClient, held, input, offered, offers, TRUE)
      /\ Phases /\ tunnelOpen = TRUE /\ toServer \in Seq(Messages) /\ toClient \in Seq(Messages)
      /\ PoolOK(client, made) /\ Follows(mine, client)
  BY DEF IInv, Phases, Streaming, Output, Streams
<1>2. UNCHANGED <<state, tunnelOpen, input, objects, held, offered, offers>> BY DEF HandleAck
<1>3. Phases' BY <1>1, <1>2 DEF Phases
<1>4. ~IsMark(m) BY DEF IsMark, Kinds
\* The pool and what is sent go first, and then the message is gone.
<1>5. SUFFICES /\ Streaming(client', made', toServer', toClient, held, input, offered, offers, TRUE)
               /\ Follows(mine', client')
  BY <1>1, <1>2, <1>3, <1>4, TakeStep DEF IInv
<1>6. CASE i \notin DOMAIN client.output
  BY <1>1, <1>6 DEF HandleAck
<1>7. CASE i \in DOMAIN client.output
  <2> DEFINE ended == free(client, i)
             left == Without(mine, stream)
             opened == createOutputStream(ended, made + 1)
             end == Message("end", i, stream)
             open == Message("open", nextIndex(ended), made + 1)
             s == Put(TRUE, toServer, end)
  <2>1. Freed(client, i) = ended BY <1>7 DEF Freed
  <2>2. PICK r \in Reactions :
          LET e == IF r = "none" THEN client ELSE Freed(client, m.index)
              l == IF r = "none" /\ m.op = "ack" THEN mine ELSE Without(mine, stream)
          IN  /\ made' = IF r = "end and open" THEN made + 1 ELSE made
              /\ mine' = IF r = "end and open" THEN With(l, made + 1, nextIndex(e)) ELSE l
              /\ client' = Invalidated(IF r = "end and open" THEN createOutputStream(e, made + 1) ELSE e,
                                       m, stream)
              /\ toServer' = Sent((IF r = "none" THEN <<>> ELSE <<Message("end", m.index, stream)>>)
                      \o (IF r = "end and open"
                          THEN <<Message("open", nextIndex(e), made + 1)>> ELSE <<>>))
    BY <1>7, Zenon DEF HandleAck
  <2>3. CASE r = "none"
    <3>1. /\ made' = made /\ client' = Invalidated(client, m, stream) /\ toServer' = Sent(<<>> \o <<>>)
          /\ mine' = IF m.op = "ack" THEN mine ELSE left
      BY <2>2, <2>3
    <3>2. toServer' = toServer
      <4>1. Message("end", 0, 0) \in Messages
        <5>1. "end" \in Ops BY DEF Ops
        <5> QED BY <5>1, MessageTyped
      <4> QED BY <3>1, <4>1, <1>1, SentPutsBoth
    <3>3. CASE m.op = "refusal"
      <4>1. client' = ended /\ mine' = left BY <1>7, <3>1, <3>3 DEF Invalidated
      <4>2. Output(ended, made, toServer, toClient, held, TRUE)
        BY <1>1, <1>7, FreeKeeps DEF Streaming
      <4>3. Follows(left, ended) BY <1>1, <1>7, FreeFollows
      <4> QED BY <1>1, <3>1, <3>2, <4>1, <4>2, <4>3 DEF Streaming
    <3>4. CASE m.op = "ack"
      <4>1. client' = client /\ mine' = mine BY <3>1, <3>4 DEF Invalidated
      <4> QED BY <1>1, <3>1, <3>2, <4>1
    <3> QED BY <3>3, <3>4
  <2>4. end \in Messages /\ Streaming(ended, made, s, toClient, held, input, offered, offers, TRUE)
    BY <1>1, <1>7, EndStep
  <2>5. /\ i \notin DOMAIN ended.output /\ PoolOK(ended, made) /\ Follows(left, ended)
        /\ stream \in 1..made /\ made \in Nat
    <3>1. PoolOK(ended, made) /\ i \notin DOMAIN ended.output BY <1>1, <1>7, FreeTable
    <3>2. Follows(left, ended) BY <1>1, <1>7, FreeFollows
    <3>3. stream \in 1..made /\ made \in Nat BY <1>1, <1>7 DEF PoolOK
    <3> QED BY <3>1, <3>2, <3>3
  <2>6. CASE r = "end"
    <3>1. /\ made' = made /\ client' = Invalidated(ended, m, stream) /\ toServer' = Sent(<<end>> \o <<>>)
          /\ mine' = left
      BY <2>1, <2>2, <2>6
    <3>2. client' = ended BY <2>5, <3>1 DEF Invalidated
    <3>3. toServer' = s BY <1>1, <2>4, <3>1, SentPutsBoth
    <3> QED BY <2>4, <2>5, <3>1, <3>2, <3>3
  <2>7. CASE r = "end and open"
    <3>1. /\ made' = made + 1 /\ client' = Invalidated(opened, m, stream)
          /\ toServer' = Sent(<<end>> \o <<open>>) /\ mine' = With(left, made + 1, nextIndex(ended))
      BY <2>1, <2>2, <2>7
    <3> HIDE DEF ended, left, end, s
    <3>2. /\ open \in Messages
          /\ Streaming(opened, made + 1, Put(TRUE, s, open), toClient, held, input, offered, offers, TRUE)
      BY <2>4, OpenStep
    <3>3. Follows(With(left, made + 1, nextIndex(ended)), opened) BY <2>5, CreateFollows
    \* The stream is not the one that has been told.
    <3>4. i \in DOMAIN opened.output => opened.output[i] = made + 1
      <4>1. /\ DOMAIN opened.output = DOMAIN ended.output \cup {nextIndex(ended)}
            /\ opened.output[nextIndex(ended)] = made + 1
        BY <2>5, CreateTable
      <4> HIDE DEF i, opened
      <4> QED BY <2>5, <4>1
    <3>5. stream # made + 1 BY <2>5
    <3> HIDE DEF opened
    <3>6. client' = opened BY <3>1, <3>4, <3>5 DEF Invalidated
    <3> HIDE DEF open
    <3>7. toServer' = Put(TRUE, s, open) BY <1>1, <2>4, <3>1, <3>2, SentPutsBoth DEF s
    <3> QED BY <3>1, <3>2, <3>3, <3>6, <3>7
  <2> QED BY <2>3, <2>6, <2>7 DEF Reactions
<1> QED BY <1>6, <1>7

\* A message about a stream of the server comes in its turn: after what the page has.
LEMMA TurnComes ==
  ASSUME IInv, toClient # <<>>
  PROVE  LET m == Head(toClient)
         IN  /\ m \in Messages
             /\ Along(m) => m.index = 0 /\ m.id < 0 /\ Allowed(Mark(input), m)
<1> DEFINE m == Head(toClient)
           s == Line(input, toClient)
<1>1. toClient \in Seq(Messages) /\ Input(input, toClient, toServer, offered, offers, tunnelOpen)
  BY DEF IInv, Streaming, Output, Streams
<1>2. m \in Messages /\ m = toClient[1] /\ 1 \in DOMAIN toClient BY <1>1, TailShrinks
<1>3. Along(m) => m.index = 0 /\ m.id < 0 BY <1>1, <1>2 DEF Input
<1>4. Shifted(s, Line(input, Tail(toClient))) /\ s[0] = Mark(input) /\ s[1] = m
  BY <1>1, LineShrinks
<1>5. IsMark(Mark(input)) BY MarkIs
<1>6. InTurn(s) BY <1>1 DEF Input
<1> HIDE DEF m, s
<1>7. 0 \in DOMAIN s /\ 1 \in DOMAIN s /\ DOMAIN s \subseteq Int BY <1>4 DEF Shifted
<1>8. Prior(s, 0, 1) BY <1>4, <1>5, <1>7 DEF Prior
<1>9. Along(m) => Allowed(Mark(input), m) BY <1>4, <1>6, <1>7, <1>8 DEF InTurn
<1> QED BY <1>2, <1>3, <1>9 DEF m

\* What a handler does about a stream of the server: nothing, when the message opens
\* and ends none; it forgets the stream it has, or takes the one that is opened, or
\* refuses it.
Takes(m) == m.op \in Kinds /\ Mark(input').op \in Kinds /\ Mark(input').id = m.id

Handles(m) ==
  \/ ~IsMark(m) /\ Mark(input') = Mark(input) /\ toServer' = toServer
  \/ m.op = "end" /\ Mark(input') = Nothing /\ toServer' = toServer
  \/ Takes(m) /\ toServer' = toServer
  \/ Takes(m) /\ toServer' = sendAck(m, "ack")
  \/ m.op \in Kinds /\ Mark(input') = Nothing /\ toServer' = sendAck(m, "refusal")

LEMMA HandlerStep ==
  ASSUME IInv, toClient # <<>>, tunnelOpen, toClient' = Tail(toClient), Same,
         objects' \in SUBSET Nat, Handles(Head(toClient))
  PROVE  IInv'
<1> DEFINE m == Head(toClient)
<1>1. /\ Streaming(client, made, toServer, toClient, held, input, offered, offers, TRUE)
      /\ Phases /\ tunnelOpen = TRUE /\ toServer \in Seq(Messages) /\ toClient \in Seq(Messages)
      /\ state # "IDLE" /\ state # "DISCONNECTED"
  BY DEF IInv, Phases, Streaming, Output, Streams
<1>2. /\ UNCHANGED <<state, tunnelOpen, client, mine, made, held, offered, offers>>
      /\ Follows(mine, client)
  BY DEF Same, IInv
<1>3. Phases' BY <1>1, <1>2 DEF Phases
<1>4. Handles(m) /\ m \in Messages /\ (Along(m) => m.id < 0) BY TurnComes
<1>5. "ack" \in Ops /\ "refusal" \in Ops /\ "end" \notin Kinds BY DEF Ops, Kinds
\* What is said is an answer about the stream, or nothing.
<1> HIDE DEF m
<1>6. \/ toServer' = toServer
      \/ \E op \in {"ack", "refusal"} :
           /\ toServer' = Put(TRUE, toServer, Message(op, m.index, m.id)) /\ m.op \in Kinds
           /\ op = "refusal" => Mark(input') = Nothing
  <2>1. m.index \in Nat /\ m.id \in Int BY <1>4 DEF Messages
  <2>2. \A op \in {"ack", "refusal"} : Message(op, m.index, m.id) \in Messages
    BY <1>5, <2>1, MessageTyped
  <2>3. \A op \in {"ack", "refusal"} : sendAck(m, op) = toServer
          \/ sendAck(m, op) = Put(TRUE, toServer, Message(op, m.index, m.id))
    BY <1>1, <2>2, SentPuts DEF sendAck
  <2> QED BY <1>4, <2>3 DEF Handles, Takes
<1>7. /\ Output(client, made, toServer', toClient, held, TRUE)
      /\ \A x : Refuses(toServer', x) =>
           Refuses(toServer, x) \/ (m.op \in Kinds /\ Mark(input') = Nothing /\ x = m.id)
  <2>1. CASE toServer' = toServer BY <1>1, <2>1 DEF Streaming
  <2>2. CASE toServer' # toServer
    <3>1. PICK op \in {"ack", "refusal"} :
            /\ toServer' = Put(TRUE, toServer, Message(op, m.index, m.id)) /\ m.op \in Kinds
            /\ op = "refusal" => Mark(input') = Nothing
      BY <1>6, <2>2
    <3> DEFINE a == Message(op, m.index, m.id)
    <3>2. a \in Messages /\ a.op = op /\ a.id = m.id
      <4>1. m.index \in Nat /\ m.id \in Int BY <1>4 DEF Messages
      <4> QED BY <1>5, <4>1, MessageTyped
    <3> HIDE DEF a
    <3>4. a.op \notin Writes /\ ~IsOpen(a) BY <3>2 DEF IsOpen, Writes
    <3>5. toServer' = Put(TRUE, toServer, a) BY <3>1 DEF a
    <3>6. Output(client, made, Put(TRUE, toServer, a), toClient, held, TRUE)
      BY <1>1, <3>2, <3>4, SayKeeps DEF Streaming
    <3>7. \A x : Refuses(Put(TRUE, toServer, a), x) => Refuses(toServer, x) \/ (op = "refusal" /\ x = m.id)
      BY <1>1, <3>2, PutSays
    <3> QED BY <3>1, <3>5, <3>6, <3>7
  <2> QED BY <2>1, <2>2
<1>8. Output(client, made, toServer', Tail(toClient), held, TRUE)
  BY <1>7, TakeKeeps
<1>9. Taken(input, m, input', toServer, toServer')
  <2>1. /\ ~IsMark(m) => Mark(input') = Mark(input)
        /\ IsMark(m) => Mark(input') = Nothing \/ Takes(m)
    BY <1>4, <1>5 DEF Handles, Takes, IsMark
  <2> QED BY <1>7, <2>1 DEF Taken, Takes
<1>10. Input(input', Tail(toClient), toServer', offered, offers, TRUE)
  BY <1>1, <1>9, TakenKeeps DEF Streaming, m
<1> QED BY <1>1, <1>2, <1>3, <1>8, <1>10 DEF IInv, Streaming

\* A table that has a stream put in, or taken out of, index 0.
LEMMA MarkOf ==
  ASSUME NEW in, NEW x, NEW w \in BOOLEAN
  PROVE  /\ LET to == With(in, 0, [id |-> x, wanted |-> w])
            IN  IF w THEN Mark(to).op \in Kinds /\ Mark(to).id = x ELSE Mark(to) = Nothing
         /\ Mark(Without(in, 0)) = Nothing
<1> DEFINE to == With(in, 0, [id |-> x, wanted |-> w])
<1>1. 0 \in DOMAIN to /\ to[0] = [id |-> x, wanted |-> w] BY DEF With
<1>2. 0 \notin DOMAIN Without(in, 0) BY DEF Without
<1>3. Message("file", 0, x).op \in Kinds /\ Message("file", 0, x).id = x BY DEF Message, Kinds
<1> HIDE DEF to
<1>4. CASE w BY <1>1, <1>2, <1>3, <1>4 DEF Mark, to
<1>5. CASE ~w BY <1>1, <1>2, <1>5 DEF Mark, to
<1> QED BY <1>4, <1>5

\* An open is handed to a callback of the page, or refused when there is none; a
\* stream that is refused leaves the table as it is, and no stream was in it.
LEMMA OfferedHandles ==
  ASSUME IInv, toClient # <<>>, Head(toClient).op \in Kinds,
         NEW callback \in BOOLEAN, Offered(Head(toClient), callback)
  PROVE  Handles(Head(toClient))
<1> DEFINE m == Head(toClient)
<1>1. m.index = 0 /\ Allowed(Mark(input), m) BY TurnComes DEF Along
<1> HIDE DEF m
<1>2. Mark(input) = Nothing
  <2>1. Mark(input).op \in Kinds \cup {"nothing"} /\ (Mark(input).op = "nothing" => Mark(input) = Nothing)
    BY MarkIs
  <2>2. m.op \in Kinds BY DEF m
  <2>3. "blob" \notin Kinds /\ "end" \notin Kinds BY DEF Kinds
  <2> QED BY <1>1, <2>1, <2>2, <2>3 DEF Allowed
<1>3. CASE callback
  <2>1. input' = With(input, 0, [id |-> m.id, wanted |-> TRUE]) /\ toServer' = toServer
    BY <1>1, <1>3 DEF Offered, m
  <2>2. Mark(input').op \in Kinds /\ Mark(input').id = m.id BY <2>1, MarkOf
  <2> QED BY <2>1, <2>2 DEF Handles, Takes, m
<1>4. CASE ~callback
  <2>1. input' = input /\ toServer' = sendAck(m, "refusal") BY <1>4 DEF Offered, m
  <2> QED BY <1>2, <2>1 DEF Handles, m
<1> QED BY <1>3, <1>4

LEMMA PlayedHandles ==
  ASSUME IInv, toClient # <<>>, Head(toClient).op \in Kinds,
         NEW player \in BOOLEAN, Played(Head(toClient), player)
  PROVE  Handles(Head(toClient))
<1> DEFINE m == Head(toClient)
<1>1. m.index = 0 BY TurnComes DEF Along
<1>2. /\ input' = With(input, m.index, [id |-> m.id, wanted |-> player])
      /\ toServer' = sendAck(m, IF player THEN "ack" ELSE "refusal")
  BY DEF Played
<1> HIDE DEF m
<1>3. IF player THEN Mark(input').op \in Kinds /\ Mark(input').id = m.id ELSE Mark(input') = Nothing
  BY <1>1, <1>2, MarkOf
<1> QED BY <1>2, <1>3 DEF Handles, Takes, m

LEMMA ReceiveStep == ASSUME IInv, Receive PROVE IInv'
<1> DEFINE m == Head(toClient)
<1>1. toClient # <<>> /\ tunnelOpen /\ toClient' = Tail(toClient) BY DEF Receive
<1>2. m \in Messages /\ (Along(m) => m.index = 0) BY <1>1, TurnComes
<1>3. Phases /\ Follows(mine, client) /\ tunnelOpen = TRUE /\ objects \subseteq Nat
  BY <1>1 DEF IInv, Phases
<1>4. /\ "file" \in Kinds /\ "argv" \in Kinds /\ "clipboard" \in Kinds /\ "pipe" \in Kinds
      /\ "body" \in Kinds /\ "audio" \in Kinds /\ "video" \in Kinds
  BY DEF Kinds
<1>5. CASE m.op \in {"ack", "refusal"} /\ HandleAck(m) BY <1>1, <1>5, HandleAckStep
<1>6. ASSUME m.op \in Kinds, NEW b \in BOOLEAN, Offered(m, b) PROVE IInv'
  <2>1. Handles(m) BY <1>1, <1>6, OfferedHandles
  <2>2. Same /\ objects' \in SUBSET Nat BY <1>3, <1>6 DEF Offered
  <2> QED BY <1>1, <2>1, <2>2, HandlerStep
<1>7. ASSUME m.op \in Kinds, NEW b \in BOOLEAN, Played(m, b) PROVE IInv'
  <2>1. Handles(m) BY <1>1, <1>7, PlayedHandles
  <2>2. Same /\ objects' \in SUBSET Nat BY <1>3, <1>7 DEF Played
  <2> QED BY <1>1, <2>1, <2>2, HandlerStep
<1>8. CASE m.op = "end" /\ HandleEnd(m)
  <2>1. m.index = 0 BY <1>2, <1>8 DEF Along
  <2>2. Same /\ UNCHANGED <<objects, toServer>> /\ input' = Without(input, 0)
    BY <1>8, <2>1 DEF HandleEnd
  <2>3. Mark(input') = Nothing
    <3>1. Mark(Without(input, 0)) = Nothing BY MarkOf
    <3> QED BY <2>2, <3>1
  <2>4. Handles(m) BY <1>8, <2>2, <2>3 DEF Handles
  <2> QED BY <1>1, <1>3, <2>2, <2>4, HandlerStep
<1>9. CASE /\ m.op \in {"blob", "filesystem", "undefine"} /\ Same
           /\ UNCHANGED <<input, toServer>> /\ objects' \in {objects, objects \cup {m.index}}
  <2>1. ~IsMark(m) BY <1>9 DEF IsMark, Kinds
  <2>2. Handles(m) BY <1>9, <2>1 DEF Handles
  <2>3. m.index \in Nat BY <1>2 DEF Messages
  <2>4. objects' \in SUBSET Nat BY <1>3, <1>9, <2>3
  <2> QED BY <1>1, <1>9, <2>2, <2>4, HandlerStep
<1>10. CASE m.op = "sync" /\ HandleSync(m)
  <2>1. ~IsMark(m) BY <1>10 DEF IsMark, Kinds
  <2>2. Streaming(client, made, toServer, Tail(toClient), held, input, offered, offers, TRUE)
    BY <1>1, <1>3, <2>1, TakeStep DEF IInv
  <2>3. /\ UNCHANGED <<tunnelOpen, client, mine, input, objects, made, toServer, held, offered, offers>>
        /\ state' \in {state, "CONNECTED"} /\ Follows(mine, client)
    BY <1>10 DEF HandleSync, IInv
  <2>4. Phases' BY <1>3, <2>3 DEF Phases
  <2> QED BY <1>1, <1>3, <2>2, <2>3, <2>4 DEF IInv
<1>11. CASE m.op \in {"error", "disconnect"} /\ disconnected
  <2>1. ~IsMark(m) BY <1>11 DEF IsMark, Kinds
  <2>2. Streaming(client, made, toServer, Tail(toClient), held, input, offered, offers, tunnelOpen)
    BY <1>1, <1>3, <2>1, TakeStep DEF IInv
  <2> QED BY <1>1, <1>3, <1>11, <2>2, DisconnectedStep
<1> HIDE DEF m
<1>12. \/ m.op \in {"ack", "refusal"} /\ HandleAck(m)
       \/ m.op = "argv" /\ HandleArgv(m)
       \/ m.op = "clipboard" /\ HandleClipboard(m)
       \/ m.op = "file" /\ HandleFile(m)
       \/ m.op = "pipe" /\ HandlePipe(m)
       \/ m.op = "body" /\ HandleBody(m)
       \/ m.op = "audio" /\ HandleAudio(m)
       \/ m.op = "video" /\ HandleVideo(m)
       \/ m.op = "blob" /\ HandleBlob(m)
       \/ m.op = "end" /\ HandleEnd(m)
       \/ m.op = "filesystem" /\ HandleFilesystem(m)
       \/ m.op = "undefine" /\ HandleUndefine(m)
       \/ m.op = "sync" /\ HandleSync(m)
       \/ m.op = "error" /\ HandleError(m)
       \/ m.op = "disconnect" /\ HandleDisconnect(m)
  BY DEF Receive, m
<1>13. ASSUME NEW name PROVE (name \in Handled) \in BOOLEAN /\ (0 \in objects) \in BOOLEAN
  OBVIOUS
<1>14. /\ ~(m.op = "argv" /\ HandleArgv(m)) \/ IInv'
       /\ ~(m.op = "clipboard" /\ HandleClipboard(m)) \/ IInv'
       /\ ~(m.op = "file" /\ HandleFile(m)) \/ IInv'
       /\ ~(m.op = "pipe" /\ HandlePipe(m)) \/ IInv'
       /\ ~(m.op = "body" /\ HandleBody(m)) \/ IInv'
  BY <1>4, <1>6, <1>13, Zenon DEF HandleArgv, HandleClipboard, HandleFile, HandlePipe, HandleBody
<1>15. /\ ~(m.op = "audio" /\ HandleAudio(m)) \/ IInv'
       /\ ~(m.op = "video" /\ HandleVideo(m)) \/ IInv'
  BY <1>4, <1>7, <1>13, Zenon DEF HandleAudio, HandleVideo
<1>16. CASE \/ m.op = "blob" /\ HandleBlob(m)
            \/ m.op = "filesystem" /\ HandleFilesystem(m)
            \/ m.op = "undefine" /\ HandleUndefine(m)
  BY <1>9, <1>16 DEF HandleBlob, HandleFilesystem, HandleUndefine
<1>17. CASE \/ m.op = "error" /\ HandleError(m)
            \/ m.op = "disconnect" /\ HandleDisconnect(m)
  BY <1>11, <1>17 DEF HandleError, HandleDisconnect
<1> QED BY <1>5, <1>8, <1>10, <1>12, <1>14, <1>15, <1>16, <1>17

-----------------------------------------------------------------------------
(* The server                                                              *)

LEMMA ServerReceivesStep == ASSUME IInv, ServerReceives PROVE IInv'
<1> DEFINE m == Head(toServer)
<1>1. /\ toServer # <<>> /\ toServer' = Tail(toServer) /\ held' = Heard(held, m)
      /\ \/ offered' = offered
         \/ /\ offered' = Without(offered, m.index) /\ m.op = "refusal"
            /\ m.index \in DOMAIN offered /\ offered[m.index] = m.id
      /\ UNCHANGED <<state, tunnelOpen, client, mine, input, objects, made, toClient, offers>>
  BY DEF ServerReceives, Heard
<1>2. /\ Streaming(client, made, toServer, toClient, held, input, offered, offers, tunnelOpen)
      /\ Phases /\ Follows(mine, client) /\ tunnelOpen \in BOOLEAN /\ toServer \in Seq(Messages)
  BY DEF IInv, Phases, Streaming, Output, Streams
<1>3. Output(client, made, Tail(toServer), toClient, held', tunnelOpen)
  BY <1>1, <1>2, HearKeeps DEF Streaming
<1>4. Input(input, toClient, Tail(toServer), offered', offers, tunnelOpen)
  BY <1>1, <1>2, HearKeepsInput DEF Streaming
<1>5. Phases' BY <1>1, <1>2 DEF Phases
<1> QED BY <1>1, <1>2, <1>3, <1>4, <1>5 DEF IInv, Streaming

\* The server answers for a stream it holds, whatever the page has at its index.
LEMMA ServerAnswersStep ==
  ASSUME IInv, NEW i \in DOMAIN held, NEW op \in {"ack", "refusal"}, ServerAnswers(i, op)
  PROVE  IInv'
<1> DEFINE m == Message(op, i, held[i])
           x == held[i]
<1>1. /\ tunnelOpen /\ toClient' = Append(toClient, m)
      /\ held' = (IF op = "refusal" THEN Without(held, i) ELSE held)
      /\ UNCHANGED <<state, tunnelOpen, client, mine, input, objects, made, toServer, offered, offers>>
  BY DEF ServerAnswers, Tells
<1>2. /\ Streaming(client, made, toServer, toClient, held, input, offered, offers, TRUE)
      /\ Phases /\ tunnelOpen = TRUE /\ toClient \in Seq(Messages) /\ toServer \in Seq(Messages)
      /\ i \in Nat /\ x \in Int
      /\ Output(client, made, toServer, toClient, held, TRUE)
  BY <1>1 DEF IInv, Phases, Streaming, Output, Streams
<1> HIDE DEF x
<1>7. m \in Messages /\ m.op = op
  <2>1. op \in Ops BY DEF Ops
  <2> QED BY <1>2, <2>1, MessageTyped DEF x
<1>8. Output(client, made, toServer, toClient, held', TRUE)
  BY <1>1, <1>2, LetGoKeeps
<1> HIDE DEF m
<1>10. Output(client, made, toServer, Append(toClient, m), held', TRUE)
  BY <1>7, <1>8, TellKeeps
<1>11. Input(input, Append(toClient, m), toServer, offered, offers, TRUE)
  <2>1. ~IsMark(m) /\ ~Along(m) /\ m.op \notin Kinds /\ m.op \notin {"blob", "end"}
    BY <1>7 DEF IsMark, Along, Kinds
  <2>2. Input(input, toClient, toServer, offered, offers, TRUE) BY <1>2 DEF Streaming
  <2>3. offers \in Nat /\ \A j \in DOMAIN offered : j = 0 /\ offered[j] \in News(offers)
    BY <2>2 DEF Input, Fresh
  <2>4. Offer(offered, offers, m, offered, offers) BY <2>1, <2>3 DEF Offer
  <2> QED BY <1>2, <1>7, <2>2, <2>4, OfferKeeps
<1>12. Phases' BY <1>1, <1>2 DEF Phases
<1>13. Follows(mine', client') BY <1>1 DEF IInv
<1> QED BY <1>1, <1>2, <1>10, <1>11, <1>12, <1>13 DEF IInv, Streaming

\* What the server says of streams of its own, and of none.
LEMMA TellsStep ==
  ASSUME IInv, NEW m \in Messages, Tells(m), UNCHANGED held,
         Offer(offered, offers, m, offered', offers')
  PROVE  IInv'
<1>1. /\ tunnelOpen /\ toClient' = Append(toClient, m)
      /\ UNCHANGED <<state, tunnelOpen, client, mine, input, objects, made, toServer, held>>
  BY DEF Tells
<1>2. /\ Streaming(client, made, toServer, toClient, held, input, offered, offers, TRUE)
      /\ Phases /\ Follows(mine, client) /\ tunnelOpen = TRUE /\ toClient \in Seq(Messages)
  BY <1>1 DEF IInv, Phases, Streaming, Output, Streams
<1>3. Output(client, made, toServer, Append(toClient, m), held, TRUE)
  BY <1>2, TellKeeps DEF Streaming
<1>4. Input(input, Append(toClient, m), toServer, offered', offers', TRUE)
  BY <1>2, OfferKeeps DEF Streaming
<1>5. Phases' BY <1>1, <1>2 DEF Phases
<1> QED BY <1>1, <1>2, <1>3, <1>4, <1>5 DEF IInv, Streaming

LEMMA ServerStep == ASSUME IInv, Server PROVE IInv'
<1>1. Input(input, toClient, toServer, offered, offers, tunnelOpen) /\ offers \in Nat
  BY DEF IInv, Streaming, Input
<1>2. \A i \in DOMAIN offered : i = 0 /\ offered[i] \in News(offers) BY <1>1 DEF Input, Fresh
<1>3. \A x \in News(offers) : x \in Int /\ x < 0 /\ ~(x > 0) BY <1>1 DEF News
<1>4. CASE ServerReceives BY <1>4, ServerReceivesStep
<1>5. CASE \E i \in DOMAIN held, op \in {"ack", "refusal"} : ServerAnswers(i, op)
  BY <1>5, ServerAnswersStep
<1>6. CASE \E kind \in Kinds : ServerOffers(kind)
  <2>1. PICK kind \in Kinds : ServerOffers(kind) BY <1>6
  <2> DEFINE x == -(offers + 1)
             m == Message(kind, 0, x)
  <2>2. /\ offers' = offers + 1 /\ 0 \notin DOMAIN offered /\ offered' = With(offered, 0, x)
        /\ Tells(m) /\ UNCHANGED held
    BY <2>1 DEF ServerOffers
  <2>3. x \in Int /\ x < 0 /\ ~(x > 0) /\ x \in News(offers + 1) /\ News(offers) \subseteq News(offers + 1)
    BY <1>1 DEF News
  <2>4. m \in Messages /\ m.op = kind /\ m.index = 0 /\ m.id = x
    <3>1. kind \in Ops BY DEF Ops
    <3> HIDE DEF x
    <3> QED BY <2>3, <3>1, MessageTyped
  <2>5. /\ 0 \in DOMAIN offered' /\ offered'[0] = x
        /\ \A i \in DOMAIN offered' : i = 0
    BY <1>2, <2>2 DEF With
  <2>6. m.op \notin {"ack", "refusal", "blob", "end"} /\ IsMark(m)
    BY <2>4 DEF Kinds, IsMark
  <2>7. offers' \in Nat /\ offers <= offers' BY <1>1, <2>2
  <2> HIDE DEF m
  <2>8. Offer(offered, offers, m, offered', offers')
    <3>1. \A i \in DOMAIN offered' : i = 0 /\ offered'[i] \in News(offers')
      BY <2>2, <2>3, <2>5
    <3>2. m.id = -(offers + 1) BY <2>4
    <3> HIDE DEF x
    <3> QED BY <2>2, <2>3, <2>4, <2>5, <2>6, <2>7, <3>1, <3>2 DEF Offer
  <2> HIDE DEF x
  <2> QED BY <2>2, <2>3, <2>4, <2>6, <2>8, TellsStep DEF m
<1>7. CASE \E i \in DOMAIN offered : ServerWrites(i)
  <2>1. PICK i \in DOMAIN offered : ServerWrites(i) BY <1>7
  <2> DEFINE m == Message("blob", i, offered[i])
  <2>2. i = 0 /\ offered[i] \in Int /\ offered[i] < 0 /\ ~(offered[i] > 0) BY <1>2, <1>3
  <2>3. Tells(m) /\ UNCHANGED <<held, offered, offers>> BY <2>1 DEF ServerWrites
  <2>4. m \in Messages /\ m.op = "blob" /\ m.index = 0 /\ m.id = offered[0]
    <3>1. "blob" \in Ops BY DEF Ops
    <3> QED BY <2>2, <3>1, MessageTyped
  <2> HIDE DEF m
  <2>5. m.op \notin Kinds /\ m.op # "end" /\ ~IsMark(m) BY <2>4 DEF Kinds, IsMark
  <2>6. Offer(offered, offers, m, offered', offers')
    BY <1>1, <1>2, <2>2, <2>3, <2>4, <2>5 DEF Offer
  <2> QED BY <2>2, <2>3, <2>4, <2>6, TellsStep
<1>8. CASE \E i \in DOMAIN offered : ServerEnds(i)
  <2>1. PICK i \in DOMAIN offered : ServerEnds(i) BY <1>8
  <2> DEFINE m == Message("end", i, offered[i])
  <2>2. i = 0 /\ offered[i] \in Int /\ offered[i] < 0 /\ ~(offered[i] > 0) BY <1>2, <1>3
  <2>3. Tells(m) /\ UNCHANGED <<held, offers>> /\ offered' = Without(offered, 0)
    BY <2>1, <2>2 DEF ServerEnds
  <2>4. m \in Messages /\ m.op = "end" /\ m.index = 0 /\ m.id = offered[0]
    <3>1. "end" \in Ops BY DEF Ops
    <3> QED BY <2>2, <3>1, MessageTyped
  <2> HIDE DEF m
  <2>5. m.op \notin Kinds /\ IsMark(m) BY <2>4 DEF Kinds, IsMark
  <2>6. DOMAIN offered' = {} BY <1>2, <2>3 DEF Without
  <2>7. Offer(offered, offers, m, offered', offers')
    BY <1>1, <2>2, <2>3, <2>4, <2>5, <2>6 DEF Offer
  <2> QED BY <2>2, <2>3, <2>4, <2>7, TellsStep
<1>9. CASE \E op \in {"filesystem", "undefine", "sync", "error", "disconnect"} : ServerTells(op)
  <2>1. PICK op \in {"filesystem", "undefine", "sync", "error", "disconnect"} : ServerTells(op)
    BY <1>9
  <2> DEFINE m == Message(op, 0, 0)
  <2>2. Tells(m) /\ UNCHANGED <<held, offered>> /\ offers' = offers + 1
    BY <2>1 DEF ServerTells
  <2>3. m \in Messages /\ m.op = op /\ m.id = 0
    <3>1. op \in Ops BY DEF Ops
    <3> QED BY <3>1, MessageTyped
  <2> HIDE DEF m
  <2>4. m.op \notin Kinds \cup {"ack", "refusal", "blob", "end", "nothing"}
    BY <2>3 DEF Kinds
  <2>5. offers' \in Nat /\ offers <= offers' /\ News(offers) \subseteq News(offers')
    BY <1>1, <2>2 DEF News
  <2>6. Offer(offered, offers, m, offered', offers')
    BY <1>2, <2>2, <2>4, <2>5 DEF Offer, Along, IsMark
  <2> QED BY <2>2, <2>3, <2>4, <2>6, TellsStep
<1> QED BY <1>4, <1>5, <1>6, <1>7, <1>8, <1>9 DEF Server

-----------------------------------------------------------------------------

LEMMA NextInv == ASSUME IInv, [Next]_vars PROVE IInv'
<1>1. CASE connect BY <1>1, ConnectStep
<1>2. CASE disconnect \/ TunnelCloses BY <1>2, CloseTunnelStep
<1>3. CASE createStream BY <1>3, CreateStreamStep
<1>4. CASE sendEvent BY <1>4, InstructionStep DEF sendEvent
<1>5. CASE \E o \in objects : requestObjectInputStream(o)
  <2>1. objects \subseteq Nat BY DEF IInv, Phases
  <2> QED BY <1>5, <2>1, InstructionStep DEF requestObjectInputStream
<1>6. CASE \E x \in DOMAIN mine : sendBlob(x)
  <2>1. PICK x \in DOMAIN mine : Instruction("blob", mine[x], x) BY <1>6 DEF sendBlob
  <2>2. InTable(client, mine[x], x) /\ mine[x] \in Nat /\ x \in Int BY MineTyped
  <2> QED BY <2>1, <2>2, InstructionStep
<1>7. CASE \E x \in DOMAIN mine : endStream(x) BY <1>7, EndStreamStep
<1>8. CASE Receive BY <1>8, ReceiveStep
<1>9. CASE Server BY <1>9, ServerStep
<1>10. CASE UNCHANGED vars
  BY <1>10 DEF vars, IInv, Streaming, Phases
<1> QED BY <1>1, <1>2, <1>3, <1>4, <1>5, <1>6, <1>7, <1>8, <1>9, <1>10 DEF Next, Page

LEMMA IInvHolds == Spec => []IInv
<1>1. Init => IInv BY InitInv
<1>2. IInv /\ [Next]_vars => IInv' BY NextInv
<1> QED BY <1>1, <1>2, PTL DEF Spec

\* No index of a stream leaks and none is given to two streams, whatever order
\* the server's acknowledgements, the page's ends and its reactions come in.
THEOREM IndicesAreShared == Spec => []PoolPartition
<1>1. IInv => PoolPartition
  BY DEF IInv, Streaming, Output, Streams, PoolOK, Fits, PoolPartition
<1> QED BY <1>1, IInvHolds, PTL

\* What the page writes along a stream, and its end, reaches that stream at the
\* server or none, although the pool gives an index out again at once, answers come
\* for streams that have their index no more, and a late refusal frees the index of
\* another: for any number of streams (createOutputStream, endStream and the "ack"
\* handler).
THEOREM WritesFindTheirStream == Spec => []WritesReachTheirStream
<1>1. IInv => WritesReachTheirStream
  <2> SUFFICES ASSUME IInv, toServer # <<>>, Head(toServer).op \in {"blob", "end"},
                      Head(toServer).index \in DOMAIN held
               PROVE  held[Head(toServer).index] = Head(toServer).id
    BY DEF WritesReachTheirStream
  <2>1. toServer \in Seq(Messages) /\ WritesMeet(toServer, held)
    BY DEF IInv, Streaming, Output, Streams
  <2>2. Head(toServer) = toServer[1] /\ 1 \in DOMAIN toServer BY <2>1, TailShrinks
  <2>3. \A j \in DOMAIN toServer : ~(j < 1) BY <2>1
  <2>4. Meets(toServer, held, 1, toServer[1].index, toServer[1].id)
    BY <2>1, <2>2 DEF WritesMeet, Writes
  <2> QED BY <2>2, <2>3, <2>4 DEF Meets
<1> QED BY <1>1, IInvHolds, PTL

\* What the server writes along a stream is handed to that stream or to none,
\* whatever the page accepts, refuses or cannot play (the "blob" and "end" handlers
\* and those that open streams).
THEOREM BlobsFindTheirStream == Spec => []BlobsReachTheirStream
<1>1. IInv => BlobsReachTheirStream
  <2> SUFFICES ASSUME IInv, toClient # <<>>, Head(toClient).op = "blob",
                      Head(toClient).index \in DOMAIN input, input[Head(toClient).index].wanted
               PROVE  input[Head(toClient).index].id = Head(toClient).id
    BY DEF BlobsReachTheirStream
  <2> DEFINE m == Head(toClient)
  <2>1. m.index = 0 /\ Allowed(Mark(input), m) BY TurnComes DEF Along
  <2>2. Mark(input) = Message("file", 0, input[0].id) BY <2>1 DEF Mark
  <2>3. Mark(input).op = "file" /\ Mark(input).id = input[0].id BY <2>2 DEF Message
  <2> QED BY <2>1, <2>3 DEF Allowed
<1> QED BY <1>1, IInvHolds, PTL
=============================================================================
