---------------------------- MODULE CodecProofs ----------------------------
(***************************************************************************)
(* Proofs about the codec, both ways, for every base of the numerals, any  *)
(* vocabulary, any number of instructions and any size of the buffer.      *)
(*                                                                         *)
(* From the browser: whatever the content, and wherever the reads cut the  *)
(* messages, ReadInstruction returns what was sent, and ends an            *)
(* instruction where the stream does (NoResidue, ImplementsChannel).  From *)
(* the server: onmessage gives the client what was sent (ReceivedAsSent).  *)
(*                                                                         *)
(* One hypothesis restricts the code: the texts are of characters whose    *)
(* UTF-8 form is one octet.  Beyond them the ends do not count the same.   *)
(***************************************************************************)
EXTENDS InstructionReader, TunnelReceive, SequenceTheorems, WellFoundedInduction, TLAPS

-----------------------------------------------------------------------------
(* Recursion.  What a recursive function computes is known once one such   *)
(* function exists; that is shown for one value more at a time.            *)

\* A set of numbers has a least one.
LEMMA Least ==
  ASSUME NEW T \in SUBSET Nat, T # {}
  PROVE  \E x \in T : \A y \in T : ~(y < x)
<1> DEFINE R == OpToRel(<, Nat)
<1>1. IsWellFoundedOn(R, Nat)
  BY NatLessThanWellFounded
<1> HIDE DEF R
<1>2. PICK x \in T : \A y \in T : <<y, x>> \notin R
  BY <1>1, WFMin
<1>3. \A a, b \in Nat : a < b => <<a, b>> \in R
  BY DEF R, OpToRel
<1> QED BY <1>2, <1>3

\* A set that has a number when it has all smaller ones has every number.
LEMMA StrongInduction ==
  ASSUME NEW S, \A n \in Nat : (\A m \in 0..(n - 1) : m \in S) => n \in S
  PROVE  Nat \subseteq S
<1> DEFINE T == {n \in Nat : n \notin S}
<1> SUFFICES ASSUME T # {} PROVE FALSE
  OBVIOUS
<1>1. PICK x \in T : \A y \in T : ~(y < x)
  <2> HIDE DEF T
  <2>1. T \in SUBSET Nat
    BY DEF T
  <2> QED BY <2>1, Least
<1>2. x \in Nat /\ x \notin S
  OBVIOUS
<1>3. \A m \in 0..(x - 1) : m \in Nat /\ m < x
  BY <1>2
<1>4. \A m \in 0..(x - 1) : m \in S
  BY <1>1, <1>3
<1> QED BY <1>2, <1>4

\* A set that has 0, and n + 1 with n, has every number.
LEMMA SetInduction ==
  ASSUME NEW S, 0 \in S, \A n \in Nat : n \in S => n + 1 \in S
  PROVE  Nat \subseteq S
<1>1. ASSUME NEW n \in Nat, \A m \in 0..(n - 1) : m \in S PROVE n \in S
  <2>1. CASE n = 0
    BY <2>1
  <2>2. CASE n # 0
    <3>1. n - 1 \in Nat /\ n - 1 \in 0..(n - 1) /\ (n - 1) + 1 = n
      BY <2>2
    <3> QED BY <1>1, <3>1
  <2> QED BY <2>1, <2>2
<1> QED BY <1>1, StrongInduction

\* The same for the numbers up to k.
LEMMA Along ==
  ASSUME NEW k \in Nat, NEW S, 0 \in S, \A n \in 1..k : n - 1 \in S => n \in S
  PROVE  \A n \in 0..k : n \in S
<1> DEFINE T == {n \in Nat : n <= k => n \in S}
<1>1. 0 \in T
  OBVIOUS
<1>2. ASSUME NEW n \in Nat, n \in T PROVE n + 1 \in T
  <2>1. CASE n + 1 <= k
    <3>1. n + 1 \in 1..k /\ (n + 1) - 1 = n /\ n <= k
      BY <2>1
    <3> QED BY <1>2, <3>1
  <2>2. CASE ~(n + 1 <= k)
    BY <2>2
  <2> QED BY <2>1, <2>2
<1>3. Nat \subseteq T
  <2> HIDE DEF T
  <2> QED BY <1>1, <1>2, SetInduction
<1> QED BY <1>3

\* The provers cannot put an operator in the place of a parameter: the steps of
\* the functions that go through a sequence have a name k instead.
Each(k, v, x) ==
  CASE k = "value"  -> v * Base + x
    [] k = "join"   -> v \o x
    [] k = "client" -> IF x[1] = <<>> THEN v ELSE Append(v, x)

\* f makes one step after the other along a sequence.
Steps(f, k, base, seq, last) ==
  f = [n \in 0..last |-> IF n = 0 THEN base ELSE Each(k, f[n - 1], seq[n])]

\* There is such a function.
LEMMA Recursion ==
  ASSUME NEW k, NEW base, NEW seq, NEW last \in Nat
  PROVE  \E f : Steps(f, k, base, seq, last)
<1> DEFINE Step(v, n) == Each(k, v, seq[n])
           Rec(f, m) == f = [n \in 0..m |-> IF n = 0 THEN base ELSE Step(f[n - 1], n)]
           S == {m \in Nat : \E f : Rec(f, m)}
<1> SUFFICES \E f : Rec(f, last)
  BY DEF Steps
<1> HIDE DEF Step
<1>1. 0 \in S
  <2> DEFINE g == [n \in 0..0 |-> base]
  <2>1. Rec(g, 0)
    OBVIOUS
  <2> QED BY <2>1
<1>2. ASSUME NEW m \in Nat, m \in S PROVE m + 1 \in S
  <2>1. PICK f : Rec(f, m)
    BY <1>2
  <2> DEFINE g == [n \in 0..(m + 1) |-> IF n = m + 1 THEN Step(f[m], m + 1) ELSE f[n]]
             h == [n \in 0..(m + 1) |-> IF n = 0 THEN base ELSE Step(g[n - 1], n)]
  <2>2. \A n \in 0..m : f[n] = IF n = 0 THEN base ELSE Step(f[n - 1], n)
    BY <2>1
  <2>3. ASSUME NEW n \in 0..(m + 1) PROVE g[n] = h[n]
    <3>1. CASE n = m + 1
      <4>1. n # 0 /\ n - 1 = m /\ m \in 0..(m + 1) /\ m # m + 1
        BY <3>1
      <4> QED BY <3>1, <4>1
    <3>2. CASE n # m + 1
      <4>1. n \in 0..m /\ (n # 0 => n - 1 \in 0..(m + 1) /\ n - 1 # m + 1)
        BY <3>2
      <4> QED BY <2>2, <3>2, <4>1
    <3> QED BY <3>1, <3>2
  <2>4. g = h
    <3>1. /\ DOMAIN g = 0..(m + 1) /\ DOMAIN h = 0..(m + 1)
          /\ g = [n \in DOMAIN g |-> g[n]] /\ h = [n \in DOMAIN h |-> h[n]]
      OBVIOUS
    <3> HIDE DEF g, h
    <3> QED BY <2>3, <3>1
  <2>5. Rec(g, m + 1)
    <3> HIDE DEF g
    <3> QED BY <2>4
  <2>6. \E x : Rec(x, m + 1)
    <3> HIDE DEF g, h, Rec
    <3> QED BY <2>5
  <2> HIDE DEF Rec
  <2> QED BY <2>6
<1>3. last \in S
  <2> HIDE DEF S
  <2> QED BY <1>1, <1>2, SetInduction
<1> QED BY <1>3

-----------------------------------------------------------------------------
(* Numerals                                                                *)

Counts(v, numeral) ==
  /\ v[0] = 0
  /\ \A n \in 1..Len(numeral) : v[n] = v[n - 1] * Base + numeral[n]

\* Atoi goes through the digits from the first on.
LEMMA Counting ==
  ASSUME NEW numeral, Len(numeral) \in Nat
  PROVE  \E v : Counts(v, numeral) /\ Value(numeral) = v[Len(numeral)]
<1> DEFINE last == Len(numeral)
           Rec(f) == f = [n \in 0..last |-> IF n = 0 THEN 0 ELSE f[n - 1] * Base + numeral[n]]
           F == CHOOSE f : Rec(f)
<1>1. Value(numeral) = F[last]
  BY DEF Value
<1>2. PICK f : Steps(f, "value", 0, numeral, last)
  BY Recursion
<1> HIDE DEF last
<1>3. Rec(f)
  BY <1>2 DEF Steps, Each
<1>4. Rec(F)
  <2> HIDE DEF Rec
  <2> QED BY <1>3
<1> HIDE DEF F
<1>5. last \in Nat /\ last = Len(numeral)
  BY DEF last
<1>6. Counts(F, numeral)
  BY <1>4, <1>5 DEF Counts
<1> QED BY <1>1, <1>5, <1>6

\* What counts gives numbers.
LEMMA CountsNumbers ==
  ASSUME NEW numeral \in Seq(Nat), NEW v, Counts(v, numeral)
  PROVE  \A n \in 0..Len(numeral) : v[n] \in Nat
<1> DEFINE S == {n \in 0..Len(numeral) : v[n] \in Nat}
<1>0. Len(numeral) \in Nat /\ \A n \in 1..Len(numeral) : numeral[n] \in Nat
  BY LenProperties
<1>1. 0 \in S
  BY <1>0 DEF Counts
<1>2. ASSUME NEW n \in 1..Len(numeral), n - 1 \in S PROVE n \in S
  <2>1. v[n] = v[n - 1] * Base + numeral[n] /\ v[n - 1] \in Nat /\ numeral[n] \in Nat
    BY <1>0, <1>2 DEF Counts
  <2>2. Base \in Nat
    BY InstructionsAssumption
  <2>3. v[n - 1] * Base \in Nat
    BY <2>1, <2>2
  <2>4. v[n] \in Nat
    BY <2>1, <2>3
  <2> QED BY <1>0, <2>4
<1>3. \A n \in 0..Len(numeral) : n \in S
  <2> HIDE DEF S
  <2> QED BY <1>0, <1>1, <1>2, Along
<1> QED BY <1>3

\* A further digit.
LEMMA ValueAppend ==
  ASSUME NEW s \in Seq(Nat), NEW d \in Nat
  PROVE  /\ Value(s) \in Nat
         /\ Value(Append(s, d)) = Value(s) * Base + d
<1> DEFINE t == Append(s, d)
<1>1. /\ t \in Seq(Nat) /\ Len(s) \in Nat /\ Len(t) = Len(s) + 1 /\ t[Len(s) + 1] = d
      /\ \A n \in 1..Len(s) : t[n] = s[n]
  BY AppendProperties, LenProperties
<1> HIDE DEF t
<1>2. PICK v : Counts(v, s) /\ Value(s) = v[Len(s)]
  BY <1>1, Counting
<1>3. PICK u : Counts(u, t) /\ Value(t) = u[Len(t)]
  BY <1>1, Counting
<1> DEFINE S == {n \in 0..Len(s) : u[n] = v[n]}
<1>4. 0 \in S
  BY <1>1, <1>2, <1>3 DEF Counts
<1>5. ASSUME NEW n \in 1..Len(s), n - 1 \in S PROVE n \in S
  <2>0. t[n] = s[n] /\ n \in 1..Len(t)
    BY <1>1
  <2>1. u[n] = u[n - 1] * Base + t[n] /\ v[n] = v[n - 1] * Base + s[n] /\ t[n] = s[n]
    BY <1>2, <1>3, <2>0, Zenon DEF Counts
  <2>2. u[n - 1] = v[n - 1]
    BY <1>5
  <2>3. u[n] = v[n] /\ n \in 0..Len(s)
    BY <1>1, <2>1, <2>2
  <2> QED BY <2>3
<1>6. \A n \in 0..Len(s) : n \in S
  <2> HIDE DEF S
  <2> QED BY <1>1, <1>4, <1>5, Along
<1>7. u[Len(s)] = v[Len(s)]
  BY <1>1, <1>6
<1>8. u[Len(s) + 1] = u[(Len(s) + 1) - 1] * Base + t[Len(s) + 1] /\ (Len(s) + 1) - 1 = Len(s)
  BY <1>1, <1>3 DEF Counts
<1>9. v[Len(s)] \in Nat
  BY <1>1, <1>2, CountsNumbers
<1> QED BY <1>1, <1>2, <1>3, <1>7, <1>8, <1>9 DEF t

\* One digit.
LEMMA ValueOne ==
  ASSUME NEW d \in Nat PROVE Value(<<d>>) = d
<1>1. Len(<<d>>) = 1 /\ <<d>>[1] = d
  OBVIOUS
<1>2. PICK v : Counts(v, <<d>>) /\ Value(<<d>>) = v[Len(<<d>>)]
  BY <1>1, Counting
<1>3. v[0] = 0 /\ v[1] = v[1 - 1] * Base + <<d>>[1] /\ 1 - 1 = 0
  BY <1>1, <1>2 DEF Counts
<1>4. Base \in Nat /\ 0 * Base = 0
  BY InstructionsAssumption
<1> QED BY <1>1, <1>2, <1>3, <1>4

\* The numerals of the numbers up to m.
Numerals(f, m) ==
  f = [n \in 0..m |-> IF n < Base THEN <<n>> ELSE Append(f[n \div Base], n % Base)]

\* Taking off the last digit.
LEMMA Division ==
  ASSUME NEW n \in Nat, ~(n < Base)
  PROVE  /\ n \div Base \in Nat /\ n \div Base < n
         /\ n % Base \in Digit /\ n = (n \div Base) * Base + (n % Base)
<1> DEFINE q == n \div Base
           r == n % Base
<1>1. Base \in Nat /\ Base > 1 /\ n >= Base
  BY InstructionsAssumption
<1>2. q \in Nat /\ r \in 0..(Base - 1) /\ n = Base * q + r
  BY <1>1
<1> HIDE DEF q, r
<1>3. q < n /\ n = q * Base + r
  BY <1>1, <1>2
<1>4. r \in Digit /\ q \in Nat
  BY <1>2 DEF Digit
<1> QED BY <1>3, <1>4, Zenon DEF q, r

\* The numerals of the smaller numbers do not depend on how far one goes.
LEMMA NumeralsAgree ==
  ASSUME NEW a \in Nat, NEW b \in Nat, NEW f, Numerals(f, a), NEW g, Numerals(g, b)
  PROVE  \A n \in Nat : n <= a /\ n <= b => f[n] = g[n]
<1> DEFINE S == {n \in Nat : n <= a /\ n <= b => f[n] = g[n]}
<1>1. ASSUME NEW n \in Nat, \A m \in 0..(n - 1) : m \in S PROVE n \in S
  <2>1. SUFFICES ASSUME n <= a, n <= b PROVE f[n] = g[n]
    OBVIOUS
  <2>2. n \in 0..a /\ n \in 0..b
    BY <2>1
  <2>3. /\ f[n] = IF n < Base THEN <<n>> ELSE Append(f[n \div Base], n % Base)
        /\ g[n] = IF n < Base THEN <<n>> ELSE Append(g[n \div Base], n % Base)
    BY <2>2 DEF Numerals
  <2>4. CASE n < Base
    BY <2>3, <2>4
  <2>5. CASE ~(n < Base)
    <3> DEFINE q == n \div Base
    <3>1. q \in Nat /\ q < n
      BY <2>5, Division
    <3> HIDE DEF q
    <3>2. q \in 0..(n - 1) /\ q <= a /\ q <= b
      BY <2>1, <3>1
    <3>3. f[q] = g[q]
      BY <1>1, <3>1, <3>2
    <3> QED BY <2>3, <2>5, <3>3 DEF q
  <2> QED BY <2>4, <2>5
<1>2. Nat \subseteq S
  <2> HIDE DEF S
  <2> QED BY <1>1, StrongInduction
<1> QED BY <1>2

\* They exist.
LEMMA NumeralsExist ==
  ASSUME NEW m \in Nat PROVE \E f : Numerals(f, m)
<1> DEFINE S == {k \in Nat : \E f : Numerals(f, k)}
<1>1. Base \in Nat /\ Base > 1
  BY InstructionsAssumption
<1>2. 0 \in S
  <2> DEFINE g == [n \in 0..0 |-> <<n>>]
             h == [n \in 0..0 |-> IF n < Base THEN <<n>> ELSE Append(g[n \div Base], n % Base)]
  <2>1. \A n \in 0..0 : n < Base /\ g[n] = h[n]
    BY <1>1
  <2>2. /\ DOMAIN g = 0..0 /\ DOMAIN h = 0..0
        /\ g = [n \in DOMAIN g |-> g[n]] /\ h = [n \in DOMAIN h |-> h[n]]
    OBVIOUS
  <2>3. g = h
    <3> HIDE DEF g, h
    <3> QED BY <2>1, <2>2
  <2>4. Numerals(g, 0)
    <3> HIDE DEF g
    <3> QED BY <2>3 DEF Numerals
  <2>5. \E f : Numerals(f, 0)
    <3> HIDE DEF g, h
    <3> QED BY <2>4
  <2> QED BY <2>5
<1>3. ASSUME NEW k \in Nat, k \in S PROVE k + 1 \in S
  <2>1. PICK f : Numerals(f, k)
    BY <1>3
  <2> DEFINE g == [n \in 0..(k + 1) |-> IF n <= k THEN f[n] ELSE
                     IF n < Base THEN <<n>> ELSE Append(f[n \div Base], n % Base)]
             h == [n \in 0..(k + 1) |-> IF n < Base THEN <<n>> ELSE Append(g[n \div Base], n % Base)]
  <2>2. \A n \in 0..k : f[n] = IF n < Base THEN <<n>> ELSE Append(f[n \div Base], n % Base)
    BY <2>1 DEF Numerals
  <2>3. ASSUME NEW n \in 0..(k + 1)
        PROVE  /\ n < Base => g[n] = <<n>> /\ h[n] = <<n>>
               /\ ~(n < Base) => g[n] = h[n]
    <3>0. n \in Nat /\ (n <= k <=> n \in 0..k)
      OBVIOUS
    <3>1. g[n] = IF n < Base THEN <<n>> ELSE Append(f[n \div Base], n % Base)
      BY <2>2, <3>0
    <3>2. h[n] = IF n < Base THEN <<n>> ELSE Append(g[n \div Base], n % Base)
      <4> HIDE DEF g
      <4> QED OBVIOUS
    <3>3. ASSUME ~(n < Base) PROVE g[n \div Base] = f[n \div Base]
      <4> DEFINE q == n \div Base
      <4>1. q \in Nat /\ q < n
        BY <3>0, <3>3, Division
      <4> HIDE DEF q
      <4>2. q \in 0..(k + 1) /\ q <= k
        BY <4>1
      <4>3. g[q] = f[q]
        BY <4>2
      <4> HIDE DEF g
      <4> QED BY <4>3 DEF q
    <3> HIDE DEF g, h
    <3> QED BY <3>1, <3>2, <3>3
  <2>4. \A n \in 0..(k + 1) : g[n] = h[n]
    <3> HIDE DEF g, h
    <3> QED BY <2>3
  <2>5. /\ DOMAIN g = 0..(k + 1) /\ DOMAIN h = 0..(k + 1)
        /\ g = [n \in DOMAIN g |-> g[n]] /\ h = [n \in DOMAIN h |-> h[n]]
    OBVIOUS
  <2>6. g = h
    <3> HIDE DEF g, h
    <3> QED BY <2>4, <2>5
  <2>7. Numerals(g, k + 1)
    <3> HIDE DEF g
    <3> QED BY <2>6 DEF Numerals
  <2>8. \E x : Numerals(x, k + 1)
    <3> HIDE DEF g, h
    <3> QED BY <2>7
  <2> QED BY <2>8
<1>4. m \in S
  <2> HIDE DEF S
  <2> QED BY <1>2, <1>3, SetInduction
<1> QED BY <1>4

\* Numeral is what its definition says.
LEMMA NumeralStep ==
  \A n \in Nat : Numeral[n] = IF n < Base THEN <<n>> ELSE Append(Numeral[n \div Base], n % Base)
<1> DEFINE Rec(f) == f = [n \in Nat |-> IF n < Base THEN <<n>> ELSE Append(f[n \div Base], n % Base)]
           F(m) == CHOOSE f : Numerals(f, m)
           g == [n \in Nat |-> F(n)[n]]
           h == [n \in Nat |-> IF n < Base THEN <<n>> ELSE Append(g[n \div Base], n % Base)]
<1>1. \A m \in Nat : Numerals(F(m), m)
  BY NumeralsExist
<1> HIDE DEF F
<1>2. ASSUME NEW n \in Nat PROVE g[n] = h[n]
  <2>1. F(n)[n] = IF n < Base THEN <<n>> ELSE Append(F(n)[n \div Base], n % Base)
    <3> DEFINE f == F(n)
    <3>1. f = [i \in 0..n |-> IF i < Base THEN <<i>> ELSE Append(f[i \div Base], i % Base)]
      BY <1>1 DEF Numerals
    <3> HIDE DEF f
    <3>2. n \in 0..n
      OBVIOUS
    <3>3. f[n] = IF n < Base THEN <<n>> ELSE Append(f[n \div Base], n % Base)
      BY <3>1, <3>2
    <3> QED BY <3>3 DEF f
  <2>2. g[n] = F(n)[n]
    OBVIOUS
  <2>3. h[n] = IF n < Base THEN <<n>> ELSE Append(g[n \div Base], n % Base)
    <3> HIDE DEF g
    <3> QED OBVIOUS
  <2>4. ASSUME ~(n < Base) PROVE g[n \div Base] = F(n)[n \div Base]
    <3> DEFINE q == n \div Base
    <3>1. q \in Nat /\ q < n
      BY <2>4, Division
    <3> HIDE DEF q
    <3>2. g[q] = F(q)[q]
      BY <3>1
    <3> HIDE DEF g
    <3>3. F(q)[q] = F(n)[q]
      BY <1>1, <3>1, NumeralsAgree
    <3> QED BY <3>2, <3>3 DEF q
  <2> HIDE DEF g, h
  <2> QED BY <2>1, <2>2, <2>3, <2>4
<1>3. /\ DOMAIN g = Nat /\ DOMAIN h = Nat
      /\ g = [n \in DOMAIN g |-> g[n]] /\ h = [n \in DOMAIN h |-> h[n]]
  OBVIOUS
<1>4. g = h
  <2> HIDE DEF g, h
  <2> QED BY <1>2, <1>3
<1>5. Rec(g)
  <2> HIDE DEF g
  <2> QED BY <1>4
<1>6. \E f : Rec(f)
  <2> HIDE DEF g, h, Rec
  <2> QED BY <1>5
<1>7. Numeral = CHOOSE f : Rec(f)
  BY DEF Numeral
<1>8. Rec(Numeral)
  <2> HIDE DEF Rec
  <2> QED BY <1>6, <1>7
<1> QED BY <1>8

\* A length written in digits reads as it was: Itoa, then Atoi.
THEOREM NumeralHasItsValue ==
  ASSUME NEW n \in Nat
  PROVE  Numeral[n] \in Seq(Digit) /\ Numeral[n] # <<>> /\ Value(Numeral[n]) = n
<1> DEFINE S == {k \in Nat : /\ Numeral[k] \in Seq(Digit) /\ Numeral[k] # <<>>
                             /\ Value(Numeral[k]) = k}
<1>0. Base \in Nat /\ Digit \subseteq Nat
  BY InstructionsAssumption DEF Digit
<1>1. ASSUME NEW k \in Nat, \A m \in 0..(k - 1) : m \in S PROVE k \in S
  <2>1. CASE k < Base
    <3>1. Numeral[k] = <<k>>
      BY <2>1, NumeralStep
    <3>2. k \in Digit
      BY <1>0, <2>1 DEF Digit
    <3>3. <<k>> \in Seq(Digit) /\ <<k>> # <<>>
      BY <3>2
    <3>4. Value(<<k>>) = k
      BY ValueOne
    <3> QED BY <3>1, <3>3, <3>4
  <2>2. CASE ~(k < Base)
    <3> DEFINE q == k \div Base
               r == k % Base
               s == Numeral[q]
    <3>1. q \in Nat /\ q < k /\ r \in Digit
      BY <2>2, Division, Zenon
    <3>0. k = q * Base + r
      BY <2>2, Division, Zenon
    <3>2. Numeral[k] = Append(s, r)
      BY <2>2, NumeralStep
    <3> HIDE DEF q, r, s
    <3>3. q \in 0..(k - 1)
      BY <3>1
    <3>4. s \in Seq(Digit) /\ Value(s) = q
      BY <1>1, <3>3 DEF s
    <3>5. Append(s, r) \in Seq(Digit) /\ Append(s, r) # <<>>
      <4>1. r \in Digit /\ s \in Seq(Digit)
        BY <3>1, <3>4
      <4> QED BY <4>1, AppendProperties
    <3>6. s \in Seq(Nat) /\ r \in Nat
      <4>0. \A A, B : A \subseteq B => Seq(A) \subseteq Seq(B)
        OBVIOUS
      <4>1. Seq(Digit) \subseteq Seq(Nat)
        BY <1>0, <4>0
      <4> QED BY <1>0, <3>1, <3>4, <4>1
    <3>7. Value(Append(s, r)) = Value(s) * Base + r
      BY <3>6, ValueAppend
    <3>8. Value(Numeral[k]) = k
      BY <3>0, <3>2, <3>4, <3>7, Zenon
    <3> QED BY <3>2, <3>5, <3>8
  <2> QED BY <2>1, <2>2
<1>2. Nat \subseteq S
  <2> HIDE DEF S
  <2> QED BY <1>1, StrongInduction
<1> QED BY <1>2

-----------------------------------------------------------------------------
(* Sequences put one after the other                                       *)

Joins(f, ss) ==
  /\ f[0] = <<>>
  /\ \A n \in 1..Len(ss) : f[n] = f[n - 1] \o ss[n]

\* What is flattened is put together from the first part on.
LEMMA Joining ==
  ASSUME NEW S, NEW ss \in Seq(Seq(S)), ss # <<>>
  PROVE  \E f : Joins(f, ss) /\ FlattenSeq(ss) = f[Len(ss)]
<1> DEFINE last == Len(ss)
           Rec(f) == f = [i \in 1..last |-> IF i = 1 THEN ss[i] ELSE f[i - 1] \o ss[i]]
           F == CHOOSE f : Rec(f)
<1>1. last \in Nat /\ last # 0 /\ \A i \in 1..last : ss[i] \in Seq(S)
  BY LenProperties, EmptySeq
<1>2. FlattenSeq(ss) = F[last]
  BY <1>1 DEF FlattenSeq
<1>3. PICK f : Steps(f, "join", <<>>, ss, last)
  BY <1>1, Recursion
<1>4. last = Len(ss)
  OBVIOUS
<1> HIDE DEF last
<1>5. 1 \in 1..last /\ last \in 1..last /\ 1 - 1 = 0
  BY <1>1
<1>6. f[0] = <<>>
  BY <1>1, <1>3 DEF Steps
<1>7. \A n \in 1..last : f[n] = f[n - 1] \o ss[n]
  <2>1. \A n \in 1..last : f[n] = Each("join", f[n - 1], ss[n])
    BY <1>1, <1>3 DEF Steps
  <2>2. \A v, x : Each("join", v, x) = v \o x
    BY DEF Each
  <2> QED BY <2>1, <2>2
<1>8. \A s \in Seq(S) : <<>> \o s = s
  BY ConcatEmptySeq
<1> DEFINE h == [i \in 1..last |-> f[i]]
           r == [i \in 1..last |-> IF i = 1 THEN ss[i] ELSE h[i - 1] \o ss[i]]
<1>9. f[1] = ss[1]
  <2>1. f[1] = f[1 - 1] \o ss[1]
    BY <1>5, <1>7, Zenon
  <2>2. f[1] = <<>> \o ss[1]
    BY <1>5, <1>6, <2>1
  <2> QED BY <1>1, <1>5, <1>8, <2>2
<1>10. h = r
  <2>1. ASSUME NEW i \in 1..last PROVE h[i] = r[i]
    <3>1. CASE i = 1
      BY <1>9, <3>1
    <3>2. CASE i # 1
      <4>1. i - 1 \in 1..last
        BY <1>1, <3>2
      <4> QED BY <1>7, <3>2, <4>1
    <3> QED BY <3>1, <3>2
  <2>2. /\ DOMAIN h = 1..last /\ DOMAIN r = 1..last
        /\ h = [i \in DOMAIN h |-> h[i]] /\ r = [i \in DOMAIN r |-> r[i]]
    OBVIOUS
  <2> HIDE DEF h, r
  <2> QED BY <2>1, <2>2
<1>11. Rec(h)
  <2> HIDE DEF h
  <2> QED BY <1>10
<1>12. Rec(F)
  <2> HIDE DEF Rec, h
  <2> QED BY <1>11
<1> HIDE DEF F
<1>13. F[1] = ss[1] /\ \A i \in 1..last : i # 1 => F[i] = F[i - 1] \o ss[i]
  BY <1>5, <1>12
<1> DEFINE g == [n \in 0..last |-> IF n = 0 THEN <<>> ELSE F[n]]
<1>14. g[0] = <<>> /\ \A n \in 1..last : g[n] = F[n]
  BY <1>1
<1> HIDE DEF g
<1>15. ASSUME NEW n \in 1..last PROVE g[n] = g[n - 1] \o ss[n]
  <2>1. CASE n = 1
    <3>1. ss[1] = <<>> \o ss[1]
      BY <1>1, <1>5, <1>8
    <3>2. g[1] = ss[1] /\ g[1 - 1] = <<>>
      BY <1>5, <1>13, <1>14
    <3> QED BY <2>1, <3>1, <3>2
  <2>2. CASE n # 1
    <3>1. n - 1 \in 1..last
      BY <1>1, <2>2
    <3>2. F[n] = F[n - 1] \o ss[n] /\ g[n] = F[n] /\ g[n - 1] = F[n - 1]
      BY <1>13, <1>14, <2>2, <3>1
    <3> QED BY <3>2
  <2> QED BY <2>1, <2>2
<1>16. Joins(g, ss)
  BY <1>4, <1>14, <1>15 DEF Joins
<1>17. FlattenSeq(ss) = g[Len(ss)]
  BY <1>2, <1>4, <1>5, <1>14
<1> QED BY <1>16, <1>17

\* The part n of t begins behind s[n].
Parts(s, ss, t) ==
  /\ s \in [1..(Len(ss) + 1) -> Nat]
  /\ s[1] = 0 /\ s[Len(ss) + 1] = Len(t)
  /\ \A n \in 1..Len(ss) : s[n + 1] = s[n] + Len(ss[n])
  /\ \A n \in 1..Len(ss) : \A j \in 1..Len(ss[n]) : t[s[n] + j] = ss[n][j]

\* Every part is found again in what was flattened.
LEMMA PartsOf ==
  ASSUME NEW S, NEW ss \in Seq(Seq(S)), ss # <<>>
  PROVE  FlattenSeq(ss) \in Seq(S) /\ \E s : Parts(s, ss, FlattenSeq(ss))
<1> DEFINE last == Len(ss)
<1>1. last \in Nat /\ last # 0 /\ \A i \in 1..last : ss[i] \in Seq(S)
  BY LenProperties, EmptySeq
<1>2. PICK f : Joins(f, ss) /\ FlattenSeq(ss) = f[Len(ss)]
  BY Joining
<1>3. last = Len(ss)
  OBVIOUS
<1> HIDE DEF last
<1>4. f[0] = <<>> /\ \A n \in 1..last : f[n] = f[n - 1] \o ss[n]
  BY <1>2, <1>3 DEF Joins
<1>5. \A n \in 0..last : f[n] \in Seq(S)
  <2> DEFINE G == {n \in 0..last : f[n] \in Seq(S)}
  <2>1. 0 \in G
    <3>1. f[0] \in Seq(S)
      BY <1>4, EmptySeq
    <3> QED BY <1>1, <3>1
  <2>2. ASSUME NEW n \in 1..last, n - 1 \in G PROVE n \in G
    <3>1. f[n - 1] \in Seq(S) /\ ss[n] \in Seq(S)
      BY <1>1, <2>2
    <3>2. f[n - 1] \o ss[n] \in Seq(S)
      BY <3>1, ConcatProperties
    <3>3. f[n] = f[n - 1] \o ss[n]
      BY <1>4, Zenon
    <3>4. n \in 0..last
      BY <1>1
    <3> QED BY <3>2, <3>3, <3>4
  <2>3. \A n \in 0..last : n \in G
    <3> HIDE DEF G
    <3> QED BY <1>1, <2>1, <2>2, Along
  <2> QED BY <2>3
<1>6. ASSUME NEW n \in 1..last
      PROVE  /\ Len(f[n - 1]) \in Nat /\ Len(ss[n]) \in Nat
             /\ Len(f[n]) = Len(f[n - 1]) + Len(ss[n])
             /\ \A i \in 1..Len(f[n - 1]) : f[n][i] = f[n - 1][i]
             /\ \A j \in 1..Len(ss[n]) : f[n][Len(f[n - 1]) + j] = ss[n][j]
  <2> DEFINE a == f[n - 1]
             b == ss[n]
             c == f[n]
  <2>1. a \in Seq(S) /\ b \in Seq(S)
    <3>1. n - 1 \in 0..last
      BY <1>1
    <3> QED BY <1>1, <1>5, <3>1
  <2>2. c = a \o b
    BY <1>4, Zenon
  <2> HIDE DEF a, b, c
  <2>3. /\ Len(c) = Len(a) + Len(b)
        /\ \A i \in 1..(Len(a) + Len(b)) : c[i] = IF i <= Len(a) THEN a[i] ELSE b[i - Len(a)]
    BY <2>1, <2>2, ConcatProperties
  <2>4. Len(a) \in Nat /\ Len(b) \in Nat
    BY <2>1, LenProperties
  <2>5. \A i \in 1..Len(a) : c[i] = a[i]
    BY <2>3, <2>4
  <2>6. ASSUME NEW j \in 1..Len(b) PROVE c[Len(a) + j] = b[j]
    <3>1. Len(a) + j \in 1..(Len(a) + Len(b)) /\ ~(Len(a) + j <= Len(a)) /\ (Len(a) + j) - Len(a) = j
      BY <2>4
    <3> QED BY <2>3, <3>1
  <2> QED BY <2>3, <2>4, <2>5, <2>6 DEF a, b, c
<1> DEFINE P == {m \in 0..last : \A n \in 0..m : /\ Len(f[n]) \in Nat /\ Len(f[n]) <= Len(f[m])
                                                 /\ \A i \in 1..Len(f[n]) : f[m][i] = f[n][i]}
<1>7. 0 \in P
  <2>1. Len(f[0]) = 0 /\ \A n \in 0..0 : n = 0
    BY <1>4
  <2> QED BY <1>1, <2>1
<1>8. ASSUME NEW m \in 1..last, m - 1 \in P PROVE m \in P
  <2>1. m \in 0..last
    BY <1>1
  <2>2. SUFFICES ASSUME NEW n \in 0..m
                 PROVE  /\ Len(f[n]) \in Nat /\ Len(f[n]) <= Len(f[m])
                        /\ \A i \in 1..Len(f[n]) : f[m][i] = f[n][i]
    BY <2>1
  <2>3. Len(f[m]) \in Nat /\ Len(f[m - 1]) \in Nat /\ Len(f[m - 1]) <= Len(f[m])
    <3>1. Len(f[m - 1]) \in Nat /\ Len(ss[m]) \in Nat /\ Len(f[m]) = Len(f[m - 1]) + Len(ss[m])
      BY <1>6, Zenon
    <3>2. \A a, b \in Nat : a + b \in Nat /\ a <= a + b
      OBVIOUS
    <3> QED BY <3>1, <3>2, Zenon
  <2>4. CASE n = m
    BY <2>3, <2>4
  <2>5. CASE n # m
    <3>1. n \in 0..(m - 1)
      BY <2>5
    <3>2. /\ Len(f[n]) \in Nat /\ Len(f[n]) <= Len(f[m - 1])
          /\ \A i \in 1..Len(f[n]) : f[m - 1][i] = f[n][i]
      BY <1>8, <3>1
    <3>3. ASSUME NEW i \in 1..Len(f[n]) PROVE f[m][i] = f[n][i]
      <4>1. i \in 1..Len(f[m - 1])
        BY <2>3, <3>2
      <4>2. f[m][i] = f[m - 1][i]
        BY <1>6, <4>1
      <4> QED BY <3>2, <4>2
    <3> QED BY <2>3, <3>2, <3>3
  <2> QED BY <2>4, <2>5
<1>9. last \in P
  <2>1. \A m \in 0..last : m \in P
    <3> HIDE DEF P
    <3> QED BY <1>1, <1>7, <1>8, Along
  <2>2. last \in 0..last
    BY <1>1
  <2> QED BY <2>1, <2>2
<1> DEFINE t == f[last]
           s == [n \in 1..(last + 1) |-> Len(f[n - 1])]
<1>10. \A n \in 1..(last + 1) : s[n] = Len(f[n - 1])
  OBVIOUS
<1>11. s \in [1..(last + 1) -> Nat]
  <2>1. \A n \in 1..(last + 1) : n - 1 \in 0..last
    BY <1>1
  <2>2. \A n \in 1..(last + 1) : Len(f[n - 1]) \in Nat
    BY <1>9, <2>1
  <2> QED BY <2>2
<1> HIDE DEF s
<1>12. s[1] = 0 /\ s[last + 1] = Len(t)
  <2>1. 1 \in 1..(last + 1) /\ last + 1 \in 1..(last + 1) /\ 1 - 1 = 0 /\ (last + 1) - 1 = last
    BY <1>1
  <2>2. Len(f[0]) = 0
    BY <1>4
  <2> QED BY <1>10, <2>1, <2>2
<1>13. ASSUME NEW n \in 1..last
       PROVE  /\ s[n + 1] = s[n] + Len(ss[n])
              /\ \A j \in 1..Len(ss[n]) : t[s[n] + j] = ss[n][j]
  <2>1. n \in 1..(last + 1) /\ n + 1 \in 1..(last + 1) /\ (n + 1) - 1 = n /\ n \in 0..last
    BY <1>1
  <2>2. s[n] = Len(f[n - 1]) /\ s[n + 1] = Len(f[n])
    BY <1>10, <2>1
  <2>3. Len(f[n]) \in Nat /\ \A i \in 1..Len(f[n]) : t[i] = f[n][i]
    BY <1>9, <2>1
  <2> HIDE DEF t
  <2>4. ASSUME NEW j \in 1..Len(ss[n]) PROVE t[s[n] + j] = ss[n][j]
    <3>0. Len(f[n - 1]) \in Nat /\ Len(ss[n]) \in Nat /\ Len(f[n]) = Len(f[n - 1]) + Len(ss[n])
      BY <1>6, Zenon
    <3>1. s[n] + j \in 1..Len(f[n])
      <4>1. \A a, b \in Nat : \A i \in 1..b : a + i \in 1..(a + b)
        OBVIOUS
      <4> QED BY <2>2, <3>0, <4>1, Zenon
    <3>2. t[s[n] + j] = f[n][s[n] + j]
      BY <2>3, <3>1
    <3>3. f[n][Len(f[n - 1]) + j] = ss[n][j]
      BY <1>6
    <3> QED BY <2>2, <3>2, <3>3
  <2> QED BY <1>6, <2>2, <2>4
<1>14. FlattenSeq(ss) = t /\ t \in Seq(S)
  <2>1. last \in 0..last
    BY <1>1
  <2> QED BY <1>2, <1>3, <1>5, <2>1
<1> HIDE DEF t
<1>15. Parts(s, ss, t)
  BY <1>3, <1>11, <1>12, <1>13 DEF Parts
<1> QED BY <1>14, <1>15

-----------------------------------------------------------------------------
(* The notation                                                            *)

\* Characters whose UTF-8 form is one octet.  Beyond them the two ends count an
\* element differently, and what is said below is not so.
Plain == 0..Letter

\* The characters of the notation are plain and no digits.
LEMMA PlainCharacters ==
  /\ Digit \subseteq Plain /\ Plain \subseteq Nat /\ Plain \subseteq Character
  /\ Dot \in Plain /\ Comma \in Plain /\ Semicolon \in Plain
  /\ Dot \notin Digit /\ Comma # Semicolon /\ Wide \notin Plain
<1>1. Base \in Nat
  BY InstructionsAssumption
<1> QED BY <1>1 DEF Plain, Digit, Dot, Comma, Semicolon, Letter, Wide, Character

\* A plain text is the sequence of its octets.
LEMMA Utf8Plain ==
  ASSUME NEW text \in Seq(Plain)
  PROVE  Utf8(text) = text
<1> DEFINE last == Len(text)
           ss == [i \in 1..last |-> Octets(text[i])]
<1>1. last \in Nat /\ DOMAIN text = 1..last /\ \A i \in 1..last : text[i] \in Plain
  BY LenProperties
<1>2. Utf8(text) = FlattenSeq(ss)
  BY <1>1 DEF Utf8
<1>3. \A i \in 1..last : ss[i] = <<text[i]>>
  BY <1>1, PlainCharacters DEF Octets
<1>4. DOMAIN ss = 1..last /\ ss = [i \in 1..last |-> ss[i]]
  OBVIOUS
<1>0. last = Len(text)
  OBVIOUS
<1> HIDE DEF ss, last
<1>5. \A i \in 1..last : ss[i] \in Seq(Plain)
  <2>1. \A c \in Plain : <<c>> \in Seq(Plain)
    OBVIOUS
  <2> QED BY <1>1, <1>3, <2>1
<1>6. ss \in Seq(Seq(Plain)) /\ Len(ss) = last
  <2>1. ss \in [1..last -> Seq(Plain)]
    BY <1>4, <1>5
  <2> QED BY <1>1, <2>1
<1>7. CASE last = 0
  <2>1. ss = <<>> /\ text = <<>>
    BY <1>0, <1>6, <1>7, EmptySeq
  <2>2. FlattenSeq(ss) = ss
    BY <1>6, <1>7 DEF FlattenSeq
  <2> QED BY <1>2, <2>1, <2>2
<1>8. CASE last # 0
  <2>1. ss # <<>>
    BY <1>6, <1>8
  <2> DEFINE t == FlattenSeq(ss)
  <2>2. t \in Seq(Plain) /\ \E s : Parts(s, ss, t)
    BY <1>6, <2>1, PartsOf
  <2> HIDE DEF t
  <2>3. PICK s : Parts(s, ss, t)
    BY <2>2
  <2>4. /\ s[1] = 0 /\ s[last + 1] = Len(t)
        /\ \A n \in 1..last : s[n + 1] = s[n] + Len(ss[n])
        /\ \A n \in 1..last : \A j \in 1..Len(ss[n]) : t[s[n] + j] = ss[n][j]
    BY <1>6, <2>3 DEF Parts
  <2>5. \A n \in 1..last : Len(ss[n]) = 1 /\ ss[n][1] = text[n]
    <3>1. \A x : Len(<<x>>) = 1 /\ <<x>>[1] = x
      OBVIOUS
    <3> QED BY <1>3, <3>1
  <2>6. \A n \in 1..last : s[n + 1] = s[n] + 1 /\ t[s[n] + 1] = text[n]
    <3>1. \A n \in 1..last : 1 \in 1..Len(ss[n])
      BY <2>5
    <3> QED BY <2>4, <2>5, <3>1
  <2> DEFINE G == {n \in 0..last : s[n + 1] = n}
  <2>7. \A n \in 0..last : n \in G
    <3>1. 0 \in G
      BY <1>1, <2>4
    <3>2. ASSUME NEW n \in 1..last, n - 1 \in G PROVE n \in G
      <4>1. s[(n - 1) + 1] = n - 1 /\ (n - 1) + 1 = n /\ n \in 0..last
        BY <1>1, <3>2
      <4>2. s[n + 1] = s[n] + 1
        BY <2>6
      <4> QED BY <1>1, <4>1, <4>2
    <3> HIDE DEF G
    <3> QED BY <1>1, <3>1, <3>2, Along
  <2>8. \A n \in 0..last : s[n + 1] = n
    BY <2>7
  <2>9. Len(t) = last
    <3>1. last \in 0..last
      BY <1>1
    <3> QED BY <2>4, <2>8, <3>1
  <2>10. ASSUME NEW n \in 1..last PROVE t[n] = text[n]
    <3>1. n - 1 \in 0..last /\ (n - 1) + 1 = n
      BY <1>1
    <3>2. s[n] = n - 1
      BY <2>8, <3>1
    <3>3. t[s[n] + 1] = text[n]
      BY <2>6
    <3> QED BY <3>1, <3>2, <3>3
  <2>11. t = text
    BY <1>0, <2>2, <2>9, <2>10, SeqEqual
  <2> QED BY <1>2, <2>11 DEF t
<1> QED BY <1>7, <1>8

\* An element of an instruction, as it is written.
LEMMA Element ==
  ASSUME NEW num \in Seq(Plain), NEW text \in Seq(Plain), NEW d \in Plain, NEW e \in Plain,
         NEW part, part = num \o <<d>> \o text \o <<e>>
  PROVE  /\ part \in Seq(Plain) /\ Len(part) = Len(num) + 1 + Len(text) + 1
         /\ \A j \in 1..Len(num) : part[j] = num[j]
         /\ part[Len(num) + 1] = d
         /\ \A j \in 1..Len(text) : part[Len(num) + 1 + j] = text[j]
         /\ part[Len(num) + 1 + Len(text) + 1] = e
<1> DEFINE a == num \o <<d>>
           b == a \o text
<1>0. Len(num) \in Nat /\ Len(text) \in Nat
  BY LenProperties
<1> DEFINE z == <<e>>
<1>1. /\ <<d>> \in Seq(Plain) /\ Len(<<d>>) = 1 /\ <<d>>[1] = d
      /\ z \in Seq(Plain) /\ Len(z) = 1 /\ z[1] = e
  OBVIOUS
<1>2. /\ a \in Seq(Plain) /\ Len(a) = Len(num) + Len(<<d>>)
      /\ \A i \in 1..(Len(num) + Len(<<d>>)) :
           a[i] = IF i <= Len(num) THEN num[i] ELSE <<d>>[i - Len(num)]
  BY <1>1, ConcatProperties
<1> HIDE DEF a
<1>3. /\ Len(a) = Len(num) + 1 /\ a[Len(num) + 1] = d
      /\ \A j \in 1..Len(num) : a[j] = num[j]
  <2>1. Len(num) + 1 \in 1..(Len(num) + 1) /\ ~(Len(num) + 1 <= Len(num)) /\ (Len(num) + 1) - Len(num) = 1
    BY <1>0
  <2>2. \A j \in 1..Len(num) : j \in 1..(Len(num) + 1) /\ j <= Len(num)
    BY <1>0
  <2> QED BY <1>1, <1>2, <2>1, <2>2
<1>4. /\ b \in Seq(Plain) /\ Len(b) = Len(a) + Len(text)
      /\ \A i \in 1..(Len(a) + Len(text)) : b[i] = IF i <= Len(a) THEN a[i] ELSE text[i - Len(a)]
  <2>1. a \in Seq(Plain)
    BY <1>2
  <2> QED BY <2>1, ConcatProperties
<1> HIDE DEF b
<1>5. /\ Len(b) = Len(num) + 1 + Len(text)
      /\ \A j \in 1..(Len(num) + 1) : b[j] = a[j]
      /\ \A j \in 1..Len(text) : b[Len(num) + 1 + j] = text[j]
  <2>1. \A j \in 1..(Len(num) + 1) : j \in 1..(Len(num) + 1 + Len(text)) /\ j <= Len(num) + 1
    BY <1>0
  <2>2. \A j \in 1..Len(text) : /\ Len(num) + 1 + j \in 1..(Len(num) + 1 + Len(text))
                                /\ ~(Len(num) + 1 + j <= Len(num) + 1)
                                /\ (Len(num) + 1 + j) - (Len(num) + 1) = j
    BY <1>0
  <2>3. /\ Len(b) = Len(num) + 1 + Len(text)
        /\ \A i \in 1..(Len(num) + 1 + Len(text)) :
             b[i] = IF i <= Len(num) + 1 THEN a[i] ELSE text[i - (Len(num) + 1)]
    BY <1>0, <1>3, <1>4
  <2> QED BY <2>1, <2>2, <2>3
<1>6. part = b \o z
  BY DEF a, b
<1> HIDE DEF z
<1>7. /\ part \in Seq(Plain) /\ Len(part) = Len(b) + Len(z)
      /\ \A i \in 1..(Len(b) + Len(z)) :
           part[i] = IF i <= Len(b) THEN b[i] ELSE z[i - Len(b)]
  <2>1. b \in Seq(Plain) /\ z \in Seq(Plain)
    BY <1>1, <1>4
  <2> DEFINE c == b \o z
  <2>2. /\ c \in Seq(Plain) /\ Len(c) = Len(b) + Len(z)
        /\ \A i \in 1..(Len(b) + Len(z)) : c[i] = IF i <= Len(b) THEN b[i] ELSE z[i - Len(b)]
    BY <2>1, ConcatProperties
  <2> HIDE DEF c
  <2>3. part = c
    BY <1>6 DEF c
  <2> QED BY <2>2, <2>3, Zenon
<1>8. Len(b) \in Nat
  BY <1>4, LenProperties
<1>9. /\ Len(part) = Len(b) + 1 /\ part[Len(b) + 1] = e
      /\ \A j \in 1..Len(b) : part[j] = b[j]
  <2>1. Len(b) + 1 \in 1..(Len(b) + 1) /\ ~(Len(b) + 1 <= Len(b)) /\ (Len(b) + 1) - Len(b) = 1
    BY <1>8
  <2>2. \A j \in 1..Len(b) : j \in 1..(Len(b) + 1) /\ j <= Len(b)
    BY <1>8
  <2> QED BY <1>1, <1>7, <2>1, <2>2
<1>10. /\ \A j \in 1..Len(num) : j \in 1..(Len(num) + 1) /\ j \in 1..Len(b)
       /\ Len(num) + 1 \in 1..(Len(num) + 1) /\ Len(num) + 1 \in 1..Len(b)
       /\ \A j \in 1..Len(text) : Len(num) + 1 + j \in 1..Len(b)
  BY <1>0, <1>5
<1>11. \A j \in 1..Len(num) : part[j] = num[j]
  BY <1>3, <1>5, <1>9, <1>10
<1>12. part[Len(num) + 1] = d
  BY <1>3, <1>5, <1>9, <1>10
<1>13. \A j \in 1..Len(text) : part[Len(num) + 1 + j] = text[j]
  BY <1>5, <1>9, <1>10
<1> QED BY <1>5, <1>7, <1>9, <1>11, <1>12, <1>13

\* The numeral before the element k, and where its content begins when the element
\* does behind the index i.
Digits(ins, k)    == Numeral[Len(ins[k])]
Behind(i, ins, k) == i + Len(Digits(ins, k)) + 1

\* The element k of an instruction begins in its notation behind the index s[k].
Layout(s, ins, code) ==
  /\ s \in [1..(Len(ins) + 1) -> Nat]
  /\ s[1] = 0 /\ s[Len(ins) + 1] = Len(code)
  /\ \A k \in 1..(Len(ins) + 1) : s[k] <= Len(code)
  /\ \A k \in 1..Len(ins) : s[k + 1] = Behind(s[k], ins, k) + Len(ins[k]) + 1
  /\ \A k \in 1..Len(ins) : \A j \in 1..Len(Digits(ins, k)) : code[s[k] + j] = Digits(ins, k)[j]
  /\ \A k \in 1..Len(ins) : code[Behind(s[k], ins, k)] = Dot
  /\ \A k \in 1..Len(ins) : \A j \in 1..Len(ins[k]) : code[Behind(s[k], ins, k) + j] = ins[k][j]
  /\ \A k \in 1..Len(ins) : code[s[k + 1]] = IF k = Len(ins) THEN Semicolon ELSE Comma

\* Either end writes a plain instruction in this notation.
LEMMA Notation ==
  ASSUME NEW ins \in Seq(Seq(Plain)), ins # <<>>
  PROVE  /\ FromBrowser(ins) = FromServer(ins)
         /\ FromServer(ins) \in Seq(Plain)
         /\ \E s : Layout(s, ins, FromServer(ins))
<1> DEFINE last == Len(ins)
           Part(i) == Numeral[Len(ins[i])] \o <<Dot>> \o ins[i]
                        \o <<IF i = Len(ins) THEN Semicolon ELSE Comma>>
           ss == [i \in 1..last |-> Part(i)]
           code == FlattenSeq(ss)
<1>1. last \in Nat /\ last # 0 /\ DOMAIN ins = 1..last /\ \A i \in 1..last : ins[i] \in Seq(Plain)
  BY LenProperties, EmptySeq
<1>2. FromServer(ins) = code
  <2> DEFINE l == [i \in DOMAIN ins |-> OctetLength(ins[i])]
             r == [i \in DOMAIN ins |-> Numeral[l[i]] \o <<Dot>> \o ins[i]
                                          \o <<IF i = Len(ins) THEN Semicolon ELSE Comma>>]
  <2>1. \A i \in 1..last : l[i] = Len(ins[i])
    BY <1>1, Utf8Plain DEF OctetLength
  <2>2. FromServer(ins) = FlattenSeq(r)
    BY DEF FromServer, Encode
  <2>3. \A i \in 1..last : r[i] = ss[i]
    <3> HIDE DEF l
    <3> QED BY <1>1, <2>1, Zenon
  <2>4. /\ DOMAIN r = 1..last /\ DOMAIN ss = 1..last
        /\ r = [i \in DOMAIN r |-> r[i]] /\ ss = [i \in DOMAIN ss |-> ss[i]]
    BY <1>1
  <2>5. r = ss
    <3> HIDE DEF r, ss, last
    <3> QED BY <2>3, <2>4
  <2> QED BY <2>2, <2>5, Zenon
<1>3. Encode(ins, [i \in DOMAIN ins |-> Len(ins[i])]) = code
  <2> DEFINE l == [i \in DOMAIN ins |-> Len(ins[i])]
             r == [i \in DOMAIN ins |-> Numeral[l[i]] \o <<Dot>> \o ins[i]
                                          \o <<IF i = Len(ins) THEN Semicolon ELSE Comma>>]
  <2>1. \A i \in 1..last : l[i] = Len(ins[i])
    BY <1>1
  <2>2. Encode(ins, l) = FlattenSeq(r)
    BY DEF Encode
  <2>3. \A i \in 1..last : r[i] = ss[i]
    <3> HIDE DEF l
    <3> QED BY <1>1, <2>1, Zenon
  <2>4. /\ DOMAIN r = 1..last /\ DOMAIN ss = 1..last
        /\ r = [i \in DOMAIN r |-> r[i]] /\ ss = [i \in DOMAIN ss |-> ss[i]]
    BY <1>1
  <2>5. r = ss
    <3> HIDE DEF r, ss, last
    <3> QED BY <2>3, <2>4
  <2> QED BY <2>2, <2>5, Zenon
<1>4. ASSUME NEW i \in 1..last
      PROVE  /\ Numeral[Len(ins[i])] \in Seq(Plain) /\ Numeral[Len(ins[i])] \in Seq(Digit)
             /\ Len(ins[i]) \in Nat /\ ins[i] \in Seq(Plain)
             /\ (IF i = Len(ins) THEN Semicolon ELSE Comma) \in Plain
  <2>1. Len(ins[i]) \in Nat /\ ins[i] \in Seq(Plain)
    BY <1>1, LenProperties
  <2>2. Numeral[Len(ins[i])] \in Seq(Digit)
    BY <2>1, NumeralHasItsValue
  <2>3. Numeral[Len(ins[i])] \in Seq(Plain)
    BY <2>2, PlainCharacters, SeqMonotonic
  <2> QED BY <2>1, <2>2, <2>3, PlainCharacters
<1>5. \A i \in 1..last : ss[i] = Part(i)
  OBVIOUS
<1>6. ASSUME NEW i \in 1..last
      PROVE  /\ ss[i] \in Seq(Plain)
             /\ Len(ss[i]) = Len(Digits(ins, i)) + 1 + Len(ins[i]) + 1
             /\ \A j \in 1..Len(Digits(ins, i)) : ss[i][j] = Digits(ins, i)[j]
             /\ ss[i][Len(Digits(ins, i)) + 1] = Dot
             /\ \A j \in 1..Len(ins[i]) : ss[i][Len(Digits(ins, i)) + 1 + j] = ins[i][j]
             /\ ss[i][Len(Digits(ins, i)) + 1 + Len(ins[i]) + 1]
                  = IF i = Len(ins) THEN Semicolon ELSE Comma
  <2> DEFINE num  == Numeral[Len(ins[i])]
             text == ins[i]
             e    == IF i = Len(ins) THEN Semicolon ELSE Comma
             part == Part(i)
  <2>1. num \in Seq(Plain) /\ text \in Seq(Plain) /\ e \in Plain /\ Dot \in Plain
    BY <1>4, PlainCharacters
  <2>2. part = num \o <<Dot>> \o text \o <<e>>
    OBVIOUS
  <2>3. ss[i] = part
    BY <1>5
  <2> HIDE DEF num, text, e, part, ss
  <2>4. /\ part \in Seq(Plain) /\ Len(part) = Len(num) + 1 + Len(text) + 1
        /\ \A j \in 1..Len(num) : part[j] = num[j]
        /\ part[Len(num) + 1] = Dot
        /\ \A j \in 1..Len(text) : part[Len(num) + 1 + j] = text[j]
        /\ part[Len(num) + 1 + Len(text) + 1] = e
    <3>1. /\ part \in Seq(Plain) /\ Len(part) = Len(num) + 1 + Len(text) + 1
          /\ \A j \in 1..Len(num) : part[j] = num[j]
      BY <2>1, <2>2, Element
    <3>2. /\ part[Len(num) + 1] = Dot
          /\ \A j \in 1..Len(text) : part[Len(num) + 1 + j] = text[j]
          /\ part[Len(num) + 1 + Len(text) + 1] = e
      BY <2>1, <2>2, Element
    <3> QED BY <3>1, <3>2, Zenon
  <2> QED BY <2>3, <2>4 DEF num, text, e, Digits
<1>7. ss \in Seq(Seq(Plain)) /\ Len(ss) = last
  <2>1. \A i \in 1..last : ss[i] \in Seq(Plain)
    BY <1>6
  <2>2. DOMAIN ss = 1..last /\ ss = [i \in 1..last |-> ss[i]]
    OBVIOUS
  <2> HIDE DEF ss, last
  <2>3. ss \in [1..last -> Seq(Plain)]
    BY <2>1, <2>2
  <2> QED BY <1>1, <2>3
<1>8. ss # <<>>
  <2>1. Len(ss) # 0 /\ Len(<<>>) = 0
    BY <1>1, <1>7, Zenon
  <2> HIDE DEF ss
  <2> QED BY <2>1
<1>0. last = Len(ins)
  OBVIOUS
<1>9. code \in Seq(Plain) /\ \E s : Parts(s, ss, code)
  <2> HIDE DEF ss
  <2> QED BY <1>7, <1>8, PartsOf
<1> HIDE DEF ss, code, last
<1>10. FromBrowser(ins) = code
  BY <1>3, <1>9, Utf8Plain DEF FromBrowser
<1>11. PICK s : Parts(s, ss, code)
  BY <1>9
<1>12. /\ s \in [1..(last + 1) -> Nat]
       /\ s[1] = 0 /\ s[last + 1] = Len(code)
       /\ \A n \in 1..last : s[n + 1] = s[n] + Len(ss[n])
       /\ \A n \in 1..last : \A j \in 1..Len(ss[n]) : code[s[n] + j] = ss[n][j]
  BY <1>7, <1>11 DEF Parts
<1>13. ASSUME NEW k \in 1..last
       PROVE  /\ s[k] \in Nat /\ s[k + 1] \in Nat
              /\ Len(Digits(ins, k)) \in Nat /\ Len(ins[k]) \in Nat
              /\ s[k + 1] = s[k] + (Len(Digits(ins, k)) + 1 + Len(ins[k]) + 1)
  <2>1. k \in 1..(last + 1) /\ k + 1 \in 1..(last + 1)
    BY <1>1
  <2>2. Len(Digits(ins, k)) \in Nat
    BY <1>4, LenProperties DEF Digits
  <2>3. s[k + 1] = s[k] + Len(ss[k])
    BY <1>12
  <2>4. Len(ss[k]) = Len(Digits(ins, k)) + 1 + Len(ins[k]) + 1
    BY <1>6
  <2>5. s[k] \in Nat /\ s[k + 1] \in Nat
    BY <1>12, <2>1
  <2>6. Len(ins[k]) \in Nat
    BY <1>4
  <2> QED BY <2>2, <2>3, <2>4, <2>5, <2>6, Zenon
<1>14. ASSUME NEW k \in 1..last
       PROVE  /\ s[k + 1] = Behind(s[k], ins, k) + Len(ins[k]) + 1
              /\ \A j \in 1..Len(Digits(ins, k)) : code[s[k] + j] = Digits(ins, k)[j]
              /\ code[Behind(s[k], ins, k)] = Dot
              /\ \A j \in 1..Len(ins[k]) : code[Behind(s[k], ins, k) + j] = ins[k][j]
              /\ code[s[k + 1]] = IF k = Len(ins) THEN Semicolon ELSE Comma
  <2> DEFINE a == s[k]
             d == Len(Digits(ins, k))
             c == Len(ins[k])
             part == ss[k]
  <2>1. a \in Nat /\ d \in Nat /\ c \in Nat /\ s[k + 1] = a + (d + 1 + c + 1)
    BY <1>13, Zenon
  <2>2. Behind(s[k], ins, k) = a + d + 1
    BY DEF Behind
  <2>3. /\ Len(part) = d + 1 + c + 1
        /\ \A j \in 1..d : part[j] = Digits(ins, k)[j]
        /\ part[d + 1] = Dot
        /\ \A j \in 1..c : part[d + 1 + j] = ins[k][j]
        /\ part[d + 1 + c + 1] = IF k = Len(ins) THEN Semicolon ELSE Comma
    BY <1>6, Zenon
  <2>4. \A j \in 1..Len(part) : code[a + j] = part[j]
    BY <1>12
  <2> HIDE DEF a, d, c, part
  <2>5. /\ \A j \in 1..d : j \in 1..Len(part)
        /\ d + 1 \in 1..Len(part) /\ a + (d + 1) = a + d + 1
        /\ \A j \in 1..c : d + 1 + j \in 1..Len(part) /\ a + (d + 1 + j) = a + d + 1 + j
        /\ d + 1 + c + 1 \in 1..Len(part) /\ a + (d + 1 + c + 1) = a + d + 1 + c + 1
    <3>1. Len(part) = d + 1 + c + 1
      BY <2>3
    <3> QED BY <2>1, <3>1
  <2>6. \A j \in 1..d : code[a + j] = Digits(ins, k)[j]
    BY <2>3, <2>4, <2>5
  <2>7. code[a + d + 1] = Dot
    BY <2>3, <2>4, <2>5
  <2>8. \A j \in 1..c : code[a + d + 1 + j] = ins[k][j]
    BY <2>3, <2>4, <2>5
  <2>9. code[s[k + 1]] = IF k = Len(ins) THEN Semicolon ELSE Comma
    BY <2>1, <2>3, <2>4, <2>5
  <2>10. s[k + 1] = a + d + 1 + c + 1
    BY <2>1
  <2> QED BY <2>2, <2>6, <2>7, <2>8, <2>9, <2>10 DEF a, d, c
<1>15. \A k \in 1..(last + 1) : s[k] <= Len(code)
  <2> DEFINE G == {m \in 0..last : \A k \in 1..(m + 1) : s[k] <= s[m + 1]}
  <2>1. 0 \in G
    <3>1. \A k \in 1..(0 + 1) : k = 1
      OBVIOUS
    <3> QED BY <1>1, <1>12, <3>1
  <2>2. ASSUME NEW m \in 1..last, m - 1 \in G PROVE m \in G
    <3>1. \A k \in 1..m : s[k] <= s[m]
      BY <2>2
    <3>2. s[m] \in Nat /\ s[m + 1] \in Nat /\ s[m] <= s[m + 1]
      <4>1. \A a, d, c \in Nat : a <= a + (d + 1 + c + 1)
        OBVIOUS
      <4> QED BY <1>13, <4>1, Zenon
    <3>3. ASSUME NEW k \in 1..(m + 1) PROVE s[k] <= s[m + 1]
      <4>1. CASE k = m + 1
        BY <3>2, <4>1
      <4>2. CASE k # m + 1
        <5>1. k \in 1..m /\ k \in 1..(last + 1)
          BY <1>1, <4>2
        <5>2. s[k] \in Nat /\ s[k] <= s[m]
          BY <1>12, <3>1, <5>1
        <5> QED BY <3>2, <5>2
      <4> QED BY <4>1, <4>2
    <3>4. m \in 0..last
      BY <1>1
    <3> QED BY <3>3, <3>4
  <2>3. \A m \in 0..last : m \in G
    <3> HIDE DEF G
    <3> QED BY <1>1, <2>1, <2>2, Along
  <2>4. last \in 0..last
    BY <1>1
  <2> QED BY <1>12, <2>3, <2>4
<1>16. Layout(s, ins, code)
  BY <1>0, <1>12, <1>14, <1>15, Zenon DEF Layout
<1> QED BY <1>2, <1>9, <1>10, <1>16

\* Where the elements of a plain instruction begin.
Starts(ins) == CHOOSE s : Layout(s, ins, FromServer(ins))

Written(ins) == ins \in Seq(Seq(Plain)) /\ ins # <<>>

\* What the notation is made of, at the element k.
LEMMA At ==
  ASSUME NEW ins, Written(ins), NEW k \in 1..Len(ins)
  PROVE  /\ Len(ins) \in Nat /\ ins[k] \in Seq(Plain) /\ Len(ins[k]) \in Nat
         /\ Digits(ins, k) \in Seq(Digit) /\ Digits(ins, k) # <<>>
         /\ Len(Digits(ins, k)) \in Nat /\ Len(Digits(ins, k)) > 0
         /\ Value(Digits(ins, k)) = Len(ins[k])
         /\ Starts(ins)[k] \in Nat /\ Starts(ins)[k + 1] \in Nat
         /\ Behind(Starts(ins)[k], ins, k) \in Nat
         /\ Behind(Starts(ins)[k], ins, k) > Starts(ins)[k]
         /\ Starts(ins)[k + 1] = Behind(Starts(ins)[k], ins, k) + Len(ins[k]) + 1
         /\ Starts(ins)[k + 1] <= Len(FromServer(ins))
         /\ \A j \in 1..Len(Digits(ins, k)) :
              FromServer(ins)[Starts(ins)[k] + j] = Digits(ins, k)[j]
         /\ FromServer(ins)[Behind(Starts(ins)[k], ins, k)] = Dot
         /\ \A j \in 1..Len(ins[k]) :
              FromServer(ins)[Behind(Starts(ins)[k], ins, k) + j] = ins[k][j]
         /\ FromServer(ins)[Starts(ins)[k + 1]] = IF k = Len(ins) THEN Semicolon ELSE Comma
<1> DEFINE s == Starts(ins)
           code == FromServer(ins)
<1>1. Layout(s, ins, code)
  BY Notation DEF Written, Starts
<1>2. Len(ins) \in Nat /\ ins[k] \in Seq(Plain) /\ Len(ins[k]) \in Nat
  <2>1. Len(ins) \in Nat /\ ins[k] \in Seq(Plain)
    BY ElementOfSeq, LenProperties DEF Written
  <2> QED BY <2>1, LenProperties
<1>3. Digits(ins, k) \in Seq(Digit) /\ Digits(ins, k) # <<>> /\ Value(Digits(ins, k)) = Len(ins[k])
  BY <1>2, NumeralHasItsValue DEF Digits
<1>4. Len(Digits(ins, k)) \in Nat /\ Len(Digits(ins, k)) > 0
  <2>1. Len(Digits(ins, k)) \in Nat \ {0}
    BY <1>3, EmptySeq
  <2> QED BY <2>1
<1> HIDE DEF s, code
<1>5. k \in 1..(Len(ins) + 1) /\ k + 1 \in 1..(Len(ins) + 1)
  BY <1>2
<1>6. s[k] \in Nat /\ s[k + 1] \in Nat /\ s[k + 1] <= Len(code)
  BY <1>1, <1>5 DEF Layout
<1>7. Behind(s[k], ins, k) \in Nat /\ Behind(s[k], ins, k) > s[k]
  <2>1. \A a, d \in Nat : a + d + 1 \in Nat /\ a + d + 1 > a
    OBVIOUS
  <2> QED BY <1>4, <1>6, <2>1, Zenon DEF Behind
<1>8. /\ s[k + 1] = Behind(s[k], ins, k) + Len(ins[k]) + 1
      /\ \A j \in 1..Len(Digits(ins, k)) : code[s[k] + j] = Digits(ins, k)[j]
      /\ code[Behind(s[k], ins, k)] = Dot
      /\ \A j \in 1..Len(ins[k]) : code[Behind(s[k], ins, k) + j] = ins[k][j]
      /\ code[s[k + 1]] = IF k = Len(ins) THEN Semicolon ELSE Comma
  BY <1>1, Zenon DEF Layout
<1> QED BY <1>2, <1>3, <1>4, <1>6, <1>7, <1>8, Zenon DEF s, code

\* The whole notation.
LEMMA Whole ==
  ASSUME NEW ins, Written(ins)
  PROVE  /\ FromBrowser(ins) = FromServer(ins) /\ FromServer(ins) \in Seq(Plain)
         /\ Len(ins) \in Nat /\ Len(ins) > 0 /\ Len(FromServer(ins)) \in Nat
         /\ Starts(ins)[1] = 0 /\ Starts(ins)[Len(ins) + 1] = Len(FromServer(ins))
<1>1. Layout(Starts(ins), ins, FromServer(ins))
  BY Notation DEF Written, Starts
<1>2. FromBrowser(ins) = FromServer(ins) /\ FromServer(ins) \in Seq(Plain)
  BY Notation DEF Written
<1>3. Len(FromServer(ins)) \in Nat
  BY <1>2, LenProperties
<1>4. Len(ins) \in Nat \ {0}
  BY EmptySeq DEF Written
<1>5. Starts(ins)[1] = 0 /\ Starts(ins)[Len(ins) + 1] = Len(FromServer(ins))
  BY <1>1 DEF Layout
<1> QED BY <1>2, <1>3, <1>4, <1>5

-----------------------------------------------------------------------------
(* ReadInstruction                                                         *)

Begins(a, b) == Len(a) <= Len(b) /\ \A j \in 1..Len(a) : a[j] = b[j]

\* A prefix that grows by what comes next is a prefix.
LEMMA BeginsNext ==
  ASSUME NEW S, NEW a \in Seq(S), NEW b \in Seq(S), Begins(a, b), Len(a) < Len(b)
  PROVE  /\ b[Len(a) + 1] \in S
         /\ Append(a, b[Len(a) + 1]) \in Seq(S)
         /\ Begins(Append(a, b[Len(a) + 1]), b)
         /\ Len(Append(a, b[Len(a) + 1])) = Len(a) + 1
<1> DEFINE c == b[Len(a) + 1]
           t == Append(a, c)
<1>1. Len(a) \in Nat /\ Len(b) \in Nat /\ \A i \in 1..Len(b) : b[i] \in S
  BY LenProperties
<1>2. Len(a) + 1 \in 1..Len(b)
  BY <1>1
<1>3. c \in S
  BY <1>1, <1>2
<1>4. c = b[Len(a) + 1]
  OBVIOUS
<1> HIDE DEF c
<1>5. /\ t \in Seq(S) /\ Len(t) = Len(a) + 1 /\ t[Len(a) + 1] = c
      /\ \A i \in 1..Len(a) : t[i] = a[i]
  BY <1>3, AppendProperties
<1> HIDE DEF t
<1>6. ASSUME NEW j \in 1..(Len(a) + 1) PROVE t[j] = b[j]
  <2>1. CASE j = Len(a) + 1
    BY <1>4, <1>5, <2>1
  <2>2. CASE j # Len(a) + 1
    <3>1. j \in 1..Len(a)
      BY <1>1, <2>2
    <3> QED BY <1>5, <3>1 DEF Begins
  <2> QED BY <2>1, <2>2
<1>7. Begins(t, b)
  BY <1>1, <1>2, <1>5, <1>6 DEF Begins
<1> QED BY <1>3, <1>5, <1>7 DEF t, c

\* A prefix as long as the whole is the whole.
LEMMA BeginsWhole ==
  ASSUME NEW S, NEW a \in Seq(S), NEW b \in Seq(S), Begins(a, b), Len(a) = Len(b)
  PROVE  a = b
  BY SeqEqual DEF Begins

\* ReadInstruction has read the octets of an instruction up to index p: the elements
\* els, and tok of the length of the next one;
ReadsLength(ins, p, tok, els) ==
  /\ els \in Seq(Seq(Plain)) /\ Begins(els, ins) /\ Len(els) < Len(ins)
  /\ tok \in Seq(Plain) /\ Begins(tok, Digits(ins, Len(els) + 1))
  /\ p = Starts(ins)[Len(els) + 1] + Len(tok)

\* tok of its content;
ReadsContent(ins, p, tok, len, els) ==
  /\ els \in Seq(Seq(Plain)) /\ Begins(els, ins) /\ Len(els) < Len(ins)
  /\ len = Len(ins[Len(els) + 1])
  /\ tok \in Seq(Plain) /\ Begins(tok, ins[Len(els) + 1]) /\ Len(tok) < len
  /\ p = Behind(Starts(ins)[Len(els) + 1], ins, Len(els) + 1) + Len(tok)

\* or all of an element but the delimiter.
ReadsDelimiter(ins, p, tok, els) ==
  /\ els \in Seq(Seq(Plain)) /\ Begins(els, ins) /\ Len(els) > 0
  /\ tok = <<>>
  /\ p + 1 = Starts(ins)[Len(els) + 1] /\ p \in Nat

\* An octet of the length, or the dot behind it.
LEMMA LengthOctet ==
  ASSUME NEW ins, Written(ins), NEW p, NEW tok, NEW els, ReadsLength(ins, p, tok, els),
         NEW c, c = FromServer(ins)[p + 1]
  PROVE  /\ p \in Nat /\ p < Len(FromServer(ins))
         /\ c # Dot => ReadsLength(ins, p + 1, Append(tok, c), els)
         /\ c = Dot =>
              /\ tok # <<>> /\ \A i \in DOMAIN tok : tok[i] \in Digit
              /\ Value(tok) = 0 => ReadsDelimiter(ins, p + 1, <<>>, Append(els, <<>>))
              /\ Value(tok) # 0 => ReadsContent(ins, p + 1, <<>>, Value(tok), els)
<1> DEFINE k == Len(els) + 1
           num == Digits(ins, k)
           s == Starts(ins)
           code == FromServer(ins)
           b == Behind(s[k], ins, k)
<1>1. /\ els \in Seq(Seq(Plain)) /\ Begins(els, ins) /\ Len(els) < Len(ins)
      /\ tok \in Seq(Plain) /\ Begins(tok, num) /\ p = s[k] + Len(tok)
  BY DEF ReadsLength
<1>2. Len(ins) \in Nat /\ Len(els) \in Nat /\ Len(tok) \in Nat
  BY <1>1, Whole, LenProperties
<1>3. k \in 1..Len(ins) /\ k = Len(els) + 1
  BY <1>1, <1>2
<1> HIDE DEF k
<1>4. /\ ins[k] \in Seq(Plain) /\ Len(ins[k]) \in Nat
      /\ num \in Seq(Digit) /\ num # <<>> /\ Len(num) \in Nat /\ Len(num) > 0
      /\ Value(num) = Len(ins[k])
      /\ s[k] \in Nat /\ s[k + 1] \in Nat
      /\ s[k + 1] = b + Len(ins[k]) + 1 /\ s[k + 1] <= Len(code)
      /\ \A j \in 1..Len(num) : code[s[k] + j] = num[j]
      /\ code[b] = Dot
  <2>1. /\ ins[k] \in Seq(Plain) /\ Len(ins[k]) \in Nat
        /\ num \in Seq(Digit) /\ num # <<>> /\ Len(num) \in Nat /\ Len(num) > 0
        /\ Value(num) = Len(ins[k])
    BY <1>3, At
  <2>2. /\ s[k] \in Nat /\ s[k + 1] \in Nat
        /\ s[k + 1] = b + Len(ins[k]) + 1 /\ s[k + 1] <= Len(code)
    BY <1>3, At
  <2>3. /\ \A j \in 1..Len(num) : code[s[k] + j] = num[j]
        /\ code[b] = Dot
    BY <1>3, At
  <2> QED BY <2>1, <2>2, <2>3
<1>5. b = s[k] + Len(num) + 1
  BY DEF Behind
<1>6. num \in Seq(Plain)
  BY <1>4, PlainCharacters, SeqMonotonic
<1>7. Len(code) \in Nat
  BY Whole
<1>8. ins \in Seq(Seq(Plain))
  BY DEF Written
<1> HIDE DEF num, s, code, b
<1>9. Len(tok) <= Len(num)
  BY <1>1, Zenon DEF Begins
<1>10. p \in Nat /\ p < Len(code)
  <2>1. /\ s[k] \in Nat /\ Len(ins[k]) \in Nat /\ Len(num) \in Nat
        /\ s[k + 1] = b + Len(ins[k]) + 1 /\ s[k + 1] <= Len(code)
    BY <1>4
  <2>2. p = s[k] + Len(tok)
    BY <1>1
  <2>3. p \in Nat
    BY <1>2, <2>1, <2>2
  <2>4. \A a, d, e, l, q \in Nat : q <= d /\ a + d + 1 + e + 1 <= l => a + q < l
    OBVIOUS
  <2>5. s[k] + Len(num) + 1 + Len(ins[k]) + 1 <= Len(code)
    BY <1>5, <2>1
  <2>6. s[k] + Len(tok) < Len(code)
    BY <1>2, <1>7, <1>9, <2>1, <2>4, <2>5, Zenon
  <2> QED BY <2>2, <2>3, <2>6
<1>11. CASE Len(tok) < Len(num)
  <2>1. Len(tok) + 1 \in 1..Len(num) /\ s[k] + (Len(tok) + 1) = p + 1
    <3>1. s[k] \in Nat /\ Len(num) \in Nat /\ p = s[k] + Len(tok)
      BY <1>1, <1>4
    <3> QED BY <1>2, <1>11, <3>1
  <2>2. c = num[Len(tok) + 1]
    BY <1>4, <2>1 DEF code
  <2>3. num[Len(tok) + 1] \in Digit
    BY <1>4, <2>1, ElementOfSeq
  <2>4. c # Dot
    BY <2>2, <2>3, PlainCharacters
  <2>5. /\ Append(tok, c) \in Seq(Plain) /\ Begins(Append(tok, c), num)
        /\ Len(Append(tok, c)) = Len(tok) + 1
    <3>1. tok \in Seq(Plain) /\ Begins(tok, num)
      BY <1>1
    <3> QED BY <1>6, <1>11, <2>2, <3>1, BeginsNext
  <2>6. p + 1 = s[k] + Len(Append(tok, c))
    <3>1. s[k] \in Nat /\ p = s[k] + Len(tok) /\ Len(Append(tok, c)) = Len(tok) + 1
      BY <1>1, <1>4, <2>5
    <3> QED BY <1>2, <3>1
  <2>7. ReadsLength(ins, p + 1, Append(tok, c), els)
    BY <1>1, <1>3, <2>5, <2>6 DEF ReadsLength, num, s
  <2> QED BY <1>10, <2>4, <2>7 DEF code
<1>12. CASE ~(Len(tok) < Len(num))
  <2>1. Len(tok) = Len(num)
    BY <1>2, <1>4, <1>9, <1>12
  <2>2. tok = num
    BY <1>1, <1>6, <2>1, BeginsWhole
  <2>3. p + 1 = b
    BY <1>1, <1>2, <1>4, <1>5, <2>1
  <2>4. c = Dot
    BY <1>4, <2>3 DEF code
  <2>5. tok # <<>> /\ Value(tok) = Len(ins[k])
    BY <1>4, <2>2
  <2>6. \A i \in DOMAIN tok : tok[i] \in Digit
    BY <1>4, <2>2, LenProperties, ElementOfSeq
  <2>7. <<>> \in Seq(Plain) /\ Len(<<>>) = 0
    BY EmptySeq
  <2>8. ASSUME Value(tok) = 0 PROVE ReadsDelimiter(ins, p + 1, <<>>, Append(els, <<>>))
    <3>1. ins[k] = <<>>
      BY <1>4, <2>5, <2>8, EmptySeq
    <3>2. /\ Append(els, <<>>) \in Seq(Seq(Plain)) /\ Begins(Append(els, <<>>), ins)
          /\ Len(Append(els, <<>>)) = Len(els) + 1
      BY <1>1, <1>3, <1>8, <3>1, BeginsNext
    <3>3. (p + 1) + 1 = s[k + 1] /\ p + 1 \in Nat
      BY <1>4, <1>10, <2>3, <2>5, <2>8
    <3>4. Len(Append(els, <<>>)) = k /\ Len(Append(els, <<>>)) > 0
      BY <1>2, <1>3, <3>2
    <3> QED BY <3>2, <3>3, <3>4 DEF ReadsDelimiter, s
  <2>9. ASSUME Value(tok) # 0 PROVE ReadsContent(ins, p + 1, <<>>, Value(tok), els)
    <3>1. Begins(<<>>, ins[k]) /\ Len(<<>>) < Value(tok)
      BY <1>4, <2>5, <2>7, <2>9 DEF Begins
    <3>2. p + 1 = b + Len(<<>>)
      BY <1>10, <2>3, <2>7
    <3> QED BY <1>1, <1>3, <2>5, <2>7, <3>1, <3>2 DEF ReadsContent, b, s
  <2> QED BY <1>10, <2>4, <2>5, <2>6, <2>8, <2>9 DEF code
<1> QED BY <1>11, <1>12

\* An octet of the content.
LEMMA ContentOctet ==
  ASSUME NEW ins, Written(ins), NEW p, NEW tok, NEW len, NEW els,
         ReadsContent(ins, p, tok, len, els), NEW c, c = FromServer(ins)[p + 1]
  PROVE  /\ p \in Nat /\ p < Len(FromServer(ins))
         /\ Len(tok) + 1 = len => ReadsDelimiter(ins, p + 1, <<>>, Append(els, Append(tok, c)))
         /\ Len(tok) + 1 # len => ReadsContent(ins, p + 1, Append(tok, c), len, els)
<1> DEFINE k == Len(els) + 1
           s == Starts(ins)
           code == FromServer(ins)
           b == Behind(s[k], ins, k)
           text == ins[k]
           t == Append(tok, c)
<1>1. /\ els \in Seq(Seq(Plain)) /\ Begins(els, ins) /\ Len(els) < Len(ins)
      /\ len = Len(text) /\ tok \in Seq(Plain) /\ Begins(tok, text) /\ Len(tok) < len
      /\ p = b + Len(tok)
  BY DEF ReadsContent
<1>2. Len(ins) \in Nat /\ Len(els) \in Nat /\ Len(tok) \in Nat
  BY <1>1, Whole, LenProperties
<1>3. k \in 1..Len(ins) /\ k = Len(els) + 1
  BY <1>1, <1>2
<1> HIDE DEF k
<1>4. /\ text \in Seq(Plain) /\ Len(text) \in Nat
      /\ b \in Nat /\ s[k + 1] \in Nat
      /\ s[k + 1] = b + Len(text) + 1 /\ s[k + 1] <= Len(code)
      /\ \A j \in 1..Len(text) : code[b + j] = text[j]
  BY <1>3, At
<1>7. Len(code) \in Nat
  BY Whole
<1>8. ins \in Seq(Seq(Plain))
  BY DEF Written
<1>9. text = ins[k]
  OBVIOUS
<1> HIDE DEF s, code, b, text
<1>10. p \in Nat /\ p < Len(code)
  BY <1>1, <1>2, <1>4, <1>7
<1>11. Len(tok) + 1 \in 1..Len(text) /\ b + (Len(tok) + 1) = p + 1
  BY <1>1, <1>2, <1>4
<1>12. c = text[Len(tok) + 1]
  BY <1>4, <1>11 DEF code
<1>13. t \in Seq(Plain) /\ Begins(t, text) /\ Len(t) = Len(tok) + 1
  BY <1>1, <1>4, <1>12, BeginsNext
<1> HIDE DEF t
<1>14. ASSUME Len(tok) + 1 = len PROVE ReadsDelimiter(ins, p + 1, <<>>, Append(els, t))
  <2>1. t = text
    BY <1>1, <1>4, <1>13, <1>14, BeginsWhole
  <2>2. /\ Append(els, t) \in Seq(Seq(Plain)) /\ Begins(Append(els, t), ins)
        /\ Len(Append(els, t)) = Len(els) + 1
    BY <1>1, <1>3, <1>8, <1>9, <2>1, BeginsNext
  <2>3. (p + 1) + 1 = s[k + 1] /\ p + 1 \in Nat
    BY <1>1, <1>2, <1>4, <1>10, <1>14
  <2>4. Len(Append(els, t)) = k /\ Len(Append(els, t)) > 0
    BY <1>2, <1>3, <2>2
  <2> QED BY <2>2, <2>3, <2>4 DEF ReadsDelimiter, s
<1>15. ASSUME Len(tok) + 1 # len PROVE ReadsContent(ins, p + 1, t, len, els)
  <2>1. Len(t) < len
    BY <1>1, <1>2, <1>4, <1>13, <1>15
  <2>2. p + 1 = b + Len(t)
    BY <1>1, <1>2, <1>4, <1>13
  <2> QED BY <1>1, <1>3, <1>9, <1>13, <2>1, <2>2 DEF ReadsContent, b, s
<1> QED BY <1>10, <1>14, <1>15 DEF t, code

\* The octet behind an element ends the instruction or introduces the next element.
LEMMA DelimiterOctet ==
  ASSUME NEW ins, Written(ins), NEW p, NEW tok, NEW els, ReadsDelimiter(ins, p, tok, els),
         NEW c, c = FromServer(ins)[p + 1]
  PROVE  /\ p \in Nat /\ p < Len(FromServer(ins))
         /\ \/ c = Semicolon /\ els = ins /\ p + 1 = Len(FromServer(ins))
            \/ c = Comma /\ ReadsLength(ins, p + 1, <<>>, els)
<1> DEFINE k == Len(els)
           s == Starts(ins)
           code == FromServer(ins)
<1>1. /\ els \in Seq(Seq(Plain)) /\ Begins(els, ins) /\ Len(els) > 0
      /\ p + 1 = s[k + 1] /\ p \in Nat
  BY DEF ReadsDelimiter
<1>2. Len(ins) \in Nat /\ Len(els) \in Nat /\ Len(code) \in Nat /\ s[Len(ins) + 1] = Len(code)
  BY <1>1, Whole, LenProperties
<1>3. k \in 1..Len(ins) /\ k = Len(els)
  BY <1>1, <1>2 DEF Begins
<1> HIDE DEF k
<1>4. /\ s[k + 1] <= Len(code)
      /\ code[s[k + 1]] = IF k = Len(ins) THEN Semicolon ELSE Comma
  BY <1>3, At
<1>5. ins \in Seq(Seq(Plain))
  BY DEF Written
<1> HIDE DEF s, code
<1>6. p < Len(code)
  BY <1>1, <1>2, <1>4
<1>7. CASE k = Len(ins)
  <2>1. els = ins
    BY <1>1, <1>3, <1>5, <1>7, BeginsWhole
  <2> QED BY <1>1, <1>2, <1>4, <1>6, <1>7, <2>1 DEF code
<1>8. CASE k # Len(ins)
  <2>1. Len(els) < Len(ins)
    BY <1>2, <1>3, <1>8
  <2>2. <<>> \in Seq(Plain) /\ Len(<<>>) = 0
    BY EmptySeq
  <2>3. Begins(<<>>, Digits(ins, k + 1))
    <3>1. k + 1 \in 1..Len(ins)
      BY <1>2, <1>3, <1>8
    <3>2. Len(Digits(ins, k + 1)) \in Nat
      BY <3>1, At
    <3> QED BY <2>2, <3>2 DEF Begins
  <2>4. p + 1 = s[k + 1] + Len(<<>>)
    BY <1>1, <2>2
  <2>5. ReadsLength(ins, p + 1, <<>>, els)
    BY <1>1, <1>3, <2>1, <2>2, <2>3, <2>4 DEF ReadsLength, s
  <2>6. c = Comma
    BY <1>1, <1>4, <1>8 DEF code
  <2> QED BY <1>1, <1>6, <2>5, <2>6 DEF code
<1> QED BY <1>7, <1>8

\* Nothing read of an instruction yet.
LEMMA NothingRead ==
  ASSUME NEW ins, Written(ins)
  PROVE  ReadsLength(ins, 0, <<>>, <<>>)
<1>1. Len(ins) \in Nat /\ Len(ins) > 0 /\ Starts(ins)[1] = 0
  BY Whole
<1>2. Len(<<>>) = 0 /\ 0 + 1 = 1 /\ 0 + 0 = 0 /\ 1 \in 1..Len(ins)
  BY <1>1
<1>3. Len(Digits(ins, 1)) \in Nat
  BY <1>2, At
<1>4. Begins(<<>>, Digits(ins, 1)) /\ Begins(<<>>, ins)
  BY <1>1, <1>2, <1>3 DEF Begins
<1>5. <<>> \in Seq(Plain) /\ <<>> \in Seq(Seq(Plain))
  BY EmptySeq
<1> QED BY <1>1, <1>2, <1>4, <1>5 DEF ReadsLength

-----------------------------------------------------------------------------
(* The socket                                                              *)

\* Of the messages sent, how many were taken from the socket.
Taken == Len(sent) - Len(socket)

\* The socket holds the last of what was sent.
OnTheirWay ==
  /\ Len(socket) <= Len(sent)
  /\ \A i \in 1..Len(socket) : socket[i] = FromServer(sent[Taken + i])

\* The lengths are numbers.
LEMMA Lengths ==
  ASSUME NEW S, sent \in Seq(S), socket \in Seq(Seq(Plain)), OnTheirWay
  PROVE  Len(sent) \in Nat /\ Len(socket) \in Nat /\ Taken \in 0..Len(sent)
<1>1. Len(sent) \in Nat /\ Len(socket) \in Nat
  BY LenProperties
<1> QED BY <1>1 DEF OnTheirWay, Taken

\* What is sent goes to the end of the socket.
LEMMA Sending ==
  ASSUME NEW S, sent \in Seq(S), socket \in Seq(Seq(Plain)), OnTheirWay,
         NEW i \in S, FromServer(i) \in Seq(Plain),
         sent' = Append(sent, i), socket' = Append(socket, FromServer(i))
  PROVE  /\ sent' \in Seq(S) /\ socket' \in Seq(Seq(Plain)) /\ OnTheirWay' /\ Taken' = Taken
         /\ Len(sent') = Len(sent) + 1 /\ \A n \in 1..Len(sent) : sent'[n] = sent[n]
<1>5. /\ sent' \in Seq(S) /\ Len(sent') = Len(sent) + 1 /\ sent'[Len(sent) + 1] = i
      /\ \A n \in 1..Len(sent) : sent'[n] = sent[n]
  BY AppendProperties
<1>6. /\ socket' \in Seq(Seq(Plain)) /\ Len(socket') = Len(socket) + 1
      /\ socket'[Len(socket) + 1] = FromServer(i)
      /\ \A n \in 1..Len(socket) : socket'[n] = socket[n]
  BY AppendProperties
<1>7. Len(sent) \in Nat /\ Len(socket) \in Nat /\ Taken \in Nat /\ Len(socket) <= Len(sent)
  BY Lengths DEF OnTheirWay
<1>8. Taken' = Taken
  BY <1>5, <1>6, <1>7 DEF Taken
<1>9. Len(socket') <= Len(sent')
  BY <1>5, <1>6, <1>7
<1>10. ASSUME NEW n \in 1..Len(socket') PROVE socket'[n] = FromServer(sent'[Taken + n])
  <2>1. CASE n = Len(socket) + 1
    <3>1. Taken + n = Len(sent) + 1
      BY <1>7, <2>1 DEF Taken
    <3> QED BY <1>5, <1>6, <2>1, <3>1
  <2>2. CASE n # Len(socket) + 1
    <3>1. n \in 1..Len(socket) /\ Taken + n \in 1..Len(sent)
      BY <1>6, <1>7, <2>2 DEF Taken
    <3>2. socket[n] = FromServer(sent[Taken + n])
      BY <3>1 DEF OnTheirWay
    <3> QED BY <1>5, <1>6, <3>1, <3>2
  <2> QED BY <2>1, <2>2
<1> QED BY <1>5, <1>6, <1>8, <1>9, <1>10 DEF OnTheirWay

\* What is taken from its front is the next message.
LEMMA Taking ==
  ASSUME NEW S, sent \in Seq(S), socket \in Seq(Seq(Plain)), OnTheirWay,
         socket # <<>>, socket' = Tail(socket), UNCHANGED sent
  PROVE  /\ socket' \in Seq(Seq(Plain)) /\ OnTheirWay'
         /\ Taken' = Taken + 1 /\ Taken' \in 1..Len(sent)
         /\ Head(socket) = FromServer(sent[Taken'])
<1>4. /\ Len(sent) \in Nat /\ Len(socket) \in Nat /\ Taken \in Nat /\ Len(socket) <= Len(sent)
      /\ \A n \in 1..Len(socket) : socket[n] = FromServer(sent[Taken + n])
  BY Lengths DEF OnTheirWay
<1>5. /\ socket' \in Seq(Seq(Plain)) /\ Len(socket') = Len(socket) - 1
      /\ \A n \in 1..Len(socket') : socket'[n] = socket[n + 1]
      /\ Head(socket) = socket[1]
  BY HeadTailProperties
<1>6. Len(socket) > 0
  <2>1. Len(socket) \in Nat \ {0}
    BY EmptySeq
  <2> QED BY <2>1
<1>7. Taken' = Taken + 1 /\ Taken' \in 1..Len(sent)
  BY <1>4, <1>5, <1>6 DEF Taken
<1>8. 1 \in 1..Len(socket)
  BY <1>4, <1>6
<1>9. Head(socket) = FromServer(sent[Taken'])
  BY <1>4, <1>5, <1>7, <1>8
<1>10. Len(socket') <= Len(sent')
  BY <1>4, <1>5
<1>11. ASSUME NEW n \in 1..Len(socket') PROVE socket'[n] = FromServer(sent'[Taken' + n])
  <2>1. n + 1 \in 1..Len(socket) /\ Taken + (n + 1) = Taken' + n
    BY <1>4, <1>5, <1>7
  <2>2. socket[n + 1] = FromServer(sent[Taken + (n + 1)])
    BY <1>4, <2>1
  <2> QED BY <1>5, <2>1, <2>2
<1> QED BY <1>5, <1>7, <1>9, <1>10, <1>11 DEF OnTheirWay

-----------------------------------------------------------------------------
(* The reading goroutine                                                   *)

\* Nothing beyond plain characters is sent.
PlainVocabulary == Vocabulary \subseteq Seq(Seq(Plain))

\* What the server has yet to parse of the messages it has taken.
Rest == buffer \o (IF message = <<>> THEN <<>> ELSE message[1])

ReaderTypes ==
  /\ sent \in Seq(Vocabulary) /\ socket \in Seq(Seq(Plain))
  /\ message = <<>> \/ \E m \in Seq(Plain) : message = <<m>>
  /\ buffer \in Seq(Plain) /\ received \in Seq(Vocabulary) /\ failed = FALSE

\* Between two instructions there is nothing left of a message, nor of an instruction.
Between ==
  /\ Rest = <<>> /\ Len(received) = Taken
  /\ stage = "length" /\ token = <<>> /\ elements = <<>>

\* All behind the index p is still to be parsed.
Unread(ins, p) ==
  /\ Len(Rest) = Len(FromServer(ins)) - p
  /\ \A i \in 1..Len(Rest) : Rest[i] = FromServer(ins)[p + i]

Reads(ins, p) ==
  \/ stage = "length" /\ ReadsLength(ins, p, token, elements)
  \/ stage = "content" /\ ReadsContent(ins, p, token, length, elements)
  \/ stage = "delimiter" /\ ReadsDelimiter(ins, p, token, elements)

\* Within one, the parser is where the stream is, in the last message taken.
Within ==
  /\ Len(received) + 1 = Taken
  /\ \E p \in Nat : Unread(sent[Taken], p) /\ Reads(sent[Taken], p)

ReaderInv == ReaderTypes /\ OnTheirWay /\ Begins(received, sent) /\ (Between \/ Within)

\* What follows from the types.
LEMMA ReaderFacts ==
  ASSUME ReaderTypes, OnTheirWay
  PROVE  /\ Rest \in Seq(Plain) /\ Len(Rest) \in Nat
         /\ Len(sent) \in Nat /\ Len(socket) \in Nat /\ Len(received) \in Nat /\ Taken \in Nat
<1>1. Len(sent) \in Nat /\ Len(socket) \in Nat /\ Len(received) \in Nat
  BY LenProperties DEF ReaderTypes
<1>2. Taken \in Nat
  BY <1>1 DEF OnTheirWay, Taken
<1> DEFINE r == IF message = <<>> THEN <<>> ELSE message[1]
<1>3. r \in Seq(Plain)
  <2>1. CASE message = <<>>
    BY <2>1, EmptySeq
  <2>2. CASE message # <<>>
    BY <2>2 DEF ReaderTypes
  <2> QED BY <2>1, <2>2
<1> HIDE DEF r
<1>4. buffer \o r \in Seq(Plain)
  BY <1>3, ConcatProperties DEF ReaderTypes
<1>5. Rest \in Seq(Plain)
  BY <1>4 DEF Rest, r
<1>6. Len(Rest) \in Nat
  BY <1>5, LenProperties
<1> QED BY <1>1, <1>2, <1>5, <1>6

\* What was sent is plain.
LEMMA SentIsWritten ==
  ASSUME PlainVocabulary, NEW n \in 1..Len(sent), ReaderTypes
  PROVE  sent[n] \in Vocabulary /\ Written(sent[n])
<1>1. sent[n] \in Vocabulary
  BY ElementOfSeq DEF ReaderTypes
<1> QED BY <1>1, MessagesAssumption DEF PlainVocabulary, Written

\* The parser never is at the end of an instruction it is within.
LEMMA ReadsInside ==
  ASSUME NEW ins, Written(ins), NEW p, Reads(ins, p)
  PROVE  p \in Nat /\ p < Len(FromServer(ins))
<1>1. CASE stage = "length"
  BY <1>1, LengthOctet DEF Reads
<1>2. CASE stage = "content"
  BY <1>2, ContentOctet DEF Reads
<1>3. CASE stage = "delimiter"
  BY <1>3, DelimiterOctet DEF Reads
<1> QED BY <1>1, <1>2, <1>3 DEF Reads

\* With nothing to parse the parser is between two instructions.
LEMMA NothingLeft ==
  ASSUME PlainVocabulary, ReaderInv, Rest = <<>>
  PROVE  Between
<1>1. SUFFICES ASSUME Within PROVE FALSE
  BY DEF ReaderInv
<1>2. Taken \in Nat /\ Len(received) \in Nat /\ Len(sent) \in Nat /\ Len(socket) \in Nat
  BY ReaderFacts DEF ReaderInv
<1>3. Taken \in 1..Len(sent)
  BY <1>1, <1>2 DEF Within, Taken
<1>4. Written(sent[Taken])
  BY <1>3, SentIsWritten DEF ReaderInv
<1>5. PICK p \in Nat : Unread(sent[Taken], p) /\ Reads(sent[Taken], p)
  BY <1>1 DEF Within
<1> DEFINE code == FromServer(sent[Taken])
<1>6. p < Len(code)
  BY <1>4, <1>5, ReadsInside
<1>7. Len(code) \in Nat
  BY <1>4, Whole
<1>8. Len(<<>>) = Len(code) - p /\ Len(<<>>) = 0
  BY <1>5 DEF Unread
<1> HIDE DEF code
<1> QED BY <1>6, <1>7, <1>8

\* Nothing was received yet.
LEMMA ReaderInitially ==
  ASSUME Init PROVE ReaderInv
<1>1. /\ sent = <<>> /\ socket = <<>> /\ message = <<>> /\ buffer = <<>> /\ stage = "length"
      /\ token = <<>> /\ elements = <<>> /\ received = <<>> /\ failed = FALSE
  BY DEF Init
<1>2. \A S : <<>> \in Seq(S)
  BY EmptySeq
<1>3. Len(<<>>) = 0
  OBVIOUS
<1>4. ReaderTypes
  BY <1>1, <1>2 DEF ReaderTypes
<1>5. OnTheirWay /\ Begins(received, sent)
  BY <1>1, <1>3 DEF OnTheirWay, Begins
<1>6. <<>> \o <<>> = <<>>
  OBVIOUS
<1>7. Rest = <<>> /\ Len(received) = Taken
  BY <1>1, <1>3, <1>6 DEF Rest, Taken
<1> QED BY <1>1, <1>4, <1>5, <1>7 DEF ReaderInv, Between

\* What is sent goes to the end of the socket.
LEMMA SendKeeps ==
  ASSUME PlainVocabulary, ReaderInv, NEW i \in Vocabulary, SendMessage(i)
  PROVE  ReaderInv'
<1>1. /\ sent' = Append(sent, i) /\ socket' = Append(socket, FromBrowser(i))
      /\ UNCHANGED <<message, buffer>> /\ UNCHANGED <<stage, token, length, elements, received, failed>>
  BY DEF SendMessage, parser
<1>2. Written(i)
  BY MessagesAssumption DEF PlainVocabulary, Written
<1>3. FromBrowser(i) = FromServer(i) /\ FromServer(i) \in Seq(Plain)
  BY <1>2, Whole
<1>4. sent \in Seq(Vocabulary) /\ socket \in Seq(Seq(Plain)) /\ OnTheirWay
  BY DEF ReaderInv, ReaderTypes
<1>5. /\ sent' \in Seq(Vocabulary) /\ socket' \in Seq(Seq(Plain)) /\ OnTheirWay' /\ Taken' = Taken
      /\ Len(sent') = Len(sent) + 1 /\ \A n \in 1..Len(sent) : sent'[n] = sent[n]
  <2>1. sent' = Append(sent, i) /\ socket' = Append(socket, FromServer(i))
    BY <1>1, <1>3
  <2> QED BY <1>3, <1>4, <2>1, Sending
<1>7. Len(sent) \in Nat /\ Len(socket) \in Nat /\ Len(received) \in Nat /\ Taken \in Nat
  BY ReaderFacts DEF ReaderInv
<1>8. Taken' = Taken /\ Rest' = Rest
  BY <1>1, <1>5 DEF Rest
<1>9. ReaderTypes'
  BY <1>1, <1>5 DEF ReaderInv, ReaderTypes
<1>10. OnTheirWay'
  BY <1>5
<1>11. Begins(received', sent')
  <2>1. Begins(received, sent)
    BY DEF ReaderInv
  <2>2. Len(received) <= Len(sent)
    BY <2>1 DEF Begins
  <2>3. Len(received) <= Len(sent') /\ \A n \in 1..Len(received) : n \in 1..Len(sent)
    BY <1>5, <1>7, <2>2
  <2>4. \A n \in 1..Len(received) : received[n] = sent'[n]
    BY <1>5, <2>1, <2>3 DEF Begins
  <2> QED BY <1>1, <2>3, <2>4 DEF Begins
<1>12. ASSUME Between PROVE Between'
  BY <1>1, <1>8, <1>12 DEF Between
<1>13. ASSUME Within PROVE Within'
  <2>1. Taken \in 1..Len(sent)
    BY <1>7, <1>13 DEF Within, Taken
  <2>2. sent'[Taken] = sent[Taken]
    BY <1>5, <2>1
  <2>5. PICK p \in Nat : Unread(sent[Taken], p) /\ Reads(sent[Taken], p)
    BY <1>13 DEF Within
  <2>6. Len(received') + 1 = Taken'
    BY <1>1, <1>8, <1>13 DEF Within
  <2>7. Len(Rest') = Len(FromServer(sent'[Taken'])) - p
        /\ \A n \in 1..Len(Rest') : Rest'[n] = FromServer(sent'[Taken'])[p + n]
    BY <1>8, <2>2, <2>5 DEF Unread
  <2>8. \/ stage' = "length" /\ ReadsLength(sent'[Taken'], p, token', elements')
        \/ stage' = "content" /\ ReadsContent(sent'[Taken'], p, token', length', elements')
        \/ stage' = "delimiter" /\ ReadsDelimiter(sent'[Taken'], p, token', elements')
    BY <1>1, <1>8, <2>2, <2>5 DEF Reads
  <2> QED BY <2>6, <2>7, <2>8 DEF Within, Unread, Reads
<1> QED BY <1>9, <1>10, <1>11, <1>12, <1>13 DEF ReaderInv

\* A further message is taken when nothing of the last one is left.
LEMMA NextReaderKeeps ==
  ASSUME PlainVocabulary, ReaderInv, NextReader
  PROVE  ReaderInv'
<1>1. /\ buffer = <<>> /\ message = <<>> /\ socket # <<>>
      /\ message' = <<Head(socket)>> /\ socket' = Tail(socket)
      /\ UNCHANGED <<sent, buffer>> /\ UNCHANGED <<stage, token, length, elements, received, failed>>
  BY DEF NextReader, Filling, parser
<1>2. Rest = <<>>
  <2>1. <<>> \o <<>> = <<>>
    OBVIOUS
  <2> QED BY <1>1, <2>1 DEF Rest
<1>3. Between
  BY <1>2, NothingLeft
<1>4. sent \in Seq(Vocabulary) /\ socket \in Seq(Seq(Plain)) /\ OnTheirWay
  BY DEF ReaderInv, ReaderTypes
<1>5. /\ socket' \in Seq(Seq(Plain)) /\ OnTheirWay'
      /\ Taken' = Taken + 1 /\ Taken' \in 1..Len(sent) /\ Head(socket) = FromServer(sent[Taken'])
  BY <1>1, <1>4, Taking
<1>7. Taken' = Taken + 1 /\ Taken' \in 1..Len(sent)
  BY <1>5
<1> DEFINE ins == sent[Taken']
<1>8. Written(ins)
  BY <1>7, SentIsWritten DEF ReaderInv
<1>9. Head(socket) = FromServer(ins) /\ FromServer(ins) \in Seq(Plain)
  BY <1>5, <1>8, Whole
<1>10. Rest' = FromServer(ins)
  <2>1. Rest' = buffer' \o message'[1]
    BY <1>1 DEF Rest
  <2>2. Rest' = <<>> \o FromServer(ins)
    BY <1>1, <1>9, <2>1
  <2>3. FromServer(ins) \in Seq(Plain)
    BY <1>8, Whole
  <2> HIDE DEF ins
  <2> QED BY <2>2, <2>3, ConcatEmptySeq
<1>11. ReaderTypes'
  BY <1>1, <1>5, <1>9 DEF ReaderInv, ReaderTypes
<1>12. OnTheirWay'
  BY <1>5
<1>13. Begins(received', sent')
  BY <1>1 DEF ReaderInv
<1>14. Within'
  <2>1. Len(received') + 1 = Taken'
    BY <1>1, <1>3, <1>7 DEF Between
  <2>2. ReadsLength(ins, 0, token', elements') /\ stage' = "length"
    BY <1>1, <1>3, <1>8, NothingRead DEF Between
  <2>3. sent'[Taken'] = ins /\ 0 \in Nat
    BY <1>1
  <2>4. Len(FromServer(ins)) \in Nat
    BY <1>8, Whole
  <2> HIDE DEF ins
  <2>5. Len(Rest') = Len(FromServer(ins)) - 0
        /\ \A n \in 1..Len(Rest') : Rest'[n] = FromServer(ins)[0 + n]
    <3>1. \A n \in 1..Len(FromServer(ins)) : 0 + n = n
      BY <2>4
    <3> QED BY <1>10, <2>4, <3>1
  <2> QED BY <2>1, <2>2, <2>3, <2>5 DEF Within, Unread, Reads
<1> QED BY <1>11, <1>12, <1>13, <1>14 DEF ReaderInv

\* A step that leaves what is to be parsed, the parser and the messages alone.
LEMMA SameRest ==
  ASSUME ReaderInv, Rest' = Rest, ReaderTypes',
         UNCHANGED <<sent, socket>>, UNCHANGED <<stage, token, length, elements, received, failed>>
  PROVE  ReaderInv'
<1>1. Taken' = Taken
  BY DEF Taken
<1>2. OnTheirWay' /\ Begins(received', sent')
  BY <1>1 DEF ReaderInv, OnTheirWay
<1>3. ASSUME Between PROVE Between'
  BY <1>1, <1>3 DEF Between
<1>4. ASSUME Within PROVE Within'
  <2>1. PICK p \in Nat : Unread(sent[Taken], p) /\ Reads(sent[Taken], p)
    BY <1>4 DEF Within
  <2>2. Len(received') + 1 = Taken'
    BY <1>1, <1>4 DEF Within
  <2>3. Len(Rest') = Len(FromServer(sent'[Taken'])) - p
        /\ \A n \in 1..Len(Rest') : Rest'[n] = FromServer(sent'[Taken'])[p + n]
    BY <1>1, <2>1 DEF Unread
  <2>4. \/ stage' = "length" /\ ReadsLength(sent'[Taken'], p, token', elements')
        \/ stage' = "content" /\ ReadsContent(sent'[Taken'], p, token', length', elements')
        \/ stage' = "delimiter" /\ ReadsDelimiter(sent'[Taken'], p, token', elements')
    BY <1>1, <2>1 DEF Reads
  <2> QED BY <2>2, <2>3, <2>4 DEF Within, Unread, Reads
<1> QED BY <1>2, <1>3, <1>4 DEF ReaderInv

\* A read moves octets from the message to the buffer.
LEMMA ReadKeeps ==
  ASSUME ReaderInv, NEW n \in 0..BufferSize, Read(n)
  PROVE  ReaderInv'
<1> DEFINE m == message[1]
           rest == SubSeq(m, n + 1, Len(m))
<1>1. /\ buffer = <<>> /\ message # <<>> /\ n <= Len(m)
      /\ \/ n > 0 /\ message' = <<rest>>
         \/ rest = <<>> /\ message' = <<>>
      /\ buffer' = SubSeq(m, 1, n)
      /\ UNCHANGED <<sent, socket>> /\ UNCHANGED <<stage, token, length, elements, received, failed>>
  BY DEF Read, Filling, parser
<1>2. m \in Seq(Plain)
  BY <1>1 DEF ReaderInv, ReaderTypes
<1> HIDE DEF m
<1>3. Len(m) \in Nat /\ n \in Nat /\ \A i \in 1..Len(m) : m[i] \in Plain
  BY <1>2, LenProperties, InstructionReaderAssumption
<1>4. SubSeq(m, 1, n) \in Seq(Plain) /\ rest \in Seq(Plain)
  <2>1. \A i \in 1..n : m[i] \in Plain
    BY <1>1, <1>3
  <2>2. \A i \in (n + 1)..Len(m) : m[i] \in Plain
    BY <1>3
  <2>3. n + 1 \in Int /\ 1 \in Int /\ n \in Int /\ Len(m) \in Int
    BY <1>3
  <2> QED BY <2>1, <2>2, <2>3, SubSeqProperties
<1>5. SubSeq(m, 1, n) \o rest = m
  <2>1. 1 \in 1..(Len(m) + 1) /\ n \in (1 - 1)..Len(m) /\ Len(m) \in n..Len(m)
    BY <1>1, <1>3
  <2>2. SubSeq(m, 1, n) \o rest = SubSeq(m, 1, Len(m))
    BY <1>2, <2>1, ConcatAdjacentSubSeq
  <2> HIDE DEF rest
  <2> QED BY <1>2, <2>2, SubSeqFull
<1> HIDE DEF rest
<1>6. Rest = m
  <2>1. Rest = <<>> \o m
    BY <1>1 DEF Rest, m
  <2> QED BY <1>2, <2>1, ConcatEmptySeq
<1>7. Rest' = m
  <2>1. CASE message' = <<rest>>
    <3>1. Rest' = buffer' \o rest
      BY <2>1 DEF Rest
    <3> QED BY <1>1, <1>5, <3>1
  <2>2. CASE rest = <<>> /\ message' = <<>>
    <3>1. Rest' = buffer' \o <<>>
      BY <2>2 DEF Rest
    <3> QED BY <1>1, <1>5, <2>2, <3>1
  <2> QED BY <1>1, <2>1, <2>2
<1>8. ReaderTypes'
  <2>1. message' = <<>> \/ \E x \in Seq(Plain) : message' = <<x>>
    BY <1>1, <1>4
  <2> QED BY <1>1, <1>4, <2>1 DEF ReaderInv, ReaderTypes
<1> QED BY <1>1, <1>6, <1>7, <1>8, SameRest

\* The parser takes an octet from the stream: the next one of the instruction it is within.
LEMMA Consuming ==
  ASSUME PlainVocabulary, ReaderInv, Consume, UNCHANGED <<sent, socket, message>>
  PROVE  /\ Within /\ Taken' = Taken /\ Taken \in 1..Len(sent)
         /\ Written(sent[Taken]) /\ sent'[Taken'] = sent[Taken]
         /\ buffer' \in Seq(Plain) /\ OnTheirWay'
         /\ \E p \in Nat : /\ Reads(sent[Taken], p) /\ p < Len(FromServer(sent[Taken]))
                           /\ Octet = FromServer(sent[Taken])[p + 1]
                           /\ Len(Rest') = Len(FromServer(sent[Taken])) - (p + 1)
                           /\ \A i \in 1..Len(Rest') :
                                Rest'[i] = FromServer(sent[Taken])[p + 1 + i]
<1> DEFINE r == IF message = <<>> THEN <<>> ELSE message[1]
<1>1. buffer # <<>> /\ buffer' = Tail(buffer) /\ buffer \in Seq(Plain)
  BY DEF Consume, ReaderInv, ReaderTypes
<1>2. /\ Len(sent) \in Nat /\ Len(socket) \in Nat /\ Len(received) \in Nat /\ Taken \in Nat
      /\ Rest \in Seq(Plain) /\ Len(Rest) \in Nat
  BY ReaderFacts DEF ReaderInv
<1>3. /\ buffer' \in Seq(Plain) /\ Len(buffer') = Len(buffer) - 1
      /\ \A i \in 1..Len(buffer') : buffer'[i] = buffer[i + 1]
  BY <1>1, HeadTailProperties
<1>4. Octet = buffer[1] /\ Len(buffer) \in Nat /\ Len(buffer) > 0
  <2>1. Len(buffer) \in Nat \ {0}
    BY <1>1, EmptySeq
  <2> QED BY <1>1, <2>1 DEF Octet
<1>5. r \in Seq(Plain)
  <2>1. CASE message = <<>>
    BY <2>1, EmptySeq
  <2>2. CASE message # <<>>
    BY <2>2 DEF ReaderInv, ReaderTypes
  <2> QED BY <2>1, <2>2
<1>6. Rest = buffer \o r /\ Rest' = buffer' \o r
  BY DEF Rest
<1> HIDE DEF r
<1>7. Len(r) \in Nat
  BY <1>5, LenProperties
<1>8. /\ Len(Rest) = Len(buffer) + Len(r)
      /\ \A i \in 1..(Len(buffer) + Len(r)) :
           Rest[i] = IF i <= Len(buffer) THEN buffer[i] ELSE r[i - Len(buffer)]
  BY <1>1, <1>5, <1>6, ConcatProperties
<1>9. /\ Len(Rest') = Len(buffer') + Len(r)
      /\ \A i \in 1..(Len(buffer') + Len(r)) :
           Rest'[i] = IF i <= Len(buffer') THEN buffer'[i] ELSE r[i - Len(buffer')]
  BY <1>3, <1>5, <1>6, ConcatProperties
<1>10. Octet = Rest[1] /\ Len(Rest) > 0
  <2>1. 1 \in 1..(Len(buffer) + Len(r)) /\ 1 <= Len(buffer)
    BY <1>4, <1>7
  <2> QED BY <1>4, <1>7, <1>8, <2>1
<1>11. Len(Rest') = Len(Rest) - 1
  BY <1>3, <1>4, <1>7, <1>8, <1>9
<1>12. ASSUME NEW i \in 1..Len(Rest') PROVE Rest'[i] = Rest[i + 1]
  <2>1. i \in 1..(Len(buffer') + Len(r)) /\ i + 1 \in 1..(Len(buffer) + Len(r))
    BY <1>3, <1>4, <1>7, <1>9
  <2>2. CASE i <= Len(buffer')
    <3>1. i \in 1..Len(buffer') /\ i + 1 <= Len(buffer)
      BY <1>3, <1>4, <2>1, <2>2
    <3> QED BY <1>3, <1>8, <1>9, <2>1, <2>2, <3>1
  <2>3. CASE ~(i <= Len(buffer'))
    <3>1. ~(i + 1 <= Len(buffer)) /\ (i + 1) - Len(buffer) = i - Len(buffer')
      BY <1>3, <1>4, <2>1, <2>3
    <3> QED BY <1>8, <1>9, <2>1, <2>3, <3>1
  <2> QED BY <2>2, <2>3
<1>13. Within
  <2>1. ASSUME Between PROVE FALSE
    BY <1>10, <2>1 DEF Between
  <2> QED BY <2>1 DEF ReaderInv
<1>14. Taken \in 1..Len(sent) /\ Taken' = Taken
  BY <1>2, <1>13 DEF Within, Taken
<1>15. Written(sent[Taken])
  BY <1>14, SentIsWritten DEF ReaderInv
<1>16. PICK p \in Nat : Unread(sent[Taken], p) /\ Reads(sent[Taken], p)
  BY <1>13 DEF Within
<1> DEFINE code == FromServer(sent[Taken])
<1>17. p < Len(code) /\ Len(code) \in Nat
  BY <1>15, <1>16, ReadsInside, Whole
<1>18. Len(Rest) = Len(code) - p /\ \A i \in 1..Len(Rest) : Rest[i] = code[p + i]
  BY <1>16 DEF Unread
<1>19. OnTheirWay'
  BY <1>14 DEF ReaderInv, OnTheirWay
<1>0. sent'[Taken'] = sent[Taken]
  BY <1>14
<1>a. Reads(sent[Taken], p)
  BY <1>16
<1> HIDE DEF code
<1>20. Octet = code[p + 1]
  <2>1. 1 \in 1..Len(Rest)
    BY <1>2, <1>10
  <2> QED BY <1>10, <1>18, <2>1
<1>21. Len(Rest') = Len(code) - (p + 1)
  BY <1>2, <1>11, <1>17, <1>18
<1>22. ASSUME NEW i \in 1..Len(Rest') PROVE Rest'[i] = code[p + 1 + i]
  <2>1. i + 1 \in 1..Len(Rest) /\ p + (i + 1) = p + 1 + i
    BY <1>2, <1>11
  <2> QED BY <1>12, <1>18, <2>1
<1> QED BY <1>0, <1>a, <1>3, <1>13, <1>14, <1>15, <1>17, <1>19, <1>20, <1>21, <1>22 DEF code

\* An octet further in the same instruction.
LEMMA Within1 ==
  ASSUME NEW ins, NEW p \in Nat, sent'[Taken'] = ins, Len(received') + 1 = Taken',
         Len(Rest') = Len(FromServer(ins)) - (p + 1),
         \A i \in 1..Len(Rest') : Rest'[i] = FromServer(ins)[p + 1 + i],
         Reads(ins, p + 1)'
  PROVE  Within'
<1>1. p + 1 \in Nat
  OBVIOUS
<1>2. Unread(ins, p + 1)'
  BY DEF Unread
<1>3. Unread(sent[Taken], p + 1)' /\ Reads(sent[Taken], p + 1)'
  BY <1>2 DEF Unread, Reads
<1> QED BY <1>1, <1>3 DEF Within

\* ReadString('.') and Atoi.
LEMMA ReadLengthKeeps ==
  ASSUME PlainVocabulary, ReaderInv, ReadLength
  PROVE  ReaderInv' /\ UNCHANGED <<sent, received>>
<1>1. /\ stage = "length" /\ Consume
      /\ UNCHANGED <<sent, socket, message, received>>
  BY DEF ReadLength
<1>2. PICK p \in Nat : /\ Reads(sent[Taken], p) /\ p < Len(FromServer(sent[Taken]))
                       /\ Octet = FromServer(sent[Taken])[p + 1]
                       /\ Len(Rest') = Len(FromServer(sent[Taken])) - (p + 1)
                       /\ \A i \in 1..Len(Rest') : Rest'[i] = FromServer(sent[Taken])[p + 1 + i]
  BY <1>1, Consuming
<1>3. /\ Within /\ Taken' = Taken /\ Taken \in 1..Len(sent)
      /\ Written(sent[Taken]) /\ sent'[Taken'] = sent[Taken]
      /\ buffer' \in Seq(Plain) /\ OnTheirWay'
  BY <1>1, Consuming
<1>0. PICK ins : ins = sent[Taken]
  OBVIOUS
<1>4. ReadsLength(ins, p, token, elements)
  BY <1>0, <1>1, <1>2 DEF Reads
<1>5. /\ Octet # Dot => ReadsLength(ins, p + 1, Append(token, Octet), elements)
      /\ Octet = Dot =>
           /\ token # <<>> /\ \A i \in DOMAIN token : token[i] \in Digit
           /\ Value(token) = 0 => ReadsDelimiter(ins, p + 1, <<>>, Append(elements, <<>>))
           /\ Value(token) # 0 => ReadsContent(ins, p + 1, <<>>, Value(token), elements)
  BY <1>0, <1>2, <1>3, <1>4, LengthOctet
<1>6. Len(received') + 1 = Taken' /\ sent'[Taken'] = ins
  BY <1>0, <1>1, <1>3 DEF Within
<1>7. \/ /\ Octet # Dot /\ stage' = "length" /\ token' = Append(token, Octet)
         /\ UNCHANGED <<length, failed, elements>>
      \/ /\ Octet = Dot /\ Value(token) = 0 /\ stage' = "delimiter" /\ token' = <<>>
         /\ elements' = Append(elements, <<>>) /\ UNCHANGED failed
      \/ /\ Octet = Dot /\ Value(token) # 0 /\ stage' = "content" /\ token' = <<>>
         /\ length' = Value(token) /\ UNCHANGED <<elements, failed>>
  <2>1. CASE Octet # Dot
    BY <1>1, <2>1 DEF ReadLength
  <2>2. CASE Octet = Dot
    <3>1. token # <<>> /\ \A i \in DOMAIN token : token[i] \in Digit
      BY <1>5, <2>2
    <3>2. length' = Value(token) /\ ToStage(IF Value(token) = 0 THEN "delimiter" ELSE "content")
          /\ UNCHANGED failed
      BY <2>2, <3>1 DEF ReadLength
    <3>3. IF stage' = "delimiter" THEN elements' = Append(elements, <<>>) ELSE UNCHANGED elements
      BY DEF ReadLength
    <3> QED BY <2>2, <3>2, <3>3 DEF ToStage
  <2> QED BY <2>1, <2>2
<1>8. Reads(ins, p + 1)' /\ failed' = failed
  <2>1. CASE Octet # Dot /\ stage' = "length" /\ token' = Append(token, Octet)
             /\ UNCHANGED <<length, failed, elements>>
    BY <1>5, <2>1 DEF Reads
  <2>2. CASE Octet = Dot /\ Value(token) = 0 /\ stage' = "delimiter" /\ token' = <<>>
             /\ elements' = Append(elements, <<>>) /\ UNCHANGED failed
    BY <1>5, <2>2 DEF Reads
  <2>3. CASE Octet = Dot /\ Value(token) # 0 /\ stage' = "content" /\ token' = <<>>
             /\ length' = Value(token) /\ UNCHANGED <<elements, failed>>
    BY <1>5, <2>3 DEF Reads
  <2> QED BY <1>7, <2>1, <2>2, <2>3
<1>9. Within'
  BY <1>0, <1>2, <1>6, <1>8, Within1
<1>10. ReaderTypes' /\ Begins(received', sent')
  BY <1>1, <1>3, <1>8 DEF ReaderInv, ReaderTypes
<1> QED BY <1>1, <1>3, <1>9, <1>10 DEF ReaderInv

\* io.ReadFull.
LEMMA ReadContentKeeps ==
  ASSUME PlainVocabulary, ReaderInv, ReadContent
  PROVE  ReaderInv' /\ UNCHANGED <<sent, received>>
<1>1. /\ stage = "content" /\ Consume
      /\ UNCHANGED <<sent, socket, message, length, received, failed>>
      /\ IF Len(token) + 1 = length
         THEN /\ stage' = "delimiter" /\ token' = <<>>
              /\ elements' = Append(elements, Append(token, Octet))
         ELSE token' = Append(token, Octet) /\ UNCHANGED <<stage, elements>>
  BY DEF ReadContent, ToStage
<1>2. PICK p \in Nat : /\ Reads(sent[Taken], p) /\ p < Len(FromServer(sent[Taken]))
                       /\ Octet = FromServer(sent[Taken])[p + 1]
                       /\ Len(Rest') = Len(FromServer(sent[Taken])) - (p + 1)
                       /\ \A i \in 1..Len(Rest') : Rest'[i] = FromServer(sent[Taken])[p + 1 + i]
  BY <1>1, Consuming
<1>3. /\ Within /\ Taken' = Taken /\ Taken \in 1..Len(sent)
      /\ Written(sent[Taken]) /\ sent'[Taken'] = sent[Taken]
      /\ buffer' \in Seq(Plain) /\ OnTheirWay'
  BY <1>1, Consuming
<1>0. PICK ins : ins = sent[Taken]
  OBVIOUS
<1>4. ReadsContent(ins, p, token, length, elements)
  BY <1>0, <1>1, <1>2 DEF Reads
<1>5. /\ Len(token) + 1 = length =>
           ReadsDelimiter(ins, p + 1, <<>>, Append(elements, Append(token, Octet)))
      /\ Len(token) + 1 # length => ReadsContent(ins, p + 1, Append(token, Octet), length, elements)
  BY <1>0, <1>2, <1>3, <1>4, ContentOctet
<1>6. Len(received') + 1 = Taken' /\ sent'[Taken'] = ins
  BY <1>0, <1>1, <1>3 DEF Within
<1>7. Reads(ins, p + 1)'
  <2>1. CASE Len(token) + 1 = length
    BY <1>1, <1>5, <2>1 DEF Reads
  <2>2. CASE Len(token) + 1 # length
    BY <1>1, <1>5, <2>2 DEF Reads
  <2> QED BY <2>1, <2>2
<1>8. Within'
  BY <1>0, <1>2, <1>6, <1>7, Within1
<1>9. ReaderTypes' /\ Begins(received', sent')
  BY <1>1, <1>3 DEF ReaderInv, ReaderTypes
<1> QED BY <1>1, <1>3, <1>8, <1>9 DEF ReaderInv

\* The delimiter: the instruction goes on or is returned, as it was sent.
LEMMA ReadDelimiterKeeps ==
  ASSUME PlainVocabulary, ReaderInv, ReadDelimiter
  PROVE  /\ ReaderInv' /\ UNCHANGED sent
         /\ \/ UNCHANGED received
            \/ /\ Len(received) < Len(sent)
               /\ received' = Append(received, sent[Len(received) + 1])
<1>1. /\ stage = "delimiter" /\ Consume /\ stage' = "length" /\ token' = <<>>
      /\ UNCHANGED <<sent, socket, message, length>>
  BY DEF ReadDelimiter, ToStage
<1>2. PICK p \in Nat : /\ Reads(sent[Taken], p) /\ p < Len(FromServer(sent[Taken]))
                       /\ Octet = FromServer(sent[Taken])[p + 1]
                       /\ Len(Rest') = Len(FromServer(sent[Taken])) - (p + 1)
                       /\ \A i \in 1..Len(Rest') : Rest'[i] = FromServer(sent[Taken])[p + 1 + i]
  BY <1>1, Consuming
<1>3. /\ Within /\ Taken' = Taken /\ Taken \in 1..Len(sent)
      /\ Written(sent[Taken]) /\ sent'[Taken'] = sent[Taken]
      /\ buffer' \in Seq(Plain) /\ OnTheirWay'
  BY <1>1, Consuming
<1>0. PICK ins : ins = sent[Taken]
  OBVIOUS
<1>4. ReadsDelimiter(ins, p, token, elements)
  BY <1>0, <1>1, <1>2 DEF Reads
<1>5. \/ Octet = Semicolon /\ elements = ins /\ p + 1 = Len(FromServer(ins))
      \/ Octet = Comma /\ ReadsLength(ins, p + 1, <<>>, elements)
  BY <1>0, <1>2, <1>3, <1>4, DelimiterOctet
<1>6. Len(received) + 1 = Taken /\ sent'[Taken'] = ins
  BY <1>0, <1>1, <1>3 DEF Within
<1>7. ins \in Vocabulary
  BY <1>0, <1>3, SentIsWritten DEF ReaderInv
<1>8. Len(received) \in Nat /\ Len(sent) \in Nat /\ received \in Seq(Vocabulary) /\ Begins(received, sent)
  BY ReaderFacts DEF ReaderInv, ReaderTypes
<1>9. Len(received) < Len(sent) /\ ins = sent[Len(received) + 1]
  BY <1>0, <1>3, <1>6, <1>8
<1>10. Comma # Semicolon
  BY PlainCharacters
<1>11. CASE Octet = Semicolon /\ elements = ins /\ p + 1 = Len(FromServer(ins))
  <2>0. received' = Append(received, elements) /\ elements' = <<>>
    BY <1>11 DEF ReadDelimiter
  <2>a. ~failed'
    BY <1>11 DEF ReadDelimiter
  <2>b. failed' = FALSE
    BY <2>a DEF ReadDelimiter
  <2>1. received' = Append(received, ins) /\ elements' = <<>> /\ failed' = FALSE
    BY <1>11, <2>0, <2>b
  <2>2. /\ received' \in Seq(Vocabulary) /\ Len(received') = Len(received) + 1
        /\ Begins(received', sent)
    <3>1. sent \in Seq(Vocabulary)
      BY DEF ReaderInv, ReaderTypes
    <3> QED BY <1>7, <1>8, <1>9, <2>1, <3>1, BeginsNext
  <2>3. Rest' = <<>>
    <3>1. ReaderTypes'
      BY <1>1, <1>3, <2>1, <2>2 DEF ReaderInv, ReaderTypes
    <3>2. (IF message' = <<>> THEN <<>> ELSE message'[1]) \in Seq(Plain)
      <4>1. CASE message' = <<>>
        BY <4>1, EmptySeq
      <4>2. CASE message' # <<>>
        BY <3>1, <4>2 DEF ReaderTypes
      <4> QED BY <4>1, <4>2
    <3>4. Rest' \in Seq(Plain)
      BY <1>3, <3>2, ConcatProperties DEF Rest
    <3>3. Len(Rest') = 0
      BY <1>0, <1>2, <1>11
    <3> QED BY <3>3, <3>4, EmptySeq
  <2>4. Len(received') = Taken'
    BY <1>3, <1>6, <2>2
  <2>5. Between'
    BY <1>1, <2>1, <2>3, <2>4 DEF Between
  <2>6. ReaderTypes' /\ Begins(received', sent')
    BY <1>1, <1>3, <2>1, <2>2 DEF ReaderInv, ReaderTypes
  <2>7. ReaderInv'
    BY <1>3, <2>5, <2>6 DEF ReaderInv
  <2> QED BY <1>1, <1>9, <2>1, <2>7
<1>12. CASE Octet = Comma /\ ReadsLength(ins, p + 1, <<>>, elements)
  <2>0. Octet = Comma /\ Octet # Semicolon
    BY <1>10, <1>12
  <2>a. UNCHANGED <<elements, received>>
    BY <2>0 DEF ReadDelimiter
  <2>b. ~failed'
    BY <2>0 DEF ReadDelimiter
  <2>c. failed' = FALSE
    BY <2>b DEF ReadDelimiter
  <2>1. UNCHANGED <<elements, received>> /\ failed' = FALSE
    BY <2>a, <2>c
  <2>2. Reads(ins, p + 1)'
    BY <1>1, <1>12, <2>1 DEF Reads
  <2>3. Len(received') + 1 = Taken' /\ sent'[Taken'] = ins
    BY <1>3, <1>6, <2>1
  <2>4. Within'
    BY <1>0, <1>2, <2>2, <2>3, Within1
  <2>5. ReaderTypes' /\ Begins(received', sent')
    BY <1>1, <1>3, <2>1 DEF ReaderInv, ReaderTypes
  <2>6. ReaderInv'
    BY <1>3, <2>4, <2>5 DEF ReaderInv
  <2> QED BY <1>1, <2>1, <2>6
<1> QED BY <1>5, <1>11, <1>12

\* The messages taken are the ones returned but for the one being read.
THEOREM ReaderInvHolds ==
  ASSUME PlainVocabulary
  PROVE  Spec => []ReaderInv
<1>1. Init => ReaderInv
  BY ReaderInitially
<1>2. ReaderInv /\ [Next]_vars => ReaderInv'
  <2>1. SUFFICES ASSUME ReaderInv, [Next]_vars PROVE ReaderInv'
    OBVIOUS
  <2>2. CASE NextReader
    BY <2>1, <2>2, NextReaderKeeps
  <2>3. CASE \E n \in 0..BufferSize : Read(n)
    BY <2>1, <2>3, ReadKeeps
  <2>4. CASE ReadLength
    BY <2>1, <2>4, ReadLengthKeeps
  <2>5. CASE ReadContent
    BY <2>1, <2>5, ReadContentKeeps
  <2>6. CASE ReadDelimiter
    BY <2>1, <2>6, ReadDelimiterKeeps
  <2>7. CASE \E i \in Vocabulary : SendMessage(i)
    BY <2>1, <2>7, SendKeeps
  <2>8. CASE UNCHANGED vars
    <3>1. UNCHANGED <<sent, socket, message, buffer>>
          /\ UNCHANGED <<stage, token, length, elements, received, failed>>
      BY <2>8 DEF vars, parser
    <3>2. ReaderTypes' /\ Rest' = Rest
      BY <2>1, <3>1 DEF ReaderInv, ReaderTypes, Rest
    <3> QED BY <2>1, <3>1, <3>2, SameRest
  <2> QED BY <2>1, <2>2, <2>3, <2>4, <2>5, <2>6, <2>7, <2>8 DEF Next, Stream, Parse
<1> QED BY <1>1, <1>2, PTL DEF Spec

\* The stream and the parser end an instruction together.
THEOREM NothingLeftOver ==
  ASSUME PlainVocabulary
  PROVE  Spec => []NoResidue
<1>1. ReaderInv => NoResidue
  <2>1. SUFFICES ASSUME ReaderInv, socket = <<>>, message \in {<<>>, <<<<>>>>}, buffer = <<>>
                 PROVE  stage = "length" /\ token = <<>> /\ elements = <<>> /\ received = sent
    BY DEF NoResidue
  <2>2. Rest = <<>>
    <3>1. <<>> \o <<>> = <<>> /\ <<<<>>>>[1] = <<>>
      OBVIOUS
    <3> QED BY <2>1, <3>1 DEF Rest
  <2>3. Between
    BY <2>1, <2>2, NothingLeft
  <2>4. Len(received) = Len(sent)
    <3>1. Len(sent) \in Nat /\ Len(<<>>) = 0
      BY <2>1, ReaderFacts DEF ReaderInv
    <3> QED BY <2>1, <2>3, <3>1 DEF Between, Taken
  <2>5. received = sent
    BY <2>1, <2>4, BeginsWhole DEF ReaderInv, ReaderTypes
  <2> QED BY <2>3, <2>5 DEF Between
<1> QED BY <1>1, ReaderInvHolds, PTL

\* What is sent and not yet returned.
InFlight == SubSeq(sent, Len(received) + 1, Len(sent))

\* Sending puts an instruction at the end of what is under way.
LEMMA SendSends ==
  ASSUME ReaderInv, NEW i \in Vocabulary, SendMessage(i)
  PROVE  InFlight' = Append(InFlight, i) /\ received' = received
<1>1. sent' = Append(sent, i) /\ received' = received
  BY DEF SendMessage, parser
<1>2. sent \in Seq(Vocabulary) /\ Len(sent) \in Nat /\ Len(received) \in Nat /\ Len(received) <= Len(sent)
  BY ReaderFacts DEF ReaderInv, ReaderTypes, Begins
<1>3. PICK n : n = Len(received) + 1
  OBVIOUS
<1>4. n \in 1..(Len(sent) + 1)
  BY <1>2, <1>3
<1>5. InFlight = SubSeq(sent, n, Len(sent)) /\ InFlight' = SubSeq(Append(sent, i), n, Len(Append(sent, i)))
  BY <1>1, <1>3 DEF InFlight
<1>6. /\ Append(sent, i) \in Seq(Vocabulary) /\ Len(Append(sent, i)) = Len(sent) + 1
      /\ Append(sent, i)[Len(sent) + 1] = i
      /\ \A k \in 1..Len(sent) : Append(sent, i)[k] = sent[k]
  BY <1>2, AppendProperties
<1>7. PICK t : t = Append(sent, i)
  OBVIOUS
<1>8. SubSeq(t, n, Len(t)) = Append(SubSeq(sent, n, Len(sent)), i)
  <2> DEFINE a == SubSeq(t, n, Len(t))
             b == SubSeq(sent, n, Len(sent))
             c == Append(b, i)
  <2>1. \A k \in n..Len(t) : t[k] \in Vocabulary
    BY <1>4, <1>6, <1>7, ElementOfSeq
  <2>2. \A k \in n..Len(sent) : sent[k] \in Vocabulary
    BY <1>2, <1>4, ElementOfSeq
  <2>3. n <= Len(sent) + 1 /\ n \in Nat /\ n <= Len(t) /\ Len(t) = Len(sent) + 1
    BY <1>2, <1>4, <1>6, <1>7
  <2>4. /\ a \in Seq(Vocabulary) /\ Len(a) = (Len(sent) + 1) - n + 1
        /\ \A k \in 1..((Len(sent) + 1) - n + 1) : a[k] = t[n + k - 1]
    BY <1>2, <2>1, <2>3, SubSeqProperties
  <2>5. /\ b \in Seq(Vocabulary) /\ Len(b) = Len(sent) - n + 1
        /\ \A k \in 1..(Len(sent) - n + 1) : b[k] = sent[n + k - 1]
    BY <1>2, <2>2, <2>3, SubSeqProperties
  <2> HIDE DEF b
  <2>6. /\ c \in Seq(Vocabulary) /\ Len(c) = Len(b) + 1 /\ c[Len(b) + 1] = i
        /\ \A k \in 1..Len(b) : c[k] = b[k]
    BY <2>5, AppendProperties
  <2> HIDE DEF a, c
  <2>7. ASSUME NEW k \in 1..Len(a) PROVE a[k] = c[k]
    <3>1. CASE k = Len(b) + 1
      <4>1. n + k - 1 = Len(sent) + 1 /\ k \in 1..((Len(sent) + 1) - n + 1)
        BY <1>2, <2>3, <2>4, <2>5, <3>1
      <4> QED BY <1>6, <1>7, <2>4, <2>6, <3>1, <4>1
    <3>2. CASE k # Len(b) + 1
      <4>1. /\ k \in 1..Len(b) /\ k \in 1..(Len(sent) - n + 1)
            /\ k \in 1..((Len(sent) + 1) - n + 1) /\ n + k - 1 \in 1..Len(sent)
        <5>1. \A l, m \in Nat : \A j \in 1..((l + 1) - m + 1) :
                 j # (l - m + 1) + 1 /\ m \in 1..(l + 1) =>
                   j \in 1..(l - m + 1) /\ m + j - 1 \in 1..l
          OBVIOUS
        <5>2. k \in 1..((Len(sent) + 1) - n + 1)
          BY <2>4
        <5> QED BY <1>2, <1>4, <2>3, <2>5, <3>2, <5>1, <5>2
      <4> QED BY <1>6, <1>7, <2>4, <2>5, <2>6, <4>1
    <3> QED BY <3>1, <3>2
  <2>8. Len(a) = Len(c)
    BY <1>2, <2>3, <2>4, <2>5, <2>6
  <2>9. a = c
    BY <2>4, <2>6, <2>7, <2>8, SeqEqual
  <2> QED BY <2>9 DEF a, b, c
<1> QED BY <1>1, <1>5, <1>7, <1>8

\* Returning an instruction takes it from the front of what is under way.
LEMMA ReturnReceives ==
  ASSUME ReaderInv, sent' = sent, Len(received) < Len(sent),
         received' = Append(received, sent[Len(received) + 1])
  PROVE  /\ InFlight # <<>> /\ received' = Append(received, Head(InFlight))
         /\ InFlight' = Tail(InFlight)
<1>1. /\ sent \in Seq(Vocabulary) /\ received \in Seq(Vocabulary)
      /\ Len(sent) \in Nat /\ Len(received) \in Nat
  BY ReaderFacts DEF ReaderInv, ReaderTypes
<1>2. PICK n : n = Len(received) + 1
  OBVIOUS
<1>3. n \in 1..Len(sent) /\ n + 1 \in 1..(Len(sent) + 1)
  BY <1>1, <1>2
<1>4. sent[n] \in Vocabulary
  BY <1>1, <1>3, ElementOfSeq
<1>5. Len(received') + 1 = n + 1
  BY <1>1, <1>2, <1>4, AppendProperties
<1> DEFINE a == SubSeq(sent, n, Len(sent))
           b == SubSeq(sent, n + 1, Len(sent))
<1>6. InFlight = a /\ InFlight' = b
  BY <1>2, <1>5 DEF InFlight
<1>7. /\ a \in Seq(Vocabulary) /\ Len(a) = Len(sent) - n + 1
      /\ \A k \in 1..(Len(sent) - n + 1) : a[k] = sent[n + k - 1]
  <2>1. \A k \in n..Len(sent) : sent[k] \in Vocabulary
    BY <1>1, <1>3, ElementOfSeq
  <2> QED BY <1>1, <1>3, <2>1, SubSeqProperties
<1>8. /\ b \in Seq(Vocabulary) /\ Len(b) = Len(sent) - (n + 1) + 1
      /\ \A k \in 1..(Len(sent) - (n + 1) + 1) : b[k] = sent[(n + 1) + k - 1]
  <2>1. \A k \in (n + 1)..Len(sent) : sent[k] \in Vocabulary
    BY <1>1, <1>3, ElementOfSeq
  <2>2. n + 1 <= Len(sent) + 1 /\ n + 1 \in Nat
    BY <1>1, <1>3
  <2> QED BY <1>1, <2>1, <2>2, SubSeqProperties
<1> HIDE DEF a, b
<1>9. a # <<>>
  <2>1. Len(a) # 0 /\ Len(<<>>) = 0
    BY <1>1, <1>3, <1>7
  <2> QED BY <2>1
<1>10. Head(a) = a[1] /\ Tail(a) \in Seq(Vocabulary) /\ Len(Tail(a)) = Len(a) - 1
       /\ \A k \in 1..Len(Tail(a)) : Tail(a)[k] = a[k + 1]
  BY <1>7, <1>9, HeadTailProperties
<1>11. Head(a) = sent[n]
  <2>1. 1 \in 1..(Len(sent) - n + 1) /\ n + 1 - 1 = n
    BY <1>1, <1>3
  <2> QED BY <1>7, <1>10, <2>1
<1>12. b = Tail(a)
  <2>1. Len(b) = Len(Tail(a))
    BY <1>1, <1>3, <1>7, <1>8, <1>10
  <2>2. ASSUME NEW k \in 1..Len(b) PROVE b[k] = Tail(a)[k]
    <3>1. /\ k \in 1..(Len(sent) - (n + 1) + 1) /\ k + 1 \in 1..(Len(sent) - n + 1)
          /\ (n + 1) + k - 1 = n + (k + 1) - 1
      BY <1>1, <1>3, <1>8
    <3> QED BY <1>7, <1>8, <1>10, <2>1, <3>1
  <2> QED BY <1>8, <1>10, <2>1, <2>2, SeqEqual
<1> QED BY <1>2, <1>6, <1>9, <1>11, <1>12

\* ReadInstruction is a channel: every step sends an instruction, receives the first
\* of the ones under way, or is none of the channel's.
THEOREM ReaderImplementsChannel ==
  ASSUME PlainVocabulary
  PROVE  Spec => ImplementsChannel
<1>1. Init => Channel!Init
  <2>1. ASSUME Init PROVE InFlight = <<>> /\ received = <<>>
    <3>1. sent = <<>> /\ received = <<>>
      BY <2>1 DEF Init
    <3>2. SubSeq(<<>>, 1, 0) = <<>> /\ Len(<<>>) = 0
      BY SubSeqEmpty
    <3> QED BY <3>1, <3>2 DEF InFlight
  <2> QED BY <2>1 DEF Channel!Init, InFlight
<1>2. ReaderInv /\ [Next]_vars => [Channel!Next]_(Channel!vars)
  <2>1. SUFFICES ASSUME ReaderInv, [Next]_vars
                 PROVE  \/ \E i \in Vocabulary : InFlight' = Append(InFlight, i) /\ received' = received
                        \/ /\ InFlight # <<>> /\ received' = Append(received, Head(InFlight))
                           /\ InFlight' = Tail(InFlight)
                        \/ InFlight' = InFlight /\ received' = received
    BY DEF Channel!Next, Channel!Send, Channel!Receive, Channel!vars, InFlight
  <2>2. ASSUME UNCHANGED <<sent, received>> PROVE InFlight' = InFlight /\ received' = received
    BY <2>2 DEF InFlight
  <2>3. CASE NextReader
    BY <2>2, <2>3 DEF NextReader, parser
  <2>4. CASE \E n \in 0..BufferSize : Read(n)
    BY <2>2, <2>4 DEF Read, parser
  <2>5. CASE ReadLength
    BY <2>1, <2>2, <2>5, ReadLengthKeeps
  <2>6. CASE ReadContent
    BY <2>1, <2>2, <2>6, ReadContentKeeps
  <2>7. CASE ReadDelimiter
    BY <2>1, <2>2, <2>7, ReadDelimiterKeeps, ReturnReceives
  <2>8. CASE \E i \in Vocabulary : SendMessage(i)
    BY <2>1, <2>8, SendSends
  <2>9. CASE UNCHANGED vars
    BY <2>2, <2>9 DEF vars, parser
  <2> QED BY <2>1, <2>3, <2>4, <2>5, <2>6, <2>7, <2>8, <2>9 DEF Next, Stream, Parse
<1> QED BY <1>1, <1>2, ReaderInvHolds, PTL DEF Spec, ImplementsChannel, Channel!Spec

-----------------------------------------------------------------------------
(* onmessage                                                               *)

\* What the client is given of the first instructions.
Gives(g, instructions) ==
  /\ g[0] = <<>>
  /\ \A n \in 1..Len(instructions) :
       g[n] = IF instructions[n][1] = <<>> THEN g[n - 1] ELSE Append(g[n - 1], instructions[n])

LEMMA Giving ==
  ASSUME NEW instructions, Len(instructions) \in Nat
  PROVE  \E g : Gives(g, instructions) /\ ForClient(instructions) = g[Len(instructions)]
<1> DEFINE last == Len(instructions)
           Rec(f) == f = [n \in 0..last |->
             IF n = 0 THEN <<>>
             ELSE IF instructions[n][1] = <<>> THEN f[n - 1]
             ELSE Append(f[n - 1], instructions[n])]
           F == CHOOSE f : Rec(f)
<1>1. ForClient(instructions) = F[last]
  BY DEF ForClient
<1>2. PICK f : Steps(f, "client", <<>>, instructions, last)
  BY Recursion
<1> HIDE DEF last
<1>3. Rec(f)
  BY <1>2 DEF Steps, Each
<1>4. Rec(F)
  <2> HIDE DEF Rec
  <2> QED BY <1>3
<1> HIDE DEF F
<1>5. last \in Nat /\ last = Len(instructions)
  BY DEF last
<1>6. Gives(F, instructions)
  <2>1. \A n \in 0..last : F[n] = IF n = 0 THEN <<>>
                               ELSE IF instructions[n][1] = <<>> THEN F[n - 1]
                               ELSE Append(F[n - 1], instructions[n])
    BY <1>4, Zenon
  <2>2. 0 \in 0..last /\ \A n \in 1..last : n \in 0..last /\ n # 0
    BY <1>5
  <2> QED BY <1>5, <2>1, <2>2, Zenon DEF Gives
<1> QED BY <1>1, <1>5, <1>6

\* Nothing of nothing.
LEMMA GivenNothing == ForClient(<<>>) = <<>>
<1>1. Len(<<>>) = 0 /\ 0 \in Nat
  OBVIOUS
<1>2. PICK g : Gives(g, <<>>) /\ ForClient(<<>>) = g[Len(<<>>)]
  BY <1>1, Giving
<1> QED BY <1>1, <1>2 DEF Gives

\* A further instruction.
LEMMA GivenAppend ==
  ASSUME NEW S, NEW s \in Seq(S), NEW i \in S
  PROVE  ForClient(Append(s, i))
           = IF i[1] = <<>> THEN ForClient(s) ELSE Append(ForClient(s), i)
<1> DEFINE t == Append(s, i)
<1>1. /\ t \in Seq(S) /\ Len(s) \in Nat /\ Len(t) = Len(s) + 1 /\ t[Len(s) + 1] = i
      /\ \A n \in 1..Len(s) : t[n] = s[n]
  BY AppendProperties, LenProperties
<1> HIDE DEF t
<1>2. PICK v : Gives(v, s) /\ ForClient(s) = v[Len(s)]
  BY <1>1, Giving
<1>3. PICK u : Gives(u, t) /\ ForClient(t) = u[Len(t)]
  BY <1>1, Giving
<1> DEFINE S1 == {n \in 0..Len(s) : u[n] = v[n]}
<1>4. 0 \in S1
  BY <1>1, <1>2, <1>3 DEF Gives
<1>5. ASSUME NEW n \in 1..Len(s), n - 1 \in S1 PROVE n \in S1
  <2>1. /\ u[n] = IF t[n][1] = <<>> THEN u[n - 1] ELSE Append(u[n - 1], t[n])
        /\ v[n] = IF s[n][1] = <<>> THEN v[n - 1] ELSE Append(v[n - 1], s[n])
        /\ t[n] = s[n]
    BY <1>1, <1>2, <1>3 DEF Gives
  <2>2. u[n - 1] = v[n - 1]
    BY <1>5
  <2>3. u[n] = v[n]
    BY <2>1, <2>2
  <2>4. n \in 0..Len(s)
    BY <1>1
  <2> QED BY <2>3, <2>4
<1>6. \A n \in 0..Len(s) : n \in S1
  <2> HIDE DEF S1
  <2> QED BY <1>1, <1>4, <1>5, Along
<1>7. u[Len(s)] = v[Len(s)]
  BY <1>1, <1>6
<1>8. (Len(s) + 1) - 1 = Len(s) /\ Len(s) + 1 \in 1..Len(t)
  BY <1>1
<1>9. u[Len(t)] = IF i[1] = <<>> THEN u[Len(s)] ELSE Append(u[Len(s)], i)
  BY <1>1, <1>3, <1>8 DEF Gives
<1> QED BY <1>2, <1>3, <1>7, <1>9 DEF t

\* Characters of a text that are those of another make it up.
LEMMA Cut ==
  ASSUME NEW S, NEW text \in Seq(S), NEW x \in Seq(S), NEW a \in Nat,
         a + Len(x) <= Len(text), \A j \in 1..Len(x) : text[a + j] = x[j]
  PROVE  Substring(text, a, a + Len(x)) = x
<1> DEFINE b == a + Len(x)
           y == SubSeq(text, a + 1, b)
<1>1. Len(x) \in Nat /\ Len(text) \in Nat /\ \A j \in 1..Len(x) : x[j] \in S
  BY LenProperties
<1>2. b \in Nat /\ a <= b /\ b <= Len(text) /\ a <= Len(text)
  BY <1>1
<1>3. Substring(text, a, b) = y
  <2> HIDE DEF b
  <2>1. (IF a < b THEN b ELSE a) = b
    BY <1>2
  <2>2. \A m, n \in Nat : m <= n => Min2(m, n) = m
    BY DEF Min2
  <2>3. Min2(a, b) = a /\ Min2(a, Len(text)) = a /\ Min2(b, Len(text)) = b
    BY <1>1, <1>2, <2>2
  <2>4. (IF a < 0 THEN 0 ELSE a) = a
    BY <1>2
  <2> QED BY <2>1, <2>3, <2>4, Zenon DEF Substring
<1>4. \A i \in (a + 1)..b : text[i] \in S
  <2> HIDE DEF b
  <2>1. \A i \in (a + 1)..b : i \in 1..Len(text)
    BY <1>1, <1>2
  <2> QED BY <2>1, ElementOfSeq
<1>5. /\ y \in Seq(S) /\ Len(y) = (IF a + 1 <= b THEN b - (a + 1) + 1 ELSE 0)
      /\ \A i \in 1..(b - (a + 1) + 1) : y[i] = text[(a + 1) + i - 1]
  BY <1>2, <1>4, SubSeqProperties
<1> HIDE DEF y
<1>6. Len(y) = Len(x) /\ b - (a + 1) + 1 = Len(x)
  BY <1>1, <1>5
<1>7. ASSUME NEW j \in 1..Len(x) PROVE y[j] = x[j]
  <2>1. (a + 1) + j - 1 = a + j
    BY <1>1
  <2> QED BY <1>5, <1>6, <1>7, <2>1
<1>8. y = x
  BY <1>5, <1>6, <1>7, SeqEqual
<1> QED BY <1>3, <1>8 DEF b

\* parseInt of a numeral.
LEMMA Parsed ==
  ASSUME NEW num \in Seq(Digit), num # <<>>
  PROVE  ParseInt(num) = Value(num)
<1> DEFINE D == {n \in 1..Len(num) : \A i \in 1..n : num[i] \in Digit}
<1>1. Len(num) \in Nat /\ Len(num) # 0
  BY EmptySeq, LenProperties
<1>2. \A i \in 1..Len(num) : num[i] \in Digit
  BY ElementOfSeq
<1>3. Len(num) \in D /\ \A k \in D : k <= Len(num)
  BY <1>1, <1>2
<1>4. D # {} /\ \A n \in D : (\A k \in D : k <= n) => n = Len(num)
  <2>1. \A n \in D : n \in Nat /\ n <= Len(num)
    BY <1>1
  <2> HIDE DEF D
  <2> QED BY <1>1, <1>3, <2>1
<1>5. (CHOOSE n \in D : \A k \in D : k <= n) = Len(num)
  <2> HIDE DEF D
  <2> QED BY <1>3, <1>4
<1>6. SubSeq(num, 1, Len(num)) = num
  BY SubSeqFull
<1>7. ParseInt(num) = IF D = {} THEN NaN
          ELSE Value(SubSeq(num, 1, CHOOSE n \in D : \A k \in D : k <= n))
  BY DEF ParseInt
<1> HIDE DEF D
<1> QED BY <1>4, <1>5, <1>6, <1>7

\* The first dot from where an element begins is the one behind its length.
LEMMA FirstDot ==
  ASSUME NEW ins, Written(ins), NEW k \in 1..Len(ins)
  PROVE  /\ DotsFrom(FromServer(ins), Starts(ins)[k]) # {}
         /\ IndexOfDot(FromServer(ins), Starts(ins)[k])
              = Starts(ins)[k] + Len(Digits(ins, k))
<1> DEFINE code == FromServer(ins)
           a == Starts(ins)[k]
           d == Len(Digits(ins, k))
           D == DotsFrom(code, a)
<1>1. /\ a \in Nat /\ d \in Nat /\ Digits(ins, k) \in Seq(Digit)
      /\ Behind(a, ins, k) = a + d + 1
      /\ \A j \in 1..d : code[a + j] = Digits(ins, k)[j]
      /\ code[Behind(a, ins, k)] = Dot
  BY At DEF Behind
<1>2. Len(code) \in Nat /\ a + d < Len(code)
  <2>1. /\ Starts(ins)[k + 1] = Behind(a, ins, k) + Len(ins[k]) + 1
        /\ Starts(ins)[k + 1] <= Len(code) /\ Len(ins[k]) \in Nat
    BY At
  <2>2. Len(code) \in Nat
    BY Whole
  <2> HIDE DEF code, a, d
  <2> QED BY <1>1, <2>1, <2>2
<1>3. D = {i \in 0..(Len(code) - 1) : i >= a /\ code[i + 1] = Dot}
  BY DEF DotsFrom
<1> HIDE DEF code, a, d, D
<1>4. a + d \in D
  BY <1>1, <1>2, <1>3
<1>5. ASSUME NEW i \in D PROVE i \in Nat /\ a + d <= i
  <2>1. i \in Nat /\ i >= a /\ code[i + 1] = Dot
    BY <1>2, <1>3
  <2>2. ASSUME i < a + d PROVE FALSE
    <3>1. (i + 1) - a \in 1..d /\ a + ((i + 1) - a) = i + 1
      BY <1>1, <2>1, <2>2
    <3>2. code[i + 1] = Digits(ins, k)[(i + 1) - a]
      BY <1>1, <3>1
    <3>3. Digits(ins, k)[(i + 1) - a] \in Digit
      BY <1>1, <3>1, ElementOfSeq DEF d
    <3> QED BY <2>1, <3>2, <3>3, PlainCharacters
  <2> QED BY <1>1, <2>1, <2>2
<1>6. (CHOOSE i \in D : \A j \in D : i <= j) = a + d
  <2>1. \A i \in D : (\A j \in D : i <= j) => i = a + d
    BY <1>1, <1>4, <1>5
  <2> QED BY <1>4, <1>5, <2>1
<1>7. IndexOfDot(code, a) = a + d
  BY <1>6 DEF IndexOfDot, D
<1> QED BY <1>4, <1>7 DEF D, code, a, d

\* The session's identifier, too, is plain.
PlainServer == PlainVocabulary /\ Id \in Seq(Plain)

Sendable == Vocabulary \cup {Hello}

\* What the client has to be given of the first n instructions.
Due(n) == ForClient(SubSeq(sent, 1, n))

\* Between two messages the client was given what is due.
Idle == message = <<>> /\ received = Due(Taken)

\* Where the loop is at the element k: it looks for the length from where the element
\* begins, and has both ends of its content when it takes it.  NaN + 1 is 0.
Where(ins, k) ==
  \/ at = "length" /\ startIndex = Starts(ins)[k] /\ elementEnd + 1 = Starts(ins)[k]
  \/ /\ at = "element" /\ startIndex = Behind(Starts(ins)[k], ins, k)
     /\ elementEnd = startIndex + Len(ins[k])

\* Within one, the elements so far are the first ones of the instruction.
Loops(ins) ==
  /\ message = <<FromServer(ins)>> /\ elementEnd \in Int
  /\ elements \in Seq(Seq(Plain)) /\ Begins(elements, ins) /\ Len(elements) < Len(ins)
  /\ Where(ins, Len(elements) + 1)

Looping == Taken \in 1..Len(sent) /\ received = Due(Taken - 1) /\ Loops(sent[Taken])

TunnelInv ==
  /\ sent \in Seq(Sendable) /\ socket \in Seq(Seq(Plain)) /\ OnTheirWay
  /\ Idle \/ Looping

\* Whatever the server sends is plain and has an opcode.
LEMMA SendableIsWritten ==
  ASSUME PlainServer, NEW i \in Sendable
  PROVE  Written(i)
<1>1. CASE i \in Vocabulary
  BY <1>1, MessagesAssumption DEF PlainServer, PlainVocabulary, Written
<1>2. CASE i = Hello
  <2>1. i = << <<>>, Id >>
    BY <1>2 DEF Hello
  <2>2. <<>> \in Seq(Plain) /\ Id \in Seq(Plain)
    BY EmptySeq DEF PlainServer
  <2>3. PICK e : e = <<>>
    OBVIOUS
  <2>4. << e, Id >> \in Seq(Seq(Plain)) /\ << e, Id >> # <<>>
    BY <2>2, <2>3
  <2> QED BY <2>1, <2>3, <2>4 DEF Written
<1> QED BY <1>1, <1>2 DEF Sendable

\* What is due does not depend on what is sent afterwards.
LEMMA DueStays ==
  ASSUME TunnelInv, NEW i \in Sendable, sent' = Append(sent, i), NEW n \in 0..Len(sent)
  PROVE  Due(n)' = Due(n)
<1>1. sent \in Seq(Sendable) /\ Len(sent) \in Nat
  BY LenProperties DEF TunnelInv
<1>2. PICK t : t = Append(sent, i)
  OBVIOUS
<1>3. /\ t \in Seq(Sendable) /\ Len(t) = Len(sent) + 1
      /\ \A k \in 1..Len(sent) : t[k] = sent[k]
  BY <1>1, <1>2, AppendProperties
<1> DEFINE a == SubSeq(sent, 1, n)
           b == SubSeq(t, 1, n)
<1>4. /\ a \in Seq(Sendable) /\ Len(a) = (IF 1 <= n THEN n - 1 + 1 ELSE 0)
      /\ \A k \in 1..(n - 1 + 1) : a[k] = sent[1 + k - 1]
  <2>1. \A k \in 1..n : sent[k] \in Sendable
    BY <1>1, ElementOfSeq
  <2>2. n \in Int /\ 1 \in Int
    BY <1>1
  <2> QED BY <2>1, <2>2, SubSeqProperties
<1>5. /\ b \in Seq(Sendable) /\ Len(b) = (IF 1 <= n THEN n - 1 + 1 ELSE 0)
      /\ \A k \in 1..(n - 1 + 1) : b[k] = t[1 + k - 1]
  <2>1. \A k \in 1..n : t[k] \in Sendable
    BY <1>1, <1>3, ElementOfSeq
  <2>2. n \in Int /\ 1 \in Int
    BY <1>1
  <2> QED BY <2>1, <2>2, SubSeqProperties
<1> HIDE DEF a, b
<1>6. Len(a) = n /\ Len(b) = n /\ n - 1 + 1 = n
  BY <1>1, <1>4, <1>5
<1>7. ASSUME NEW k \in 1..n PROVE b[k] = a[k]
  <2>1. 1 + k - 1 = k /\ k \in 1..Len(sent)
    BY <1>1
  <2> QED BY <1>3, <1>4, <1>5, <1>6, <1>7, <2>1
<1>8. a = b
  BY <1>4, <1>5, <1>6, <1>7, SeqEqual
<1> QED BY <1>2, <1>8 DEF Due, a, b

\* With a further instruction, it is due unless its opcode is empty.
LEMMA DueNext ==
  ASSUME sent \in Seq(Sendable), NEW n \in 1..Len(sent)
  PROVE  Due(n) = IF sent[n][1] = <<>> THEN Due(n - 1) ELSE Append(Due(n - 1), sent[n])
<1>1. Len(sent) \in Nat /\ sent[n] \in Sendable
  BY LenProperties, ElementOfSeq
<1> DEFINE a == SubSeq(sent, 1, n)
           b == SubSeq(sent, 1, n - 1)
<1>2. /\ a \in Seq(Sendable) /\ Len(a) = (IF 1 <= n THEN n - 1 + 1 ELSE 0)
      /\ \A k \in 1..(n - 1 + 1) : a[k] = sent[1 + k - 1]
  <2>1. \A k \in 1..n : sent[k] \in Sendable
    BY <1>1, ElementOfSeq
  <2>2. n \in Int /\ 1 \in Int
    BY <1>1
  <2> QED BY <2>1, <2>2, SubSeqProperties
<1>3. /\ b \in Seq(Sendable) /\ Len(b) = (IF 1 <= n - 1 THEN (n - 1) - 1 + 1 ELSE 0)
      /\ \A k \in 1..((n - 1) - 1 + 1) : b[k] = sent[1 + k - 1]
  <2>1. \A k \in 1..(n - 1) : sent[k] \in Sendable
    BY <1>1, ElementOfSeq
  <2>2. n - 1 \in Int /\ 1 \in Int
    BY <1>1
  <2> QED BY <2>1, <2>2, SubSeqProperties
<1> HIDE DEF a, b
<1>4. Len(a) = n /\ Len(b) = n - 1 /\ n - 1 + 1 = n /\ (n - 1) - 1 + 1 = n - 1
  BY <1>1, <1>2, <1>3
<1> DEFINE c == Append(b, sent[n])
<1>5. /\ c \in Seq(Sendable) /\ Len(c) = Len(b) + 1 /\ c[Len(b) + 1] = sent[n]
      /\ \A k \in 1..Len(b) : c[k] = b[k]
  BY <1>1, <1>3, AppendProperties
<1> HIDE DEF c
<1>6. ASSUME NEW k \in 1..n PROVE a[k] = c[k]
  <2>1. 1 + k - 1 = k
    OBVIOUS
  <2>2. a[k] = sent[k]
    BY <1>2, <1>4, <1>6, <2>1
  <2>3. CASE k = n
    BY <1>4, <1>5, <2>2, <2>3
  <2>4. CASE k # n
    <3>1. k \in 1..(n - 1)
      BY <1>1, <2>4
    <3>2. b[k] = sent[k]
      BY <1>3, <1>4, <2>1, <3>1
    <3> QED BY <1>4, <1>5, <2>2, <3>1, <3>2
  <2> QED BY <2>3, <2>4
<1>7. Len(c) = n
  BY <1>1, <1>4, <1>5
<1>8. a = c
  BY <1>2, <1>4, <1>5, <1>6, <1>7, SeqEqual
<1>9. ForClient(c) = IF sent[n][1] = <<>> THEN ForClient(b)
                            ELSE Append(ForClient(b), sent[n])
  BY <1>1, <1>3, GivenAppend DEF c
<1> QED BY <1>8, <1>9 DEF Due, a, b

\* Nothing was taken yet.
LEMMA TunnelInitially ==
  ASSUME TRInit PROVE TunnelInv
<1>1. sent = <<>> /\ socket = <<>> /\ message = <<>> /\ received = <<>>
  BY DEF TRInit
<1>2. \A S : <<>> \in Seq(S)
  BY EmptySeq
<1>3. Len(<<>>) = 0 /\ Taken = 0
  BY <1>1 DEF Taken
<1>4. SubSeq(<<>>, 1, 0) = <<>>
  BY SubSeqEmpty
<1>5. Due(Taken) = <<>>
  BY <1>1, <1>3, <1>4, GivenNothing DEF Due
<1>6. OnTheirWay
  BY <1>1, <1>3 DEF OnTheirWay
<1> QED BY <1>1, <1>2, <1>5, <1>6 DEF TunnelInv, Idle

\* The server sends an instruction.
LEMMA ServerSendsKeeps ==
  ASSUME PlainServer, TunnelInv, NEW i \in Sendable, ServerSends(i)
  PROVE  TunnelInv'
<1>1. /\ sent' = Append(sent, i) /\ socket' = Append(socket, FromServer(i))
      /\ UNCHANGED <<message, at, startIndex, elementEnd, elements, received>>
  BY DEF ServerSends, loop
<1>2. FromServer(i) \in Seq(Plain)
  BY SendableIsWritten, Whole
<1>3. sent \in Seq(Sendable) /\ socket \in Seq(Seq(Plain)) /\ OnTheirWay
  BY DEF TunnelInv
<1>4. /\ sent' \in Seq(Sendable) /\ socket' \in Seq(Seq(Plain)) /\ OnTheirWay' /\ Taken' = Taken
      /\ Len(sent') = Len(sent) + 1 /\ \A n \in 1..Len(sent) : sent'[n] = sent[n]
  BY <1>1, <1>2, <1>3, Sending
<1>5. Taken \in 0..Len(sent) /\ Len(sent) \in Nat
  BY <1>3, Lengths
<1>6. CASE Idle
  <2>1. Due(Taken)' = Due(Taken)
    <3>1. PICK n \in 0..Len(sent) : n = Taken
      BY <1>5
    <3>2. Due(n)' = Due(n)
      BY <1>1, DueStays
    <3> QED BY <1>4, <3>1, <3>2 DEF Due
  <2> QED BY <1>1, <1>4, <1>6, <2>1 DEF TunnelInv, Idle
<1>7. CASE Looping
  <2>1. Taken - 1 \in 0..Len(sent) /\ Taken \in 1..Len(sent)
    BY <1>5, <1>7 DEF Looping
  <2>2. Due(Taken - 1)' = Due(Taken - 1)
    <3>1. PICK n \in 0..Len(sent) : n = Taken - 1
      BY <2>1
    <3>2. Due(n)' = Due(n)
      BY <1>1, DueStays
    <3> QED BY <1>4, <3>1, <3>2 DEF Due
  <2>3. PICK ins : ins = sent[Taken]
    OBVIOUS
  <2>4. sent'[Taken'] = ins
    BY <1>4, <2>1, <2>3
  <2>5. Loops(ins)
    BY <1>7, <2>3 DEF Looping
  <2>6. Loops(ins)'
    BY <1>1, <2>5 DEF Loops, Where
  <2>7. Loops(sent[Taken])'
    BY <2>4, <2>6 DEF Loops, Where
  <2>8. Taken' \in 1..Len(sent')
    BY <1>4, <1>5, <2>1
  <2> QED BY <1>1, <1>4, <1>7, <2>2, <2>7, <2>8 DEF TunnelInv, Looping
<1> QED BY <1>6, <1>7 DEF TunnelInv

\* onmessage begins.
LEMMA OnMessageKeeps ==
  ASSUME PlainServer, TunnelInv, OnMessage
  PROVE  TunnelInv'
<1>1. /\ message = <<>> /\ socket # <<>> /\ message' = <<Head(socket)>> /\ socket' = Tail(socket)
      /\ at' = "length" /\ startIndex' = 0 /\ elementEnd' = -1 /\ elements' = <<>>
      /\ UNCHANGED <<sent, received>>
  BY DEF OnMessage, NaN
<1>2. sent \in Seq(Sendable) /\ socket \in Seq(Seq(Plain)) /\ OnTheirWay
  BY DEF TunnelInv
<1>3. /\ socket' \in Seq(Seq(Plain)) /\ OnTheirWay' /\ Taken' = Taken + 1
      /\ Taken' \in 1..Len(sent) /\ Head(socket) = FromServer(sent[Taken'])
  BY <1>1, <1>2, Taking
<1>4. PICK ins : ins = sent[Taken']
  OBVIOUS
<1>5. Written(ins)
  BY <1>2, <1>3, <1>4, ElementOfSeq, SendableIsWritten
<1>6. Len(ins) \in Nat /\ Len(ins) > 0 /\ Starts(ins)[1] = 0
  BY <1>5, Whole
<1>7. Len(<<>>) = 0 /\ 0 + 1 = 1 /\ -1 + 1 = 0 /\ -1 \in Int
  OBVIOUS
<1>8. Begins(<<>>, ins)
  BY <1>6, <1>7 DEF Begins
<1>9. <<>> \in Seq(Seq(Plain))
  BY EmptySeq
<1>10. Loops(ins)'
  BY <1>1, <1>3, <1>4, <1>6, <1>7, <1>8, <1>9 DEF Loops, Where
<1>11. Loops(sent[Taken])'
  BY <1>1, <1>4, <1>10 DEF Loops, Where
<1>12. received' = Due(Taken - 1)'
  <2>1. Idle
    BY <1>1 DEF TunnelInv, Looping, Loops
  <2>2. Taken' - 1 = Taken
    <3>1. Taken \in Nat
      BY <1>2, Lengths
    <3> QED BY <1>3, <3>1
  <2> QED BY <1>1, <2>1, <2>2 DEF Idle, Due
<1> QED BY <1>1, <1>2, <1>3, <1>11, <1>12 DEF TunnelInv, Looping

\* The loop reads the length of the next element.
LEMMA FindLengthKeeps ==
  ASSUME PlainServer, TunnelInv, FindLength
  PROVE  TunnelInv'
<1>1. /\ message # <<>> /\ at = "length" /\ at' = "element"
      /\ UNCHANGED <<sent, socket, message, elements, received>>
  BY DEF FindLength
<1>2. Looping
  BY <1>1 DEF TunnelInv, Idle
<1>3. PICK ins : ins = sent[Taken]
  OBVIOUS
<1>4. Loops(ins)
  BY <1>2, <1>3 DEF Looping
<1>5. Written(ins)
  BY <1>2, <1>3, ElementOfSeq, SendableIsWritten DEF TunnelInv, Looping
<1>6. PICK k : k = Len(elements) + 1
  OBVIOUS
<1>7. k \in 1..Len(ins)
  <2>1. Len(elements) \in Nat /\ Len(elements) < Len(ins)
    BY <1>4, LenProperties DEF Loops
  <2> QED BY <1>5, <1>6, <2>1, Whole
<1> DEFINE code == FromServer(ins)
           a == Starts(ins)[k]
           d == Len(Digits(ins, k))
           b == Behind(a, ins, k)
<1>8. message[1] = code /\ startIndex = a /\ elementEnd + 1 = a
  BY <1>1, <1>4, <1>6 DEF Loops, Where
<1>9. /\ a \in Nat /\ d \in Nat /\ Digits(ins, k) \in Seq(Digit) /\ Digits(ins, k) # <<>>
      /\ b = a + d + 1 /\ Value(Digits(ins, k)) = Len(ins[k]) /\ Len(ins[k]) \in Nat
      /\ \A j \in 1..d : code[a + j] = Digits(ins, k)[j]
      /\ Starts(ins)[k + 1] = b + Len(ins[k]) + 1 /\ Starts(ins)[k + 1] <= Len(code)
  BY <1>5, <1>7, At DEF Behind
<1>10. DotsFrom(code, a) # {} /\ IndexOfDot(code, a) = a + d
  BY <1>5, <1>7, FirstDot
<1>11. code \in Seq(Plain) /\ Len(code) \in Nat
  BY <1>5, Whole
<1>12. Substring(code, a, a + d) = Digits(ins, k)
  <2>1. Digits(ins, k) \in Seq(Plain)
    BY <1>9, PlainCharacters, SeqMonotonic
  <2>2. a + d <= Len(code)
    <3>1. \A x, y, l, z \in Nat : (x + y + 1) + l + 1 <= z => x + y <= z
      OBVIOUS
    <3>2. (a + d + 1) + Len(ins[k]) + 1 <= Len(code)
      BY <1>9
    <3> HIDE DEF code, a, d, b
    <3> QED BY <1>9, <1>11, <3>1, <3>2, Zenon
  <2> HIDE DEF code, a
  <2> QED BY <1>9, <1>11, <2>1, <2>2, Cut
<1>13. ParseInt(Digits(ins, k)) = Len(ins[k])
  BY <1>9, Parsed
<1> HIDE DEF code, a, d, b
<1>14. Len(ins[k]) # NaN
  BY <1>9 DEF NaN
<1>15. startIndex' = b /\ elementEnd' = b + Len(ins[k])
  <2>1. \E lengthEnd \in {IndexOfDot(code, a)} :
        \E digits \in {Substring(code, a, lengthEnd)} :
          /\ startIndex' = lengthEnd + 1
          /\ elementEnd' = IF ParseInt(digits) = NaN THEN NaN
                           ELSE lengthEnd + 1 + ParseInt(digits)
    BY <1>8, <1>10 DEF FindLength
  <2>2. startIndex' = a + d + 1 /\ elementEnd' = a + d + 1 + Len(ins[k])
    BY <1>10, <1>12, <1>13, <1>14, <2>1
  <2> QED BY <1>9, <2>2
<1>16. elementEnd' \in Int
  BY <1>9, <1>15
<1>17. Loops(ins)'
  <2>1. Len(elements') + 1 = k
    BY <1>1, <1>6
  <2>2. Where(ins, k)'
    BY <1>1, <1>15 DEF Where, a, b
  <2>3. Where(ins, Len(elements) + 1)'
    BY <2>1, <2>2 DEF Where
  <2> QED BY <1>1, <1>4, <1>16, <2>3 DEF Loops
<1>18. Taken' = Taken
  BY <1>1 DEF Taken
<1>19. Loops(sent[Taken])'
  <2>1. sent'[Taken'] = ins
    BY <1>1, <1>3, <1>18
  <2> QED BY <1>17, <2>1 DEF Loops, Where
<1>20. Due(Taken - 1)' = Due(Taken - 1)
  BY <1>1, <1>18 DEF Due
<1>21. OnTheirWay'
  BY <1>1, <1>18 DEF TunnelInv, OnTheirWay
<1> QED BY <1>1, <1>2, <1>18, <1>19, <1>20, <1>21 DEF TunnelInv, Looping

\* The loop takes an element, and delivers the instruction that ends with it.
LEMMA TakeElementKeeps ==
  ASSUME PlainServer, TunnelInv, TakeElement
  PROVE  TunnelInv'
<1>1. /\ message # <<>> /\ at = "element" /\ at' = "length"
      /\ UNCHANGED <<sent, socket, elementEnd>>
  BY DEF TakeElement
<1>2. Looping
  BY <1>1 DEF TunnelInv, Idle
<1>3. PICK ins : ins = sent[Taken]
  OBVIOUS
<1>4. Loops(ins)
  BY <1>2, <1>3 DEF Looping
<1>5. Written(ins) /\ Taken \in 1..Len(sent)
  BY <1>2, <1>3, ElementOfSeq, SendableIsWritten DEF TunnelInv, Looping
<1>6. PICK k : k = Len(elements) + 1
  OBVIOUS
<1>7. k \in 1..Len(ins) /\ Len(elements) \in Nat /\ Len(elements) < Len(ins)
  <2>1. Len(elements) \in Nat /\ Len(elements) < Len(ins)
    BY <1>4, LenProperties DEF Loops
  <2> QED BY <1>5, <1>6, <2>1, Whole
<1> DEFINE code == FromServer(ins)
           b == Behind(Starts(ins)[k], ins, k)
           text == ins[k]
           e == b + Len(text)
           s == Starts(ins)[k + 1]
           end == IF k = Len(ins) THEN Semicolon ELSE Comma
           all == Append(elements, text)
<1>8. message = <<code>> /\ message[1] = code /\ startIndex = b /\ elementEnd = e
  BY <1>1, <1>4, <1>6 DEF Loops, Where
<1>9. /\ b \in Nat /\ text \in Seq(Plain) /\ Len(text) \in Nat
      /\ s \in Nat /\ s = b + Len(text) + 1 /\ s <= Len(code)
      /\ \A j \in 1..Len(text) : code[b + j] = text[j]
      /\ code[s] = end
  BY <1>5, <1>7, At
<1>10. code \in Seq(Plain) /\ Len(code) \in Nat /\ Starts(ins)[Len(ins) + 1] = Len(code)
       /\ Len(ins) \in Nat
  BY <1>5, Whole
<1>11. ASSUME k # Len(ins) PROVE s < Len(code)
  <2>1. k + 1 \in 1..Len(ins)
    BY <1>7, <1>10, <1>11
  <2>2. /\ Starts(ins)[(k + 1) + 1] <= Len(code) /\ Starts(ins)[k + 1] \in Nat
        /\ Behind(Starts(ins)[k + 1], ins, k + 1) \in Nat
        /\ Behind(Starts(ins)[k + 1], ins, k + 1) > Starts(ins)[k + 1]
        /\ Starts(ins)[(k + 1) + 1]
             = Behind(Starts(ins)[k + 1], ins, k + 1) + Len(ins[k + 1]) + 1
        /\ Len(ins[k + 1]) \in Nat
    BY <1>5, <2>1, At
  <2>3. \A x, y, l, z \in Nat : y > x /\ y + l + 1 <= z => x < z
    OBVIOUS
  <2>4. Behind(Starts(ins)[k + 1], ins, k + 1) + Len(ins[k + 1]) + 1 <= Len(code)
    BY <2>2
  <2> HIDE DEF code
  <2> QED BY <1>10, <2>2, <2>3, <2>4, Zenon
<1>12. ins \in Seq(Seq(Plain))
  BY <1>5 DEF Written
<1>13. end \in Plain /\ (end = Semicolon <=> k = Len(ins))
  BY PlainCharacters
<1>14. k = Len(ins) => s = Len(code)
  BY <1>10
<1>0. text = ins[k]
  OBVIOUS
<1> HIDE DEF code, b, text, s, end
<1>15. e \in Nat /\ e <= Len(code) /\ e + 1 = s
  BY <1>9, <1>10
<1>16. Substring(code, b, e) = text
  <2>1. b + Len(text) <= Len(code)
    BY <1>15
  <2> QED BY <1>9, <1>10, <2>1, Cut
<1>17. Substring(code, e, e + 1) = <<end>>
  <2>1. PICK x : x = <<end>>
    OBVIOUS
  <2>2. x \in Seq(Plain) /\ Len(x) = 1 /\ x[1] = end
    BY <1>13, <2>1
  <2>3. e + Len(x) <= Len(code) /\ \A j \in 1..Len(x) : code[e + j] = x[j]
    <3>1. \A j \in 1..Len(x) : j = 1
      BY <2>2
    <3> QED BY <1>9, <1>15, <2>2, <3>1
  <2>4. Substring(code, e, e + Len(x)) = x
    BY <1>10, <1>15, <2>2, <2>3, Cut
  <2> QED BY <2>1, <2>2, <2>4
<1> HIDE DEF e
<1>18. Ends(code, e) <=> k = Len(ins)
  <2>1. e # NaN
    BY <1>15 DEF NaN
  <2>2. <<end>> = <<Semicolon>> <=> end = Semicolon
    OBVIOUS
  <2> QED BY <1>13, <1>17, <2>1, <2>2 DEF Ends
<1>19. /\ all \in Seq(Seq(Plain)) /\ Begins(all, ins) /\ Len(all) = Len(elements) + 1
  BY <1>0, <1>4, <1>6, <1>7, <1>12, BeginsNext DEF Loops
<1> HIDE DEF all
<1>20. IF k = Len(ins)
       THEN Deliver(all[1], Tail(all)) /\ elements' = <<>>
       ELSE elements' = all /\ UNCHANGED received
  <2>1. \E x \in {Append(elements, Substring(message[1], startIndex, elementEnd))} :
          IF Ends(message[1], elementEnd)
          THEN Deliver(x[1], Tail(x)) /\ elements' = <<>>
          ELSE elements' = x /\ UNCHANGED <<state, uuid, received>>
    BY DEF TakeElement
  <2>2. Append(elements, Substring(message[1], startIndex, elementEnd)) = all
    BY <1>8, <1>16 DEF all
  <2>3. Ends(message[1], elementEnd) <=> k = Len(ins)
    BY <1>8, <1>18
  <2> QED BY <2>1, <2>2, <2>3
<1>21. /\ startIndex' = s
       /\ message' = IF s < Len(code) THEN message ELSE <<>>
  <2>1. /\ startIndex' = elementEnd + 1
        /\ message' = IF elementEnd # NaN /\ elementEnd + 1 < Len(message[1])
                      THEN message ELSE <<>>
    BY DEF TakeElement, Advance
  <2>2. e # NaN
    BY <1>15 DEF NaN
  <2> QED BY <1>8, <1>15, <2>1, <2>2
<1>22. Taken' = Taken /\ OnTheirWay'
  BY <1>1 DEF Taken, TunnelInv, OnTheirWay
<1>23. CASE k = Len(ins)
  <2>1. all = ins
    BY <1>6, <1>7, <1>12, <1>19, <1>23, BeginsWhole
  <2>2. Due(Taken) = IF ins[1] = <<>> THEN Due(Taken - 1) ELSE Append(Due(Taken - 1), ins)
    BY <1>3, <1>5, DueNext DEF TunnelInv
  <2>3. <<ins[1]>> \o Tail(ins) = ins
    <3>1. ins # <<>>
      BY <1>5 DEF Written
    <3>2. Len(ins) \in Nat /\ Tail(ins) \in Seq(Seq(Plain)) /\ Len(Tail(ins)) = Len(ins) - 1
          /\ \A i \in 1..Len(Tail(ins)) : Tail(ins)[i] = ins[i + 1]
      BY <1>10, <1>12, <3>1, HeadTailProperties
    <3>3. Len(ins) > 0 /\ 1 \in 1..Len(ins)
      BY <1>5, Whole
    <3>4. PICK h : h = <<ins[1]>>
      OBVIOUS
    <3>5. ins[1] \in Seq(Plain)
      BY <1>12, <3>3, ElementOfSeq
    <3>6. h \in Seq(Seq(Plain)) /\ Len(h) = 1 /\ h[1] = ins[1]
      BY <3>4, <3>5
    <3>7. PICK t : t = Tail(ins)
      OBVIOUS
    <3> DEFINE c == h \o t
    <3>8. /\ c \in Seq(Seq(Plain)) /\ Len(c) = Len(h) + Len(t)
          /\ \A i \in 1..(Len(h) + Len(t)) : c[i] = IF i <= Len(h) THEN h[i] ELSE t[i - Len(h)]
      <4>1. h \in Seq(Seq(Plain)) /\ t \in Seq(Seq(Plain))
        BY <3>2, <3>6, <3>7
      <4> QED BY <4>1, ConcatProperties
    <3> HIDE DEF c
    <3>9. Len(c) = Len(ins)
      BY <3>2, <3>6, <3>7, <3>8
    <3>10. ASSUME NEW i \in 1..Len(ins) PROVE c[i] = ins[i]
      <4>1. CASE i = 1
        BY <3>6, <3>8, <3>9, <4>1
      <4>2. CASE i # 1
        <5>1. i - 1 \in 1..Len(t) /\ ~(i <= 1) /\ (i - 1) + 1 = i
          BY <3>2, <3>7, <4>2
        <5>2. t[i - 1] = ins[i]
          BY <3>2, <3>7, <5>1
        <5> QED BY <3>6, <3>8, <3>9, <5>1, <5>2
      <4> QED BY <4>1, <4>2
    <3>11. c = ins
      BY <1>12, <3>8, <3>9, <3>10, SeqEqual
    <3> QED BY <3>4, <3>7, <3>11 DEF c
  <2>4. received' = Due(Taken)
    <3>1. received' = IF ins[1] = <<>> THEN received ELSE Append(received, <<ins[1]>> \o Tail(ins))
      BY <1>20, <1>23, <2>1 DEF Deliver
    <3> QED BY <1>2, <2>2, <2>3, <3>1 DEF Looping
  <2>5. message' = <<>>
    BY <1>10, <1>14, <1>21, <1>23
  <2>6. Due(Taken)' = Due(Taken)
    BY <1>1, <1>22 DEF Due
  <2> QED BY <1>1, <1>22, <2>4, <2>5, <2>6 DEF TunnelInv, Idle
<1>24. CASE k # Len(ins)
  <2>1. elements' = all /\ received' = received
    BY <1>20, <1>24
  <2>2. message' = <<code>>
    BY <1>8, <1>11, <1>21, <1>24
  <2>3. Len(all) = k /\ Len(all) < Len(ins)
    BY <1>6, <1>7, <1>10, <1>19, <1>24
  <2>4. Where(ins, k + 1)'
    BY <1>1, <1>8, <1>15, <1>21 DEF Where, s
  <2>5. Loops(ins)'
    <3>1. Len(elements') + 1 = k + 1
      BY <2>1, <2>3
    <3>2. Where(ins, Len(elements) + 1)'
      BY <2>4, <3>1 DEF Where
    <3>3. elementEnd' \in Int
      BY <1>1, <1>4 DEF Loops
    <3> QED BY <1>19, <2>1, <2>2, <2>3, <3>2, <3>3 DEF Loops, code
  <2>6. Loops(sent[Taken])'
    <3>1. sent'[Taken'] = ins
      BY <1>1, <1>3, <1>22
    <3> QED BY <2>5, <3>1 DEF Loops, Where
  <2>7. Due(Taken - 1)' = Due(Taken - 1)
    BY <1>1, <1>22 DEF Due
  <2> QED BY <1>1, <1>2, <1>22, <2>1, <2>6, <2>7 DEF TunnelInv, Looping
<1> QED BY <1>23, <1>24

\* The client was given what is due of the messages before this one.
THEOREM TunnelInvHolds ==
  ASSUME PlainServer
  PROVE  TRSpec => []TunnelInv
<1>1. TRInit => TunnelInv
  BY TunnelInitially
<1>2. TunnelInv /\ [TRNext]_(trVars) => TunnelInv'
  <2>1. SUFFICES ASSUME TunnelInv, [TRNext]_(trVars) PROVE TunnelInv'
    OBVIOUS
  <2>2. CASE \E i \in Vocabulary \cup {Hello} : ServerSends(i)
    BY <2>1, <2>2, ServerSendsKeeps DEF Sendable
  <2>3. CASE OnMessage
    BY <2>1, <2>3, OnMessageKeeps
  <2>4. CASE FindLength
    BY <2>1, <2>4, FindLengthKeeps
  <2>5. CASE TakeElement
    BY <2>1, <2>5, TakeElementKeeps
  <2>6. CASE UNCHANGED trVars
    <3>1. UNCHANGED <<sent, socket, message, at, startIndex, elementEnd, elements, received>>
      BY <2>6 DEF trVars, loop
    <3>2. Taken' = Taken
      BY <3>1 DEF Taken
    <3>3. Idle => Idle'
      BY <3>1, <3>2 DEF Idle, Due
    <3>4. Looping => Looping'
      BY <3>1, <3>2 DEF Looping, Due, Loops, Where
    <3> QED BY <2>1, <3>1, <3>2, <3>3, <3>4 DEF TunnelInv, OnTheirWay
  <2> QED BY <2>1, <2>2, <2>3, <2>4, <2>5, <2>6 DEF TRNext
<1> QED BY <1>1, <1>2, PTL DEF TRSpec

\* When onmessage returns, the client was given every instruction of the messages
\* taken so far, whole, once, and in order.
THEOREM ClientIsGivenWhatWasSent ==
  ASSUME PlainServer
  PROVE  TRSpec => []ReceivedAsSent
<1>1. TunnelInv => ReceivedAsSent
  <2>1. SUFFICES ASSUME TunnelInv, message = <<>>
                 PROVE  received = ForClient(SubSeq(sent, 1, Len(sent) - Len(socket)))
    BY DEF ReceivedAsSent
  <2>2. Idle
    BY <2>1 DEF TunnelInv, Looping, Loops
  <2> QED BY <2>2 DEF Idle, Due, Taken
<1> QED BY <1>1, TunnelInvHolds, PTL
=============================================================================
