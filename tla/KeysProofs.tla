----------------------------- MODULE KeysProofs -----------------------------
(***************************************************************************)
(* Keys of types/schema.go sort as the values they are made of, and give   *)
(* them back: for any bytes, any width of integers and any number of       *)
(* columns.                                                                *)
(***************************************************************************)
EXTENDS Keys, LeastElement, SequenceTheorems, TLAPS

-----------------------------------------------------------------------------
(* Comparing bytes.                                                         *)

\* x comes before y by a byte in which they differ, whatever follows.
MismatchAt(x, y, i) ==
  /\ i \in 1 .. Len(x) /\ i \in 1 .. Len(y)
  /\ \A j \in 1 .. i - 1 : x[j] = y[j]
  /\ x[i] < y[i]
Mismatch(x, y) == \E i \in Nat : MismatchAt(x, y, i)

\* Such a byte decides bytes.Compare.
LEMMA MismatchBefore ==
  ASSUME NEW x \in Seq(Int), NEW y \in Seq(Int), Mismatch(x, y)
  PROVE  Before(x, y)
<1>1. PICK i \in Nat : MismatchAt(x, y, i)
  BY DEF Mismatch
<1>2. /\ i \in 1 .. Len(x) /\ i \in 1 .. Len(y) /\ x[i] < y[i]
      /\ \A j \in 1 .. i - 1 : x[j] = y[j]
  BY <1>1 DEF MismatchAt
<1>3. i <= Len(x) + 1
  <2>1. Len(x) \in Nat
    OBVIOUS
  <2> QED
    BY <1>2, <2>1
<1> QED
  BY ONLY <1>2, <1>3 DEF Before

\* It does so behind a common beginning.
LEMMA MismatchAfter ==
  ASSUME NEW c \in Seq(Int), NEW x \in Seq(Int), NEW y \in Seq(Int), Mismatch(x, y)
  PROVE  Mismatch(c \o x, c \o y)
<1>1. PICK i \in Nat : MismatchAt(x, y, i)
  BY DEF Mismatch
<1>2. Len(c) \in Nat /\ Len(x) \in Nat /\ Len(y) \in Nat
  OBVIOUS
<1>3. /\ Len(c \o x) = Len(c) + Len(x) /\ Len(c \o y) = Len(c) + Len(y)
      /\ \A j \in 1 .. Len(c) + Len(x) : (c \o x)[j] = IF j <= Len(c) THEN c[j] ELSE x[j - Len(c)]
      /\ \A j \in 1 .. Len(c) + Len(y) : (c \o y)[j] = IF j <= Len(c) THEN c[j] ELSE y[j - Len(c)]
  BY <1>2
<1> DEFINE k == Len(c) + i
<1>4. i \in 1 .. Len(x) /\ i \in 1 .. Len(y) /\ x[i] < y[i]
      /\ \A j \in 1 .. i - 1 : x[j] = y[j]
  BY <1>1 DEF MismatchAt
<1>5. k \in Nat /\ k \in 1 .. Len(c) + Len(x) /\ k \in 1 .. Len(c) + Len(y) /\ ~(k <= Len(c)) /\ k - Len(c) = i
  BY <1>2, <1>4
<1>6. (c \o x)[k] = x[i] /\ (c \o y)[k] = y[i]
  BY <1>3, <1>5
<1>7. ASSUME NEW j \in 1 .. k - 1 PROVE (c \o x)[j] = (c \o y)[j]
  <2>1. j \in 1 .. Len(c) + Len(x) /\ j \in 1 .. Len(c) + Len(y)
    BY <1>2, <1>5
  <2>2. ~(j <= Len(c)) => j - Len(c) \in 1 .. i - 1
    BY <1>2, <1>4
  <2> QED
    BY <1>3, <1>4, <2>1, <2>2
<1>8. MismatchAt(c \o x, c \o y, k)
  BY <1>3, <1>4, <1>5, <1>6, <1>7 DEF MismatchAt
<1> QED
  BY <1>5, <1>8 DEF Mismatch

\* It does so whatever follows on either side.
LEMMA MismatchGoesOn ==
  ASSUME NEW x \in Seq(Int), NEW y \in Seq(Int), NEW d \in Seq(Int), NEW e \in Seq(Int),
         Mismatch(x, y)
  PROVE  Mismatch(x \o d, y \o e)
<1>1. PICK i \in Nat : MismatchAt(x, y, i)
  BY DEF Mismatch
<1>2. Len(x) \in Nat /\ Len(y) \in Nat /\ Len(d) \in Nat /\ Len(e) \in Nat
  OBVIOUS
<1>3. /\ Len(x \o d) = Len(x) + Len(d) /\ Len(y \o e) = Len(y) + Len(e)
      /\ \A j \in 1 .. Len(x) : (x \o d)[j] = x[j]
      /\ \A j \in 1 .. Len(y) : (y \o e)[j] = y[j]
  BY <1>2
<1>4. MismatchAt(x \o d, y \o e, i)
  <2>1. /\ i \in 1 .. Len(x) /\ i \in 1 .. Len(y) /\ x[i] < y[i]
        /\ \A j \in 1 .. i - 1 : x[j] = y[j]
    BY <1>1 DEF MismatchAt
  <2>2. \A j \in 1 .. i - 1 : j \in 1 .. Len(x) /\ j \in 1 .. Len(y)
    BY <1>2, <2>1
  <2>3. i \in 1 .. Len(x) + Len(d) /\ i \in 1 .. Len(y) + Len(e)
    BY <1>2, <2>1
  <2> QED
    BY <1>3, <2>1, <2>2, <2>3 DEF MismatchAt
<1> QED
  BY <1>4 DEF Mismatch

\* Nothing comes before itself.
LEMMA NotBeforeItself ==
  ASSUME NEW x \in Seq(Int)
  PROVE  ~Before(x, x)
<1>1. Len(x) \in Nat /\ \A i \in 1 .. Len(x) : x[i] \in Int
  OBVIOUS
<1> QED
  BY <1>1 DEF Before

\* Of two sequences, at most one comes before the other.
LEMMA BeforeOneWay ==
  ASSUME NEW x \in Seq(Int), NEW y \in Seq(Int), Before(x, y)
  PROVE  ~Before(y, x)
<1> SUFFICES ASSUME Before(y, x) PROVE FALSE
  OBVIOUS
<1>1. /\ Len(x) \in Nat /\ \A i \in 1 .. Len(x) : x[i] \in Int
      /\ Len(y) \in Nat /\ \A i \in 1 .. Len(y) : y[i] \in Int
  OBVIOUS
<1>2. PICK i \in 1 .. Len(y) : /\ i <= Len(x) + 1
                               /\ \A j \in 1 .. i - 1 : x[j] = y[j]
                               /\ i = Len(x) + 1 \/ x[i] < y[i]
  BY DEF Before
<1>3. PICK k \in 1 .. Len(x) : /\ k <= Len(y) + 1
                               /\ \A j \in 1 .. k - 1 : y[j] = x[j]
                               /\ k = Len(y) + 1 \/ y[k] < x[k]
  BY DEF Before
<1>4. CASE i < k
  <2>1. i \in 1 .. k - 1 /\ i # Len(x) + 1 /\ i \in 1 .. Len(x)
    BY <1>1, <1>4
  <2> QED
    BY <1>1, <1>2, <1>3, <2>1
<1>5. CASE k < i
  <2>1. k \in 1 .. i - 1 /\ k # Len(y) + 1 /\ k \in 1 .. Len(y)
    BY <1>1, <1>5
  <2> QED
    BY <1>1, <1>2, <1>3, <2>1
<1>6. CASE i = k
  BY <1>1, <1>2, <1>3, <1>6
<1> QED
  BY <1>1, <1>4, <1>5, <1>6

\* Of two different sequences, one comes before the other.
LEMMA BeforeSomeWay ==
  ASSUME NEW x \in Seq(Int), NEW y \in Seq(Int), x # y
  PROVE  Before(x, y) \/ Before(y, x)
<1>1. /\ Len(x) \in Nat /\ \A i \in 1 .. Len(x) : x[i] \in Int
      /\ Len(y) \in Nat /\ \A i \in 1 .. Len(y) : y[i] \in Int
  OBVIOUS
<1> DEFINE D == {i \in Nat : /\ i >= 1 /\ i <= Len(x) + 1 /\ i <= Len(y) + 1
                             /\ (i = Len(x) + 1 \/ i = Len(y) + 1 \/ x[i] # y[i])}
<1>2. D \subseteq Nat /\ D # {}
  <2> DEFINE i == IF Len(x) <= Len(y) THEN Len(x) + 1 ELSE Len(y) + 1
  <2>1. i \in D
    BY <1>1
  <2> QED
    BY <2>1
<1>3. PICK i \in D : \A j \in D : i <= j
  <2> HIDE DEF D
  <2> QED
    BY <1>2, LeastNat
<1>4. i \in Nat /\ i >= 1 /\ i <= Len(x) + 1 /\ i <= Len(y) + 1
      /\ (i = Len(x) + 1 \/ i = Len(y) + 1 \/ x[i] # y[i])
  BY <1>3
<1>5. ASSUME NEW j \in 1 .. i - 1 PROVE x[j] = y[j]
  <2>1. j \in Nat /\ j >= 1 /\ j <= Len(x) + 1 /\ j <= Len(y) + 1 /\ ~(i <= j)
    BY <1>1, <1>4
  <2>2. j \notin D
    <3> HIDE DEF D
    <3> QED
      BY <1>3, <2>1
  <2> QED
    BY <2>1, <2>2
<1> HIDE DEF D
<1>6. CASE i = Len(x) + 1 /\ i = Len(y) + 1
  <2>1. Len(x) = Len(y) /\ \A j \in 1 .. Len(x) : x[j] = y[j]
    BY <1>1, <1>5, <1>6
  <2>2. x = y
    BY <2>1, SeqEqual
  <2> QED
    BY <2>2
<1>7. CASE i = Len(x) + 1 /\ i # Len(y) + 1
  <2>1. i \in 1 .. Len(y)
    <3>1. i \in Nat /\ 1 <= i /\ i <= Len(y) + 1 /\ i # Len(y) + 1 /\ Len(y) \in Nat
      BY <1>1, <1>4, <1>7
    <3> QED
      BY ONLY <3>1
  <2>2. Before(x, y)
    BY <1>1, <1>4, <1>5, <1>7, <2>1 DEF Before
  <2> QED
    BY <2>2
<1>8. CASE i # Len(x) + 1 /\ i = Len(y) + 1
  <2>1. i \in 1 .. Len(x)
    <3>1. i \in Nat /\ 1 <= i /\ i <= Len(x) + 1 /\ i # Len(x) + 1 /\ Len(x) \in Nat
      BY <1>1, <1>4, <1>8
    <3> QED
      BY ONLY <3>1
  <2>2. Before(y, x)
    BY <1>1, <1>4, <1>5, <1>8, <2>1 DEF Before
  <2> QED
    BY <2>2
<1>9. CASE i # Len(x) + 1 /\ i # Len(y) + 1
  <2>1. i \in 1 .. Len(x) /\ i \in 1 .. Len(y) /\ x[i] # y[i]
    <3>1. /\ i \in Nat /\ 1 <= i /\ i <= Len(x) + 1 /\ i <= Len(y) + 1
          /\ i # Len(x) + 1 /\ i # Len(y) + 1 /\ Len(x) \in Nat /\ Len(y) \in Nat
      BY <1>1, <1>4, <1>9
    <3>2. x[i] # y[i]
      BY <1>4, <1>9
    <3>3. i \in 1 .. Len(x) /\ i \in 1 .. Len(y)
      BY ONLY <3>1
    <3> QED
      BY <3>2, <3>3
  <2>2. x[i] < y[i] => Before(x, y)
    BY <1>1, <1>4, <1>5, <2>1 DEF Before
  <2>3. y[i] < x[i] => Before(y, x)
    BY <1>1, <1>4, <1>5, <2>1 DEF Before
  <2> QED
    BY <1>1, <2>1, <2>2, <2>3
<1> QED
  BY <1>6, <1>7, <1>8, <1>9

-----------------------------------------------------------------------------
(* Joining parts.                                                           *)

Flat(parts) ==
  CHOOSE f : f = [i \in 1 .. Len(parts) |-> IF i = 1 THEN parts[i] ELSE f[i - 1] \o parts[i]]

\* The first k parts in a row.
Joined(parts, k) == IF k = 0 THEN << >> ELSE Flat(parts)[k]

\* Joining is associative.
LEMMA JoinAssociates ==
  ASSUME NEW x \in Seq(Int), NEW y \in Seq(Int), NEW z \in Seq(Int)
  PROVE  (x \o y) \o z = x \o (y \o z)
<1> DEFINE l == (x \o y) \o z
           r == x \o (y \o z)
<1>1. /\ Len(x) \in Nat /\ Len(y) \in Nat /\ Len(z) \in Nat
      /\ x \o y \in Seq(Int) /\ y \o z \in Seq(Int)
      /\ Len(x \o y) = Len(x) + Len(y) /\ Len(y \o z) = Len(y) + Len(z)
  OBVIOUS
<1>2. l \in Seq(Int) /\ r \in Seq(Int)
  BY <1>1
<1>3. Len(l) = Len(x) + Len(y) + Len(z) /\ Len(r) = Len(x) + Len(y) + Len(z)
  BY <1>1
<1>4. ASSUME NEW i \in 1 .. Len(l) PROVE l[i] = r[i]
  <2>a. i \in Int /\ 1 <= i /\ i <= Len(x) + Len(y) + Len(z)
    BY <1>1, <1>3
  <2>1. CASE i <= Len(x)
    <3>1. i \in 1 .. Len(x) /\ i \in 1 .. Len(x \o y)
      BY <1>1, <2>a, <2>1
    <3> QED
      BY <1>1, <3>1
  <2>2. CASE ~(i <= Len(x)) /\ i <= Len(x) + Len(y)
    <3>1. i \in 1 .. Len(x \o y) /\ i - Len(x) \in 1 .. Len(y) /\ i \in Len(x) + 1 .. Len(x) + Len(y \o z)
      BY <1>1, <2>a, <2>2
    <3>2. l[i] = (x \o y)[i] /\ (x \o y)[i] = y[i - Len(x)]
      BY <1>1, <2>2, <3>1
    <3>3. r[i] = (y \o z)[i - Len(x)] /\ (y \o z)[i - Len(x)] = y[i - Len(x)]
      BY <1>1, <2>2, <3>1
    <3> QED
      BY <3>2, <3>3
  <2>3. CASE ~(i <= Len(x) + Len(y))
    <3>1. /\ i - (Len(x) + Len(y)) \in 1 .. Len(z) /\ ~(i <= Len(x))
          /\ (i - Len(x)) - Len(y) = i - (Len(x) + Len(y)) /\ i - Len(x) \in 1 .. Len(y \o z) /\ ~(i - Len(x) <= Len(y))
      BY <1>1, <2>a, <2>3
    <3>2. l[i] = z[i - (Len(x) + Len(y))]
      BY <1>1, <1>3, <2>a, <2>3
    <3>3. r[i] = (y \o z)[i - Len(x)] /\ (y \o z)[i - Len(x)] = z[(i - Len(x)) - Len(y)]
      BY <1>1, <2>a, <3>1
    <3> QED
      BY <3>1, <3>2, <3>3
  <2> QED
    BY <2>1, <2>2, <2>3
<1> HIDE DEF l, r
<1>5. l = r
  BY <1>2, <1>3, <1>4, SeqEqual
<1> QED
  BY <1>5 DEF l, r

\* Flat is what its recursion says.
LEMMA FlatFollows ==
  ASSUME NEW parts, Len(parts) \in Nat
  PROVE  Flat(parts) =
           [i \in 1 .. Len(parts) |-> IF i = 1 THEN parts[i] ELSE Flat(parts)[i - 1] \o parts[i]]
<1> DEFINE Run(f, m) == [i \in 1 .. m |-> IF i = 1 THEN parts[i] ELSE f[i - 1] \o parts[i]]
           T == {m \in Nat : ~(\E f : f = Run(f, m))}
<1>1. T = {}
  <2> SUFFICES ASSUME T # {} PROVE FALSE
    OBVIOUS
  <2>1. PICK m \in T : \A y \in T : m <= y
    <3>1. T \subseteq Nat /\ T # {}
      OBVIOUS
    <3> HIDE DEF T
    <3> QED
      BY <3>1, LeastNat
  <2>2. m \in Nat /\ ~(\E f : f = Run(f, m))
    OBVIOUS
  <2>3. m # 0
    <3> SUFFICES ASSUME m = 0 PROVE FALSE
      OBVIOUS
    <3> DEFINE f == [i \in 1 .. m |-> 0]
    <3>1. f = Run(f, m)
      OBVIOUS
    <3> QED
      BY <2>2, <3>1
  <2>4. PICK g : g = Run(g, m - 1)
    <3>1. m - 1 \in Nat /\ ~(m <= m - 1)
      BY <2>2, <2>3
    <3>2. m - 1 \notin T
      BY <2>1, <3>1
    <3> QED
      BY <3>1, <3>2
  <2> DEFINE f == [i \in 1 .. m |-> IF i < m THEN g[i] ELSE IF i = 1 THEN parts[i] ELSE g[i - 1] \o parts[i]]
  <2>5. ASSUME NEW i \in 1 .. m
        PROVE  f[i] = IF i = 1 THEN parts[i] ELSE f[i - 1] \o parts[i]
    <3>1. i \in Int /\ 1 <= i /\ i <= m
      BY <2>2
    <3>2. i # 1 => f[i - 1] = g[i - 1]
      BY <2>2, <3>1
    <3>3. CASE i < m
      <4>1. i \in 1 .. m - 1 /\ f[i] = g[i]
        BY <2>2, <3>1, <3>3
      <4>2. g[i] = IF i = 1 THEN parts[i] ELSE g[i - 1] \o parts[i]
        BY <2>4, <4>1
      <4> QED
        BY <3>2, <4>1, <4>2
    <3>4. CASE ~(i < m)
      <4>1. f[i] = IF i = 1 THEN parts[i] ELSE g[i - 1] \o parts[i]
        BY <2>2, <3>1, <3>4
      <4> QED
        BY <3>2, <4>1
    <3> QED
      BY <3>3, <3>4
  <2>6. f = Run(f, m)
    BY <2>5
  <2> QED
    BY <2>2, <2>6
<1>2. \E f : f = Run(f, Len(parts))
  BY <1>1
<1>3. Flat(parts) = CHOOSE f : f = Run(f, Len(parts))
  BY DEF Flat
<1> QED
  BY <1>2, <1>3

\* Joining one part at a time.
LEMMA JoinedStep ==
  ASSUME NEW parts \in Seq(Seq(Int))
  PROVE  /\ Joined(parts, 0) = << >>
         /\ \A k \in 1 .. Len(parts) : Joined(parts, k) = Joined(parts, k - 1) \o parts[k]
         /\ \A k \in 0 .. Len(parts) : Joined(parts, k) \in Seq(Int)
         /\ FlattenSeq(parts) = Joined(parts, Len(parts))
<1> DEFINE f == Flat(parts)
           N == Len(parts)
<1>1. N \in Nat /\ \A k \in 1 .. N : parts[k] \in Seq(Int)
  OBVIOUS
<1>2. f = [i \in 1 .. N |-> IF i = 1 THEN parts[i] ELSE f[i - 1] \o parts[i]]
  BY <1>1, FlatFollows
<1>3. FlattenSeq(parts) = IF N = 0 THEN parts ELSE f[N]
  BY DEF FlattenSeq, Flat
<1>4. N = 0 => parts = << >>
  OBVIOUS
<1>5. FlattenSeq(parts) = Joined(parts, N)
  BY <1>3, <1>4 DEF Joined
<1>6. ASSUME NEW k \in 1 .. N PROVE Joined(parts, k) = Joined(parts, k - 1) \o parts[k]
  <2>1. k # 0 /\ k \in Int /\ Joined(parts, k) = f[k]
    BY <1>1 DEF Joined
  <2>2. CASE k = 1
    <3>1. f[k] = parts[k]
      <4> HIDE DEF f
      <4> QED
        BY <1>2, <2>2
    <3>2. Joined(parts, k - 1) = << >>
      BY <2>2 DEF Joined
    <3>3. << >> \o parts[k] = parts[k]
      BY <1>1, ConcatEmptySeq
    <3> QED
      BY <2>1, <3>1, <3>2, <3>3
  <2>3. CASE k # 1
    <3>1. f[k] = f[k - 1] \o parts[k]
      <4> HIDE DEF f
      <4> QED
        BY <1>2, <2>3
    <3>2. Joined(parts, k - 1) = f[k - 1]
      BY <2>1, <2>3 DEF Joined
    <3> QED
      BY <2>1, <3>1, <3>2
  <2> QED
    BY <2>2, <2>3
<1>7. Joined(parts, 0) = << >>
  BY DEF Joined
<1> HIDE DEF f, N
<1>8. \A k \in 0 .. N : Joined(parts, k) \in Seq(Int)
  <2> DEFINE T == {k \in 0 .. N : Joined(parts, k) \notin Seq(Int)}
  <2> SUFFICES ASSUME T # {} PROVE FALSE
    OBVIOUS
  <2>1. PICK m \in T : \A y \in T : m <= y
    <3>1. T \subseteq Nat /\ T # {}
      BY <1>1
    <3> HIDE DEF T
    <3> QED
      BY <3>1, LeastNat
  <2>2. m \in 0 .. N /\ Joined(parts, m) \notin Seq(Int)
    OBVIOUS
  <2>3. m # 0
    <3>1. << >> \in Seq(Int)
      OBVIOUS
    <3> QED
      BY <1>7, <2>2, <3>1
  <2>4. m \in 1 .. N /\ m - 1 \in 0 .. N /\ ~(m <= m - 1)
    BY <1>1, <2>2, <2>3
  <2>5. Joined(parts, m - 1) \in Seq(Int)
    BY <2>1, <2>4
  <2>6. Joined(parts, m) = Joined(parts, m - 1) \o parts[m] /\ parts[m] \in Seq(Int)
    BY <1>1, <1>6, <2>4
  <2>7. Joined(parts, m - 1) \o parts[m] \in Seq(Int)
    BY <2>5, <2>6
  <2> QED
    BY <2>2, <2>6, <2>7
<1> QED
  BY <1>5, <1>6, <1>7, <1>8 DEF N

\* Parts that begin alike are joined alike.
LEMMA JoinedAlike ==
  ASSUME NEW p \in Seq(Seq(Int)), NEW q \in Seq(Seq(Int)), NEW k \in Nat,
         k <= Len(p), k <= Len(q), \A i \in 1 .. k : p[i] = q[i]
  PROVE  Joined(p, k) = Joined(q, k)
<1>1. /\ Joined(p, 0) = << >>
      /\ \A i \in 1 .. Len(p) : Joined(p, i) = Joined(p, i - 1) \o p[i]
  BY JoinedStep
<1>2. /\ Joined(q, 0) = << >>
      /\ \A i \in 1 .. Len(q) : Joined(q, i) = Joined(q, i - 1) \o q[i]
  BY JoinedStep
<1>3. Len(p) \in Nat /\ Len(q) \in Nat
  OBVIOUS
<1> DEFINE T == {i \in 0 .. k : Joined(p, i) # Joined(q, i)}
<1> SUFFICES ASSUME T # {} PROVE FALSE
  OBVIOUS
<1>4. PICK m \in T : \A y \in T : m <= y
  <2>1. T \subseteq Nat /\ T # {}
    OBVIOUS
  <2> HIDE DEF T
  <2> QED
    BY <2>1, LeastNat
<1>5. m \in 0 .. k /\ Joined(p, m) # Joined(q, m)
  OBVIOUS
<1>6. m # 0
  BY <1>1, <1>2, <1>5
<1>7. m \in 1 .. Len(p) /\ m \in 1 .. Len(q) /\ m \in 1 .. k /\ m - 1 \in 0 .. k /\ ~(m <= m - 1)
  BY <1>3, <1>5, <1>6
<1>8. Joined(p, m - 1) = Joined(q, m - 1)
  BY <1>4, <1>7
<1>9. p[m] = q[m]
  BY <1>7
<1> QED
  BY <1>1, <1>2, <1>5, <1>7, <1>8, <1>9

\* The first parts begin what all parts are joined to.
LEMMA JoinedBegins ==
  ASSUME NEW p \in Seq(Seq(Int)), NEW k \in 0 .. Len(p)
  PROVE  \E r \in Seq(Int) : FlattenSeq(p) = Joined(p, k) \o r
<1>1. /\ \A i \in 1 .. Len(p) : Joined(p, i) = Joined(p, i - 1) \o p[i]
      /\ \A i \in 0 .. Len(p) : Joined(p, i) \in Seq(Int)
      /\ FlattenSeq(p) = Joined(p, Len(p))
  BY JoinedStep
<1>2. Len(p) \in Nat /\ k \in Nat /\ k <= Len(p) /\ \A i \in 1 .. Len(p) : p[i] \in Seq(Int)
  OBVIOUS
<1> DEFINE T == {i \in k .. Len(p) : ~\E r \in Seq(Int) : Joined(p, i) = Joined(p, k) \o r}
<1>3. T = {}
  <2> SUFFICES ASSUME T # {} PROVE FALSE
    OBVIOUS
  <2>1. PICK m \in T : \A y \in T : m <= y
    <3>1. T \subseteq k .. Len(p) /\ k .. Len(p) \subseteq Nat
      BY <1>2
    <3> HIDE DEF T
    <3>2. T \subseteq Nat /\ T # {}
      BY <3>1
    <3> QED
      BY <3>2, LeastNat
  <2>2. m \in k .. Len(p) /\ ~\E r \in Seq(Int) : Joined(p, m) = Joined(p, k) \o r
    OBVIOUS
  <2>3. m # k
    <3>1. Joined(p, k) \in Seq(Int)
      BY <1>1
    <3>2. Joined(p, k) = Joined(p, k) \o << >> /\ << >> \in Seq(Int)
      BY <3>1, ConcatEmptySeq
    <3> QED
      BY <2>2, <3>2
  <2>4. m \in 1 .. Len(p) /\ m - 1 \in k .. Len(p) /\ m - 1 \in 0 .. Len(p) /\ ~(m <= m - 1)
    BY <1>2, <2>2, <2>3
  <2>5. m - 1 \notin T
    <3> HIDE DEF T
    <3> QED
      BY <2>1, <2>4
  <2>6. PICK r \in Seq(Int) : Joined(p, m - 1) = Joined(p, k) \o r
    BY <2>4, <2>5
  <2>7. Joined(p, m) = (Joined(p, k) \o r) \o p[m]
    BY <1>1, <2>4, <2>6
  <2>8. Joined(p, k) \in Seq(Int) /\ p[m] \in Seq(Int) /\ r \in Seq(Int)
    BY <1>1, <1>2, <2>4
  <2>9. (Joined(p, k) \o r) \o p[m] = Joined(p, k) \o (r \o p[m]) /\ r \o p[m] \in Seq(Int)
    <3>1. (Joined(p, k) \o r) \o p[m] = Joined(p, k) \o (r \o p[m])
      BY <2>8, JoinAssociates, Zenon
    <3>2. r \o p[m] \in Seq(Int)
      BY <2>8
    <3> QED
      BY <2>8, <3>1, <3>2
  <2> QED
    BY <2>2, <2>7, <2>9
<1>4. Len(p) \in k .. Len(p)
  BY <1>2
<1> QED
  BY <1>1, <1>3, <1>4

\* Parts that agree up to one with such a byte are joined to sequences with one.
LEMMA JoinedMismatch ==
  ASSUME NEW p \in Seq(Seq(Int)), NEW q \in Seq(Seq(Int)), NEW k \in Nat \ {0},
         k <= Len(p), k <= Len(q), \A i \in 1 .. k - 1 : p[i] = q[i], Mismatch(p[k], q[k])
  PROVE  Mismatch(FlattenSeq(p), FlattenSeq(q))
<1>1. /\ k - 1 \in Nat /\ k - 1 <= Len(p) /\ k - 1 <= Len(q) /\ k \in 1 .. Len(p) /\ k \in 1 .. Len(q)
      /\ k \in 0 .. Len(p) /\ k \in 0 .. Len(q) /\ k - 1 \in 0 .. Len(p) /\ k - 1 \in 0 .. Len(q)
  OBVIOUS
<1>2. Joined(p, k - 1) = Joined(q, k - 1)
  BY <1>1, JoinedAlike
<1>3. /\ Joined(p, k) = Joined(p, k - 1) \o p[k]
      /\ Joined(p, k - 1) \in Seq(Int) /\ Joined(p, k) \in Seq(Int) /\ p[k] \in Seq(Int)
  <2>1. /\ \A i \in 1 .. Len(p) : Joined(p, i) = Joined(p, i - 1) \o p[i]
        /\ \A i \in 0 .. Len(p) : Joined(p, i) \in Seq(Int)
    BY JoinedStep
  <2>2. \A i \in 1 .. Len(p) : p[i] \in Seq(Int)
    OBVIOUS
  <2> QED
    BY <1>1, <2>1, <2>2, Zenon
<1>4. /\ Joined(q, k) = Joined(q, k - 1) \o q[k]
      /\ Joined(q, k) \in Seq(Int) /\ q[k] \in Seq(Int)
  <2>1. /\ \A i \in 1 .. Len(q) : Joined(q, i) = Joined(q, i - 1) \o q[i]
        /\ \A i \in 0 .. Len(q) : Joined(q, i) \in Seq(Int)
    BY JoinedStep
  <2>2. \A i \in 1 .. Len(q) : q[i] \in Seq(Int)
    OBVIOUS
  <2> QED
    BY <1>1, <2>1, <2>2, Zenon
<1>5. Mismatch(Joined(p, k), Joined(q, k))
  BY <1>2, <1>3, <1>4, MismatchAfter
<1>6. PICK r \in Seq(Int) : FlattenSeq(p) = Joined(p, k) \o r
  BY <1>1, JoinedBegins
<1>7. PICK s \in Seq(Int) : FlattenSeq(q) = Joined(q, k) \o s
  BY <1>1, JoinedBegins
<1> QED
  BY <1>3, <1>4, <1>5, <1>6, <1>7, MismatchGoesOn

-----------------------------------------------------------------------------
(* Strings: escaping and the delimiter.                                     *)

Byte == 0 .. FF

\* The bytes of a string, each escaped.
Escapes(s) == [i \in DOMAIN s |-> Escape(s[i])]

\* A string is a sequence of numbers.
LEMMA BytesAreInts ==
  ASSUME NEW s \in Seq(Byte)
  PROVE  s \in Seq(Int)
<1>1. Len(s) \in Nat /\ s \in [1 .. Len(s) -> Byte]
  OBVIOUS
<1>2. \A b \in Byte : b \in Int
  BY DEF Byte
<1>3. s \in [1 .. Len(s) -> Int]
  BY <1>1, <1>2
<1> QED
  BY <1>1, <1>3

\* An escaped byte is one or two bytes, none of them the delimiter.
LEMMA EscapeHasNoZero ==
  ASSUME NEW b \in Byte
  PROVE  /\ Escape(b) \in Seq(Int)
         /\ Len(Escape(b)) \in {1, 2}
         /\ \A i \in 1 .. Len(Escape(b)) : Escape(b)[i] >= 1
<1>1. b \in Int /\ b >= 0
  BY WidthAssumption DEF Byte, FF
<1>2. CASE b = 0
  <2>1. Escape(b) = <<1, 1>>
    BY <1>2 DEF Escape
  <2> QED
    BY <2>1
<1>3. CASE b = 1
  <2>1. Escape(b) = <<1, 2>>
    BY <1>3 DEF Escape
  <2> QED
    BY <2>1
<1>4. CASE b > 1
  <2>1. Escape(b) = <<b>>
    BY <1>1, <1>4 DEF Escape
  <2> QED
    BY <1>1, <1>4, <2>1
<1> QED
  BY <1>1, <1>2, <1>3, <1>4

\* Escaping keeps the order of bytes.
LEMMA EscapeMismatch ==
  ASSUME NEW b \in Byte, NEW c \in Byte, b < c
  PROVE  Mismatch(Escape(b), Escape(c))
<1>1. b \in Int /\ b >= 0 /\ c \in Int /\ c >= 1
  BY WidthAssumption DEF Byte, FF
<1>2. CASE b = 0 /\ c = 1
  <2>1. Escape(b) = <<1, 1>> /\ Escape(c) = <<1, 2>>
    BY <1>2 DEF Escape
  <2>2. MismatchAt(<<1, 1>>, <<1, 2>>, 2)
    BY DEF MismatchAt
  <2> QED
    BY <2>1, <2>2 DEF Mismatch
<1>3. CASE b <= 1 /\ c > 1
  <2>1. Escape(b) \in {<<1, 1>>, <<1, 2>>} /\ Escape(c) = <<c>>
    BY <1>1, <1>3 DEF Escape
  <2>2. MismatchAt(<<1, 1>>, <<c>>, 1) /\ MismatchAt(<<1, 2>>, <<c>>, 1)
    BY <1>1, <1>3 DEF MismatchAt
  <2> QED
    BY <2>1, <2>2 DEF Mismatch
<1>4. CASE b > 1
  <2>1. Escape(b) = <<b>> /\ Escape(c) = <<c>>
    BY <1>1, <1>4 DEF Escape
  <2>2. MismatchAt(<<b>>, <<c>>, 1)
    BY <1>1 DEF MismatchAt
  <2> QED
    BY <2>1, <2>2 DEF Mismatch
<1> QED
  BY <1>1, <1>2, <1>3, <1>4

\* The escaped bytes of a string, as parts to be joined.
LEMMA EscapesAre ==
  ASSUME NEW s \in Seq(Byte)
  PROVE  /\ Escapes(s) \in Seq(Seq(Int)) /\ Len(Escapes(s)) = Len(s)
         /\ \A i \in 1 .. Len(s) : s[i] \in Byte /\ Escapes(s)[i] = Escape(s[i])
         /\ SerializeBytes(s) = FlattenSeq(Escapes(s))
         /\ SerializeBytes(s) \in Seq(Int)
<1>1. Len(s) \in Nat /\ DOMAIN s = 1 .. Len(s) /\ \A i \in 1 .. Len(s) : s[i] \in Byte
  OBVIOUS
<1>2. \A i \in 1 .. Len(s) : Escape(s[i]) \in Seq(Int)
  BY <1>1, EscapeHasNoZero
<1>3. Escapes(s) = [i \in 1 .. Len(s) |-> Escape(s[i])]
  BY <1>1 DEF Escapes
<1>4. /\ Escapes(s) \in Seq(Seq(Int)) /\ Len(Escapes(s)) = Len(s)
      /\ \A i \in 1 .. Len(s) : Escapes(s)[i] = Escape(s[i])
  BY <1>1, <1>2, <1>3
<1>5. SerializeBytes(s) = FlattenSeq(Escapes(s))
  BY DEF SerializeBytes, Escapes
<1>6. FlattenSeq(Escapes(s)) \in Seq(Int)
  <2>1. /\ \A k \in 0 .. Len(Escapes(s)) : Joined(Escapes(s), k) \in Seq(Int)
        /\ FlattenSeq(Escapes(s)) = Joined(Escapes(s), Len(Escapes(s)))
    BY <1>4, JoinedStep
  <2> QED
    BY <1>1, <1>4, <2>1
<1> QED
  BY <1>1, <1>4, <1>5, <1>6

\* A sequence of one part.
LEMMA AppendJoins ==
  ASSUME NEW x \in Seq(Int), NEW n \in Int
  PROVE  Append(x, n) = x \o <<n>> /\ <<n>> \in Seq(Int) /\ Append(x, n) \in Seq(Int)
<1>1. Append(x, n) = x \o <<n>>
  BY ONLY x \in Seq(Int), n \in Int, AppendIsConcat
<1> QED
  BY <1>1

\* Strings, escaped and delimited, differ in a byte in the order of the strings.
\* The delimiter is what makes a string sort before its continuations.
LEMMA StringMismatch ==
  ASSUME NEW s \in Seq(Byte), NEW t \in Seq(Byte), Before(s, t)
  PROVE  Mismatch(Append(SerializeBytes(s), 0), Append(SerializeBytes(t), 0))
<1> DEFINE p == Escapes(s)
           q == Escapes(t)
<1>1. /\ p \in Seq(Seq(Int)) /\ Len(p) = Len(s)
      /\ \A i \in 1 .. Len(s) : s[i] \in Byte /\ p[i] = Escape(s[i])
      /\ SerializeBytes(s) = FlattenSeq(p) /\ SerializeBytes(s) \in Seq(Int)
  BY EscapesAre
<1>2. /\ q \in Seq(Seq(Int)) /\ Len(q) = Len(t)
      /\ \A i \in 1 .. Len(t) : t[i] \in Byte /\ q[i] = Escape(t[i])
      /\ SerializeBytes(t) = FlattenSeq(q) /\ SerializeBytes(t) \in Seq(Int)
  BY EscapesAre
<1>3. Len(s) \in Nat /\ Len(t) \in Nat
  OBVIOUS
<1>4. PICK i \in 1 .. Len(t) : /\ i <= Len(s) + 1
                               /\ \A j \in 1 .. i - 1 : s[j] = t[j]
                               /\ i = Len(s) + 1 \/ s[i] < t[i]
  BY DEF Before
<1> HIDE DEF p, q
<1>5. ASSUME NEW j \in 1 .. i - 1 PROVE p[j] = q[j]
  <2>1. j \in 1 .. Len(s) /\ j \in 1 .. Len(t)
    BY <1>3, <1>4
  <2> QED
    BY <1>1, <1>2, <1>4, <2>1
<1>6. /\ Append(SerializeBytes(s), 0) = SerializeBytes(s) \o <<0>>
      /\ Append(SerializeBytes(t), 0) = SerializeBytes(t) \o <<0>>
      /\ <<0>> \in Seq(Int)
  BY <1>1, <1>2, AppendJoins
<1>7. CASE i # Len(s) + 1
  <2>1. i \in Nat \ {0} /\ i <= Len(p) /\ i <= Len(q) /\ i \in 1 .. Len(s) /\ s[i] < t[i]
    <3>1. i \in Int /\ 1 <= i /\ i <= Len(t) /\ i <= Len(s) + 1 /\ i # Len(s) + 1
      BY <1>3, <1>4, <1>7
    <3>2. s[i] < t[i]
      BY <1>4, <1>7
    <3> QED
      BY <1>1, <1>2, <1>3, <3>1, <3>2
  <2>2. Mismatch(p[i], q[i])
    BY <1>1, <1>2, <2>1, EscapeMismatch
  <2>3. Mismatch(FlattenSeq(p), FlattenSeq(q))
    BY <1>1, <1>2, <1>5, <2>1, <2>2, JoinedMismatch
  <2> QED
    BY <1>1, <1>2, <1>6, <2>3, MismatchGoesOn
<1>8. CASE i = Len(s) + 1
  <2>1. /\ Len(s) \in Nat /\ Len(s) <= Len(p) /\ Len(s) <= Len(q)
        /\ i - 1 = Len(s) /\ i \in 1 .. Len(q) /\ i \in 0 .. Len(q)
    BY <1>1, <1>2, <1>3, <1>8
  <2>2. Joined(p, Len(s)) = Joined(q, Len(s))
    BY <1>1, <1>2, <1>5, <2>1, JoinedAlike
  <2>3. FlattenSeq(p) = Joined(p, Len(s))
    BY <1>1, JoinedStep
  <2>4. Joined(q, i) = Joined(q, Len(s)) \o q[i]
    <3>1. \A k \in 1 .. Len(q) : Joined(q, k) = Joined(q, k - 1) \o q[k]
      BY <1>2, JoinedStep
    <3> QED
      BY <2>1, <3>1
  <2>5. PICK r \in Seq(Int) : FlattenSeq(q) = Joined(q, i) \o r
    BY <1>2, <2>1, JoinedBegins
  <2> DEFINE c == FlattenSeq(p)
             e == q[i]
  <2>6. c \in Seq(Int)
    BY <1>1
  <2>7. e \in Seq(Int) /\ Len(e) \in {1, 2} /\ e[1] >= 1
    <3>1. t[i] \in Byte /\ e = Escape(t[i])
      BY <1>2, <1>4
    <3>2. /\ Escape(t[i]) \in Seq(Int) /\ Len(Escape(t[i])) \in {1, 2}
          /\ \A j \in 1 .. Len(Escape(t[i])) : Escape(t[i])[j] >= 1
      BY <3>1, EscapeHasNoZero
    <3> HIDE DEF e
    <3> QED
      BY <3>1, <3>2
  <2>8. SerializeBytes(t) = (c \o e) \o r
    BY <1>2, <2>2, <2>3, <2>4, <2>5
  <2> HIDE DEF c, e
  <2>9. Mismatch(<<0>>, e)
    <3>1. e[1] \in Int
      BY <2>7
    <3>2. MismatchAt(<<0>>, e, 1)
      BY <2>7, <3>1 DEF MismatchAt
    <3> QED
      BY <3>2 DEF Mismatch
  <2>10. Mismatch(c \o <<0>>, c \o e)
    BY <1>6, <2>6, <2>7, <2>9, MismatchAfter
  <2>11. c \o <<0>> \in Seq(Int) /\ c \o e \in Seq(Int) /\ r \o <<0>> \in Seq(Int) /\ << >> \in Seq(Int)
    BY <1>6, <2>6, <2>7
  <2>12. Mismatch((c \o <<0>>) \o << >>, (c \o e) \o (r \o <<0>>))
    BY <2>10, <2>11, MismatchGoesOn
  <2>13. (c \o <<0>>) \o << >> = c \o <<0>>
    BY <2>11, ConcatEmptySeq
  <2>14. (c \o e) \o (r \o <<0>>) = ((c \o e) \o r) \o <<0>>
    <3>1. c \o e \in Seq(Int) /\ r \in Seq(Int) /\ <<0>> \in Seq(Int)
      BY <1>6, <2>11
    <3>2. ((c \o e) \o r) \o <<0>> = (c \o e) \o (r \o <<0>>)
      BY <3>1, JoinAssociates, Zenon
    <3> QED
      BY <3>2, Zenon
  <2> QED
    BY <1>1, <1>6, <2>8, <2>12, <2>13, <2>14 DEF c
<1> QED
  BY <1>7, <1>8

-----------------------------------------------------------------------------
(* Integers: the sign and the order of bytes.                               *)

\* f begins with a and takes each value from the one before.
Follows(f, W, D, a, G) ==
  f \in [0 .. W -> D] /\ f = [i \in 0 .. W |-> IF i = 0 THEN a ELSE G[i][f[i - 1]]]

\* There is such a function.
LEMMA RunExists ==
  ASSUME NEW W \in Nat, NEW D, NEW a \in D, NEW G \in [1 .. W -> [D -> D]]
  PROVE  \E f : Follows(f, W, D, a, G)
<1> DEFINE Run(f, m) == [i \in 0 .. m |-> IF i = 0 THEN a ELSE G[i][f[i - 1]]]
           T == {m \in 0 .. W : ~(\E f \in [0 .. m -> D] : f = Run(f, m))}
<1>1. T = {}
  <2> SUFFICES ASSUME T # {} PROVE FALSE
    OBVIOUS
  <2>1. PICK m \in T : \A y \in T : m <= y
    <3>1. T \subseteq Nat /\ T # {}
      OBVIOUS
    <3> HIDE DEF T
    <3> QED
      BY <3>1, LeastNat
  <2>2. m \in 0 .. W /\ m \in Nat /\ ~(\E f \in [0 .. m -> D] : f = Run(f, m))
    OBVIOUS
  <2>3. m # 0
    <3> SUFFICES ASSUME m = 0 PROVE FALSE
      OBVIOUS
    <3> DEFINE f == [i \in 0 .. m |-> a]
    <3>1. f = Run(f, m) /\ f \in [0 .. m -> D]
      OBVIOUS
    <3> QED
      BY <2>2, <3>1
  <2>4. PICK g \in [0 .. m - 1 -> D] : g = Run(g, m - 1)
    <3>1. m - 1 \in 0 .. W /\ ~(m <= m - 1)
      BY <2>2, <2>3
    <3>2. m - 1 \notin T
      BY <2>1, <3>1
    <3> QED
      BY <3>1, <3>2
  <2> DEFINE f == [i \in 0 .. m |-> IF i < m THEN g[i] ELSE G[m][g[m - 1]]]
  <2>5. G[m][g[m - 1]] \in D /\ m - 1 \in 0 .. m - 1
    <3>1. m \in 1 .. W /\ m - 1 \in 0 .. m - 1
      BY <2>2, <2>3
    <3>2. G[m] \in [D -> D] /\ g[m - 1] \in D
      BY <3>1
    <3> QED
      BY <3>1, <3>2
  <2>6. f \in [0 .. m -> D]
    <3>1. \A i \in 0 .. m : i < m => i \in 0 .. m - 1
      BY <2>2
    <3> QED
      BY <2>5, <3>1
  <2>7. ASSUME NEW i \in 0 .. m
        PROVE  f[i] = IF i = 0 THEN a ELSE G[i][f[i - 1]]
    <3>1. i \in Int /\ 0 <= i /\ i <= m
      BY <2>2
    <3>2. i # 0 => f[i - 1] = g[i - 1]
      BY <2>2, <3>1
    <3>3. CASE i < m
      <4>1. i \in 0 .. m - 1 /\ f[i] = g[i]
        BY <2>2, <3>1, <3>3
      <4>2. g[i] = IF i = 0 THEN a ELSE G[i][g[i - 1]]
        BY <2>4, <4>1
      <4> QED
        BY <3>2, <4>1, <4>2
    <3>4. CASE ~(i < m)
      <4>1. i = m /\ f[i] = G[m][g[m - 1]]
        BY <2>2, <3>1, <3>4
      <4> QED
        BY <2>3, <3>2, <4>1
    <3> QED
      BY <3>3, <3>4
  <2>8. f = Run(f, m)
    BY <2>7
  <2> QED
    BY <2>2, <2>6, <2>8
<1>2. W \in 0 .. W
  OBVIOUS
<1>3. PICK f \in [0 .. W -> D] : f = Run(f, W)
  BY <1>1, <1>2
<1>4. Follows(f, W, D, a, G)
  BY <1>3 DEF Follows
<1> QED
  BY <1>4

\* Widths and bytes are numbers.
LEMMA Widths ==
  /\ Base \in Nat /\ Base > 3 /\ FF = Base - 1 /\ FF \in Nat
  /\ IntWidth \in Nat /\ IntWidth >= 1
  /\ Half \in Nat /\ 2 * Half = Power[IntWidth]
BY WidthAssumption DEF FF

\* Quotient and remainder.
LEMMA QuotientRemainder ==
  ASSUME NEW x \in Nat
  PROVE  /\ x \div Base \in Nat /\ x % Base \in Byte /\ x % Base \in Nat
         /\ x = Base * (x \div Base) + (x % Base)
<1>1. Base \in Nat /\ Base > 0
  BY Widths
<1>2. x % Base \in 0 .. Base - 1
  BY <1>1
<1>3. x = Base * (x \div Base) + (x % Base)
  BY <1>1
<1>4. x \div Base \in Nat
  BY <1>1
<1> QED
  BY <1>1, <1>2, <1>3, <1>4, Widths DEF Byte

\* The powers of the base.
LEMMA PowerStep ==
  /\ Power[0] = 1
  /\ \A i \in 0 .. IntWidth : Power[i] \in Nat
  /\ \A i \in 1 .. IntWidth : Power[i] = Base * Power[i - 1]
<1> DEFINE W == IntWidth
           G == [i \in 1 .. W |-> [x \in Nat |-> Base * x]]
<1>1. W \in Nat /\ Base \in Nat
  BY Widths
<1>2. ASSUME NEW x \in Nat PROVE Base * x \in Nat
  BY <1>1
<1>3. G \in [1 .. W -> [Nat -> Nat]]
  BY <1>2
<1> HIDE DEF W
<1>4. PICK f : Follows(f, W, Nat, 1, G)
  <2>1. 1 \in Nat
    OBVIOUS
  <2> HIDE DEF G
  <2> QED
    BY <1>1, <1>3, <2>1, RunExists, Zenon
<1>a. f \in [0 .. W -> Nat] /\ f = [i \in 0 .. W |-> IF i = 0 THEN 1 ELSE G[i][f[i - 1]]]
  BY <1>4 DEF Follows
<1>5. ASSUME NEW i \in 0 .. W PROVE f[i] = IF i = 0 THEN 1 ELSE Base * f[i - 1]
  <2>1. CASE i = 0
    BY <1>a, <2>1
  <2>2. CASE i # 0
    <3>1. i \in 1 .. W /\ i - 1 \in 0 .. W
      BY <1>1, <2>2
    <3>2. f[i] = G[i][f[i - 1]]
      <4> HIDE DEF G
      <4> QED
        BY <1>a, <2>2
    <3>3. f[i - 1] \in Nat
      BY <1>a, <3>1
    <3> QED
      BY <2>2, <3>1, <3>2, <3>3
  <2> QED
    BY <2>1, <2>2
<1>6. f = [i \in 0 .. W |-> IF i = 0 THEN 1 ELSE Base * f[i - 1]]
  <2>1. f = [i \in 0 .. W |-> f[i]]
    BY <1>a
  <2> QED
    BY <1>5, <2>1
<1>7. Power = CHOOSE h : h = [i \in 0 .. W |-> IF i = 0 THEN 1 ELSE Base * h[i - 1]]
  BY DEF Power, W
<1>8. Power = [i \in 0 .. W |-> IF i = 0 THEN 1 ELSE Base * Power[i - 1]]
  BY <1>6, <1>7
<1>9. Power[0] = 1 /\ \A i \in 1 .. W : Power[i] = Base * Power[i - 1]
  BY <1>1, <1>8
<1>10. \A i \in 0 .. W : Power[i] \in Nat
  <2> DEFINE T == {i \in 0 .. W : Power[i] \notin Nat}
  <2> SUFFICES ASSUME T # {} PROVE FALSE
    OBVIOUS
  <2>1. PICK m \in T : \A y \in T : m <= y
    <3>1. T \subseteq Nat /\ T # {}
      BY <1>1
    <3> HIDE DEF T
    <3> QED
      BY <3>1, LeastNat
  <2>2. m \in 0 .. W /\ Power[m] \notin Nat
    OBVIOUS
  <2>3. m # 0
    BY <1>9, <2>2
  <2>4. m \in 1 .. W /\ m - 1 \in 0 .. W /\ ~(m <= m - 1)
    BY <1>1, <2>2, <2>3
  <2>5. Power[m - 1] \in Nat
    BY <2>1, <2>4
  <2>6. Power[m] = Base * Power[m - 1]
    BY <1>9, <2>4
  <2> QED
    BY <1>2, <2>2, <2>5, <2>6
<1> QED
  BY <1>9, <1>10 DEF W

\* Shifting by a byte divides by the base.
LEMMA ShiftedStep ==
  ASSUME NEW n \in Nat
  PROVE  /\ Shifted(n)[0] = n
         /\ \A i \in 0 .. IntWidth : Shifted(n)[i] \in Nat
         /\ \A i \in 1 .. IntWidth : Shifted(n)[i] = Shifted(n)[i - 1] \div Base
<1> DEFINE W == IntWidth
           G == [i \in 1 .. W |-> [x \in Nat |-> x \div Base]]
           s == Shifted(n)
<1>1. W \in Nat
  BY Widths
<1>2. ASSUME NEW x \in Nat PROVE x \div Base \in Nat
  BY QuotientRemainder
<1>3. G \in [1 .. W -> [Nat -> Nat]]
  BY <1>2
<1> HIDE DEF W
<1>4. PICK f : Follows(f, W, Nat, n, G)
  <2>1. n \in Nat
    OBVIOUS
  <2> HIDE DEF G
  <2> QED
    BY <1>1, <1>3, <2>1, RunExists, Zenon
<1>a. f \in [0 .. W -> Nat] /\ f = [i \in 0 .. W |-> IF i = 0 THEN n ELSE G[i][f[i - 1]]]
  BY <1>4 DEF Follows
<1>5. ASSUME NEW i \in 0 .. W PROVE f[i] = IF i = 0 THEN n ELSE f[i - 1] \div Base
  <2>1. CASE i = 0
    BY <1>a, <2>1
  <2>2. CASE i # 0
    <3>1. i \in 1 .. W /\ i - 1 \in 0 .. W
      BY <1>1, <2>2
    <3>2. f[i] = G[i][f[i - 1]]
      <4> HIDE DEF G
      <4> QED
        BY <1>a, <2>2
    <3>3. f[i - 1] \in Nat
      BY <1>a, <3>1
    <3> QED
      BY <2>2, <3>1, <3>2, <3>3
  <2> QED
    BY <2>1, <2>2
<1>6. f = [i \in 0 .. W |-> IF i = 0 THEN n ELSE f[i - 1] \div Base]
  <2>1. f = [i \in 0 .. W |-> f[i]]
    BY <1>a
  <2> QED
    BY <1>5, <2>1
<1>7. s = CHOOSE h : h = [i \in 0 .. W |-> IF i = 0 THEN n ELSE h[i - 1] \div Base]
  BY DEF Shifted, W
<1> HIDE DEF s
<1>8. s = [i \in 0 .. W |-> IF i = 0 THEN n ELSE s[i - 1] \div Base]
  BY <1>6, <1>7
<1>9. s[0] = n /\ \A i \in 1 .. W : s[i] = s[i - 1] \div Base
  BY <1>1, <1>8
<1>10. \A i \in 0 .. W : s[i] \in Nat
  <2> DEFINE T == {i \in 0 .. W : s[i] \notin Nat}
  <2> SUFFICES ASSUME T # {} PROVE FALSE
    OBVIOUS
  <2>1. PICK m \in T : \A y \in T : m <= y
    <3>1. T \subseteq Nat /\ T # {}
      BY <1>1
    <3> HIDE DEF T
    <3> QED
      BY <3>1, LeastNat
  <2>2. m \in 0 .. W /\ s[m] \notin Nat
    OBVIOUS
  <2>3. m # 0
    BY <1>9, <2>2
  <2>4. m \in 1 .. W /\ m - 1 \in 0 .. W /\ ~(m <= m - 1)
    BY <1>1, <2>2, <2>3
  <2>5. s[m - 1] \in Nat
    BY <2>1, <2>4
  <2>6. s[m] = s[m - 1] \div Base
    BY <1>9, <2>4
  <2> QED
    BY <1>2, <2>2, <2>5, <2>6
<1> QED
  BY <1>9, <1>10 DEF W, s

\* Nothing is left of a number shifted by all its bytes.
LEMMA ShiftedOut ==
  ASSUME NEW n \in Nat, n < Power[IntWidth]
  PROVE  Shifted(n)[IntWidth] = 0
<1> DEFINE W == IntWidth
           s == Shifted(n)
<1>1. W \in Nat /\ Base \in Nat /\ Base > 3
  BY Widths
<1>2. /\ s[0] = n
      /\ \A i \in 0 .. W : s[i] \in Nat
      /\ \A i \in 1 .. W : s[i] = s[i - 1] \div Base
  BY ShiftedStep
<1>3. /\ Power[0] = 1
      /\ \A i \in 0 .. W : Power[i] \in Nat
      /\ \A i \in 1 .. W : Power[i] = Base * Power[i - 1]
  BY PowerStep
<1>4. n < Power[W]
  OBVIOUS
<1> HIDE DEF W, s
<1> DEFINE T == {i \in 0 .. W : ~(s[i] < Power[W - i])}
<1>5. T = {}
  <2> SUFFICES ASSUME T # {} PROVE FALSE
    OBVIOUS
  <2>1. PICK m \in T : \A y \in T : m <= y
    <3>1. T \subseteq Nat /\ T # {}
      BY <1>1
    <3> HIDE DEF T
    <3> QED
      BY <3>1, LeastNat
  <2>2. m \in 0 .. W /\ ~(s[m] < Power[W - m])
    OBVIOUS
  <2>3. m # 0
    BY <1>1, <1>2, <1>4, <2>2
  <2>4. /\ m \in 1 .. W /\ m - 1 \in 0 .. W /\ ~(m <= m - 1)
        /\ W - m \in 0 .. W /\ W - (m - 1) \in 1 .. W /\ (W - (m - 1)) - 1 = W - m
    BY <1>1, <2>2, <2>3
  <2>5. s[m - 1] < Power[W - (m - 1)]
    BY <2>1, <2>4
  <2>6. Power[W - (m - 1)] = Base * Power[W - m]
    BY <1>3, <2>4
  <2> DEFINE x == s[m - 1]
             q == x \div Base
             r == x % Base
             p == Power[W - m]
  <2>7. x \in Nat /\ p \in Nat /\ x < Base * p /\ s[m] = q
    BY <1>2, <1>3, <2>4, <2>5, <2>6
  <2>8. q \in Nat /\ r \in Nat /\ x = Base * q + r
    BY <2>7, QuotientRemainder
  <2>9. ~(q < p)
    BY <2>2, <2>7
  <2> HIDE DEF x, q, r, p
  <2>10. Base * p <= Base * q
    BY <1>1, <2>7, <2>8, <2>9
  <2>11. Base * p \in Nat /\ Base * q \in Nat
    BY <1>1, <2>7, <2>8
  <2> QED
    BY <2>7, <2>8, <2>10, <2>11
<1>6. W \in 0 .. W /\ W - W = 0
  BY <1>1
<1>7. s[W] < 1 /\ s[W] \in Nat
  BY <1>2, <1>3, <1>5, <1>6
<1>8. s[W] = 0
  BY <1>7
<1> QED
  BY <1>8 DEF s, W

\* The bytes of a number.
LEMMA BigEndianIs ==
  ASSUME NEW n \in Nat
  PROVE  /\ BigEndian(n) \in Seq(Int) /\ Len(BigEndian(n)) = IntWidth
         /\ \A i \in 1 .. IntWidth : /\ BigEndian(n)[i] = Shifted(n)[IntWidth - i] % Base
                                     /\ BigEndian(n)[i] \in Nat
<1> DEFINE W == IntWidth
           s == Shifted(n)
<1>1. W \in Nat
  BY Widths
<1>2. \A i \in 0 .. W : s[i] \in Nat
  BY ShiftedStep
<1>3. BigEndian(n) = [i \in 1 .. W |-> s[W - i] % Base]
  BY DEF BigEndian
<1> HIDE DEF s, W
<1>4. ASSUME NEW i \in 1 .. W PROVE s[W - i] % Base \in Nat
  <2>1. W - i \in 0 .. W
    BY <1>1
  <2>2. s[W - i] \in Nat
    BY <1>2, <2>1
  <2> QED
    BY <2>2, QuotientRemainder
<1>5. /\ BigEndian(n) \in Seq(Int) /\ Len(BigEndian(n)) = W
      /\ \A i \in 1 .. W : BigEndian(n)[i] = s[W - i] % Base
  BY <1>1, <1>3, <1>4
<1>6. \A i \in 1 .. W : BigEndian(n)[i] \in Nat
  BY <1>4, <1>5
<1> QED
  BY <1>5, <1>6 DEF s, W

\* Numbers differ in a byte in their order, the more significant bytes agreeing:
\* the shifts agree from some shift on, and the byte is the last that is lost
\* before.
LEMMA BigEndianMismatch ==
  ASSUME NEW m \in Nat, NEW n \in Nat, m < n, n < Power[IntWidth]
  PROVE  Mismatch(BigEndian(m), BigEndian(n))
<1> DEFINE W == IntWidth
           s == Shifted(m)
           t == Shifted(n)
           x == BigEndian(m)
           y == BigEndian(n)
<1>1. W \in Nat /\ Base \in Nat /\ Base > 3 /\ Power[W] \in Nat
  BY Widths
<1>2. /\ s[0] = m /\ s[W] = 0
      /\ \A i \in 0 .. W : s[i] \in Nat
      /\ \A i \in 1 .. W : s[i] = s[i - 1] \div Base
  <2>1. m < Power[IntWidth]
    BY <1>1
  <2> QED
    BY <2>1, ShiftedStep, ShiftedOut
<1>3. /\ t[0] = n /\ t[W] = 0
      /\ \A i \in 0 .. W : t[i] \in Nat
      /\ \A i \in 1 .. W : t[i] = t[i - 1] \div Base
  BY ShiftedStep, ShiftedOut
<1>4. /\ Len(x) = W /\ \A i \in 1 .. W : x[i] = s[W - i] % Base
  BY BigEndianIs
<1>5. /\ Len(y) = W /\ \A i \in 1 .. W : y[i] = t[W - i] % Base
  BY BigEndianIs
<1> HIDE DEF W, s, t, x, y
<1> DEFINE E == {i \in 0 .. W : \A j \in i .. W : s[j] = t[j]}
<1>6. E \subseteq Nat /\ E # {}
  <2>1. W \in E
    BY <1>1, <1>2, <1>3
  <2> QED
    BY <1>1, <2>1
<1>7. PICK e \in E : \A i \in E : e <= i
  <2> HIDE DEF E
  <2> QED
    BY <1>6, LeastNat
<1>8. e \in 0 .. W /\ \A j \in e .. W : s[j] = t[j]
  OBVIOUS
<1>9. e # 0
  <2>1. 0 \in 0 .. W
    BY <1>1
  <2> QED
    BY <1>1, <1>2, <1>3, <1>8, <2>1
<1>10. e \in 1 .. W /\ e - 1 \in 0 .. W /\ e \in e .. W /\ e \in Int /\ ~(e <= e - 1)
  BY <1>1, <1>8, <1>9
<1>11. s[e - 1] # t[e - 1]
  <2> SUFFICES ASSUME s[e - 1] = t[e - 1] PROVE FALSE
    OBVIOUS
  <2>1. \A j \in e - 1 .. W : j = e - 1 \/ j \in e .. W
    BY <1>1, <1>10
  <2>2. e - 1 \in E
    BY <1>8, <1>10, <2>1
  <2> HIDE DEF E
  <2> QED
    BY <1>7, <1>10, <2>2
<1> HIDE DEF E
<1> DEFINE a == s[e - 1]
           b == t[e - 1]
<1>12. a \in Nat /\ b \in Nat /\ a # b /\ a \div Base = b \div Base
  BY <1>2, <1>3, <1>8, <1>10, <1>11
<1>13. /\ a \div Base \in Nat /\ a % Base \in Nat /\ a = Base * (a \div Base) + (a % Base)
       /\ b \div Base \in Nat /\ b % Base \in Nat /\ b = Base * (b \div Base) + (b % Base)
  BY <1>12, QuotientRemainder
<1>14. a < b
  <2>1. ASSUME NEW i \in 0 .. W PROVE s[i] <= t[i]
    <3> DEFINE U == {k \in 0 .. W : ~(s[k] <= t[k])}
    <3> SUFFICES ASSUME U # {} PROVE FALSE
      OBVIOUS
    <3>1. PICK k \in U : \A y1 \in U : k <= y1
      <4>1. U \subseteq Nat /\ U # {}
        BY <1>1
      <4> HIDE DEF U
      <4> QED
        BY <4>1, LeastNat
    <3>2. k \in 0 .. W /\ ~(s[k] <= t[k])
      OBVIOUS
    <3>3. k # 0
      BY <1>2, <1>3, <3>2
    <3>4. k \in 1 .. W /\ k - 1 \in 0 .. W /\ ~(k <= k - 1)
      BY <1>1, <3>2, <3>3
    <3>5. s[k - 1] <= t[k - 1]
      BY <3>1, <3>4
    <3> DEFINE u == s[k - 1]
               v == t[k - 1]
    <3>6. u \in Nat /\ v \in Nat /\ u <= v /\ s[k] = u \div Base /\ t[k] = v \div Base
      BY <1>2, <1>3, <3>4, <3>5
    <3>7. ~(u \div Base <= v \div Base)
      BY <3>2, <3>6
    <3> HIDE DEF u, v, U
    <3> DEFINE qu == u \div Base
               qv == v \div Base
               ru == u % Base
               rv == v % Base
    <3>8. /\ qu \in Nat /\ ru \in Nat /\ u = Base * qu + ru
          /\ qv \in Nat /\ rv \in Nat /\ v = Base * qv + rv /\ rv < Base
      <4>1. ru \in Byte /\ rv \in Byte
        BY <3>6, QuotientRemainder
      <4>2. ru < Base /\ rv < Base
        BY <4>1, Widths DEF Byte
      <4> QED
        BY <3>6, <4>2, QuotientRemainder
    <3>9. qv + 1 <= qu
      BY <3>7, <3>8
    <3> HIDE DEF qu, qv, ru, rv
    <3>10. Base * (qv + 1) <= Base * qu
      BY <1>1, <3>8, <3>9
    <3>11. Base * (qv + 1) = Base * qv + Base /\ Base * qv \in Nat /\ Base * qu \in Nat
      BY <1>1, <3>8
    <3> QED
      BY <1>1, <3>6, <3>8, <3>10, <3>11
  <2>2. a <= b
    BY <1>10, <2>1
  <2> QED
    BY <1>12, <2>2
<1>15. a % Base < b % Base
  <2> DEFINE c == Base * (a \div Base)
             ra == a % Base
             rb == b % Base
  <2>1. c \in Nat /\ ra \in Nat /\ rb \in Nat /\ a = c + ra /\ b = c + rb
    <3>1. Base * (a \div Base) \in Nat
      BY <1>1, <1>13
    <3> QED
      BY <1>12, <1>13, <3>1
  <2> HIDE DEF c, ra, rb
  <2>2. ra < rb
    BY <1>12, <1>14, <2>1
  <2> QED
    BY <2>2 DEF ra, rb
<1> DEFINE i == W - (e - 1)
<1>16. i \in 1 .. W /\ W - i = e - 1 /\ i \in Nat
  BY <1>1, <1>10
<1>17. x[i] < y[i]
  BY <1>4, <1>5, <1>15, <1>16
<1>18. ASSUME NEW j \in 1 .. i - 1 PROVE x[j] = y[j]
  <2>1. j \in 1 .. W /\ W - j \in e .. W
    BY <1>1, <1>10
  <2>2. s[W - j] = t[W - j]
    BY <1>8, <2>1
  <2> QED
    BY <1>4, <1>5, <2>1, <2>2
<1>19. MismatchAt(x, y, i)
  <2> HIDE DEF i
  <2> QED
    BY <1>4, <1>5, <1>16, <1>17, <1>18 DEF MismatchAt
<1>20. Mismatch(x, y)
  <2> HIDE DEF i
  <2> QED
    BY <1>16, <1>19 DEF Mismatch
<1> QED
  BY <1>20 DEF x, y

-----------------------------------------------------------------------------
(* Values and keys.                                                         *)

\* What a column holds. SerializeInt refuses the smallest integer; the order and
\* the way back would hold for it too.
Values == {I64(n) : n \in MinInt .. MaxInt} \union {Str(s) : s \in Seq(Byte)}

\* The order of two values of one type, and of two rows of columns.
ValueBefore(v, w) == IF v.t = "int" THEN v.n < w.n ELSE Before(v.s, w.s)
ValsBefore(a, b) ==
  \E i \in 1 .. Len(a) : (\A j \in 1 .. i - 1 : a[j] = b[j]) /\ ValueBefore(a[i], b[i])

\* Values of the same columns.
Alike(a, b) ==
  /\ a \in Seq(Values) /\ b \in Seq(Values)
  /\ Len(a) = Len(b) /\ \A i \in 1 .. Len(a) : a[i].t = b[i].t

\* A value is an integer or a string.
LEMMA ValueIs ==
  ASSUME NEW v \in Values
  PROVE  \/ v.t = "int" /\ v = I64(v.n) /\ v.n \in MinInt .. MaxInt
         \/ v.t = "bytes" /\ v = Str(v.s) /\ v.s \in Seq(Byte)
<1>1. CASE \E n \in MinInt .. MaxInt : v = I64(n)
  <2>1. PICK n \in MinInt .. MaxInt : v = I64(n)
    BY <1>1
  <2>2. v.t = "int" /\ v.n = n
    BY <2>1 DEF I64, Value
  <2> QED
    BY <2>1, <2>2
<1>2. CASE \E s \in Seq(Byte) : v = Str(s)
  <2>1. PICK s \in Seq(Byte) : v = Str(s)
    BY <1>2
  <2>2. v.t = "bytes" /\ v.s = s
    BY <2>1 DEF Str, Value
  <2> QED
    BY <2>1, <2>2
<1> QED
  BY <1>1, <1>2 DEF Values

\* With the sign flipped an integer is a number that fits its bytes.
LEMMA SignFlipped ==
  ASSUME NEW n \in MinInt .. MaxInt
  PROVE  n \in Int /\ n + Half \in Nat /\ n + Half < Power[IntWidth]
<1>1. Half \in Nat /\ 2 * Half = Power[IntWidth]
  BY Widths
<1> QED
  BY <1>1 DEF MinInt, MaxInt

\* A value is a sequence of bytes.
LEMMA SerializedIs ==
  ASSUME NEW v \in Values
  PROVE  SerializeValue(v) \in Seq(Int)
<1>1. CASE v.t = "int" /\ v.n \in MinInt .. MaxInt
  <2>1. v.n + Half \in Nat
    BY <1>1, SignFlipped
  <2>2. BigEndian(v.n + Half) \in Seq(Int)
    BY <2>1, BigEndianIs
  <2> QED
    BY <1>1, <2>2 DEF SerializeValue, SerializeInt
<1>2. CASE v.t = "bytes" /\ v.s \in Seq(Byte)
  <2>1. SerializeBytes(v.s) \in Seq(Int)
    BY <1>2, EscapesAre
  <2>2. Append(SerializeBytes(v.s), 0) \in Seq(Int)
    BY <2>1
  <2> QED
    BY <1>2, <2>2 DEF SerializeValue
<1> QED
  BY <1>1, <1>2, ValueIs

\* Values of one type differ in a byte in their order.
LEMMA ValueMismatch ==
  ASSUME NEW v \in Values, NEW w \in Values, v.t = w.t, ValueBefore(v, w)
  PROVE  Mismatch(SerializeValue(v), SerializeValue(w))
<1>1. CASE v.t = "int"
  <2>1. w.t = "int" /\ v.n \in MinInt .. MaxInt /\ w.n \in MinInt .. MaxInt /\ v.n < w.n
    BY <1>1, ValueIs DEF ValueBefore
  <2>2. v.n \in Int /\ v.n + Half \in Nat
    BY <2>1, SignFlipped
  <2>3. w.n \in Int /\ w.n + Half \in Nat /\ w.n + Half < Power[IntWidth]
    BY <2>1, SignFlipped
  <2>4. v.n + Half < w.n + Half
    BY <2>1, <2>2, <2>3, Widths
  <2>5. Mismatch(BigEndian(v.n + Half), BigEndian(w.n + Half))
    BY <2>2, <2>3, <2>4, BigEndianMismatch
  <2> QED
    BY <1>1, <2>1, <2>5 DEF SerializeValue, SerializeInt
<1>2. CASE v.t # "int"
  <2>1. w.t # "int" /\ v.s \in Seq(Byte) /\ w.s \in Seq(Byte) /\ Before(v.s, w.s)
    BY <1>2, ValueIs DEF ValueBefore
  <2>2. Mismatch(Append(SerializeBytes(v.s), 0), Append(SerializeBytes(w.s), 0))
    BY <2>1, StringMismatch
  <2> QED
    BY <1>2, <2>1, <2>2 DEF SerializeValue
<1> QED
  BY <1>1, <1>2

\* The values of a key as bytes.
Serialized(a) == [i \in DOMAIN a |-> SerializeValue(a[i])]

\* They are parts to be joined behind the prefix.
LEMMA SerializedAre ==
  ASSUME NEW a \in Seq(Values)
  PROVE  /\ Serialized(a) \in Seq(Seq(Int)) /\ Len(Serialized(a)) = Len(a)
         /\ \A i \in 1 .. Len(a) : a[i] \in Values /\ Serialized(a)[i] = SerializeValue(a[i])
         /\ FlattenSeq(Serialized(a)) \in Seq(Int)
         /\ \A p \in Int : /\ EncodeKey(p, a) = <<p>> \o FlattenSeq(Serialized(a))
                           /\ EncodeKey(p, a) \in Seq(Int)
<1>1. Len(a) \in Nat /\ DOMAIN a = 1 .. Len(a) /\ \A i \in 1 .. Len(a) : a[i] \in Values
  OBVIOUS
<1>2. \A i \in 1 .. Len(a) : SerializeValue(a[i]) \in Seq(Int)
  BY <1>1, SerializedIs
<1>3. Serialized(a) = [i \in 1 .. Len(a) |-> SerializeValue(a[i])]
  BY <1>1 DEF Serialized
<1>4. /\ Serialized(a) \in Seq(Seq(Int)) /\ Len(Serialized(a)) = Len(a)
      /\ \A i \in 1 .. Len(a) : Serialized(a)[i] = SerializeValue(a[i])
  BY <1>1, <1>2, <1>3
<1>5. FlattenSeq(Serialized(a)) \in Seq(Int)
  <2>1. /\ \A k \in 0 .. Len(Serialized(a)) : Joined(Serialized(a), k) \in Seq(Int)
        /\ FlattenSeq(Serialized(a)) = Joined(Serialized(a), Len(Serialized(a)))
    BY <1>4, JoinedStep
  <2> QED
    BY <1>1, <1>4, <2>1
<1>6. ASSUME NEW p \in Int
      PROVE  /\ EncodeKey(p, a) = <<p>> \o FlattenSeq(Serialized(a))
             /\ EncodeKey(p, a) \in Seq(Int)
  <2>1. EncodeKey(p, a) = <<p>> \o FlattenSeq(Serialized(a))
    BY DEF EncodeKey, Serialized
  <2>2. <<p>> \o FlattenSeq(Serialized(a)) \in Seq(Int)
    BY <1>5
  <2> QED
    BY <2>1, <2>2
<1> QED
  BY <1>1, <1>4, <1>5, <1>6

\* Rows in order have keys in order.
LEMMA KeysFollowValues ==
  ASSUME NEW p \in Int, NEW a, NEW b, Alike(a, b), ValsBefore(a, b)
  PROVE  Before(EncodeKey(p, a), EncodeKey(p, b))
<1>1. /\ a \in Seq(Values) /\ b \in Seq(Values)
      /\ Len(a) = Len(b) /\ \A i \in 1 .. Len(a) : a[i].t = b[i].t
  BY DEF Alike
<1> DEFINE x == Serialized(a)
           y == Serialized(b)
<1>2. /\ x \in Seq(Seq(Int)) /\ Len(x) = Len(a)
      /\ \A i \in 1 .. Len(a) : a[i] \in Values /\ x[i] = SerializeValue(a[i])
      /\ FlattenSeq(x) \in Seq(Int)
      /\ EncodeKey(p, a) = <<p>> \o FlattenSeq(x) /\ EncodeKey(p, a) \in Seq(Int)
  BY <1>1, SerializedAre
<1>3. /\ y \in Seq(Seq(Int)) /\ Len(y) = Len(b)
      /\ \A i \in 1 .. Len(b) : b[i] \in Values /\ y[i] = SerializeValue(b[i])
      /\ FlattenSeq(y) \in Seq(Int)
      /\ EncodeKey(p, b) = <<p>> \o FlattenSeq(y) /\ EncodeKey(p, b) \in Seq(Int)
  BY <1>1, SerializedAre
<1>4. PICK i \in 1 .. Len(a) : (\A j \in 1 .. i - 1 : a[j] = b[j]) /\ ValueBefore(a[i], b[i])
  BY DEF ValsBefore
<1> HIDE DEF x, y
<1>5. i \in Nat \ {0} /\ i <= Len(x) /\ i <= Len(y) /\ i \in 1 .. Len(b) /\ Len(a) \in Nat
  BY <1>1, <1>2, <1>3, <1>4
<1>6. ASSUME NEW j \in 1 .. i - 1 PROVE x[j] = y[j]
  <2>1. j \in 1 .. Len(a) /\ j \in 1 .. Len(b)
    BY <1>1, <1>4, <1>5
  <2> QED
    BY <1>2, <1>3, <1>4, <2>1
<1>7. Mismatch(x[i], y[i])
  <2>1. a[i] \in Values /\ b[i] \in Values /\ a[i].t = b[i].t
    BY <1>1, <1>2, <1>3, <1>4, <1>5
  <2>2. Mismatch(SerializeValue(a[i]), SerializeValue(b[i]))
    BY <1>4, <2>1, ValueMismatch
  <2> QED
    BY <1>2, <1>3, <1>4, <1>5, <2>2
<1>8. Mismatch(FlattenSeq(x), FlattenSeq(y))
  BY <1>2, <1>3, <1>5, <1>6, <1>7, JoinedMismatch
<1>9. Mismatch(EncodeKey(p, a), EncodeKey(p, b))
  <2>1. <<p>> \in Seq(Int)
    OBVIOUS
  <2>2. Mismatch(<<p>> \o FlattenSeq(x), <<p>> \o FlattenSeq(y))
    BY <1>2, <1>3, <1>8, <2>1, MismatchAfter
  <2> QED
    BY <1>2, <1>3, <2>2
<1> QED
  BY <1>2, <1>3, <1>9, MismatchBefore

\* Of two different rows of the same columns, one comes before the other.
LEMMA ValsSomeWay ==
  ASSUME NEW a, NEW b, Alike(a, b), a # b
  PROVE  ValsBefore(a, b) \/ ValsBefore(b, a)
<1>1. /\ a \in Seq(Values) /\ b \in Seq(Values)
      /\ Len(a) = Len(b) /\ \A i \in 1 .. Len(a) : a[i].t = b[i].t
  BY DEF Alike
<1>2. /\ Len(a) \in Nat /\ Len(b) \in Nat
      /\ \A i \in 1 .. Len(a) : a[i] \in Values /\ b[i] \in Values
  BY <1>1
<1> DEFINE D == {i \in 1 .. Len(a) : a[i] # b[i]}
<1>3. D \subseteq Nat /\ D # {}
  <2>1. \E i \in 1 .. Len(a) : a[i] # b[i]
    BY <1>1, SeqEqual
  <2> QED
    BY <1>2, <2>1
<1>4. PICK i \in D : \A j \in D : i <= j
  <2> HIDE DEF D
  <2> QED
    BY <1>3, LeastNat
<1>5. i \in 1 .. Len(a) /\ a[i] # b[i] /\ i \in 1 .. Len(b)
  BY <1>1
<1>6. ASSUME NEW j \in 1 .. i - 1 PROVE a[j] = b[j]
  <2>1. j \in 1 .. Len(a) /\ ~(i <= j)
    BY <1>2, <1>5
  <2>2. j \notin D
    <3> HIDE DEF D
    <3> QED
      BY <1>4, <2>1
  <2> QED
    BY <2>1, <2>2
<1>7. ValueBefore(a[i], b[i]) \/ ValueBefore(b[i], a[i])
  <2> DEFINE v == a[i]
             w == b[i]
  <2>1. v \in Values /\ w \in Values /\ v.t = w.t /\ v # w
    BY <1>1, <1>2, <1>5
  <2> HIDE DEF v, w
  <2>2. CASE v.t = "int"
    <3>1. w.t = "int" /\ v = I64(v.n) /\ w = I64(w.n) /\ v.n \in MinInt .. MaxInt /\ w.n \in MinInt .. MaxInt
      BY <2>1, <2>2, ValueIs
    <3>2. v.n \in Int /\ w.n \in Int
      BY <3>1, SignFlipped
    <3>3. v.n # w.n
      BY <2>1, <3>1
    <3>4. v.n < w.n \/ w.n < v.n
      BY <3>2, <3>3
    <3> QED
      BY <2>2, <3>1, <3>4 DEF ValueBefore, v, w
  <2>3. CASE v.t # "int"
    <3>1. w.t # "int" /\ v = Str(v.s) /\ w = Str(w.s) /\ v.s \in Seq(Byte) /\ w.s \in Seq(Byte)
      BY <2>1, <2>3, ValueIs
    <3>2. v.s # w.s
      BY <2>1, <3>1
    <3>3. v.s \in Seq(Int) /\ w.s \in Seq(Int)
      BY <3>1, BytesAreInts
    <3>4. Before(v.s, w.s) \/ Before(w.s, v.s)
      BY <3>2, <3>3, BeforeSomeWay
    <3> QED
      BY <2>3, <3>1, <3>4 DEF ValueBefore, v, w
  <2> QED
    BY <2>2, <2>3
<1> HIDE DEF D
<1>8. ValueBefore(a[i], b[i]) => ValsBefore(a, b)
  BY <1>5, <1>6 DEF ValsBefore
<1>9. ValueBefore(b[i], a[i]) => ValsBefore(b, a)
  BY <1>5, <1>6 DEF ValsBefore
<1> QED
  BY <1>7, <1>8, <1>9

\* EncodeKey (schema.go:95-111) keeps the order: the keys of two rows with the
\* same columns, integers of any sign and strings of any bytes in any number and
\* order, compare as bytes the way their values compare column by column. A range
\* of values is a range of keys because of it.
THEOREM KeysSortAsValues ==
  ASSUME NEW p \in Int, NEW a, NEW b, Alike(a, b)
  PROVE  Before(EncodeKey(p, a), EncodeKey(p, b)) <=> ValsBefore(a, b)
<1>1. a \in Seq(Values) /\ b \in Seq(Values) /\ Alike(b, a)
  BY DEF Alike
<1>2. EncodeKey(p, a) \in Seq(Int) /\ EncodeKey(p, b) \in Seq(Int)
  BY <1>1, SerializedAre
<1>3. ValsBefore(a, b) => Before(EncodeKey(p, a), EncodeKey(p, b))
  BY KeysFollowValues
<1>4. ASSUME Before(EncodeKey(p, a), EncodeKey(p, b)) PROVE ValsBefore(a, b)
  <2>1. ~Before(EncodeKey(p, b), EncodeKey(p, a))
    BY <1>2, <1>4, BeforeOneWay
  <2>2. ~ValsBefore(b, a)
    BY <1>1, <2>1, KeysFollowValues
  <2>3. a # b
    BY <1>2, <1>4, NotBeforeItself
  <2> QED
    BY <2>2, <2>3, ValsSomeWay
<1> QED
  BY <1>3, <1>4

\* Different rows have different keys (schema.go:95-111): with the prefix of one
\* table or index, no delimiter, escape or sign makes two keys meet.
THEOREM KeysTellApart ==
  ASSUME NEW p \in Int, NEW a, NEW b, Alike(a, b), EncodeKey(p, a) = EncodeKey(p, b)
  PROVE  a = b
<1> SUFFICES ASSUME a # b PROVE FALSE
  OBVIOUS
<1>1. a \in Seq(Values) /\ b \in Seq(Values) /\ Alike(b, a)
  BY DEF Alike
<1>2. EncodeKey(p, a) \in Seq(Int) /\ EncodeKey(p, b) \in Seq(Int)
  BY <1>1, SerializedAre
<1>3. Before(EncodeKey(p, a), EncodeKey(p, b)) \/ Before(EncodeKey(p, b), EncodeKey(p, a))
  BY <1>1, ValsSomeWay, KeysFollowValues
<1>4. ~Before(EncodeKey(p, a), EncodeKey(p, a))
  BY <1>2, NotBeforeItself
<1> QED
  BY <1>3, <1>4

\* The keys of a smaller prefix come first whatever their values
\* (schema.go:97-98): tables and indexes have ranges of their own.
THEOREM PrefixesSortFirst ==
  ASSUME NEW p \in Int, NEW q \in Int, p < q, NEW a \in Seq(Values), NEW b \in Seq(Values)
  PROVE  Before(EncodeKey(p, a), EncodeKey(q, b))
<1>1. /\ EncodeKey(p, a) = <<p>> \o FlattenSeq(Serialized(a)) /\ FlattenSeq(Serialized(a)) \in Seq(Int)
      /\ EncodeKey(p, a) \in Seq(Int)
  BY SerializedAre
<1>2. /\ EncodeKey(q, b) = <<q>> \o FlattenSeq(Serialized(b)) /\ FlattenSeq(Serialized(b)) \in Seq(Int)
      /\ EncodeKey(q, b) \in Seq(Int)
  BY SerializedAre
<1>3. <<p>> \in Seq(Int) /\ <<q>> \in Seq(Int)
  OBVIOUS
<1>4. MismatchAt(<<p>>, <<q>>, 1)
  BY DEF MismatchAt
<1>5. Mismatch(<<p>>, <<q>>)
  BY <1>4 DEF Mismatch
<1>6. Mismatch(<<p>> \o FlattenSeq(Serialized(a)), <<q>> \o FlattenSeq(Serialized(b)))
  BY <1>1, <1>2, <1>3, <1>5, MismatchGoesOn
<1> QED
  BY <1>1, <1>2, <1>6, MismatchBefore

-----------------------------------------------------------------------------
(* The way back.                                                            *)

\* Where a part is in what all parts are joined to.
LEMMA PartAt ==
  ASSUME NEW p \in Seq(Seq(Int)), NEW k \in 1 .. Len(p)
  PROVE  LET at == Len(Joined(p, k - 1)) IN
         /\ at \in Nat /\ p[k] \in Seq(Int) /\ Len(p[k]) \in Nat
         /\ Len(Joined(p, k)) = at + Len(p[k])
         /\ at + Len(p[k]) <= Len(FlattenSeq(p))
         /\ \A i \in 1 .. Len(p[k]) : FlattenSeq(p)[at + i] = p[k][i]
<1> DEFINE c == Joined(p, k - 1)
           e == p[k]
<1>1. k \in 0 .. Len(p) /\ k - 1 \in 0 .. Len(p)
  OBVIOUS
<1>2. /\ \A i \in 1 .. Len(p) : Joined(p, i) = Joined(p, i - 1) \o p[i]
      /\ \A i \in 0 .. Len(p) : Joined(p, i) \in Seq(Int)
  BY JoinedStep
<1>3. PICK r \in Seq(Int) : FlattenSeq(p) = Joined(p, k) \o r
  BY <1>1, JoinedBegins
<1>4. e \in Seq(Int)
  OBVIOUS
<1>5. c \in Seq(Int) /\ Joined(p, k) = c \o e
  BY <1>1, <1>2
<1> HIDE DEF c, e
<1>6. FlattenSeq(p) = (c \o e) \o r
  BY <1>3, <1>5
<1>7. Len(c) \in Nat /\ Len(e) \in Nat /\ Len(r) \in Nat /\ c \o e \in Seq(Int)
  BY <1>4, <1>5
<1>8. Len(c \o e) = Len(c) + Len(e)
  BY <1>4, <1>5
<1>9. Len((c \o e) \o r) = Len(c) + Len(e) + Len(r)
  BY <1>7, <1>8
<1>10. ASSUME NEW i \in 1 .. Len(e) PROVE ((c \o e) \o r)[Len(c) + i] = e[i]
  <2>1. Len(c) + i \in 1 .. Len(c \o e)
    BY <1>7, <1>8
  <2>2. ((c \o e) \o r)[Len(c) + i] = (c \o e)[Len(c) + i]
    BY <1>7, <2>1
  <2>3. (c \o e)[Len(c) + i] = e[i]
    <3>1. Len(c) + i \in 1 .. Len(c) + Len(e) /\ ~(Len(c) + i <= Len(c)) /\ (Len(c) + i) - Len(c) = i
      BY <1>7
    <3> QED
      BY <1>4, <1>5, <1>7, <3>1
  <2> QED
    BY <2>2, <2>3
<1>11. Len(c) + Len(e) <= Len(FlattenSeq(p))
  BY <1>6, <1>7, <1>9
<1> QED
  BY <1>4, <1>5, <1>6, <1>7, <1>8, <1>10, <1>11 DEF c, e

\* DeserializeInt undoes SerializeInt.
LEMMA IntegerComesBack ==
  ASSUME NEW n \in MinInt .. MaxInt
  PROVE  DeserializeInt(SerializeInt(n)) = n
<1> DEFINE W == IntWidth
           m == n + Half
           s == Shifted(m)
           e == SerializeInt(n)
<1>1. W \in Nat /\ Base \in Nat /\ Half \in Nat
  BY Widths
<1>2. n \in Int /\ m \in Nat /\ m < Power[IntWidth]
  BY SignFlipped
<1> HIDE DEF m
<1>3. /\ s[0] = m /\ s[W] = 0
      /\ \A i \in 0 .. W : s[i] \in Nat
      /\ \A i \in 1 .. W : s[i] = s[i - 1] \div Base
  BY <1>2, ShiftedStep, ShiftedOut
<1>4. \A i \in 1 .. W : e[i] = s[W - i] % Base
  <2>1. e = BigEndian(m)
    BY DEF SerializeInt, m
  <2> HIDE DEF e
  <2> QED
    BY <1>2, <2>1, BigEndianIs
<1> DEFINE Upto(f) == f = [i \in 0 .. W |-> IF i = 0 THEN 0 ELSE f[i - 1] * Base + e[i]]
           u == CHOOSE f : Upto(f)
<1>5. DeserializeInt(e) = u[W] - Half
  BY DEF DeserializeInt
<1> HIDE DEF W, s, e
<1>6. ASSUME NEW i \in 1 .. W PROVE s[W - (i - 1)] * Base + e[i] = s[W - i]
  <2> DEFINE x == s[W - i]
             q == x \div Base
             r == x % Base
  <2>1. W - (i - 1) \in 1 .. W /\ (W - (i - 1)) - 1 = W - i /\ W - i \in 0 .. W
    BY <1>1
  <2>2. x \in Nat /\ s[W - (i - 1)] = q
    BY <1>3, <2>1
  <2>3. q \in Nat /\ r \in Nat /\ x = Base * q + r
    BY <2>2, QuotientRemainder
  <2>4. e[i] = r
    BY <1>4
  <2> HIDE DEF q, r
  <2>5. q * Base = Base * q /\ Base * q \in Nat
    BY <1>1, <2>3
  <2> HIDE DEF x
  <2>6. q * Base + r = x
    BY <2>2, <2>3, <2>5
  <2> QED
    BY <2>2, <2>4, <2>6 DEF x
<1>7. Upto([i \in 0 .. W |-> s[W - i]])
  <2> DEFINE f == [i \in 0 .. W |-> s[W - i]]
  <2>1. ASSUME NEW i \in 0 .. W PROVE f[i] = IF i = 0 THEN 0 ELSE f[i - 1] * Base + e[i]
    <3>1. CASE i = 0
      <4>1. W - 0 = W
        BY <1>1
      <4> QED
        BY <1>3, <3>1, <4>1
    <3>2. CASE i # 0
      <4>1. i \in 1 .. W /\ i - 1 \in 0 .. W
        BY <1>1, <3>2
      <4>2. f[i - 1] = s[W - (i - 1)] /\ f[i] = s[W - i]
        BY <4>1
      <4>3. s[W - (i - 1)] * Base + e[i] = s[W - i]
        BY <1>6, <4>1
      <4> HIDE DEF f
      <4> QED
        BY <3>2, <4>2, <4>3
    <3> QED
      BY <3>1, <3>2
  <2>2. f = [i \in 0 .. W |-> f[i]]
    OBVIOUS
  <2> QED
    BY <2>1, <2>2
<1>8. u = [i \in 0 .. W |-> IF i = 0 THEN 0 ELSE u[i - 1] * Base + e[i]]
  BY <1>7
<1> HIDE DEF u
<1>9. u[0] = 0 /\ \A i \in 1 .. W : u[i] = u[i - 1] * Base + e[i]
  BY <1>1, <1>8
<1> DEFINE T == {i \in 0 .. W : u[i] # s[W - i]}
<1>10. T = {}
  <2> SUFFICES ASSUME T # {} PROVE FALSE
    OBVIOUS
  <2>1. PICK k \in T : \A y \in T : k <= y
    <3>1. T \subseteq Nat /\ T # {}
      BY <1>1
    <3> HIDE DEF T
    <3> QED
      BY <3>1, LeastNat
  <2>2. k \in 0 .. W /\ u[k] # s[W - k]
    OBVIOUS
  <2>3. k # 0
    <3>1. W - 0 = W
      BY <1>1
    <3> QED
      BY <1>3, <1>9, <2>2, <3>1
  <2>4. k \in 1 .. W /\ k - 1 \in 0 .. W /\ ~(k <= k - 1)
    BY <1>1, <2>2, <2>3
  <2>5. u[k - 1] = s[W - (k - 1)]
    BY <2>1, <2>4
  <2>6. s[W - (k - 1)] * Base + e[k] = s[W - k]
    BY <1>6, <2>4
  <2>7. u[k] = u[k - 1] * Base + e[k]
    BY <1>9, <2>4
  <2> HIDE DEF T
  <2> QED
    BY <2>2, <2>5, <2>6, <2>7
<1>11. u[W] = m
  <2>1. W \in 0 .. W /\ W - W = 0
    BY <1>1
  <2> QED
    BY <1>3, <1>10, <2>1
<1>12. m - Half = n
  BY <1>1, <1>2 DEF m
<1>13. DeserializeInt(e) = n
  BY <1>5, <1>11, <1>12
<1> QED
  BY <1>13 DEF e

\* What reading so many bytes gives; the bytes of s are the first read.
Read(r, out, escape) == r = [out |-> out, escape |-> escape]
Begins(out, s, k) ==
  out \in Seq(Int) /\ Len(out) = k /\ \A i \in 1 .. k : out[i] = s[i]

\* An escaped byte is read as the byte it stands for.
LEMMA EscapeRead ==
  ASSUME NEW b \in Byte, NEW out \in Seq(Int), NEW r, Read(r, out, FALSE)
  PROVE  /\ b \in {0, 1} => /\ Len(Escape(b)) = 2
                            /\ Read(ReadByte(ReadByte(r, Escape(b)[1]), Escape(b)[2]), Append(out, b), FALSE)
         /\ b \notin {0, 1} => /\ Len(Escape(b)) = 1
                               /\ Read(ReadByte(r, Escape(b)[1]), Append(out, b), FALSE)
<1>1. b \in Int /\ b >= 0
  BY DEF Byte
<1>2. r.out = out /\ r.escape = FALSE
  BY DEF Read
<1>3. CASE b \in {0, 1}
  <2>1. Escape(b) = <<1, b + 1>>
    BY <1>3 DEF Escape
  <2>2. Len(Escape(b)) = 2 /\ Escape(b)[1] = 1 /\ Escape(b)[2] = b + 1
    BY <2>1
  <2> DEFINE q == ReadByte(r, 1)
  <2>3. q = [out |-> out, escape |-> TRUE]
    BY <1>2 DEF ReadByte
  <2>4. q.out = out /\ q.escape = TRUE
    BY <2>3
  <2> HIDE DEF q
  <2>5. (b + 1) - 1 = b
    BY <1>1
  <2>6. ReadByte(q, b + 1) = [out |-> Append(out, b), escape |-> FALSE]
    BY <2>4, <2>5 DEF ReadByte
  <2> QED
    BY <1>3, <2>2, <2>6 DEF q, Read
<1>4. CASE b \notin {0, 1}
  <2>1. Escape(b) = <<b>> /\ b # 1
    BY <1>4 DEF Escape
  <2>2. Len(Escape(b)) = 1 /\ Escape(b)[1] = b
    BY <2>1
  <2>3. ReadByte(r, b) = [out |-> Append(out, b), escape |-> FALSE]
    BY <1>2, <2>1 DEF ReadByte
  <2> QED
    BY <1>4, <2>2, <2>3 DEF Read
<1> QED
  BY <1>3, <1>4

\* DeserializeBytes undoes SerializeBytes.
LEMMA StringComesBack ==
  ASSUME NEW s \in Seq(Byte)
  PROVE  DeserializeBytes(SerializeBytes(s)) = s
<1> DEFINE p == Escapes(s)
           e == SerializeBytes(s)
           N == Len(e)
           D == [out : Seq(Int), escape : BOOLEAN]
           a == [out |-> << >>, escape |-> FALSE]
           G == [i \in 1 .. N |-> [r \in D |-> ReadByte(r, e[i])]]
           Reads(f) == f = [i \in 0 .. N |-> IF i = 0 THEN a ELSE ReadByte(f[i - 1], e[i])]
           u == CHOOSE f : Reads(f)
<1>1. /\ p \in Seq(Seq(Int)) /\ Len(p) = Len(s)
      /\ \A i \in 1 .. Len(s) : s[i] \in Byte /\ p[i] = Escape(s[i])
      /\ e = FlattenSeq(p) /\ e \in Seq(Int)
  BY EscapesAre
<1>2. N \in Nat /\ \A i \in 1 .. N : e[i] \in Int
  BY <1>1
<1>3. DeserializeBytes(e) = u[N].out
  BY DEF DeserializeBytes
<1>4. Len(s) \in Nat /\ s \in Seq(Int)
  BY BytesAreInts
<1> HIDE DEF e, N, p
<1>5. a \in D
  OBVIOUS
<1>6. ASSUME NEW i \in 1 .. N, NEW r \in D PROVE ReadByte(r, e[i]) \in D
  <2>1. e[i] \in Int /\ r.out \in Seq(Int) /\ r.escape \in BOOLEAN
    BY <1>2
  <2>2. Append(r.out, e[i] - 1) \in Seq(Int) /\ Append(r.out, e[i]) \in Seq(Int)
    BY <2>1
  <2> QED
    BY <2>1, <2>2 DEF ReadByte
<1>7. G \in [1 .. N -> [D -> D]]
  <2> HIDE DEF D
  <2> QED
    BY <1>6
<1>8. PICK f : Follows(f, N, D, a, G)
  <2> HIDE DEF D, a, G
  <2> QED
    BY <1>2, <1>5, <1>7, RunExists, Zenon
<1>9. Reads(f)
  <2>1. f \in [0 .. N -> D] /\ f = [i \in 0 .. N |-> IF i = 0 THEN a ELSE G[i][f[i - 1]]]
    BY <1>8 DEF Follows
  <2> HIDE DEF D, a
  <2>2. ASSUME NEW i \in 0 .. N PROVE f[i] = IF i = 0 THEN a ELSE ReadByte(f[i - 1], e[i])
    <3>1. CASE i = 0
      BY <2>1, <3>1
    <3>2. CASE i # 0
      <4>1. i \in 1 .. N /\ i - 1 \in 0 .. N
        BY <1>2, <3>2
      <4>2. f[i] = G[i][f[i - 1]]
        <5> HIDE DEF G
        <5> QED
          BY <2>1, <3>2
      <4>3. f[i - 1] \in D
        BY <2>1, <4>1
      <4> QED
        BY <3>2, <4>1, <4>2, <4>3
    <3> QED
      BY <3>1, <3>2
  <2>3. f = [i \in 0 .. N |-> f[i]]
    BY <2>1
  <2> QED
    BY <2>2, <2>3
<1>10. Reads(u)
  BY <1>9
<1> HIDE DEF u
<1>11. u[0] = a /\ \A i \in 1 .. N : u[i] = ReadByte(u[i - 1], e[i])
  <2> HIDE DEF a
  <2> QED
    BY <1>2, <1>10
<1> DEFINE at(k) == Len(Joined(p, k))
           Good(k) == \E out : Begins(out, s, k) /\ Read(u[at(k)], out, FALSE)
           T == {k \in 0 .. Len(s) : ~Good(k)}
<1>12. Good(0)
  <2>1. at(0) = 0
    <3>1. Joined(p, 0) = << >>
      BY <1>1, JoinedStep
    <3> QED
      BY <3>1
  <2>2. Begins(<< >>, s, 0)
    BY DEF Begins
  <2>3. Read(u[0], << >>, FALSE)
    BY <1>11 DEF Read
  <2> QED
    BY <2>1, <2>2, <2>3
<1>13. ASSUME NEW k \in 1 .. Len(s), Good(k - 1) PROVE Good(k)
  <2> DEFINE c == at(k - 1)
             b == s[k]
             x == Escape(b)
  <2>1. PICK out : Begins(out, s, k - 1) /\ Read(u[c], out, FALSE)
    BY <1>13
  <2>2. b \in Byte /\ p[k] = x /\ k \in 1 .. Len(p)
    BY <1>1
  <2>3. /\ c \in Nat /\ Len(x) \in Nat /\ at(k) = c + Len(x) /\ c + Len(x) <= N
        /\ \A i \in 1 .. Len(x) : e[c + i] = x[i]
    <3>1. /\ c \in Nat /\ Len(p[k]) \in Nat /\ at(k) = c + Len(p[k])
          /\ c + Len(p[k]) <= Len(FlattenSeq(p))
          /\ \A i \in 1 .. Len(p[k]) : FlattenSeq(p)[c + i] = p[k][i]
      BY <1>1, <2>2, PartAt
    <3> QED
      BY <1>1, <2>2, <3>1 DEF N
  <2>4. out \in Seq(Int)
    BY <2>1 DEF Begins
  <2>5. /\ b \in {0, 1} => /\ Len(x) = 2
                           /\ Read(ReadByte(ReadByte(u[c], x[1]), x[2]), Append(out, b), FALSE)
        /\ b \notin {0, 1} => Len(x) = 1 /\ Read(ReadByte(u[c], x[1]), Append(out, b), FALSE)
    BY <2>1, <2>2, <2>4, EscapeRead
  <2>6. Begins(Append(out, b), s, k)
    <3>1. k \in Nat /\ k - 1 \in Nat /\ Len(out) = k - 1 /\ \A i \in 1 .. k - 1 : out[i] = s[i]
      BY <1>4, <2>1 DEF Begins
    <3>2. b \in Int
      BY <2>2 DEF Byte
    <3>3. Append(out, b) \in Seq(Int) /\ Len(Append(out, b)) = k
          /\ \A i \in 1 .. k : Append(out, b)[i] = IF i = k THEN b ELSE out[i]
      BY <2>4, <3>1, <3>2
    <3>4. \A i \in 1 .. k : i = k \/ i \in 1 .. k - 1
      BY <3>1
    <3> QED
      BY <3>1, <3>3, <3>4 DEF Begins
  <2>7. Read(u[at(k)], Append(out, b), FALSE)
    <3> HIDE DEF c, x, at
    <3>1. CASE b \in {0, 1}
      <4>1. Len(x) = 2 /\ at(k) = c + 2 /\ c + 1 \in 1 .. N /\ c + 2 \in 1 .. N
            /\ (c + 1) - 1 = c /\ (c + 2) - 1 = c + 1
        <5>1. Len(x) = 2
          BY <2>5, <3>1
        <5>2. c \in Nat /\ at(k) = c + Len(x) /\ c + Len(x) <= N /\ N \in Nat
          BY <1>2, <2>3
        <5> QED
          BY <5>1, <5>2
      <4>2. e[c + 1] = x[1] /\ e[c + 2] = x[2]
        BY <2>3, <4>1
      <4>3. u[c + 1] = ReadByte(u[c], x[1])
        BY <1>11, <4>1, <4>2
      <4>4. u[c + 2] = ReadByte(u[c + 1], x[2])
        BY <1>11, <4>1, <4>2
      <4> QED
        BY <2>5, <3>1, <4>1, <4>3, <4>4
    <3>2. CASE b \notin {0, 1}
      <4>1. Len(x) = 1 /\ at(k) = c + 1 /\ c + 1 \in 1 .. N /\ (c + 1) - 1 = c
        <5>1. Len(x) = 1
          BY <2>5, <3>2
        <5>2. c \in Nat /\ at(k) = c + Len(x) /\ c + Len(x) <= N /\ N \in Nat
          BY <1>2, <2>3
        <5> QED
          BY <5>1, <5>2
      <4>2. e[c + 1] = x[1]
        BY <2>3, <4>1
      <4>3. u[c + 1] = ReadByte(u[c], x[1])
        BY <1>11, <4>1, <4>2
      <4> QED
        BY <2>5, <3>2, <4>1, <4>3
    <3> QED
      BY <3>1, <3>2
  <2> QED
    BY <2>6, <2>7
<1> HIDE DEF Good
<1>14. T = {}
  <2> SUFFICES ASSUME T # {} PROVE FALSE
    OBVIOUS
  <2>1. PICK k \in T : \A y \in T : k <= y
    <3>1. T \subseteq Nat /\ T # {}
      BY <1>4
    <3> HIDE DEF T
    <3> QED
      BY <3>1, LeastNat
  <2>2. k \in 0 .. Len(s) /\ ~Good(k)
    OBVIOUS
  <2>3. k # 0
    BY <1>12, <2>2
  <2>4. k \in 1 .. Len(s) /\ k - 1 \in 0 .. Len(s) /\ ~(k <= k - 1)
    BY <1>4, <2>2, <2>3
  <2>5. Good(k - 1)
    BY <2>1, <2>4
  <2> QED
    BY <1>13, <2>2, <2>4, <2>5
<1>15. Good(Len(s))
  <2>1. Len(s) \in 0 .. Len(s)
    BY <1>4
  <2> QED
    BY <1>14, <2>1
<1>16. PICK out : Begins(out, s, Len(s)) /\ Read(u[at(Len(s))], out, FALSE)
  BY <1>15 DEF Good
<1>17. at(Len(s)) = N
  <2>1. FlattenSeq(p) = Joined(p, Len(p))
    BY <1>1, JoinedStep
  <2> QED
    BY <1>1, <2>1 DEF N
<1>18. u[N].out = out
  BY <1>16, <1>17 DEF Read
<1>19. out = s
  <2>1. out \in Seq(Int) /\ Len(out) = Len(s) /\ \A i \in 1 .. Len(out) : out[i] = s[i]
    BY <1>16 DEF Begins
  <2> QED
    BY <1>4, <2>1, SeqEqual
<1>20. DeserializeBytes(e) = s
  BY <1>3, <1>18, <1>19
<1> QED
  BY <1>20 DEF e

\* An escaped string does not contain the delimiter.
LEMMA StringHasNoZero ==
  ASSUME NEW s \in Seq(Byte)
  PROVE  \A i \in 1 .. Len(SerializeBytes(s)) : SerializeBytes(s)[i] # 0
<1> DEFINE p == Escapes(s)
           Good(k) == \A i \in 1 .. Len(Joined(p, k)) : Joined(p, k)[i] # 0
           T == {k \in 0 .. Len(s) : ~Good(k)}
<1>1. /\ p \in Seq(Seq(Int)) /\ Len(p) = Len(s)
      /\ \A i \in 1 .. Len(s) : s[i] \in Byte /\ p[i] = Escape(s[i])
      /\ SerializeBytes(s) = FlattenSeq(p)
  BY EscapesAre
<1>2. /\ Joined(p, 0) = << >>
      /\ \A k \in 1 .. Len(p) : Joined(p, k) = Joined(p, k - 1) \o p[k]
      /\ \A k \in 0 .. Len(p) : Joined(p, k) \in Seq(Int)
      /\ FlattenSeq(p) = Joined(p, Len(p))
  BY <1>1, JoinedStep
<1>3. Len(s) \in Nat
  OBVIOUS
<1> HIDE DEF p
<1>4. Good(0)
  BY <1>2
<1>5. ASSUME NEW k \in 1 .. Len(s), Good(k - 1) PROVE Good(k)
  <2> DEFINE c == Joined(p, k - 1)
             x == p[k]
  <2>1. /\ x \in Seq(Int) /\ \A i \in 1 .. Len(x) : x[i] >= 1
    <3>1. s[k] \in Byte /\ x = Escape(s[k])
      BY <1>1
    <3>2. /\ Escape(s[k]) \in Seq(Int)
          /\ \A i \in 1 .. Len(Escape(s[k])) : Escape(s[k])[i] >= 1
      BY <3>1, EscapeHasNoZero
    <3> HIDE DEF x
    <3> QED
      BY <3>1, <3>2
  <2>2. c \in Seq(Int) /\ Joined(p, k) = c \o x
    <3>1. k - 1 \in 0 .. Len(p) /\ k \in 1 .. Len(p)
      BY <1>1, <1>3
    <3> QED
      BY <1>2, <3>1
  <2>3. \A i \in 1 .. Len(c) : c[i] # 0
    BY <1>5
  <2> HIDE DEF c, x
  <2>4. Len(c) \in Nat /\ Len(x) \in Nat /\ Len(c \o x) = Len(c) + Len(x)
    BY <2>1, <2>2
  <2>5. ASSUME NEW i \in 1 .. Len(c \o x) PROVE (c \o x)[i] # 0
    <3>1. CASE i <= Len(c)
      <4>1. i \in 1 .. Len(c) /\ (c \o x)[i] = c[i]
        BY <2>1, <2>2, <2>4, <3>1
      <4> QED
        BY <2>3, <4>1
    <3>2. CASE ~(i <= Len(c))
      <4>1. i - Len(c) \in 1 .. Len(x) /\ (c \o x)[i] = x[i - Len(c)]
        BY <2>1, <2>2, <2>4, <3>2
      <4>2. x[i - Len(c)] >= 1 /\ x[i - Len(c)] \in Int
        BY <2>1, <4>1
      <4> QED
        BY <4>1, <4>2
    <3> QED
      BY <3>1, <3>2
  <2> QED
    BY <2>2, <2>5
<1> HIDE DEF Good
<1>6. T = {}
  <2> SUFFICES ASSUME T # {} PROVE FALSE
    OBVIOUS
  <2>1. PICK k \in T : \A y \in T : k <= y
    <3>1. T \subseteq Nat /\ T # {}
      BY <1>3
    <3> HIDE DEF T
    <3> QED
      BY <3>1, LeastNat
  <2>2. k \in 0 .. Len(s) /\ ~Good(k)
    OBVIOUS
  <2>3. k # 0
    BY <1>4, <2>2
  <2>4. k \in 1 .. Len(s) /\ k - 1 \in 0 .. Len(s) /\ ~(k <= k - 1)
    BY <1>3, <2>2, <2>3
  <2>5. Good(k - 1)
    BY <2>1, <2>4
  <2> QED
    BY <1>5, <2>2, <2>4, <2>5
<1>7. Good(Len(p))
  <2>1. Len(p) \in 0 .. Len(s)
    BY <1>1, <1>3
  <2> QED
    BY <1>6, <2>1
<1> QED
  BY <1>1, <1>2, <1>7 DEF Good

\* The bytes of a value from position at + 1 on in a key.
Holds(key, at, x) ==
  /\ key \in Seq(Int) /\ x \in Seq(Int) /\ at \in Nat /\ at + Len(x) <= Len(key)
  /\ \A i \in 1 .. Len(x) : key[at + i] = x[i]

\* DecodeKey finds the end of a value, whatever its bytes are.
LEMMA EndFound ==
  ASSUME NEW v \in Values, NEW key, NEW at, Holds(key, at, SerializeValue(v))
  PROVE  Ends(key, at + 1, v.t) = at + Len(SerializeValue(v))
<1> DEFINE x == SerializeValue(v)
<1>1. /\ key \in Seq(Int) /\ x \in Seq(Int) /\ at \in Nat /\ at + Len(x) <= Len(key)
      /\ \A i \in 1 .. Len(x) : key[at + i] = x[i]
  BY DEF Holds
<1>2. Len(x) \in Nat /\ Len(key) \in Nat
  BY <1>1
<1>3. CASE v.t = "int" /\ v.n \in MinInt .. MaxInt
  <2>1. v.n + Half \in Nat
    BY <1>3, SignFlipped
  <2>2. Len(BigEndian(v.n + Half)) = IntWidth
    BY <2>1, BigEndianIs
  <2>3. Len(x) = IntWidth
    BY <1>3, <2>2 DEF SerializeValue, SerializeInt
  <2>4. Ends(key, at + 1, v.t) = at + 1 + IntWidth - 1
    BY <1>3 DEF Ends
  <2>5. IntWidth \in Nat
    BY Widths
  <2> HIDE DEF x
  <2>6. Ends(key, at + 1, v.t) = at + Len(x)
    BY <1>1, <2>3, <2>4, <2>5
  <2> QED
    BY <2>6 DEF x
<1>4. CASE v.t = "bytes" /\ v.s \in Seq(Byte)
  <2> DEFINE e == SerializeBytes(v.s)
             end == at + Len(x)
             IsEnd(j) == key[j] = 0 /\ \A h \in at + 1 .. j - 1 : key[h] # 0
  <2>1. e \in Seq(Int) /\ x = Append(e, 0)
    BY <1>4, EscapesAre DEF SerializeValue
  <2>2. \A i \in 1 .. Len(e) : e[i] # 0
    BY <1>4, StringHasNoZero
  <2>3. Ends(key, at + 1, v.t) = CHOOSE j \in at + 1 .. Len(key) : IsEnd(j)
    BY <1>4 DEF Ends
  <2> HIDE DEF e, x
  <2>4. Len(e) \in Nat /\ Len(x) = Len(e) + 1 /\ x[Len(x)] = 0 /\ \A i \in 1 .. Len(e) : x[i] = e[i]
    BY <2>1
  <2>5. end \in at + 1 .. Len(key) /\ end \in Nat
    BY <1>1, <1>2, <2>4
  <2>6. key[end] = 0
    <3>1. Len(x) \in 1 .. Len(x)
      BY <2>4
    <3> QED
      BY <1>1, <2>4, <3>1
  <2>7. ASSUME NEW h \in at + 1 .. end - 1 PROVE key[h] # 0
    <3>1. h - at \in 1 .. Len(e) /\ h - at \in 1 .. Len(x) /\ at + (h - at) = h
      <4>1. at \in Nat /\ Len(e) \in Nat /\ Len(x) = Len(e) + 1
        BY <1>1, <2>4
      <4>2. h \in Int /\ at + 1 <= h /\ h <= (at + Len(x)) - 1
        BY <4>1
      <4> QED
        BY ONLY <4>1, <4>2
    <3>2. key[at + (h - at)] = x[h - at] /\ x[h - at] = e[h - at] /\ e[h - at] # 0
      BY <1>1, <2>2, <2>4, <3>1
    <3> QED
      BY <3>1, <3>2
  <2>8. IsEnd(end)
    BY <2>6, <2>7
  <2>9. ASSUME NEW j \in at + 1 .. Len(key), IsEnd(j) PROVE j = end
    <3>1. ~(j < end)
      <4> SUFFICES ASSUME j < end PROVE FALSE
        OBVIOUS
      <4>1. j \in at + 1 .. end - 1
        BY <1>1, <1>2, <2>5
      <4> QED
        BY <2>7, <2>9, <4>1
    <3>2. ~(end < j)
      <4> SUFFICES ASSUME end < j PROVE FALSE
        OBVIOUS
      <4>1. end \in at + 1 .. j - 1
        BY <1>1, <1>2, <2>5
      <4> QED
        BY <2>6, <2>9, <4>1
    <3>3. j \in Int /\ end \in Int
      BY <1>1, <1>2, <2>5
    <3> HIDE DEF end
    <3> QED
      BY <3>1, <3>2, <3>3
  <2> HIDE DEF IsEnd, end
  <2>10. (CHOOSE j \in at + 1 .. Len(key) : IsEnd(j)) = end
    BY <2>5, <2>8, <2>9
  <2> QED
    BY <2>3, <2>10 DEF end, x
<1> QED
  BY <1>3, <1>4, ValueIs

\* DecodeKey reads a value back from its bytes.
LEMMA ValueComesBack ==
  ASSUME NEW v \in Values
  PROVE  Deserialize(SerializeValue(v), v.t) = v
<1>1. CASE v.t = "int" /\ v = I64(v.n) /\ v.n \in MinInt .. MaxInt
  <2>1. DeserializeInt(SerializeInt(v.n)) = v.n
    BY <1>1, IntegerComesBack
  <2> QED
    BY <1>1, <2>1 DEF Deserialize, SerializeValue
<1>2. CASE v.t = "bytes" /\ v = Str(v.s) /\ v.s \in Seq(Byte)
  <2> DEFINE e == SerializeBytes(v.s)
             x == Append(e, 0)
             y == SubSeq(x, 1, Len(x) - 1)
  <2>1. e \in Seq(Int)
    BY <1>2, EscapesAre
  <2>2. DeserializeBytes(e) = v.s
    BY <1>2, StringComesBack
  <2>3. Deserialize(SerializeValue(v), v.t) = Str(DeserializeBytes(y))
    BY <1>2 DEF Deserialize, SerializeValue
  <2> HIDE DEF e
  <2>4. x \in Seq(Int) /\ Len(x) = Len(e) + 1 /\ Len(e) \in Nat /\ \A i \in 1 .. Len(e) : x[i] = e[i]
    BY <2>1
  <2> HIDE DEF x
  <2>5. y \in Seq(Int) /\ Len(y) = Len(e) /\ \A i \in 1 .. Len(y) : y[i] = e[i]
    BY <2>4
  <2> HIDE DEF y
  <2>6. y = e
    BY <2>1, <2>5, SeqEqual
  <2> QED
    BY <1>2, <2>2, <2>3, <2>6
<1> QED
  BY <1>1, <1>2, ValueIs

\* What is from one position to another in a key.
LEMMA PartCutOut ==
  ASSUME NEW key, NEW at, NEW x, Holds(key, at, x)
  PROVE  SubSeq(key, at + 1, at + Len(x)) = x
<1> DEFINE y == SubSeq(key, at + 1, at + Len(x))
<1>1. /\ key \in Seq(Int) /\ x \in Seq(Int) /\ at \in Nat /\ at + Len(x) <= Len(key)
      /\ \A i \in 1 .. Len(x) : key[at + i] = x[i]
  BY DEF Holds
<1>2. Len(x) \in Nat /\ Len(key) \in Nat
  BY <1>1
<1>3. y \in Seq(Int) /\ Len(y) = Len(x)
  <2>1. \A i \in at + 1 .. at + Len(x) : i \in 1 .. Len(key)
    BY <1>1, <1>2
  <2> QED
    BY <1>1, <1>2, <2>1
<1>4. ASSUME NEW i \in 1 .. Len(x) PROVE y[i] = x[i]
  <2>1. y[i] = key[at + 1 + i - 1]
    <3>1. i \in 1 .. (at + Len(x)) - (at + 1) + 1 /\ at + 1 \in Int /\ at + Len(x) \in Int
      BY <1>1, <1>2
    <3> QED
      BY <1>1, <3>1
  <2>2. at + 1 + i - 1 = at + i
    BY <1>1, <1>2
  <2> QED
    BY <1>1, <2>1, <2>2
<1> HIDE DEF y
<1>5. y = x
  BY <1>1, <1>3, <1>4, SeqEqual
<1> QED
  BY <1>5 DEF y

\* DecodeKey (schema.go:113-151) reads back what EncodeKey wrote, for any columns:
\* it finds where each value ends although strings may contain the delimiter and
\* integers do, and undoes escapes and signs.
THEOREM KeysDecode ==
  ASSUME NEW p \in Int, NEW a \in Seq(Values)
  PROVE  Decode(EncodeKey(p, a), [j \in 1 .. Len(a) |-> a[j].t]) = a
<1> DEFINE x == Serialized(a)
           F == FlattenSeq(x)
           N == Len(a)
           key == EncodeKey(p, a)
           types == [j \in 1 .. N |-> a[j].t]
           at(j) == Len(Joined(x, j))
           Lasts(f) == f = [j \in 0 .. N |-> IF j = 0 THEN 1 ELSE Ends(key, f[j - 1] + 1, types[j])]
           last == CHOOSE f : Lasts(f)
<1>1. N \in Nat /\ a \in [1 .. N -> Values]
  OBVIOUS
<1>2. /\ x \in Seq(Seq(Int)) /\ Len(x) = N
      /\ \A i \in 1 .. N : a[i] \in Values /\ x[i] = SerializeValue(a[i])
      /\ F \in Seq(Int) /\ key = <<p>> \o F /\ key \in Seq(Int)
  BY SerializedAre
<1>3. Len(types) = N /\ DOMAIN types = 1 .. N /\ \A j \in 1 .. N : types[j] = a[j].t
  BY <1>1
<1> HIDE DEF x, N, types
<1>4. Decode(key, types) = [j \in 1 .. N |-> Deserialize(SubSeq(key, last[j - 1] + 1, last[j]), types[j])]
  <2>1. Decode(key, types) = [j \in DOMAIN types |-> Deserialize(SubSeq(key, last[j - 1] + 1, last[j]), types[j])]
    <3> HIDE DEF key
    <3> QED
      BY <1>3 DEF Decode
  <2> HIDE DEF last, key
  <2> QED
    BY <1>3, <2>1
<1> HIDE DEF key
<1>5. Len(F) \in Nat /\ Len(key) = 1 + Len(F) /\ \A i \in 1 .. Len(F) : key[1 + i] = F[i]
  <2> HIDE DEF F
  <2>1. Len(F) \in Nat
    BY <1>2
  <2>2. Len(<<p>> \o F) = 1 + Len(F) /\ \A i \in 1 .. Len(F) : (<<p>> \o F)[1 + i] = F[i]
    BY <1>2, <2>1
  <2> QED
    BY <1>2, <2>1, <2>2
<1>6. at(0) = 0
  <2>1. Joined(x, 0) = << >>
    BY <1>2, JoinedStep
  <2> QED
    BY <2>1
<1>7. ASSUME NEW j \in 1 .. N
      PROVE  /\ at(j - 1) \in Nat /\ at(j) = at(j - 1) + Len(x[j]) /\ Len(x[j]) \in Nat
             /\ Holds(key, 1 + at(j - 1), x[j])
  <2> DEFINE c == at(j - 1)
             e == x[j]
  <2>1. /\ c \in Nat /\ e \in Seq(Int) /\ Len(e) \in Nat /\ at(j) = c + Len(e) /\ c + Len(e) <= Len(F)
        /\ \A i \in 1 .. Len(e) : F[c + i] = e[i]
    <3>1. j \in 1 .. Len(x)
      BY <1>2
    <3> QED
      BY <1>2, <3>1, PartAt
  <2> HIDE DEF c, e, F, at
  <2>2. 1 + c \in Nat /\ (1 + c) + Len(e) <= Len(key)
    BY <1>5, <2>1
  <2>3. ASSUME NEW i \in 1 .. Len(e) PROVE key[(1 + c) + i] = e[i]
    <3>1. c + i \in 1 .. Len(F) /\ (1 + c) + i = 1 + (c + i)
      BY <1>5, <2>1
    <3>2. key[1 + (c + i)] = F[c + i]
      BY <1>5, <3>1
    <3> QED
      BY <2>1, <3>1, <3>2
  <2>4. Holds(key, 1 + c, e)
    BY <1>2, <2>1, <2>2, <2>3 DEF Holds
  <2> QED
    BY <2>1, <2>4 DEF c, e
<1> HIDE DEF at, F
<1>8. ASSUME NEW j \in 1 .. N
      PROVE  Ends(key, (1 + at(j - 1)) + 1, types[j]) = 1 + at(j)
  <2>1. a[j] \in Values /\ x[j] = SerializeValue(a[j]) /\ types[j] = a[j].t
    BY <1>2, <1>3
  <2>2. Holds(key, 1 + at(j - 1), SerializeValue(a[j]))
    BY <1>7, <2>1
  <2>3. Ends(key, (1 + at(j - 1)) + 1, a[j].t) = (1 + at(j - 1)) + Len(SerializeValue(a[j]))
    BY <2>1, <2>2, EndFound
  <2>4. (1 + at(j - 1)) + Len(x[j]) = 1 + at(j)
    BY <1>7
  <2> QED
    BY <2>1, <2>3, <2>4
<1>9. Lasts([j \in 0 .. N |-> 1 + at(j)])
  <2> DEFINE f == [j \in 0 .. N |-> 1 + at(j)]
  <2>1. ASSUME NEW j \in 0 .. N
        PROVE  f[j] = IF j = 0 THEN 1 ELSE Ends(key, f[j - 1] + 1, types[j])
    <3>1. CASE j = 0
      BY <1>6, <3>1
    <3>2. CASE j # 0
      <4>1. j \in 1 .. N /\ j - 1 \in 0 .. N
        BY <1>1, <3>2
      <4>2. f[j] = 1 + at(j) /\ f[j - 1] = 1 + at(j - 1)
        BY <4>1
      <4> HIDE DEF f
      <4> QED
        BY <1>8, <3>2, <4>1, <4>2
    <3> QED
      BY <3>1, <3>2
  <2>2. f = [j \in 0 .. N |-> f[j]]
    OBVIOUS
  <2> QED
    BY <2>1, <2>2
<1>10. last = [j \in 0 .. N |-> IF j = 0 THEN 1 ELSE Ends(key, last[j - 1] + 1, types[j])]
  BY <1>9
<1> HIDE DEF last
<1>11. last[0] = 1 /\ \A j \in 1 .. N : last[j] = Ends(key, last[j - 1] + 1, types[j])
  BY <1>1, <1>10
<1> DEFINE T == {j \in 0 .. N : last[j] # 1 + at(j)}
<1>12. T = {}
  <2> SUFFICES ASSUME T # {} PROVE FALSE
    OBVIOUS
  <2>1. PICK k \in T : \A y \in T : k <= y
    <3>1. T \subseteq Nat /\ T # {}
      BY <1>1
    <3> HIDE DEF T
    <3> QED
      BY <3>1, LeastNat
  <2>2. k \in 0 .. N /\ last[k] # 1 + at(k)
    OBVIOUS
  <2>3. k # 0
    BY <1>6, <1>11, <2>2
  <2>4. k \in 1 .. N /\ k - 1 \in 0 .. N /\ ~(k <= k - 1)
    BY <1>1, <2>2, <2>3
  <2>5. last[k - 1] = 1 + at(k - 1)
    BY <2>1, <2>4
  <2> HIDE DEF T
  <2> QED
    BY <1>8, <1>11, <2>2, <2>4, <2>5
<1>13. ASSUME NEW j \in 1 .. N
       PROVE  Deserialize(SubSeq(key, last[j - 1] + 1, last[j]), types[j]) = a[j]
  <2>1. last[j - 1] = 1 + at(j - 1) /\ last[j] = 1 + at(j)
    <3>1. j \in 0 .. N /\ j - 1 \in 0 .. N
      BY <1>1
    <3> QED
      BY <1>12, <3>1
  <2>2. 1 + at(j) = (1 + at(j - 1)) + Len(x[j])
    BY <1>7
  <2>3. SubSeq(key, (1 + at(j - 1)) + 1, (1 + at(j - 1)) + Len(x[j])) = x[j]
    BY <1>7, PartCutOut
  <2>4. Deserialize(x[j], types[j]) = a[j]
    BY <1>2, <1>3, ValueComesBack
  <2> QED
    BY <2>1, <2>2, <2>3, <2>4
<1>14. Decode(key, types) = [j \in 1 .. N |-> a[j]]
  BY <1>4, <1>13
<1>15. [j \in 1 .. N |-> a[j]] = a
  BY <1>1
<1> QED
  BY <1>14, <1>15 DEF key, types, N
=============================================================================
