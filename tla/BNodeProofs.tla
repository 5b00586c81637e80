---------------------------- MODULE BNodeProofs ----------------------------
(***************************************************************************)
(* What the functions of storage/btree.go on one node compute, for nodes   *)
(* of any number of entries, keys and values of any length and pages of    *)
(* any size: the binary search, insertion into a leaf, splitting and       *)
(* merging.                                                                *)
(***************************************************************************)
EXTENDS BNode, LeastElement, SequenceTheorems, TLAPS

\* The keys of a node ascend.
Ascending(ents) == \A i, j \in 1 .. Len(ents) : i < j => ents[i].k < ents[j].k

-----------------------------------------------------------------------------
(* The search.                                                              *)

\* What the loop of nodeLookupLE computes from entries low up to high, with
\* found the last one known to have a key up to key.
GreatestOf(le, found) == IF le = {} THEN found ELSE CHOOSE i \in le : \A j \in le : j <= i
LastIn(n, key, low, high, found) ==
  GreatestOf({i \in low .. high - 1 : n.ents[i].k <= key}, found)

\* The last of a set of positions.
LEMMA LastIs ==
  ASSUME NEW n, NEW key, NEW low \in Nat, NEW high \in Nat, NEW found
  PROVE  LET x == LastIn(n, key, low, high, found) IN
         \/ x = found /\ \A i \in low .. high - 1 : ~(n.ents[i].k <= key)
         \/ /\ x \in low .. high - 1 /\ n.ents[x].k <= key
            /\ \A i \in low .. high - 1 : n.ents[i].k <= key => i <= x
<1> DEFINE le == {i \in low .. high - 1 : n.ents[i].k <= key}
           x == LastIn(n, key, low, high, found)
<1>1. CASE le = {}
  <2>1. x = found
    BY <1>1 DEF LastIn, GreatestOf
  <2> QED
    BY <1>1, <2>1
<1>2. CASE le # {}
  <2>1. \A i \in le : i \in Int /\ i <= high
    OBVIOUS
  <2>2. \E i \in le : \A j \in le : j <= i
    <3> HIDE DEF le
    <3> QED
      BY <1>2, <2>1, GreatestNat
  <2>3. x = CHOOSE i \in le : \A j \in le : j <= i
    BY <1>2 DEF LastIn, GreatestOf
  <2>4. x \in le /\ \A j \in le : j <= x
    <3> HIDE DEF le, x
    <3> QED
      BY <2>2, <2>3
  <2> HIDE DEF x
  <2> QED
    BY <2>4 DEF x
<1> QED
  BY <1>1, <1>2

\* Such a position is the only one.
LEMMA LastOnly ==
  ASSUME NEW n, NEW key, NEW low \in Nat, NEW high \in Nat, NEW found, NEW x,
         \/ x = found /\ \A i \in low .. high - 1 : ~(n.ents[i].k <= key)
         \/ /\ x \in low .. high - 1 /\ n.ents[x].k <= key
            /\ \A i \in low .. high - 1 : n.ents[i].k <= key => i <= x
  PROVE  LastIn(n, key, low, high, found) = x
<1> DEFINE y == LastIn(n, key, low, high, found)
<1>1. \/ y = found /\ \A i \in low .. high - 1 : ~(n.ents[i].k <= key)
      \/ /\ y \in low .. high - 1 /\ n.ents[y].k <= key
         /\ \A i \in low .. high - 1 : n.ents[i].k <= key => i <= y
  BY LastIs
<1> HIDE DEF y
<1>2. y = x
  BY <1>1
<1> QED
  BY <1>2 DEF y

\* Halving the range does not change the answer.
LEMMA HalfKeeps ==
  ASSUME NEW n, NKeys(n) \in Nat, \A i \in 1 .. NKeys(n) : n.ents[i].k \in Nat,
         Ascending(n.ents), NEW key \in Nat,
         NEW low \in Nat \ {0}, NEW high \in Nat, NEW found, low < high, high <= NKeys(n) + 1
  PROVE  LET mid == low + (high - low) \div 2
             k == n.ents[mid].k
         IN  /\ mid \in low .. high - 1 /\ mid \in 1 .. NKeys(n)
             /\ k = key => LastIn(n, key, low, high, found) = mid
             /\ k < key => LastIn(n, key, low, high, found) = LastIn(n, key, mid + 1, high, mid)
             /\ ~(k = key) /\ ~(k < key) =>
                  LastIn(n, key, low, high, found) = LastIn(n, key, low, mid, found)
<1> DEFINE N == NKeys(n)
           mid == low + (high - low) \div 2
           k == n.ents[mid].k
<1>1. low \in Nat /\ high \in Nat /\ N \in Nat /\ low >= 1 /\ high <= N + 1
  OBVIOUS
<1>2. mid \in low .. high - 1 /\ mid \in 1 .. N /\ mid \in Nat
  BY <1>1
<1>3. \A i, j \in 1 .. N : i < j => n.ents[i].k < n.ents[j].k
  BY DEF Ascending, NKeys
<1>4. \A i \in 1 .. N : n.ents[i].k \in Nat
  OBVIOUS
<1> HIDE DEF N, mid
<1>5. /\ \A i \in low .. high - 1 : i \in 1 .. N /\ i \in Nat
      /\ k \in Nat
      /\ \A i \in low .. high - 1 : i < mid => n.ents[i].k < k
      /\ \A i \in low .. high - 1 : i > mid => n.ents[i].k > k
  BY <1>1, <1>2, <1>3, <1>4
<1>6. ASSUME k = key PROVE LastIn(n, key, low, high, found) = mid
  <2>1. \A i \in low .. high - 1 : n.ents[i].k <= key => i <= mid
    BY <1>2, <1>4, <1>5, <1>6
  <2>2. \/ mid = found /\ \A i \in low .. high - 1 : ~(n.ents[i].k <= key)
        \/ /\ mid \in low .. high - 1 /\ n.ents[mid].k <= key
           /\ \A i \in low .. high - 1 : n.ents[i].k <= key => i <= mid
    BY <1>2, <1>5, <1>6, <2>1
  <2> QED
    BY <1>1, <2>2, LastOnly, ZenonT(60)
<1>7. ASSUME k < key
      PROVE  LastIn(n, key, low, high, found) = LastIn(n, key, mid + 1, high, mid)
  <2> DEFINE x == LastIn(n, key, mid + 1, high, mid)
  <2>1. \/ x = mid /\ \A i \in mid + 1 .. high - 1 : ~(n.ents[i].k <= key)
        \/ /\ x \in mid + 1 .. high - 1 /\ n.ents[x].k <= key
           /\ \A i \in mid + 1 .. high - 1 : n.ents[i].k <= key => i <= x
    <3>1. mid + 1 \in Nat
      BY <1>2
    <3> QED
      BY <1>1, <3>1, LastIs, Zenon
  <2> HIDE DEF x
  <2>2. x \in low .. high - 1 /\ n.ents[x].k <= key /\ x \in Nat /\ mid <= x
    BY <1>1, <1>2, <1>5, <1>7, <2>1
  <2>3. \A i \in low .. high - 1 : n.ents[i].k <= key => i <= x
    <3> SUFFICES ASSUME NEW i \in low .. high - 1, n.ents[i].k <= key, i > mid PROVE i <= x
      BY <1>1, <1>2, <2>2
    <3>1. i \in mid + 1 .. high - 1
      BY <1>1, <1>2
    <3> QED
      BY <2>1, <3>1
  <2>4. LastIn(n, key, low, high, found) = x
    <3>1. \/ x = found /\ \A i \in low .. high - 1 : ~(n.ents[i].k <= key)
          \/ /\ x \in low .. high - 1 /\ n.ents[x].k <= key
             /\ \A i \in low .. high - 1 : n.ents[i].k <= key => i <= x
      BY <2>2, <2>3
    <3> QED
      BY <1>1, <3>1, LastOnly, ZenonT(60)
  <2> QED
    BY <2>4 DEF x
<1>8. ASSUME ~(k = key), ~(k < key)
      PROVE  LastIn(n, key, low, high, found) = LastIn(n, key, low, mid, found)
  <2> DEFINE x == LastIn(n, key, low, mid, found)
  <2>1. \/ x = found /\ \A i \in low .. mid - 1 : ~(n.ents[i].k <= key)
        \/ /\ x \in low .. mid - 1 /\ n.ents[x].k <= key
           /\ \A i \in low .. mid - 1 : n.ents[i].k <= key => i <= x
    BY <1>1, <1>2, LastIs
  <2> HIDE DEF x
  <2>2. \A i \in low .. high - 1 : n.ents[i].k <= key => i \in low .. mid - 1
    BY <1>1, <1>2, <1>4, <1>5, <1>8
  <2>3. \/ x = found /\ \A i \in low .. high - 1 : ~(n.ents[i].k <= key)
        \/ /\ x \in low .. high - 1 /\ n.ents[x].k <= key
           /\ \A i \in low .. high - 1 : n.ents[i].k <= key => i <= x
    BY <1>1, <1>2, <2>1, <2>2
  <2>4. LastIn(n, key, low, high, found) = x
    BY <1>1, <2>3, LastOnly, ZenonT(60)
  <2> QED
    BY <2>4 DEF x
<1> QED
  BY <1>2, <1>6, <1>7, <1>8 DEF N, mid

\* What is known after a round: the answer has not changed, and less is open.
OpenStill(n, key, i, s) ==
  /\ DOMAIN s = {"low", "high", "found"}
  /\ s.low \in Nat \ {0} /\ s.high \in Nat /\ s.high <= NKeys(n) + 1
  /\ LastIn(n, key, s.low, s.high, s.found) = LastUpTo(n, key)
  /\ s.low >= s.high \/ s.high - s.low <= NKeys(n) - 1 - i

\* A round keeps what is open, and looks at one entry less at least.
LEMMA HalveKeeps ==
  ASSUME NEW n, NKeys(n) \in Nat, \A i \in 1 .. NKeys(n) : n.ents[i].k \in Nat,
         Ascending(n.ents), NEW key \in Nat, NEW i \in Nat, NEW s, OpenStill(n, key, i, s)
  PROVE  OpenStill(n, key, i + 1, Halve(n, key, s))
<1> DEFINE mid == s.low + (s.high - s.low) \div 2
           k == n.ents[mid].k
<1>1. /\ DOMAIN s = {"low", "high", "found"}
      /\ s.low \in Nat \ {0} /\ s.high \in Nat /\ s.high <= NKeys(n) + 1
      /\ LastIn(n, key, s.low, s.high, s.found) = LastUpTo(n, key)
      /\ s.low >= s.high \/ s.high - s.low <= NKeys(n) - 1 - i
  BY DEF OpenStill
<1>2. CASE s.low >= s.high
  <2>1. Halve(n, key, s) = s
    BY <1>2 DEF Halve
  <2> QED
    BY <1>1, <1>2, <2>1 DEF OpenStill
<1>3. CASE s.low < s.high
  <2>1. ~(s.low >= s.high)
    BY <1>1, <1>3
  <2>2. /\ mid \in s.low .. s.high - 1 /\ mid \in 1 .. NKeys(n)
        /\ k = key => LastIn(n, key, s.low, s.high, s.found) = mid
        /\ k < key => LastIn(n, key, s.low, s.high, s.found)
                        = LastIn(n, key, mid + 1, s.high, mid)
        /\ ~(k = key) /\ ~(k < key) =>
             LastIn(n, key, s.low, s.high, s.found) = LastIn(n, key, s.low, mid, s.found)
    BY <1>1, <1>3, HalfKeeps, SMTT(60)
  <2>3. CASE k = key
    <3> DEFINE t == [low |-> mid, high |-> mid, found |-> mid]
    <3>1. Halve(n, key, s) = t
      BY <2>1, <2>3 DEF Halve
    <3> HIDE DEF mid
    <3>2. mid .. mid - 1 = {} /\ mid \in Nat \ {0} /\ mid <= NKeys(n) + 1
      BY <2>2
    <3>3. LastIn(n, key, mid, mid, mid) = mid
      BY <3>2 DEF LastIn, GreatestOf
    <3>4. OpenStill(n, key, i + 1, t)
      BY <1>1, <2>2, <2>3, <3>2, <3>3 DEF OpenStill
    <3> QED
      BY <3>1, <3>4
  <2>4. CASE ~(k = key) /\ k < key
    <3> DEFINE t == [s EXCEPT !.low = mid + 1, !.found = mid]
    <3>1. Halve(n, key, s) = t
      BY <2>1, <2>4 DEF Halve
    <3> HIDE DEF mid
    <3>2. /\ DOMAIN t = {"low", "high", "found"}
          /\ t.low = mid + 1 /\ t.high = s.high /\ t.found = mid
      BY <1>1
    <3> HIDE DEF t
    <3>3. t.low >= t.high \/ t.high - t.low <= NKeys(n) - 1 - (i + 1)
      BY <1>1, <2>1, <2>2, <3>2
    <3>4. t.low \in Nat \ {0} /\ t.high \in Nat /\ t.high <= NKeys(n) + 1
      BY <1>1, <2>2, <3>2
    <3>5. LastIn(n, key, t.low, t.high, t.found) = LastUpTo(n, key)
      BY <1>1, <2>2, <2>4, <3>2
    <3>6. OpenStill(n, key, i + 1, t)
      BY <3>2, <3>3, <3>4, <3>5 DEF OpenStill
    <3> QED
      BY <3>1, <3>6
  <2>5. CASE ~(k = key) /\ ~(k < key)
    <3> DEFINE t == [s EXCEPT !.high = mid]
    <3>1. Halve(n, key, s) = t
      BY <2>1, <2>5 DEF Halve
    <3> HIDE DEF mid
    <3>2. /\ DOMAIN t = {"low", "high", "found"}
          /\ t.low = s.low /\ t.high = mid /\ t.found = s.found
      BY <1>1
    <3> HIDE DEF t
    <3>3. t.low >= t.high \/ t.high - t.low <= NKeys(n) - 1 - (i + 1)
      BY <1>1, <2>1, <2>2, <3>2
    <3>4. t.low \in Nat \ {0} /\ t.high \in Nat /\ t.high <= NKeys(n) + 1
      BY <1>1, <2>2, <3>2
    <3>5. LastIn(n, key, t.low, t.high, t.found) = LastUpTo(n, key)
      BY <1>1, <2>2, <2>5, <3>2
    <3>6. OpenStill(n, key, i + 1, t)
      BY <3>2, <3>3, <3>4, <3>5 DEF OpenStill
    <3> QED
      BY <3>1, <3>6
  <2> QED
    BY <2>3, <2>4, <2>5
<1> QED
  BY <1>1, <1>2, <1>3

\* The rounds, one after the other: there is such a function.
LEMMA Rounds ==
  ASSUME NEW n, NKeys(n) \in Nat, NEW key
  PROVE  \E r : /\ NodeLookupLE(n, key) = r[NKeys(n)].found
                /\ r[0] = [low |-> 2, high |-> NKeys(n) + 1, found |-> 1]
                /\ \A i \in 1 .. NKeys(n) : r[i] = Halve(n, key, r[i - 1])
<1> DEFINE s0 == [low |-> 2, high |-> NKeys(n) + 1, found |-> 1]
           Run(f, m) == [i \in 0 .. m |-> IF i = 0 THEN s0 ELSE Halve(n, key, f[i - 1])]
           T == {m \in Nat : ~(\E f : f = Run(f, m))}
<1> HIDE DEF s0
<1>1. T = {}
  <2> SUFFICES ASSUME T # {} PROVE FALSE
    OBVIOUS
  <2>1. PICK m \in T : \A y \in T : m <= y
    <3>1. T \subseteq Nat /\ T # {}
      OBVIOUS
    <3> HIDE DEF T
    <3> QED
      BY <3>1, LeastNat
  <2>2. m \in Nat /\ ~(\E f : f = Run(f, m))
    OBVIOUS
  <2>3. m # 0
    <3> SUFFICES ASSUME m = 0 PROVE FALSE
      OBVIOUS
    <3> DEFINE f == [i \in 0 .. m |-> s0]
    <3>1. f = Run(f, m)
      OBVIOUS
    <3> QED
      BY <2>2, <3>1
  <2>4. PICK g : g = Run(g, m - 1)
    <3>1. m - 1 \in Nat /\ ~(m <= m - 1)
      BY <2>2, <2>3
    <3>2. m - 1 \notin T
      BY <2>1, <3>1
    <3> QED
      BY <3>1, <3>2
  <2> DEFINE f == [i \in 0 .. m |-> IF i < m THEN g[i] ELSE Halve(n, key, g[i - 1])]
  <2>5. ASSUME NEW i \in 0 .. m
        PROVE  f[i] = IF i = 0 THEN s0 ELSE Halve(n, key, f[i - 1])
    <3>1. i \in Int /\ 0 <= i /\ i <= m
      BY <2>2
    <3>2. i # 0 => f[i - 1] = g[i - 1]
      BY <2>2, <3>1
    <3>3. CASE i < m
      <4>1. i \in 0 .. m - 1 /\ f[i] = g[i]
        BY <2>2, <3>1, <3>3
      <4>2. g[i] = IF i = 0 THEN s0 ELSE Halve(n, key, g[i - 1])
        BY <2>4, <4>1
      <4> QED
        BY <3>2, <4>1, <4>2
    <3>4. CASE ~(i < m)
      <4>1. f[i] = Halve(n, key, g[i - 1]) /\ i # 0
        BY <2>2, <2>3, <3>1, <3>4
      <4> QED
        BY <3>2, <4>1
    <3> QED
      BY <3>3, <3>4
  <2>6. f = Run(f, m)
    BY <2>5
  <2> QED
    BY <2>2, <2>6
<1> DEFINE r == CHOOSE f : f = Run(f, NKeys(n))
<1>2. \E f : f = Run(f, NKeys(n))
  BY <1>1
<1>3. r = Run(r, NKeys(n))
  BY <1>2
<1>4. NodeLookupLE(n, key) = r[NKeys(n)].found
  BY DEF NodeLookupLE, s0
<1> HIDE DEF r
<1>5. r[0] = s0 /\ \A i \in 1 .. NKeys(n) : r[i] = Halve(n, key, r[i - 1])
  BY <1>3
<1> QED
  BY <1>4, <1>5 DEF s0

\* The search starts with every entry but the first open.
LEMMA WholeRange ==
  ASSUME NEW n, NKeys(n) \in Nat, NEW key
  PROVE  LastIn(n, key, 2, NKeys(n) + 1, 1) = LastUpTo(n, key)
<1> DEFINE N == NKeys(n)
<1>1. 2 .. (N + 1) - 1 = 2 .. N
  OBVIOUS
<1>2. {i \in 2 .. (N + 1) - 1 : n.ents[i].k <= key} = {i \in 2 .. N : n.ents[i].k <= key}
  BY <1>1
<1>3. LastUpTo(n, key) = GreatestOf({i \in 2 .. N : n.ents[i].k <= key}, 1)
  BY Zenon DEF LastUpTo, GreatestOf
<1>4. LastIn(n, key, 2, N + 1, 1)
        = GreatestOf({i \in 2 .. (N + 1) - 1 : n.ents[i].k <= key}, 1)
  BY DEF LastIn
<1> QED
  BY <1>2, <1>3, <1>4

\* nodeLookupLE (btree.go:132-152): on a node whose keys ascend, however many
\* there are, the binary search finds the last key up to the one it looks for,
\* and the first entry when there is none.
THEOREM LookupFinds ==
  ASSUME NEW n, NKeys(n) \in Nat, \A i \in 1 .. NKeys(n) : n.ents[i].k \in Nat,
         Ascending(n.ents), NEW key \in Nat
  PROVE  NodeLookupLE(n, key) = LastUpTo(n, key)
<1> DEFINE N == NKeys(n)
<1>1. PICK r : /\ NodeLookupLE(n, key) = r[N].found
               /\ r[0] = [low |-> 2, high |-> N + 1, found |-> 1]
               /\ \A i \in 1 .. N : r[i] = Halve(n, key, r[i - 1])
  BY Rounds
<1>2. OpenStill(n, key, 0, r[0])
  <2>1. LastIn(n, key, 2, N + 1, 1) = LastUpTo(n, key)
    BY WholeRange
  <2> QED
    BY <1>1, <2>1 DEF OpenStill
<1> HIDE DEF N
<1> DEFINE T == {i \in 0 .. N : ~OpenStill(n, key, i, r[i])}
<1>3. T = {}
  <2> SUFFICES ASSUME T # {} PROVE FALSE
    OBVIOUS
  <2>0. N \in Nat
    BY DEF N
  <2>1. PICK m \in T : \A y \in T : m <= y
    <3>1. T \subseteq Nat /\ T # {}
      BY <2>0
    <3> HIDE DEF T
    <3> QED
      BY <3>1, LeastNat
  <2>2. m \in 0 .. N /\ ~OpenStill(n, key, m, r[m]) /\ m # 0
    BY <1>2
  <2>3. m - 1 \in 0 .. N /\ m - 1 \in Nat /\ m \in 1 .. N /\ ~(m <= m - 1) /\ m - 1 + 1 = m
    BY <2>0, <2>2
  <2>4. OpenStill(n, key, m - 1, r[m - 1])
    BY <2>1, <2>3
  <2>5. OpenStill(n, key, m - 1 + 1, Halve(n, key, r[m - 1]))
    BY <2>3, <2>4, HalveKeeps, Zenon
  <2> QED
    BY <1>1, <2>2, <2>3, <2>5
<1>4. N \in Nat /\ OpenStill(n, key, N, r[N])
  BY <1>3 DEF N
<1> DEFINE s == r[N]
<1>5. s.low \in Nat /\ s.high \in Nat /\ s.low >= s.high
  BY <1>4 DEF OpenStill, N
<1> HIDE DEF s
<1>6. s.low .. s.high - 1 = {}
  BY <1>5
<1>7. LastIn(n, key, s.low, s.high, s.found) = s.found
  BY <1>6 DEF LastIn, GreatestOf
<1>8. s.found = LastUpTo(n, key)
  BY <1>4, <1>7 DEF OpenStill, s
<1> QED
  BY <1>1, <1>8 DEF s

-----------------------------------------------------------------------------
(* Bytes.                                                                   *)

IsEntry(e) == e.k \in DOMAIN KeyLen /\ (e.v = Nil \/ e.v \in DOMAIN ValLen)

\* The entries of a node.
IsEnts(s) == \E S : s \in Seq(S) /\ \A e \in S : IsEntry(e)

\* Bytes of the first i entries.
Sums(s) ==
  CHOOSE f : f = [i \in 0 .. Len(s) |-> IF i = 0 THEN 0 ELSE f[i - 1] + EntryBytes(s[i])]

\* Keys are numbers, and an entry takes a Slot at least.
LEMMA EntryFacts ==
  ASSUME NEW s, IsEnts(s)
  PROVE  /\ Len(s) \in Nat /\ DOMAIN s = 1 .. Len(s)
         /\ \A i \in 1 .. Len(s) : /\ IsEntry(s[i]) /\ s[i].k \in Nat
                                   /\ EntryBytes(s[i]) \in Nat /\ Slot <= EntryBytes(s[i])
<1>1. PICK S : s \in Seq(S) /\ \A e \in S : IsEntry(e)
  BY DEF IsEnts
<1>2. Len(s) \in Nat /\ DOMAIN s = 1 .. Len(s) /\ \A i \in 1 .. Len(s) : s[i] \in S
  BY <1>1
<1>3. ASSUME NEW e, IsEntry(e)
      PROVE  e.k \in Nat /\ EntryBytes(e) \in Nat /\ Slot <= EntryBytes(e)
  <2>1. KeyLen[e.k] \in Nat /\ e.k \in Nat /\ Slot \in Nat
    BY <1>3, BNodeAssumption DEF IsEntry
  <2>2. e.v # Nil => ValLen[e.v] \in Nat
    BY <1>3, BNodeAssumption DEF IsEntry
  <2> QED
    BY <2>1, <2>2 DEF EntryBytes
<1> QED
  BY <1>1, <1>2, <1>3

\* Sums is what its recursion says.
LEMMA SumsFollow ==
  ASSUME NEW s, Len(s) \in Nat
  PROVE  Sums(s) = [i \in 0 .. Len(s) |-> IF i = 0 THEN 0 ELSE Sums(s)[i - 1] + EntryBytes(s[i])]
<1> DEFINE Run(f, m) == [i \in 0 .. m |-> IF i = 0 THEN 0 ELSE f[i - 1] + EntryBytes(s[i])]
           T == {m \in Nat : ~(\E f : f = Run(f, m))}
<1>1. T = {}
  <2> SUFFICES ASSUME T # {} PROVE FALSE
    OBVIOUS
  <2>1. PICK m \in T : \A y \in T : m <= y
    <3>1. T \subseteq Nat /\ T # {}
      OBVIOUS
    <3> HIDE DEF T
    <3> QED
      BY <3>1, LeastNat
  <2>2. m \in Nat /\ ~(\E f : f = Run(f, m))
    OBVIOUS
  <2>3. m # 0
    <3> SUFFICES ASSUME m = 0 PROVE FALSE
      OBVIOUS
    <3> DEFINE f == [i \in 0 .. m |-> 0]
    <3>1. f = Run(f, m)
      OBVIOUS
    <3> QED
      BY <2>2, <3>1
  <2>4. PICK g : g = Run(g, m - 1)
    <3>1. m - 1 \in Nat /\ ~(m <= m - 1)
      BY <2>2, <2>3
    <3>2. m - 1 \notin T
      BY <2>1, <3>1
    <3> QED
      BY <3>1, <3>2
  <2> DEFINE f == [i \in 0 .. m |-> IF i < m THEN g[i] ELSE g[i - 1] + EntryBytes(s[i])]
  <2>5. ASSUME NEW i \in 0 .. m
        PROVE  f[i] = IF i = 0 THEN 0 ELSE f[i - 1] + EntryBytes(s[i])
    <3>1. i \in Int /\ 0 <= i /\ i <= m
      BY <2>2
    <3>2. i # 0 => f[i - 1] = g[i - 1]
      BY <2>2, <3>1
    <3>3. CASE i < m
      <4>1. i \in 0 .. m - 1 /\ f[i] = g[i]
        BY <2>2, <3>1, <3>3
      <4>2. g[i] = IF i = 0 THEN 0 ELSE g[i - 1] + EntryBytes(s[i])
        BY <2>4, <4>1
      <4> QED
        BY <3>2, <4>1, <4>2
    <3>4. CASE ~(i < m)
      <4>1. f[i] = g[i - 1] + EntryBytes(s[i]) /\ i # 0
        BY <2>2, <2>3, <3>1, <3>4
      <4> QED
        BY <3>2, <4>1
    <3> QED
      BY <3>3, <3>4
  <2>6. f = Run(f, m)
    BY <2>5
  <2> QED
    BY <2>2, <2>6
<1>2. \E f : f = Run(f, Len(s))
  BY <1>1
<1>3. Sums(s) = CHOOSE f : f = Run(f, Len(s))
  BY DEF Sums
<1> QED
  BY <1>2, <1>3

\* The bytes of the first i entries, one entry at a time.
LEMMA SumsStep ==
  ASSUME NEW s, IsEnts(s)
  PROVE  /\ Sums(s)[0] = 0
         /\ \A i \in 0 .. Len(s) : Sums(s)[i] \in Nat
         /\ \A i \in 1 .. Len(s) : Sums(s)[i] = Sums(s)[i - 1] + EntryBytes(s[i])
         /\ SumBytes(s) = Sums(s)[Len(s)]
<1> DEFINE f == Sums(s)
<1>1. /\ Len(s) \in Nat
      /\ \A i \in 1 .. Len(s) : EntryBytes(s[i]) \in Nat
  BY EntryFacts
<1>2. f = [i \in 0 .. Len(s) |-> IF i = 0 THEN 0 ELSE f[i - 1] + EntryBytes(s[i])]
  BY <1>1, SumsFollow
<1>3. SumBytes(s) = f[Len(s)]
  BY DEF SumBytes, Sums
<1> HIDE DEF f
<1>4. f[0] = 0 /\ \A i \in 1 .. Len(s) : f[i] = f[i - 1] + EntryBytes(s[i])
  BY <1>1, <1>2
<1>5. \A i \in 0 .. Len(s) : f[i] \in Nat
  <2> DEFINE T == {i \in 0 .. Len(s) : f[i] \notin Nat}
  <2> SUFFICES ASSUME T # {} PROVE FALSE
    OBVIOUS
  <2>1. PICK m \in T : \A y \in T : m <= y
    <3>1. T \subseteq Nat /\ T # {}
      BY <1>1
    <3> HIDE DEF T
    <3> QED
      BY <3>1, LeastNat
  <2>2. m \in 1 .. Len(s) /\ m - 1 \in 0 .. Len(s) /\ ~(m <= m - 1) /\ f[m] \notin Nat
    BY <1>1, <1>4
  <2>3. f[m - 1] \in Nat
    BY <2>1, <2>2
  <2> QED
    BY <1>1, <1>4, <2>2, <2>3
<1> QED
  BY <1>3, <1>4, <1>5 DEF f

\* The bytes of entries are a number.
LEMMA SumIsNat ==
  ASSUME NEW s, IsEnts(s)
  PROVE  SumBytes(s) \in Nat
<1>1. /\ \A i \in 0 .. Len(s) : Sums(s)[i] \in Nat
      /\ SumBytes(s) = Sums(s)[Len(s)]
  BY SumsStep
<1>2. Len(s) \in Nat
  BY EntryFacts
<1> QED
  BY <1>1, <1>2

\* More entries are more bytes.
LEMMA SumsGrow ==
  ASSUME NEW s, IsEnts(s), NEW i \in 0 .. Len(s), NEW j \in 0 .. Len(s), i <= j
  PROVE  Sums(s)[i] <= Sums(s)[j]
<1> DEFINE f == Sums(s)
           T == {m \in 0 .. Len(s) : i <= m /\ ~(f[i] <= f[m])}
<1>1. /\ Len(s) \in Nat
      /\ \A m \in 1 .. Len(s) : EntryBytes(s[m]) \in Nat
  BY EntryFacts
<1>2. /\ \A m \in 0 .. Len(s) : f[m] \in Nat
      /\ \A m \in 1 .. Len(s) : f[m] = f[m - 1] + EntryBytes(s[m])
  BY SumsStep
<1> HIDE DEF f
<1>3. T = {}
  <2> SUFFICES ASSUME T # {} PROVE FALSE
    OBVIOUS
  <2>1. PICK m \in T : \A y \in T : m <= y
    <3>1. T \subseteq Nat /\ T # {}
      BY <1>1
    <3> HIDE DEF T
    <3> QED
      BY <3>1, LeastNat
  <2>2. m \in 0 .. Len(s) /\ i <= m /\ ~(f[i] <= f[m]) /\ m # i
    BY <1>2
  <2>3. m \in 1 .. Len(s) /\ m - 1 \in 0 .. Len(s) /\ ~(m <= m - 1) /\ i <= m - 1
    BY <1>1, <2>2
  <2>4. f[i] <= f[m - 1]
    BY <2>1, <2>3
  <2>5. /\ f[i] \in Nat /\ f[m - 1] \in Nat /\ EntryBytes(s[m]) \in Nat
        /\ f[m] = f[m - 1] + EntryBytes(s[m])
    BY <1>1, <1>2, <2>3
  <2> QED
    BY <2>2, <2>4, <2>5
<1> QED
  BY <1>3 DEF f

\* t is the part of s after its first a entries.
IsPart(t, s, a) ==
  /\ a \in Nat /\ a + Len(t) <= Len(s)
  /\ \A i \in 1 .. Len(t) : t[i] = s[a + i]

\* A part of a sequence of entries takes the bytes between its ends.
LEMMA SumsPart ==
  ASSUME NEW s, IsEnts(s), NEW t, IsEnts(t), NEW a, IsPart(t, s, a)
  PROVE  \A i \in 0 .. Len(t) : Sums(t)[i] = Sums(s)[a + i] - Sums(s)[a]
<1> USE DEF IsPart
<1> DEFINE f == Sums(s)
           g == Sums(t)
           T == {i \in 0 .. Len(t) : g[i] # f[a + i] - f[a]}
<1>1. /\ Len(s) \in Nat /\ Len(t) \in Nat
      /\ \A m \in 1 .. Len(s) : EntryBytes(s[m]) \in Nat
  BY EntryFacts
<1>2. /\ \A m \in 0 .. Len(s) : f[m] \in Nat
      /\ \A m \in 1 .. Len(s) : f[m] = f[m - 1] + EntryBytes(s[m])
  BY SumsStep
<1>3. /\ g[0] = 0
      /\ \A m \in 0 .. Len(t) : g[m] \in Nat
      /\ \A m \in 1 .. Len(t) : g[m] = g[m - 1] + EntryBytes(t[m])
  BY SumsStep
<1> HIDE DEF f, g
<1>4. T = {}
  <2> SUFFICES ASSUME T # {} PROVE FALSE
    OBVIOUS
  <2>1. PICK m \in T : \A y \in T : m <= y
    <3>1. T \subseteq Nat /\ T # {}
      BY <1>1
    <3> HIDE DEF T
    <3> QED
      BY <3>1, LeastNat
  <2>2. m \in 0 .. Len(t) /\ g[m] # f[a + m] - f[a]
    OBVIOUS
  <2>3. f[a] \in Nat
    BY <1>1, <1>2
  <2>4. m # 0
    <3> SUFFICES ASSUME m = 0 PROVE FALSE
      OBVIOUS
    <3>1. a + m = a
      OBVIOUS
    <3> QED
      BY <1>3, <2>2, <2>3, <3>1
  <2>5. /\ m \in 1 .. Len(t) /\ m - 1 \in 0 .. Len(t) /\ ~(m <= m - 1)
        /\ a + m \in 1 .. Len(s) /\ (a + m) - 1 = a + (m - 1) /\ a + (m - 1) \in 0 .. Len(s)
    BY <1>1, <2>2, <2>4
  <2>6. g[m - 1] = f[a + (m - 1)] - f[a]
    BY <2>1, <2>5
  <2>7. f[a + m] = f[a + (m - 1)] + EntryBytes(s[a + m])
    BY <1>2, <2>5
  <2>8. g[m] = g[m - 1] + EntryBytes(s[a + m])
    BY <1>3, <2>5
  <2>9. f[a + (m - 1)] \in Nat /\ EntryBytes(s[a + m]) \in Nat
    BY <1>1, <1>2, <2>5
  <2> QED
    BY <2>2, <2>3, <2>6, <2>7, <2>8, <2>9, SMTT(30)
<1> QED
  BY <1>4 DEF f, g

\* Cutting entries out.
LEMMA CutEnts ==
  ASSUME NEW s, IsEnts(s), NEW m \in Nat \ {0}, NEW k \in Nat, m <= k + 1, k <= Len(s)
  PROVE  LET t == SubSeq(s, m, k) IN
         /\ IsEnts(t) /\ Len(t) = k + 1 - m
         /\ \A i \in 1 .. Len(t) : t[i] = s[(m - 1) + i]
         /\ \A i \in 0 .. Len(t) : Sums(t)[i] = Sums(s)[(m - 1) + i] - Sums(s)[m - 1]
         /\ SumBytes(t) = Sums(s)[k] - Sums(s)[m - 1]
<1> DEFINE t == SubSeq(s, m, k)
<1>1. PICK S : s \in Seq(S) /\ \A e \in S : IsEntry(e)
  BY DEF IsEnts
<1>2. Len(s) \in Nat /\ \A i \in m .. k : s[i] \in S
  BY <1>1
<1>3. /\ t \in Seq(S)
      /\ Len(t) = IF m <= k THEN k - m + 1 ELSE 0
      /\ \A i \in 1 .. k - m + 1 : t[i] = s[m + i - 1]
  BY <1>2, SubSeqProperties
<1> HIDE DEF t
<1>4. IsEnts(t)
  BY <1>1, <1>3 DEF IsEnts
<1>5. Len(t) = k + 1 - m
  BY <1>3
<1>6. \A i \in 1 .. Len(t) : t[i] = s[(m - 1) + i]
  <2> SUFFICES ASSUME NEW i \in 1 .. Len(t) PROVE t[i] = s[(m - 1) + i]
    OBVIOUS
  <2>1. i \in 1 .. k - m + 1 /\ m + i - 1 = (m - 1) + i
    BY <1>5
  <2> QED
    BY <1>3, <2>1
<1>7. m - 1 \in Nat /\ (m - 1) + Len(t) = k /\ Len(t) \in Nat
  BY <1>5
<1> DEFINE a == m - 1
<1>8. IsPart(t, s, a)
  BY <1>2, <1>6, <1>7 DEF IsPart
<1> HIDE DEF a
<1>9. \A i \in 0 .. Len(t) : Sums(t)[i] = Sums(s)[a + i] - Sums(s)[a]
  BY <1>4, <1>8, SumsPart, SMT
<1>10. SumBytes(t) = Sums(t)[Len(t)]
  BY <1>4, SumsStep
<1>11. SumBytes(t) = Sums(s)[k] - Sums(s)[m - 1]
  BY <1>7, <1>9, <1>10 DEF a
<1> QED
  BY <1>4, <1>5, <1>6, <1>9, <1>11 DEF t, a

\* Putting entries together.
LEMMA JoinEnts ==
  ASSUME NEW s, IsEnts(s), NEW t, IsEnts(t)
  PROVE  LET u == s \o t IN
         /\ IsEnts(u) /\ Len(u) = Len(s) + Len(t)
         /\ \A i \in 1 .. Len(s) : u[i] = s[i]
         /\ \A i \in 1 .. Len(t) : u[Len(s) + i] = t[i]
         /\ SumBytes(u) = SumBytes(s) + SumBytes(t)
<1> DEFINE u == s \o t
<1>1. PICK S : s \in Seq(S) /\ \A e \in S : IsEntry(e)
  BY DEF IsEnts
<1>2. PICK S2 : t \in Seq(S2) /\ \A e \in S2 : IsEntry(e)
  BY DEF IsEnts
<1>3. s \in Seq(S \union S2) /\ t \in Seq(S \union S2) /\ \A e \in S \union S2 : IsEntry(e)
  BY <1>1, <1>2, SeqMonotonic
<1>4. /\ u \in Seq(S \union S2) /\ Len(u) = Len(s) + Len(t)
      /\ \A i \in 1 .. Len(s) + Len(t) : u[i] = IF i <= Len(s) THEN s[i] ELSE t[i - Len(s)]
  BY <1>3, ConcatProperties
<1>5. Len(s) \in Nat /\ Len(t) \in Nat
  BY <1>3
<1> HIDE DEF u
<1>6. IsEnts(u)
  BY <1>3, <1>4 DEF IsEnts
<1>7. \A i \in 1 .. Len(s) : u[i] = s[i]
  BY <1>4, <1>5
<1>8. \A i \in 1 .. Len(t) : u[Len(s) + i] = t[i]
  <2> SUFFICES ASSUME NEW i \in 1 .. Len(t) PROVE u[Len(s) + i] = t[i]
    OBVIOUS
  <2>1. /\ Len(s) + i \in 1 .. Len(s) + Len(t) /\ ~(Len(s) + i <= Len(s))
        /\ (Len(s) + i) - Len(s) = i
    BY <1>5
  <2> QED
    BY <1>4, <2>1
<1>9. Sums(u)[Len(s)] = SumBytes(s)
  <2>1. \A i \in 1 .. Len(s) : s[i] = u[0 + i]
    BY <1>5, <1>7
  <2>2. 0 \in Nat /\ 0 + Len(s) <= Len(u)
    BY <1>4, <1>5
  <2>7. IsPart(s, u, 0)
    BY <2>1, <2>2 DEF IsPart
  <2>3. \A i \in 0 .. Len(s) : Sums(s)[i] = Sums(u)[0 + i] - Sums(u)[0]
    BY <1>6, <2>7, SumsPart, SMT
  <2>4. Sums(u)[0] = 0 /\ \A i \in 0 .. Len(u) : Sums(u)[i] \in Nat
    BY <1>6, SumsStep
  <2>5. SumBytes(s) = Sums(s)[Len(s)]
    BY SumsStep
  <2>6. Len(s) \in 0 .. Len(s) /\ 0 + Len(s) = Len(s) /\ Len(s) \in 0 .. Len(u)
    BY <1>4, <1>5
  <2> QED
    BY <2>3, <2>4, <2>5, <2>6
<1>10. SumBytes(t) = Sums(u)[Len(u)] - SumBytes(s)
  <2>1. \A i \in 1 .. Len(t) : t[i] = u[Len(s) + i]
    BY <1>8
  <2>2. IsPart(t, u, Len(s))
    BY <1>4, <1>5, <2>1 DEF IsPart
  <2>3. \A i \in 0 .. Len(t) : Sums(t)[i] = Sums(u)[Len(s) + i] - Sums(u)[Len(s)]
    BY <1>6, <2>2, SumsPart, ZenonT(60)
  <2>4. SumBytes(t) = Sums(t)[Len(t)] /\ Len(t) \in 0 .. Len(t)
    BY <1>5, SumsStep
  <2> QED
    BY <1>4, <1>9, <2>3, <2>4
<1>11. SumBytes(u) = SumBytes(s) + SumBytes(t)
  <2>1. SumBytes(u) = Sums(u)[Len(u)] /\ SumBytes(u) \in Nat
    <3>1. /\ SumBytes(u) = Sums(u)[Len(u)]
          /\ \A i \in 0 .. Len(u) : Sums(u)[i] \in Nat
      BY <1>6, SumsStep
    <3> QED
      BY <1>4, <1>5, <3>1
  <2>2. SumBytes(s) \in Nat
    <3>1. /\ SumBytes(s) = Sums(s)[Len(s)]
          /\ \A i \in 0 .. Len(s) : Sums(s)[i] \in Nat
      BY SumsStep
    <3> QED
      BY <1>5, <3>1
  <2> QED
    BY <1>10, <2>1, <2>2
<1> QED
  BY <1>4, <1>6, <1>7, <1>8, <1>11 DEF u

\* The first k entries, as nodeSplit2 copies them to the left part.
LEMMA FirstEnts ==
  ASSUME NEW s, IsEnts(s), NEW k \in 0 .. Len(s)
  PROVE  LET t == SubSeq(s, 1, k) IN
         /\ IsEnts(t) /\ Len(t) = k
         /\ \A i \in 1 .. k : t[i] = s[i]
         /\ \A i \in 0 .. k : Sums(t)[i] = Sums(s)[i]
         /\ SumBytes(t) = Sums(s)[k]
<1> DEFINE t == SubSeq(s, 1, k)
<1>1. Len(s) \in Nat
  BY EntryFacts
<1>2. 1 \in Nat \ {0} /\ k \in Nat /\ 1 <= k + 1 /\ k <= Len(s)
  BY <1>1
<1>3. /\ IsEnts(t) /\ Len(t) = k + 1 - 1
      /\ \A i \in 1 .. Len(t) : t[i] = s[(1 - 1) + i]
      /\ \A i \in 0 .. Len(t) : Sums(t)[i] = Sums(s)[(1 - 1) + i] - Sums(s)[1 - 1]
      /\ SumBytes(t) = Sums(s)[k] - Sums(s)[1 - 1]
  BY <1>2, CutEnts
<1> HIDE DEF t
<1>4. Sums(s)[0] = 0 /\ \A i \in 0 .. Len(s) : Sums(s)[i] \in Nat
  BY SumsStep
<1>5. Len(t) = k /\ 1 - 1 = 0
  BY <1>2, <1>3
<1>6. \A i \in 1 .. k : t[i] = s[i]
  BY <1>2, <1>3, <1>5
<1>7. \A i \in 0 .. k : Sums(t)[i] = Sums(s)[i]
  <2> SUFFICES ASSUME NEW i \in 0 .. k PROVE Sums(t)[i] = Sums(s)[i]
    OBVIOUS
  <2>1. 0 + i = i /\ i \in 0 .. Len(s)
    BY <1>1, <1>2
  <2>2. Sums(t)[i] = Sums(s)[0 + i] - Sums(s)[0]
    BY <1>3, <1>5
  <2>3. Sums(s)[i] \in Nat
    BY <1>4, <2>1
  <2> QED
    BY <1>4, <2>1, <2>2, <2>3
<1>8. SumBytes(t) = Sums(s)[k]
  <2>1. Sums(s)[k] \in Nat
    BY <1>4
  <2> QED
    BY <1>3, <1>4, <1>5, <2>1
<1> QED
  BY <1>3, <1>5, <1>6, <1>7, <1>8 DEF t

\* The entries after the first k, as nodeSplit2 copies them to the right part.
LEMMA LastEnts ==
  ASSUME NEW s, IsEnts(s), NEW k \in 0 .. Len(s)
  PROVE  LET t == SubSeq(s, k + 1, Len(s)) IN
         /\ IsEnts(t) /\ Len(t) = Len(s) - k
         /\ \A i \in 1 .. Len(t) : t[i] = s[k + i]
         /\ SumBytes(t) = Sums(s)[Len(s)] - Sums(s)[k]
<1> DEFINE m == k + 1
           t == SubSeq(s, m, Len(s))
<1>1. Len(s) \in Nat
  BY EntryFacts
<1>2. /\ m \in Nat \ {0} /\ m <= Len(s) + 1 /\ Len(s) <= Len(s)
      /\ m - 1 = k /\ Len(s) + 1 - m = Len(s) - k
  BY <1>1
<1> HIDE DEF m
<1>3. /\ IsEnts(t) /\ Len(t) = Len(s) + 1 - m
      /\ \A i \in 1 .. Len(t) : t[i] = s[(m - 1) + i]
      /\ \A i \in 0 .. Len(t) : Sums(t)[i] = Sums(s)[(m - 1) + i] - Sums(s)[m - 1]
      /\ SumBytes(t) = Sums(s)[Len(s)] - Sums(s)[m - 1]
  BY <1>1, <1>2, CutEnts
<1> HIDE DEF t
<1>4. /\ Len(t) = Len(s) - k
      /\ \A i \in 1 .. Len(t) : t[i] = s[k + i]
      /\ SumBytes(t) = Sums(s)[Len(s)] - Sums(s)[k]
  BY <1>2, <1>3
<1> QED
  BY <1>3, <1>4 DEF t, m

\* The two parts hold the entries in their order.
LEMMA PartsJoin ==
  ASSUME NEW s, IsEnts(s), NEW k \in 0 .. Len(s)
  PROVE  SubSeq(s, 1, k) \o SubSeq(s, k + 1, Len(s)) = s
<1>1. PICK S : s \in Seq(S)
  BY DEF IsEnts
<1>2. Len(s) \in Nat
  BY <1>1
<1>3. SubSeq(s, 1, Len(s)) = s
  BY <1>1, SubSeqFull
<1>4. 1 \in 1 .. Len(s) + 1 /\ k \in 1 - 1 .. Len(s) /\ Len(s) \in k .. Len(s)
  BY <1>2
<1>5. SubSeq(s, 1, k) \o SubSeq(s, k + 1, Len(s)) = SubSeq(s, 1, Len(s))
  BY <1>1, <1>4, ConcatAdjacentSubSeq, Zenon
<1> QED
  BY <1>3, <1>5

-----------------------------------------------------------------------------
(* Splitting. An entry of more than half a page can leave a split no place  *)
(* to cut, so the nodes here have none; and they are short enough of two    *)
(* pages for half of them to fit one.                                       *)

Splittable(n) ==
  /\ IsEnts(n.ents)
  /\ NBytes(n) <= 2 * PageSize - 2 * Header
  /\ \A i \in 1 .. NKeys(n) : 2 * EntryBytes(n.ents[i]) <= PageSize

\* The sizes the proofs of splitting reckon with.
LEMMA Sizes ==
  ASSUME NEW n, IsEnts(n.ents)
  PROVE  /\ PageSize \in Nat /\ Header \in Nat /\ 4 * Header < PageSize
         /\ NKeys(n) \in Nat /\ NBytes(n) \in Nat
         /\ NBytes(n) = Header + Sums(n.ents)[NKeys(n)]
         /\ Sums(n.ents)[0] = 0
         /\ \A i \in 0 .. NKeys(n) : Sums(n.ents)[i] \in Nat
         /\ \A i \in 1 .. NKeys(n) :
              Sums(n.ents)[i] = Sums(n.ents)[i - 1] + EntryBytes(n.ents[i])
         /\ \A i \in 1 .. NKeys(n) : EntryBytes(n.ents[i]) \in Nat
<1>1. PageSize \in Nat /\ Header \in Nat /\ 4 * Header < PageSize
  BY BNodeAssumption
<1>2. Len(n.ents) \in Nat /\ \A i \in 1 .. Len(n.ents) : EntryBytes(n.ents[i]) \in Nat
  BY EntryFacts
<1>3. /\ Sums(n.ents)[0] = 0
      /\ \A i \in 0 .. Len(n.ents) : Sums(n.ents)[i] \in Nat
      /\ \A i \in 1 .. Len(n.ents) :
           Sums(n.ents)[i] = Sums(n.ents)[i - 1] + EntryBytes(n.ents[i])
      /\ SumBytes(n.ents) = Sums(n.ents)[Len(n.ents)]
  BY SumsStep
<1>4. Sums(n.ents)[Len(n.ents)] \in Nat
  BY <1>2, <1>3
<1> QED
  BY <1>1, <1>2, <1>3, <1>4 DEF NBytes, NKeys

\* The same, of a node that can be split.
LEMMA SplitSizes ==
  ASSUME NEW n, Splittable(n)
  PROVE  /\ PageSize \in Nat /\ Header \in Nat /\ 4 * Header < PageSize
         /\ NKeys(n) \in Nat /\ NBytes(n) \in Nat
         /\ NBytes(n) = Header + Sums(n.ents)[NKeys(n)]
         /\ Sums(n.ents)[0] = 0
         /\ \A i \in 0 .. NKeys(n) : Sums(n.ents)[i] \in Nat
         /\ \A i \in 1 .. NKeys(n) :
              Sums(n.ents)[i] = Sums(n.ents)[i - 1] + EntryBytes(n.ents[i])
         /\ \A i \in 1 .. NKeys(n) : EntryBytes(n.ents[i]) \in Nat
<1>1. IsEnts(n.ents)
  BY DEF Splittable
<1> QED
  BY <1>1, Sizes

\* nodeSplit2 stops at the first entry that makes the left part half the node,
\* or at the last one.
LEMMA HalfPoint ==
  ASSUME NEW n, IsEnts(n.ents), NBytes(n) > PageSize, NBytes(n) <= 2 * PageSize
  PROVE  /\ SplitPoint(n) \in 1 .. NKeys(n)
         /\ \/ Header + Sums(n.ents)[SplitPoint(n)] >= NBytes(n) \div 2
            \/ SplitPoint(n) = NKeys(n)
         /\ Header + Sums(n.ents)[SplitPoint(n) - 1] < NBytes(n) \div 2
<1> DEFINE N == NKeys(n)
           f == Sums(n.ents)
           h == NBytes(n) \div 2
           left == [i \in 0 .. N |-> Header + SumBytes(SubSeq(n.ents, 1, i))]
           Q(i) == /\ left[i] >= h \/ i = N
                   /\ \A j \in 0 .. i - 1 : left[j] < h
           T == {i \in 0 .. N : left[i] >= h \/ i = N}
<1>1. /\ PageSize \in Nat /\ Header \in Nat /\ 4 * Header < PageSize
      /\ N \in Nat /\ NBytes(n) \in Nat
      /\ NBytes(n) = Header + f[N]
      /\ f[0] = 0
      /\ \A i \in 0 .. N : f[i] \in Nat
      /\ \A i \in 1 .. N : f[i] = f[i - 1] + EntryBytes(n.ents[i])
      /\ \A i \in 1 .. N : EntryBytes(n.ents[i]) \in Nat
  BY Sizes
<1>2. \A i \in 0 .. N : left[i] = Header + f[i]
  <2> SUFFICES ASSUME NEW i \in 0 .. N PROVE SumBytes(SubSeq(n.ents, 1, i)) = f[i]
    OBVIOUS
  <2>1. i \in 0 .. Len(n.ents)
    BY DEF NKeys
  <2> QED
    BY <2>1, FirstEnts
<1>3. SplitPoint(n) = CHOOSE i \in 0 .. N : Q(i)
  <2>1. ~(NBytes(n) > 2 * PageSize)
    BY <1>1
  <2> QED
    BY <2>1 DEF SplitPoint
<1> HIDE DEF left
<1>4. h \in Nat /\ 2 * h <= NBytes(n) /\ NBytes(n) <= 2 * h + 1
  BY <1>1
<1> HIDE DEF f, N, h
<1>5. \E i \in 0 .. N : Q(i)
  <2>1. T \subseteq Nat /\ N \in T
    BY <1>1
  <2>2. PICK m \in T : \A y \in T : m <= y
    <3> HIDE DEF T
    <3> QED
      BY <2>1, LeastNat
  <2>3. m \in 0 .. N /\ (left[m] >= h \/ m = N)
    OBVIOUS
  <2>4. ASSUME NEW j \in 0 .. m - 1 PROVE left[j] < h
    <3>1. j \in 0 .. N /\ ~(m <= j)
      BY <1>1, <2>3
    <3>2. j \notin T
      BY <2>2, <3>1
    <3>3. ~(left[j] >= h)
      BY <3>1, <3>2
    <3>4. left[j] \in Nat
      BY <1>1, <1>2, <3>1
    <3> QED
      BY <1>4, <3>3, <3>4
  <2> QED
    BY <2>3, <2>4
<1> DEFINE p == SplitPoint(n)
<1>6. p \in 0 .. N /\ Q(p)
  <2> HIDE DEF Q
  <2> QED
    BY <1>3, <1>5
<1> HIDE DEF p
<1>7. N >= 1
  <2> SUFFICES ASSUME N = 0 PROVE FALSE
    BY <1>1
  <2> QED
    BY <1>1
<1>8. left[0] < h
  <2>1. left[0] = Header
    BY <1>1, <1>2
  <2> QED
    BY <1>1, <1>4, <2>1
<1>9. p # 0
  <2> SUFFICES ASSUME p = 0 PROVE FALSE
    OBVIOUS
  <2>1. left[0] \in Nat
    BY <1>1, <1>2
  <2> QED
    BY <1>4, <1>6, <1>7, <1>8, <2>1
<1>10. p \in 1 .. N /\ p - 1 \in 0 .. p - 1 /\ p - 1 \in 0 .. N
  BY <1>1, <1>6, <1>9
<1>11. left[p - 1] < h /\ (left[p] >= h \/ p = N)
  BY <1>6, <1>10
<1>12. Header + f[p - 1] < h /\ (Header + f[p] >= h \/ p = N)
  BY <1>2, <1>6, <1>10, <1>11
<1> QED
  BY <1>10, <1>12 DEF p, f, N, h

\* Without large entries it never stops at the last one.
LEMMA SplitAt ==
  ASSUME NEW n, Splittable(n), NBytes(n) > PageSize
  PROVE  /\ SplitPoint(n) \in 1 .. NKeys(n) - 1
         /\ Header + Sums(n.ents)[SplitPoint(n)] >= NBytes(n) \div 2
         /\ Header + Sums(n.ents)[SplitPoint(n) - 1] < NBytes(n) \div 2
<1> DEFINE N == NKeys(n)
           f == Sums(n.ents)
           h == NBytes(n) \div 2
           p == SplitPoint(n)
<1>1. /\ PageSize \in Nat /\ Header \in Nat /\ N \in Nat /\ NBytes(n) \in Nat
      /\ NBytes(n) = Header + f[N]
      /\ \A i \in 0 .. N : f[i] \in Nat
      /\ \A i \in 1 .. N : f[i] = f[i - 1] + EntryBytes(n.ents[i])
      /\ \A i \in 1 .. N : EntryBytes(n.ents[i]) \in Nat
  BY SplitSizes
<1>2. p \in 1 .. N /\ (Header + f[p] >= h \/ p = N) /\ Header + f[p - 1] < h
  <2>1. IsEnts(n.ents) /\ NBytes(n) <= 2 * PageSize
    BY <1>1 DEF Splittable
  <2> QED
    BY <2>1, HalfPoint
<1>3. h \in Nat /\ 2 * h <= NBytes(n) /\ NBytes(n) <= 2 * h + 1
  BY <1>1
<1> HIDE DEF f, N, h, p
<1>4. p # N
  <2> SUFFICES ASSUME p = N PROVE FALSE
    OBVIOUS
  <2>1. N \in 1 .. N /\ N - 1 \in 0 .. N /\ N \in 0 .. N
    BY <1>1, <1>2
  <2>2. 2 * EntryBytes(n.ents[N]) <= PageSize
    BY <2>1 DEF Splittable, N
  <2>3. /\ f[N] = f[N - 1] + EntryBytes(n.ents[N])
        /\ f[N] \in Nat /\ f[N - 1] \in Nat /\ EntryBytes(n.ents[N]) \in Nat
        /\ Header + f[N - 1] < h
    BY <1>1, <1>2, <2>1
  <2> QED
    BY <1>1, <1>3, <2>2, <2>3
<1>5. p \in 1 .. N - 1
  BY <1>1, <1>2, <1>4
<1> QED
  BY <1>2, <1>4, <1>5 DEF p, f, N, h

\* The parts of one split: both have entries, they hold the node's entries in
\* their order, the right one fits a page and so would the left one without its
\* last entry.
LEMMA PartsOf ==
  ASSUME NEW n, Splittable(n), NBytes(n) > PageSize
  PROVE  /\ LeftOf(n).type = n.type /\ RightOf(n).type = n.type
         /\ Splittable(LeftOf(n)) /\ NKeys(LeftOf(n)) \in Nat \ {0}
         /\ IsEnts(RightOf(n).ents) /\ NKeys(RightOf(n)) \in Nat \ {0}
         /\ NBytes(RightOf(n)) <= PageSize
         /\ Header + Sums(LeftOf(n).ents)[NKeys(LeftOf(n)) - 1] < PageSize
         /\ LeftOf(n).ents \o RightOf(n).ents = n.ents
<1> DEFINE N == NKeys(n)
           s == n.ents
           f == Sums(n.ents)
           h == NBytes(n) \div 2
           p == SplitPoint(n)
           t == SubSeq(n.ents, 1, SplitPoint(n))
           u == SubSeq(n.ents, SplitPoint(n) + 1, NKeys(n))
<1>1. /\ PageSize \in Nat /\ Header \in Nat /\ 4 * Header < PageSize
      /\ N \in Nat /\ NBytes(n) \in Nat
      /\ NBytes(n) = Header + f[N]
      /\ f[0] = 0
      /\ \A i \in 0 .. N : f[i] \in Nat
      /\ \A i \in 1 .. N : f[i] = f[i - 1] + EntryBytes(n.ents[i])
      /\ \A i \in 1 .. N : EntryBytes(n.ents[i]) \in Nat
  BY SplitSizes
<1>2. p \in 1 .. N - 1 /\ Header + f[p] >= h /\ Header + f[p - 1] < h
  BY SplitAt
<1>3. N = Len(s) /\ IsEnts(s)
  BY DEF Splittable, NKeys
<1>4. h \in Nat /\ 2 * h <= NBytes(n) /\ NBytes(n) <= 2 * h + 1
  BY <1>1
<1>5. NBytes(n) <= 2 * PageSize - 2 * Header /\ \A i \in 1 .. N : 2 * EntryBytes(s[i]) <= PageSize
  BY DEF Splittable
<1>6. /\ LeftOf(n).type = n.type /\ LeftOf(n).ents = t
      /\ RightOf(n).type = n.type /\ RightOf(n).ents = u
  BY DEF LeftOf, RightOf, Node
<1> HIDE DEF h, f, p, N
<1>7. p \in 0 .. N /\ p - 1 \in 0 .. p /\ p - 1 \in 0 .. N /\ p \in Nat /\ 1 <= p /\ p < N
  BY <1>1, <1>2
<1>8. /\ IsEnts(t) /\ Len(t) = p
      /\ \A i \in 1 .. p : t[i] = s[i]
      /\ \A i \in 0 .. p : Sums(t)[i] = f[i]
      /\ SumBytes(t) = f[p]
  <2> USE DEF p, f
  <2>1. p \in 0 .. Len(s)
    BY <1>3, <1>7
  <2> QED
    BY <1>3, <2>1, FirstEnts
<1>9. IsEnts(u) /\ Len(u) = N - p /\ SumBytes(u) = f[N] - f[p]
  <2> USE DEF p, f, N
  <2>1. p \in 0 .. Len(s)
    BY <1>3, <1>7
  <2>2. /\ IsEnts(SubSeq(s, p + 1, Len(s))) /\ Len(SubSeq(s, p + 1, Len(s))) = Len(s) - p
        /\ SumBytes(SubSeq(s, p + 1, Len(s))) = Sums(s)[Len(s)] - Sums(s)[p]
    BY <1>3, <2>1, LastEnts
  <2> QED
    BY <1>3, <2>2
<1>10. t \o u = s
  <2> USE DEF p, N
  <2>1. p \in 0 .. Len(s)
    BY <1>3, <1>7
  <2> QED
    BY <1>3, <2>1, PartsJoin
<1> HIDE DEF t, u
<1>11. f[p] \in Nat /\ f[N] \in Nat /\ f[p - 1] \in Nat
  BY <1>1, <1>7
<1>12. NBytes(RightOf(n)) <= PageSize
  <2>1. NBytes(RightOf(n)) = Header + (f[N] - f[p])
    BY <1>6, <1>9 DEF NBytes
  <2> QED
    BY <1>1, <1>2, <1>4, <1>5, <1>11, <2>1
<1>13. NKeys(RightOf(n)) \in Nat \ {0} /\ NKeys(LeftOf(n)) = p
  BY <1>1, <1>6, <1>7, <1>8, <1>9 DEF NKeys
<1>14. Header + Sums(LeftOf(n).ents)[NKeys(LeftOf(n)) - 1] < PageSize
  <2>1. Sums(LeftOf(n).ents)[NKeys(LeftOf(n)) - 1] = f[p - 1]
    BY <1>6, <1>7, <1>8, <1>13
  <2> QED
    BY <1>1, <1>2, <1>4, <1>5, <1>11, <2>1
<1>15. Splittable(LeftOf(n))
  <2>1. f[p] <= f[N]
    <3>1. p \in 0 .. Len(s) /\ N \in 0 .. Len(s) /\ p <= N
      BY <1>1, <1>3, <1>7
    <3> QED
      BY <1>3, <3>1, SumsGrow DEF f
  <2>2. NBytes(LeftOf(n)) = Header + f[p]
    BY <1>6, <1>8 DEF NBytes
  <2>3. NBytes(LeftOf(n)) <= 2 * PageSize - 2 * Header
    BY <1>1, <1>5, <1>11, <2>1, <2>2
  <2>4. \A i \in 1 .. p : 2 * EntryBytes(t[i]) <= PageSize
    <3> SUFFICES ASSUME NEW i \in 1 .. p PROVE 2 * EntryBytes(t[i]) <= PageSize
      OBVIOUS
    <3>1. i \in 1 .. N
      BY <1>1, <1>7
    <3>2. t[i] = s[i]
      BY <1>8
    <3> QED
      BY <1>5, <3>1, <3>2
  <2> QED
    BY <1>6, <1>8, <1>13, <2>3, <2>4 DEF Splittable
<1> QED
  BY <1>6, <1>7, <1>9, <1>10, <1>12, <1>13, <1>14, <1>15

\* One to three nodes of n's type with the entries of n in their order, each
\* with an entry at least and in one page.
SplitsInto(n, parts) ==
  /\ Len(parts) \in 1 .. 3
  /\ \A i \in 1 .. Len(parts) : /\ parts[i].type = n.type
                                /\ IsEnts(parts[i].ents) /\ NKeys(parts[i]) \in Nat \ {0}
                                /\ NBytes(parts[i]) <= PageSize
  /\ Len(parts) = 1 => parts[1].ents = n.ents
  /\ Len(parts) = 2 => parts[1].ents \o parts[2].ents = n.ents
  /\ Len(parts) = 3 => (parts[1].ents \o parts[2].ents) \o parts[3].ents = n.ents

\* nodeSplit3 holds its own assertion, writes no part past its page, and loses
\* and reorders no entry.
THEOREM SplitFits ==
  ASSUME NEW n, n.ents # << >>, Splittable(n)
  PROVE  SplitsInto(n, NodeSplit3(n))
<1> USE DEF SplitsInto
<1>1. CASE NBytes(n) <= PageSize
  <2>1. NodeSplit3(n) = <<n>>
    BY <1>1 DEF NodeSplit3
  <2>2. IsEnts(n.ents) /\ NKeys(n) \in Nat \ {0}
    <3>1. IsEnts(n.ents)
      BY DEF Splittable
    <3>2. PICK S : n.ents \in Seq(S)
      BY <3>1 DEF IsEnts
    <3>3. Len(n.ents) \in Nat \ {0}
      BY <3>2, EmptySeq
    <3> QED
      BY <3>1, <3>3 DEF NKeys
  <2> QED
    BY <1>1, <2>1, <2>2
<1>2. CASE ~(NBytes(n) <= PageSize)
  <2> DEFINE l == LeftOf(n)
             r == RightOf(n)
             ll == LeftOf(LeftOf(n))
             lr == RightOf(LeftOf(n))
  <2>1. NBytes(n) > PageSize
    BY <1>2, SplitSizes
  <2>2. /\ l.type = n.type /\ r.type = n.type
        /\ Splittable(l) /\ NKeys(l) \in Nat \ {0}
        /\ IsEnts(r.ents) /\ NKeys(r) \in Nat \ {0}
        /\ NBytes(r) <= PageSize
        /\ Header + Sums(l.ents)[NKeys(l) - 1] < PageSize
        /\ l.ents \o r.ents = n.ents
    BY <2>1, PartsOf
  <2>3. NodeSplit3(n) = IF NBytes(l) <= PageSize THEN <<l, r>>
                        ELSE IF NBytes(ll) > PageSize THEN <<Fatal("assert")>>
                        ELSE <<ll, lr, r>>
    BY <1>2 DEF NodeSplit3
  <2>4. CASE NBytes(l) <= PageSize
    <3> HIDE DEF l, r
    <3>1. NodeSplit3(n) = <<l, r>>
      BY <2>3, <2>4
    <3>2. IsEnts(l.ents)
      BY <2>2 DEF Splittable
    <3> DEFINE parts == NodeSplit3(n)
    <3>3. Len(parts) = 2 /\ parts[1] = l /\ parts[2] = r
      BY <3>1
    <3> HIDE DEF parts
    <3>4. ASSUME NEW i \in 1 .. Len(parts)
          PROVE  /\ parts[i].type = n.type
                 /\ IsEnts(parts[i].ents) /\ NKeys(parts[i]) \in Nat \ {0}
                 /\ NBytes(parts[i]) <= PageSize
      <4>1. i = 1 \/ i = 2
        BY <3>3
      <4> QED
        BY <2>2, <2>4, <3>2, <3>3, <4>1
    <3>5. Len(parts) \in 1 .. 3 /\ Len(parts) # 1 /\ Len(parts) # 3
      BY <3>3
    <3> QED
      BY <2>2, <3>3, <3>4, <3>5 DEF parts
  <2>5. CASE ~(NBytes(l) <= PageSize)
    <3>1. NBytes(l) > PageSize
      BY <2>2, <2>5, SplitSizes
    <3>2. /\ ll.type = l.type /\ lr.type = l.type
          /\ Splittable(ll) /\ NKeys(ll) \in Nat \ {0}
          /\ IsEnts(lr.ents) /\ NKeys(lr) \in Nat \ {0}
          /\ NBytes(lr) <= PageSize
          /\ Header + Sums(ll.ents)[NKeys(ll) - 1] < PageSize
          /\ ll.ents \o lr.ents = l.ents
      BY <2>2, <3>1, PartsOf
    <3>3. NBytes(ll) <= PageSize
      <4> DEFINE q == SplitPoint(LeftOf(n))
                 N == NKeys(l)
                 f == Sums(l.ents)
      <4>1. q \in 1 .. N - 1
        BY <2>2, <3>1, SplitAt
      <4>2. IsEnts(l.ents) /\ N = Len(l.ents)
        BY <2>2 DEF Splittable, NKeys
      <4>3. ll.ents = SubSeq(l.ents, 1, q)
        BY DEF LeftOf, Node
      <4>4. PageSize \in Nat /\ Header \in Nat /\ \A i \in 0 .. N : f[i] \in Nat
        BY <2>2, SplitSizes
      <4> HIDE DEF q, l, ll, N, f
      <4>5. N \in Nat \ {0}
        BY <2>2 DEF N
      <4>6. q \in 0 .. Len(l.ents) /\ N - 1 \in 0 .. Len(l.ents) /\ q <= N - 1
        BY <4>1, <4>2, <4>5
      <4>7. SumBytes(ll.ents) = f[q]
        BY <4>2, <4>3, <4>6, FirstEnts DEF f
      <4>8. f[q] <= f[N - 1]
        BY <4>2, <4>6, SumsGrow DEF f
      <4>9. Header + f[N - 1] < PageSize
        BY <2>2 DEF N, f
      <4>10. NBytes(ll) = Header + f[q] /\ f[q] \in Nat /\ f[N - 1] \in Nat
        BY <4>2, <4>4, <4>6, <4>7 DEF NBytes
      <4> QED
        BY <4>4, <4>8, <4>9, <4>10
    <3>4. ~(NBytes(ll) > PageSize)
      BY <3>2, <3>3, SplitSizes
    <3> HIDE DEF l, r, ll, lr
    <3>5. NodeSplit3(n) = <<ll, lr, r>>
      BY <2>3, <2>5, <3>4
    <3>6. IsEnts(ll.ents)
      BY <3>2 DEF Splittable
    <3> DEFINE parts == NodeSplit3(n)
    <3>7. Len(parts) = 3 /\ parts[1] = ll /\ parts[2] = lr /\ parts[3] = r
      BY <3>5
    <3> HIDE DEF parts
    <3>8. ASSUME NEW i \in 1 .. Len(parts)
          PROVE  /\ parts[i].type = n.type
                 /\ IsEnts(parts[i].ents) /\ NKeys(parts[i]) \in Nat \ {0}
                 /\ NBytes(parts[i]) <= PageSize
      <4>1. i = 1 \/ i = 2 \/ i = 3
        BY <3>7
      <4> QED
        BY <2>2, <3>2, <3>3, <3>6, <3>7, <4>1
    <3>9. Len(parts) \in 1 .. 3 /\ Len(parts) # 1 /\ Len(parts) # 2
      BY <3>7
    <3> QED
      BY <2>2, <3>2, <3>7, <3>8, <3>9 DEF parts
  <2> QED
    BY <2>4, <2>5
<1> QED
  BY <1>1, <1>2

\* The parts of one split, whatever the entries.
LEMMA Halves ==
  ASSUME NEW n, IsEnts(n.ents), NBytes(n) > PageSize, NBytes(n) <= 2 * PageSize
  PROVE  LET p == SplitPoint(n) IN
         /\ LeftOf(n).type = n.type /\ RightOf(n).type = n.type
         /\ IsEnts(LeftOf(n).ents) /\ NKeys(LeftOf(n)) = p
         /\ IsEnts(RightOf(n).ents) /\ NKeys(RightOf(n)) = NKeys(n) - p
         /\ NBytes(LeftOf(n)) = Header + Sums(n.ents)[p]
         /\ NBytes(RightOf(n)) = NBytes(n) - Sums(n.ents)[p]
         /\ \A i \in 0 .. p : Sums(LeftOf(n).ents)[i] = Sums(n.ents)[i]
         /\ \A i \in 1 .. p : LeftOf(n).ents[i] = n.ents[i]
         /\ LeftOf(n).ents \o RightOf(n).ents = n.ents
<1> DEFINE N == NKeys(n)
           s == n.ents
           f == Sums(n.ents)
           p == SplitPoint(n)
           t == SubSeq(n.ents, 1, SplitPoint(n))
           u == SubSeq(n.ents, SplitPoint(n) + 1, NKeys(n))
<1>1. Header \in Nat /\ N \in Nat /\ NBytes(n) = Header + f[N] /\ \A i \in 0 .. N : f[i] \in Nat
  BY Sizes
<1>2. p \in 1 .. N /\ N = Len(s) /\ p \in 0 .. Len(s)
  <2>1. p \in 1 .. N
    BY HalfPoint
  <2> QED
    BY <1>1, <2>1 DEF NKeys
<1>3. /\ LeftOf(n).type = n.type /\ LeftOf(n).ents = t
      /\ RightOf(n).type = n.type /\ RightOf(n).ents = u
  BY DEF LeftOf, RightOf, Node
<1> HIDE DEF p
<1>4. /\ IsEnts(t) /\ Len(t) = p
      /\ \A i \in 1 .. p : t[i] = s[i]
      /\ \A i \in 0 .. p : Sums(t)[i] = f[i]
      /\ SumBytes(t) = f[p]
  BY <1>2, FirstEnts DEF p
<1>5. IsEnts(u) /\ Len(u) = N - p /\ SumBytes(u) = f[N] - f[p]
  <2>1. /\ IsEnts(SubSeq(s, p + 1, Len(s))) /\ Len(SubSeq(s, p + 1, Len(s))) = Len(s) - p
        /\ SumBytes(SubSeq(s, p + 1, Len(s))) = Sums(s)[Len(s)] - Sums(s)[p]
    BY <1>2, LastEnts
  <2> QED
    BY <1>2, <2>1 DEF p
<1>6. t \o u = s
  BY <1>2, PartsJoin DEF p
<1> HIDE DEF t, u, f, N
<1>7. f[p] \in Nat /\ f[N] \in Nat
  BY <1>1, <1>2
<1>8. NBytes(LeftOf(n)) = Header + f[p]
  BY <1>3, <1>4 DEF NBytes
<1>9. NBytes(RightOf(n)) = Header + (f[N] - f[p])
  BY <1>3, <1>5 DEF NBytes
<1>10. NBytes(RightOf(n)) = NBytes(n) - f[p]
  BY <1>1, <1>7, <1>9
<1>11. NKeys(LeftOf(n)) = p /\ NKeys(RightOf(n)) = N - p
  BY <1>3, <1>4, <1>5 DEF NKeys
<1> QED
  BY <1>3, <1>4, <1>5, <1>6, <1>8, <1>10, <1>11 DEF p, f, N

\* Nodes that are parts of n.
PartOf(n, m) ==
  /\ m.type = n.type /\ IsEnts(m.ents) /\ NKeys(m) \in Nat \ {0} /\ NBytes(m) <= PageSize

LEMMA TwoParts ==
  ASSUME NEW n, NEW l, NEW r, PartOf(n, l), PartOf(n, r), l.ents \o r.ents = n.ents
  PROVE  SplitsInto(n, <<l, r>>)
<1> DEFINE parts == <<l, r>>
<1>1. Len(parts) = 2 /\ parts[1] = l /\ parts[2] = r
  OBVIOUS
<1> HIDE DEF parts
<1>2. ASSUME NEW i \in 1 .. Len(parts) PROVE PartOf(n, parts[i])
  <2>1. i = 1 \/ i = 2
    BY <1>1
  <2> QED
    BY <1>1, <2>1
<1>3. Len(parts) \in 1 .. 3 /\ Len(parts) # 1 /\ Len(parts) # 3
  BY <1>1
<1> QED
  BY <1>1, <1>2, <1>3 DEF SplitsInto, PartOf, parts

LEMMA ThreeParts ==
  ASSUME NEW n, NEW l, NEW m, NEW r, PartOf(n, l), PartOf(n, m), PartOf(n, r),
         (l.ents \o m.ents) \o r.ents = n.ents
  PROVE  SplitsInto(n, <<l, m, r>>)
<1> DEFINE parts == <<l, m, r>>
<1>1. Len(parts) = 3 /\ parts[1] = l /\ parts[2] = m /\ parts[3] = r
  OBVIOUS
<1> HIDE DEF parts
<1>2. ASSUME NEW i \in 1 .. Len(parts) PROVE PartOf(n, parts[i])
  <2>1. i = 1 \/ i = 2 \/ i = 3
    BY <1>1
  <2> QED
    BY <1>1, <2>1
<1>3. Len(parts) \in 1 .. 3 /\ Len(parts) # 1 /\ Len(parts) # 2
  BY <1>1
<1> QED
  BY <1>1, <1>2, <1>3 DEF SplitsInto, PartOf, parts

\* A leaf that fitted its page before one entry, at z, was put in or grew.
Outgrown(n, z) ==
  /\ IsEnts(n.ents) /\ z \in 1 .. NKeys(n)
  /\ \A i \in 2 .. NKeys(n) : Header < EntryBytes(n.ents[i])
  /\ NBytes(n) <= PageSize + EntryBytes(n.ents[z])
  /\ Header + EntryBytes(n.ents[z]) <= PageSize

\* The right part of its split fits, however large that entry is: either the
\* entry went left, or next to nothing is left beside it.
LEMMA RightFits ==
  ASSUME NEW n, NEW z, Outgrown(n, z), NBytes(n) > PageSize
  PROVE  NBytes(RightOf(n)) <= PageSize /\ NBytes(n) <= 2 * PageSize - Header
<1> DEFINE N == NKeys(n)
           f == Sums(n.ents)
           h == NBytes(n) \div 2
           p == SplitPoint(n)
           E(i) == EntryBytes(n.ents[i])
<1>1. /\ PageSize \in Nat /\ Header \in Nat /\ 4 * Header < PageSize
      /\ N \in Nat /\ NBytes(n) \in Nat
      /\ NBytes(n) = Header + f[N]
      /\ \A i \in 0 .. N : f[i] \in Nat
      /\ \A i \in 1 .. N : f[i] = f[i - 1] + E(i) /\ E(i) \in Nat
  BY Sizes DEF Outgrown
<1>2. /\ IsEnts(n.ents) /\ z \in 1 .. N /\ Header + E(z) <= PageSize
      /\ NBytes(n) <= PageSize + E(z) /\ \A i \in 2 .. N : Header < E(i)
  BY DEF Outgrown
<1>3. NBytes(n) <= 2 * PageSize - Header /\ NBytes(n) <= 2 * PageSize
  BY <1>1, <1>2
<1>4. p \in 1 .. N /\ (Header + f[p] >= h \/ p = N) /\ NBytes(RightOf(n)) = NBytes(n) - f[p]
  BY <1>2, <1>3, HalfPoint, Halves
<1>5. \A i, j \in 0 .. N : i <= j => f[i] <= f[j]
  BY <1>2, SumsGrow DEF NKeys
<1>6. h \in Nat /\ 2 * h <= NBytes(n) /\ NBytes(n) <= 2 * h + 1
  BY <1>1
<1> HIDE DEF N, f, h, p, E
<1>7. f[p] \in Nat /\ E(z) \in Nat /\ f[N] \in Nat
  BY <1>1, <1>2, <1>4
<1>8. CASE z <= p
  <2>1. f[z] = f[z - 1] + E(z) /\ f[z] <= f[p] /\ f[z] \in Nat /\ f[z - 1] \in Nat
    BY <1>1, <1>2, <1>4, <1>5, <1>8
  <2> QED
    BY <1>1, <1>2, <1>3, <1>4, <1>7, <2>1
<1>9. CASE ~(z <= p)
  <2>1. p < z /\ p < N /\ Header + f[p] >= h
    BY <1>1, <1>2, <1>4, <1>9
  <2>2. CASE NBytes(n) <= 2 * PageSize - 2 * Header
    BY <1>1, <1>3, <1>4, <1>6, <1>7, <2>1, <2>2
  <2>3. CASE ~(NBytes(n) <= 2 * PageSize - 2 * Header)
    <3>1. CASE p + 1 = N
      <4>1. z = N /\ N - 1 = p
        BY <1>1, <1>2, <1>4, <2>1, <3>1
      <4>2. f[N] = f[p] + E(z)
        BY <1>1, <1>2, <4>1
      <4> QED
        BY <1>1, <1>2, <1>3, <1>4, <1>7, <4>2
    <3>2. CASE p + 1 # N
      <4>1. f[p] + E(z) + Header < f[N]
        <5>1. CASE z = N
          <6>1. p + 1 \in 2 .. N /\ p + 1 <= N - 1 /\ p + 1 \in 0 .. N /\ N - 1 \in 0 .. N /\ (p + 1) - 1 = p
            BY <1>1, <1>2, <1>4, <2>1, <3>2
          <6>2. /\ f[p + 1] = f[p] + E(p + 1) /\ Header < E(p + 1) /\ f[p + 1] <= f[N - 1]
                /\ f[p + 1] \in Nat /\ f[N - 1] \in Nat /\ E(p + 1) \in Nat
            BY <1>1, <1>2, <1>5, <6>1
          <6>3. f[N] = f[N - 1] + E(z)
            BY <1>1, <1>2, <5>1
          <6> QED
            BY ONLY <1>1, <1>7, <6>2, <6>3
        <5>2. CASE z # N
          <6>1. /\ N \in 2 .. N /\ N - 1 \in 0 .. N /\ z <= N - 1 /\ z \in 0 .. N
                /\ z - 1 \in 0 .. N /\ p <= z - 1 /\ p \in 0 .. N
            BY <1>1, <1>2, <1>4, <2>1, <5>2
          <6>2. f[p] <= f[z - 1] /\ f[z] <= f[N - 1]
            BY <1>5, <6>1
          <6>3. /\ f[N] = f[N - 1] + E(N) /\ Header < E(N) /\ E(N) \in Nat
                /\ f[z] = f[z - 1] + E(z)
                /\ f[z] \in Nat /\ f[N - 1] \in Nat /\ f[z - 1] \in Nat
            BY <1>1, <1>2, <6>1
          <6> QED
            BY ONLY <1>1, <1>7, <6>2, <6>3
        <5> QED
          BY <5>1, <5>2
      <4> QED
        BY ONLY <1>1, <1>2, <1>3, <1>4, <1>6, <1>7, <2>1, <2>3, <4>1
    <3> QED
      BY <3>1, <3>2
  <2> QED
    BY <2>2, <2>3
<1> QED
  BY <1>3, <1>8, <1>9

\* nodeSplit3 of such a leaf fails its assertion, or makes parts that fit.
THEOREM SplitOrAssert ==
  ASSUME NEW n, NEW z, Outgrown(n, z)
  PROVE  NodeSplit3(n) = <<Fatal("assert")>> \/ SplitsInto(n, NodeSplit3(n))
<1> DEFINE N == NKeys(n)
           f == Sums(n.ents)
           p == SplitPoint(n)
           l == LeftOf(n)
           r == RightOf(n)
           ll == LeftOf(l)
           lr == RightOf(l)
           q == SplitPoint(l)
<1>1. /\ PageSize \in Nat /\ Header \in Nat /\ N \in Nat /\ NBytes(n) \in Nat
      /\ NBytes(n) = Header + f[N]
      /\ \A i \in 0 .. N : f[i] \in Nat
      /\ \A i \in 1 .. N : f[i] = f[i - 1] + EntryBytes(n.ents[i])
                           /\ EntryBytes(n.ents[i]) \in Nat
  BY Sizes DEF Outgrown
<1>2. IsEnts(n.ents) /\ z \in 1 .. N /\ \A i \in 2 .. N : Header < EntryBytes(n.ents[i])
  BY DEF Outgrown
<1>3. CASE NBytes(n) <= PageSize
  <2>1. NodeSplit3(n) = <<n>>
    BY <1>3 DEF NodeSplit3
  <2>2. N \in Nat \ {0}
    BY <1>1, <1>2
  <2> QED
    BY <1>2, <1>3, <2>1, <2>2 DEF SplitsInto
<1>4. CASE ~(NBytes(n) <= PageSize)
  <2>1. NBytes(n) > PageSize
    BY <1>1, <1>4
  <2>2. NBytes(r) <= PageSize /\ NBytes(n) <= 2 * PageSize - Header
    BY <2>1, RightFits
  <2>3. NBytes(n) <= 2 * PageSize
    BY <1>1, <2>2
  <2>4. p \in 1 .. N /\ (Header + f[p] >= NBytes(n) \div 2 \/ p = N)
        /\ Header + f[p - 1] < NBytes(n) \div 2
    BY <1>2, <2>1, <2>3, HalfPoint
  <2>5. /\ l.type = n.type /\ r.type = n.type
        /\ IsEnts(l.ents) /\ NKeys(l) = p
        /\ IsEnts(r.ents) /\ NKeys(r) = N - p
        /\ NBytes(l) = Header + f[p]
        /\ \A i \in 0 .. p : Sums(l.ents)[i] = f[i]
        /\ l.ents \o r.ents = n.ents
    BY <1>2, <2>1, <2>3, Halves
  <2>6. NodeSplit3(n) = IF NBytes(l) <= PageSize THEN <<l, r>>
                        ELSE IF NBytes(ll) > PageSize THEN <<Fatal("assert")>>
                        ELSE <<ll, lr, r>>
    BY <1>4 DEF NodeSplit3
  <2> HIDE DEF l, r, p, f, N
  <2>7. p \in 0 .. N /\ f[p] \in Nat
    BY <1>1, <2>4
  <2>8. CASE NBytes(l) <= PageSize
    <3>1. p # N
      BY <1>1, <2>1, <2>5, <2>8
    <3>2. PartOf(n, l) /\ PartOf(n, r)
      BY <1>1, <2>2, <2>4, <2>5, <2>8, <3>1 DEF PartOf
    <3> QED
      BY <2>5, <2>6, <2>8, <3>2, TwoParts
  <2>9. CASE ~(NBytes(l) <= PageSize) /\ ~(NBytes(ll) > PageSize)
    <3>1. NBytes(l) > PageSize /\ NBytes(l) <= NBytes(n)
      <4>1. f[p] <= f[N]
        <5>1. p \in 0 .. Len(n.ents) /\ N \in 0 .. Len(n.ents) /\ p <= N
          BY <1>1, <2>4 DEF N, NKeys
        <5> QED
          BY <1>2, <5>1, SumsGrow DEF f
      <4>2. f[N] \in Nat
        BY <1>1
      <4> QED
        BY <1>1, <2>5, <2>7, <2>9, <4>1, <4>2
    <3>2. NBytes(l) <= 2 * PageSize
      BY <1>1, <2>3, <2>5, <2>7, <3>1
    <3>3. /\ q \in 1 .. p /\ (Header + f[q] >= NBytes(l) \div 2 \/ q = p)
      <4>1. /\ q \in 1 .. p
            /\ Header + Sums(l.ents)[q] >= NBytes(l) \div 2 \/ q = p
        BY <2>5, <3>1, <3>2, HalfPoint
      <4>2. q \in 0 .. p
        BY <4>1
      <4> QED
        BY <2>5, <4>1, <4>2
    <3>4. /\ ll.type = l.type /\ lr.type = l.type
          /\ IsEnts(ll.ents) /\ NKeys(ll) = q
          /\ IsEnts(lr.ents) /\ NKeys(lr) = p - q
          /\ NBytes(ll) = Header + Sums(l.ents)[q]
          /\ NBytes(lr) = NBytes(l) - Sums(l.ents)[q]
          /\ ll.ents \o lr.ents = l.ents
      BY <2>5, <3>1, <3>2, Halves
    <3> HIDE DEF q, ll, lr
    <3>5. /\ NBytes(ll) = Header + f[q] /\ NBytes(lr) = NBytes(l) - f[q]
          /\ f[q] \in Nat /\ q \in 0 .. N /\ q \in Nat /\ p \in Nat
      <4>1. q \in 0 .. p /\ q \in 0 .. N /\ q \in Nat /\ p \in Nat
        BY <1>1, <2>4, <3>3
      <4> QED
        BY <1>1, <2>5, <3>4, <4>1
    <3>6. q # p /\ Header + f[q] >= NBytes(l) \div 2
      BY <1>1, <2>5, <2>7, <2>9, <3>1, <3>3, <3>5
    <3>7. p # N
      <4> SUFFICES ASSUME p = N PROVE FALSE
        OBVIOUS
      <4>1. q \in 0 .. N /\ p - 1 \in 0 .. N /\ q <= p - 1
        BY <1>1, <2>4, <3>3, <3>6
      <4>2. f[q] <= f[p - 1] /\ f[p - 1] \in Nat
        <5>1. f[p - 1] \in Nat
          BY <1>1, <4>1
        <5>2. q \in 0 .. Len(n.ents) /\ p - 1 \in 0 .. Len(n.ents)
          BY <4>1 DEF N, NKeys
        <5> QED
          BY <1>2, <4>1, <5>1, <5>2, SumsGrow DEF f
      <4>3. NBytes(l) = NBytes(n)
        BY <1>1, <2>5
      <4> QED
        BY <1>1, <2>4, <3>5, <3>6, <4>2, <4>3
    <3>8. NBytes(l) <= 2 * PageSize - 2 * Header
      <4>1. N \in 2 .. N /\ N - 1 \in 0 .. N /\ p <= N - 1 /\ N \in 1 .. N
        BY <1>1, <2>4, <3>7
      <4>2. /\ f[N] = f[N - 1] + EntryBytes(n.ents[N]) /\ Header < EntryBytes(n.ents[N])
            /\ EntryBytes(n.ents[N]) \in Nat /\ f[N - 1] \in Nat /\ f[N] \in Nat
        BY <1>1, <1>2, <4>1
      <4>3. f[p] <= f[N - 1]
        <5>1. p \in 0 .. Len(n.ents) /\ N - 1 \in 0 .. Len(n.ents)
          BY <2>7, <4>1 DEF N, NKeys
        <5> QED
          BY <1>2, <4>1, <5>1, SumsGrow DEF f
      <4> QED
        BY ONLY <1>1, <2>2, <2>5, <2>7, <4>2, <4>3, SMTT(20)
    <3>9. NBytes(lr) <= PageSize
      <4> DEFINE h == NBytes(l) \div 2
      <4>0. NBytes(l) \in Nat
        BY <1>1, <2>5, <2>7
      <4>1. NBytes(l) \in Nat /\ h \in Nat /\ NBytes(l) <= 2 * h + 1 /\ Header + f[q] >= h
        BY <3>6, <4>0
      <4> HIDE DEF h
      <4> QED
        BY ONLY <1>1, <3>5, <3>8, <4>1
    <3>10. NBytes(ll) <= PageSize
      BY <1>1, <2>9, <3>5
    <3>11. PartOf(n, ll) /\ PartOf(n, lr) /\ PartOf(n, r)
      <4>1. NKeys(ll) \in Nat \ {0} /\ NKeys(lr) \in Nat \ {0} /\ NKeys(r) \in Nat \ {0}
        BY <1>1, <2>4, <2>5, <3>3, <3>4, <3>6, <3>7
      <4> QED
        BY <2>2, <2>5, <3>4, <3>9, <3>10, <4>1 DEF PartOf
    <3> QED
      BY <2>5, <2>6, <2>9, <3>4, <3>11, ThreeParts
  <2> QED
    BY <2>6, <2>8, <2>9
<1> QED
  BY <1>3, <1>4

\* A short first entry is never split off alone.
LEMMA HalfPointLater ==
  ASSUME NEW n, IsEnts(n.ents), NBytes(n) > PageSize, NBytes(n) <= 2 * PageSize,
         2 * (Header + EntryBytes(n.ents[1])) < PageSize
  PROVE  SplitPoint(n) # 1
<1> DEFINE N == NKeys(n)
           f == Sums(n.ents)
           h == NBytes(n) \div 2
           p == SplitPoint(n)
<1>1. /\ PageSize \in Nat /\ Header \in Nat /\ N \in Nat /\ NBytes(n) \in Nat
      /\ NBytes(n) = Header + f[N] /\ f[0] = 0
      /\ \A i \in 1 .. N : f[i] = f[i - 1] + EntryBytes(n.ents[i])
      /\ \A i \in 1 .. N : EntryBytes(n.ents[i]) \in Nat
  BY Sizes
<1>2. p \in 1 .. N /\ (Header + f[p] >= h \/ p = N)
  BY HalfPoint
<1>3. h \in Nat /\ 2 * h <= NBytes(n) /\ NBytes(n) <= 2 * h + 1
  BY <1>1
<1> HIDE DEF N, f, h, p
<1>4. 1 \in 1 .. N
  BY <1>1, <1>2
<1>5. f[1] = EntryBytes(n.ents[1]) /\ EntryBytes(n.ents[1]) \in Nat
  BY <1>1, <1>4
<1>6. p # 1
  <2> SUFFICES ASSUME p = 1 PROVE FALSE
    OBVIOUS
  <2>1. Header + f[1] >= h \/ NBytes(n) = Header + f[1]
    BY <1>1, <1>2
  <2> QED
    BY ONLY <1>1, <1>3, <1>5, <2>1, NBytes(n) > PageSize,
            2 * (Header + EntryBytes(n.ents[1])) < PageSize
<1> QED
  BY <1>6 DEF p

LEMMA FirstPart ==
  ASSUME NEW n, NEW z, Outgrown(n, z), NBytes(n) > PageSize,
         2 * (Header + EntryBytes(n.ents[1])) < PageSize,
         SplitsInto(n, NodeSplit3(n))
  PROVE  Len(NodeSplit3(n)) # 1 /\ NKeys(NodeSplit3(n)[1]) # 1
<1> DEFINE l == LeftOf(n)
           r == RightOf(n)
           ll == LeftOf(l)
           lr == RightOf(l)
<1>1. PageSize \in Nat /\ Header \in Nat /\ NBytes(n) \in Nat /\ IsEnts(n.ents)
  BY Sizes DEF Outgrown
<1>2. NBytes(n) <= 2 * PageSize /\ ~(NBytes(n) <= PageSize)
  <2>1. NBytes(n) <= 2 * PageSize - Header
    BY RightFits
  <2> QED
    BY <1>1, <2>1
<1>3. NodeSplit3(n) = IF NBytes(l) <= PageSize THEN <<l, r>>
                      ELSE IF NBytes(ll) > PageSize THEN <<Fatal("assert")>>
                      ELSE <<ll, lr, r>>
  BY <1>2 DEF NodeSplit3
<1>4. NodeSplit3(n) # <<Fatal("assert")>>
  <2> SUFFICES ASSUME NodeSplit3(n) = <<Fatal("assert")>> PROVE FALSE
    OBVIOUS
  <2>1. Len(NodeSplit3(n)) = 1 /\ NodeSplit3(n)[1] = Fatal("assert")
    OBVIOUS
  <2>2. NKeys(NodeSplit3(n)[1]) # 0
    BY <2>1 DEF SplitsInto
  <2> QED
    BY <2>1, <2>2 DEF Fatal, Node, NKeys
<1>5. /\ NKeys(l) = SplitPoint(n) /\ IsEnts(l.ents)
      /\ NBytes(l) = Header + Sums(n.ents)[SplitPoint(n)]
      /\ \A i \in 1 .. SplitPoint(n) : l.ents[i] = n.ents[i]
  BY <1>1, <1>2, Halves
<1>6. SplitPoint(n) \in 1 .. NKeys(n) /\ SplitPoint(n) # 1
  BY <1>1, <1>2, HalfPoint, HalfPointLater
<1> HIDE DEF r, lr
<1>7. CASE NBytes(l) <= PageSize
  <2> HIDE DEF l
  <2>1. NodeSplit3(n) = <<l, r>>
    BY <1>3, <1>7
  <2> QED
    BY <1>5, <1>6, <2>1
<1>8. CASE ~(NBytes(l) <= PageSize)
  <2>1. NodeSplit3(n) = <<ll, lr, r>>
    BY <1>3, <1>4, <1>8
  <2>2. /\ NBytes(l) > PageSize /\ NBytes(l) <= 2 * PageSize
    <3> DEFINE p == SplitPoint(n)
               f == Sums(n.ents)
               N == NKeys(n)
    <3>1. N \in Nat /\ NBytes(n) = Header + f[N] /\ \A i \in 0 .. N : f[i] \in Nat
      BY <1>1, Sizes
    <3> HIDE DEF f, p, N
    <3>2. p \in 0 .. Len(n.ents) /\ N \in 0 .. Len(n.ents) /\ p <= N /\ p \in 0 .. N
      BY <1>6, <3>1 DEF p, N, NKeys
    <3>3. f[p] <= f[N] /\ f[p] \in Nat /\ f[N] \in Nat
      BY <1>1, <3>1, <3>2, SumsGrow DEF f
    <3>4. NBytes(l) = Header + f[p]
      BY <1>5 DEF f, p
    <3> QED
      BY <1>1, <1>2, <1>8, <3>1, <3>3, <3>4
  <2>3. l.ents[1] = n.ents[1]
    <3>1. 1 \in 1 .. SplitPoint(n)
      BY <1>6
    <3> QED
      BY <1>5, <3>1
  <2> HIDE DEF l
  <2>4. NKeys(ll) = SplitPoint(l) /\ SplitPoint(l) # 1
    BY <1>5, <2>2, <2>3, Halves, HalfPointLater
  <2> HIDE DEF ll
  <2> QED
    BY <2>1, <2>4
<1> QED
  BY <1>7, <1>8

-----------------------------------------------------------------------------
(* One entry of a leaf.                                                     *)

\* The entries of s.
EntsIn(s) == {s[i] : i \in 1 .. Len(s)}

\* t is s with e put in at position i.
PutIn(t, s, i, e) ==
  /\ IsEnts(t) /\ Len(t) = Len(s) + 1 /\ t[i] = e
  /\ \A j \in 1 .. Len(s) : t[IF j < i THEN j ELSE j + 1] = s[j]
  /\ SumBytes(t) = SumBytes(s) + EntryBytes(e)

\* A single entry.
LEMMA OneEnt ==
  ASSUME NEW e, IsEntry(e)
  PROVE  IsEnts(<<e>>) /\ Len(<<e>>) = 1 /\ <<e>>[1] = e /\ SumBytes(<<e>>) = EntryBytes(e)
<1> DEFINE s == <<e>>
<1>1. s \in Seq({e}) /\ Len(s) = 1 /\ s[1] = e
  OBVIOUS
<1> HIDE DEF s
<1>2. IsEnts(s)
  <2> DEFINE S == {e}
  <2>1. s \in Seq(S) /\ \A x \in S : IsEntry(x)
    BY <1>1
  <2> HIDE DEF S
  <2> QED
    BY <2>1 DEF IsEnts
<1>3. EntryBytes(s[1]) \in Nat
  BY <1>1, <1>2, EntryFacts
<1>4. /\ Sums(s)[0] = 0
      /\ \A i \in 1 .. Len(s) : Sums(s)[i] = Sums(s)[i - 1] + EntryBytes(s[i])
      /\ SumBytes(s) = Sums(s)[Len(s)]
  BY <1>2, SumsStep
<1>5. SumBytes(s) = EntryBytes(e)
  <2>1. Sums(s)[1] = Sums(s)[1 - 1] + EntryBytes(s[1])
    BY <1>1, <1>4
  <2> QED
    BY <1>1, <1>3, <1>4, <2>1
<1> QED
  BY <1>1, <1>2, <1>5 DEF s

\* Putting an entry in front.
LEMMA PutFirst ==
  ASSUME NEW s, IsEnts(s), NEW e, IsEntry(e)
  PROVE  PutIn(<<e>> \o s, s, 1, e)
<1> DEFINE o == <<e>>
           t == o \o s
<1>1. IsEnts(o) /\ Len(o) = 1 /\ o[1] = e /\ SumBytes(o) = EntryBytes(e)
  BY OneEnt
<1> HIDE DEF o
<1>2. /\ IsEnts(t) /\ Len(t) = Len(o) + Len(s)
      /\ \A i \in 1 .. Len(o) : t[i] = o[i]
      /\ \A i \in 1 .. Len(s) : t[Len(o) + i] = s[i]
      /\ SumBytes(t) = SumBytes(o) + SumBytes(s)
  BY <1>1, JoinEnts
<1> HIDE DEF t
<1>3. Len(s) \in Nat /\ SumBytes(s) \in Nat /\ EntryBytes(e) \in Nat
  BY <1>1, SumIsNat, EntryFacts
<1>4. Len(t) = Len(s) + 1 /\ t[1] = e /\ SumBytes(t) = SumBytes(s) + EntryBytes(e)
  BY <1>1, <1>2, <1>3
<1>5. ASSUME NEW j \in 1 .. Len(s) PROVE t[IF j < 1 THEN j ELSE j + 1] = s[j]
  <2>1. ~(j < 1) /\ 1 + j = j + 1
    BY <1>3
  <2> QED
    BY <1>1, <1>2, <2>1
<1> QED
  BY <1>2, <1>4, <1>5 DEF PutIn, t, o

\* Putting an entry anywhere else.
LEMMA PutAt ==
  ASSUME NEW s, IsEnts(s), NEW e, IsEntry(e), NEW i \in 1 .. Len(s)
  PROVE  PutIn(InsertAt(s, i + 1, e), s, i + 1, e)
<1> DEFINE a == SubSeq(s, 1, i)
           b == SubSeq(s, i + 1, Len(s))
           o == <<e>>
           c == a \o o
           t == c \o b
<1>1. Len(s) \in Nat /\ \A m \in 0 .. Len(s) : Sums(s)[m] \in Nat
  BY EntryFacts, SumsStep
<1>2. i \in 0 .. Len(s) /\ i \in Nat /\ 1 <= i /\ i <= Len(s) /\ (i + 1) - 1 = i
  BY <1>1
<1>3. InsertAt(s, i + 1, e) = t
  BY <1>2 DEF InsertAt
<1>4. IsEnts(o) /\ Len(o) = 1 /\ o[1] = e /\ SumBytes(o) = EntryBytes(e)
  BY OneEnt
<1>5. /\ IsEnts(a) /\ Len(a) = i
      /\ \A m \in 1 .. i : a[m] = s[m]
      /\ SumBytes(a) = Sums(s)[i]
  BY <1>2, FirstEnts
<1>6. /\ IsEnts(b) /\ Len(b) = Len(s) - i
      /\ \A m \in 1 .. Len(b) : b[m] = s[i + m]
      /\ SumBytes(b) = Sums(s)[Len(s)] - Sums(s)[i]
  BY <1>2, LastEnts
<1> HIDE DEF a, b, o
<1>7. /\ IsEnts(c) /\ Len(c) = Len(a) + Len(o)
      /\ \A m \in 1 .. Len(a) : c[m] = a[m]
      /\ \A m \in 1 .. Len(o) : c[Len(a) + m] = o[m]
      /\ SumBytes(c) = SumBytes(a) + SumBytes(o)
  BY <1>4, <1>5, JoinEnts
<1> HIDE DEF c
<1>8. /\ IsEnts(t) /\ Len(t) = Len(c) + Len(b)
      /\ \A m \in 1 .. Len(c) : t[m] = c[m]
      /\ \A m \in 1 .. Len(b) : t[Len(c) + m] = b[m]
      /\ SumBytes(t) = SumBytes(c) + SumBytes(b)
  BY <1>6, <1>7, JoinEnts
<1> HIDE DEF t
<1>9. Len(c) = i + 1 /\ Len(t) = Len(s) + 1
  BY <1>1, <1>2, <1>4, <1>5, <1>6, <1>7, <1>8
<1>10. t[i + 1] = e
  BY <1>2, <1>4, <1>5, <1>7, <1>8, <1>9
<1>11. ASSUME NEW j \in 1 .. Len(s) PROVE t[IF j < i + 1 THEN j ELSE j + 1] = s[j]
  <2>1. CASE j < i + 1
    <3>1. j \in 1 .. i /\ j \in 1 .. i + 1
      BY <1>1, <1>2, <2>1
    <3> QED
      BY <1>5, <1>7, <1>8, <1>9, <2>1, <3>1
  <2>2. CASE ~(j < i + 1)
    <3> DEFINE m == j - i
    <3>1. m \in 1 .. Len(s) - i /\ i + m = j /\ (i + 1) + m = j + 1
      BY <1>1, <1>2, <2>2
    <3> HIDE DEF m
    <3>2. t[Len(c) + m] = b[m] /\ b[m] = s[i + m]
      BY <1>6, <1>8, <3>1
    <3> QED
      BY <1>9, <2>2, <3>1, <3>2
  <2> QED
    BY <2>1, <2>2
<1>12. SumBytes(t) = SumBytes(s) + EntryBytes(e)
  <2>1. SumBytes(s) = Sums(s)[Len(s)] /\ Sums(s)[Len(s)] \in Nat /\ Sums(s)[i] \in Nat
    BY <1>1, <1>2, SumsStep
  <2>2. EntryBytes(e) \in Nat
    BY <1>4, EntryFacts
  <2> QED
    BY <1>4, <1>5, <1>6, <1>7, <1>8, <2>1, <2>2
<1> QED
  BY <1>3, <1>8, <1>9, <1>10, <1>11, <1>12 DEF PutIn

\* Putting an entry where its key belongs keeps the keys ascending, and adds
\* it to the entries.
LEMMA PutKeeps ==
  ASSUME NEW s, IsEnts(s), Ascending(s), NEW e, IsEntry(e),
         NEW p \in 1 .. Len(s) + 1, NEW t, PutIn(t, s, p, e),
         \A j \in 1 .. Len(s) : IF j < p THEN s[j].k < e.k ELSE e.k < s[j].k
  PROVE  Ascending(t) /\ EntsIn(t) = {x \in EntsIn(s) : x.k # e.k} \union {e}
<1>1. /\ Len(s) \in Nat /\ e.k \in Nat
      /\ \A j \in 1 .. Len(s) : s[j].k \in Nat
  <2>1. e.k \in Nat
    BY BNodeAssumption DEF IsEntry
  <2> QED
    BY <2>1, EntryFacts
<1>2. /\ Len(t) = Len(s) + 1 /\ t[p] = e
      /\ \A j \in 1 .. Len(s) : t[IF j < p THEN j ELSE j + 1] = s[j]
  BY DEF PutIn
<1>3. \A m \in 1 .. Len(t) : m < p => m \in 1 .. Len(s) /\ t[m] = s[m]
  BY <1>1, <1>2
<1>4. \A m \in 1 .. Len(t) : p < m => m - 1 \in 1 .. Len(s) /\ t[m] = s[m - 1]
  <2> SUFFICES ASSUME NEW m \in 1 .. Len(t), p < m
               PROVE  m - 1 \in 1 .. Len(s) /\ t[m] = s[m - 1]
    OBVIOUS
  <2>1. m - 1 \in 1 .. Len(s) /\ ~(m - 1 < p) /\ (m - 1) + 1 = m
    BY <1>1, <1>2
  <2> QED
    BY <1>2, <2>1
<1>5. Ascending(t)
  <2> SUFFICES ASSUME NEW a \in 1 .. Len(t), NEW b \in 1 .. Len(t), a < b
               PROVE  t[a].k < t[b].k
    BY DEF Ascending
  <2>1. a \in Nat /\ b \in Nat /\ p \in Nat
    BY <1>1, <1>2
  <2>2. CASE b < p
    <3>1. a < p
      BY <2>1, <2>2
    <3>2. a \in 1 .. Len(s) /\ b \in 1 .. Len(s) /\ t[a] = s[a] /\ t[b] = s[b]
      BY <1>3, <2>2, <3>1
    <3> QED
      BY <3>2 DEF Ascending
  <2>3. CASE b = p
    <3>1. a < p /\ t[b] = e
      BY <1>2, <2>3
    <3>2. a \in 1 .. Len(s) /\ t[a] = s[a]
      BY <1>3, <3>1
    <3> QED
      BY <3>1, <3>2
  <2>4. CASE p < b
    <3>1. b - 1 \in 1 .. Len(s) /\ t[b] = s[b - 1]
      BY <1>4, <2>4
    <3>2. CASE a < p
      <4>1. a \in 1 .. Len(s) /\ t[a] = s[a]
        BY <1>3, <3>2
      <4>2. a < b - 1
        BY <2>1, <2>4, <3>2
      <4> QED
        BY <3>1, <4>1, <4>2 DEF Ascending
    <3>3. CASE a = p
      <4>1. t[a] = e /\ ~(b - 1 < p)
        BY <1>2, <2>1, <2>4, <3>3
      <4> QED
        BY <3>1, <4>1
    <3>4. CASE p < a
      <4>1. a - 1 \in 1 .. Len(s) /\ t[a] = s[a - 1]
        BY <1>4, <3>4
      <4>2. a - 1 < b - 1
        BY <2>1
      <4> QED
        BY <3>1, <4>1, <4>2 DEF Ascending
    <3> QED
      BY <2>1, <3>2, <3>3, <3>4
  <2> QED
    BY <2>1, <2>2, <2>3, <2>4
<1>6. \A j \in 1 .. Len(s) : s[j].k # e.k
  BY <1>1
<1>7. EntsIn(t) = EntsIn(s) \union {e}
  <2>1. ASSUME NEW x \in EntsIn(t) PROVE x \in EntsIn(s) \union {e}
    <3>1. PICK m \in 1 .. Len(t) : x = t[m]
      BY DEF EntsIn
    <3>2. m < p \/ m = p \/ p < m
      BY <1>1, <1>2
    <3> QED
      BY <1>2, <1>3, <1>4, <3>1, <3>2 DEF EntsIn
  <2>2. ASSUME NEW x \in EntsIn(s) PROVE x \in EntsIn(t)
    <3>1. PICK j \in 1 .. Len(s) : x = s[j]
      BY DEF EntsIn
    <3> DEFINE m == IF j < p THEN j ELSE j + 1
    <3>2. m \in 1 .. Len(t)
      BY <1>1, <1>2
    <3>3. t[m] = s[j]
      BY <1>2
    <3> HIDE DEF m
    <3> QED
      BY <3>1, <3>2, <3>3 DEF EntsIn
  <2>3. e \in EntsIn(t)
    <3>1. p \in 1 .. Len(t)
      BY <1>1, <1>2
    <3> QED
      BY <1>2, <3>1 DEF EntsIn
  <2> QED
    BY <2>1, <2>2, <2>3
<1>8. {x \in EntsIn(s) : x.k # e.k} = EntsIn(s)
  BY <1>6 DEF EntsIn
<1> QED
  BY <1>5, <1>7, <1>8

\* Where the search ends: no later key is up to the one looked for, and the
\* entry's own key is, unless the entry is the first.
LEMMA LookupIs ==
  ASSUME NEW n, IsEnts(n.ents), n.ents # << >>, Ascending(n.ents), NEW key \in Nat
  PROVE  LET i == NodeLookupLE(n, key) IN
         /\ i \in 1 .. NKeys(n)
         /\ i # 1 => n.ents[i].k <= key
         /\ \A j \in 1 .. NKeys(n) : i < j => key < n.ents[j].k
<1> DEFINE N == NKeys(n)
           x == LastIn(n, key, 2, NKeys(n) + 1, 1)
<1>1. /\ N \in Nat /\ N = Len(n.ents) /\ N # 0
      /\ \A j \in 1 .. N : n.ents[j].k \in Nat
  <2>1. PICK S : n.ents \in Seq(S)
    BY DEF IsEnts
  <2>2. Len(n.ents) # 0
    BY <2>1, EmptySeq
  <2> QED
    BY <2>2, EntryFacts DEF NKeys
<1>2. NodeLookupLE(n, key) = x
  BY <1>1, LookupFinds, WholeRange
<1>3. \/ x = 1 /\ \A i \in 2 .. (N + 1) - 1 : ~(n.ents[i].k <= key)
      \/ /\ x \in 2 .. (N + 1) - 1 /\ n.ents[x].k <= key
         /\ \A i \in 2 .. (N + 1) - 1 : n.ents[i].k <= key => i <= x
  <2>1. 2 \in Nat /\ N + 1 \in Nat
    BY <1>1
  <2> QED
    BY <2>1, LastIs
<1> HIDE DEF x, N
<1>4. (N + 1) - 1 = N
  BY <1>1
<1>5. x \in 1 .. N /\ (x # 1 => n.ents[x].k <= key)
  BY <1>1, <1>3, <1>4
<1>6. ASSUME NEW j \in 1 .. N, x < j PROVE key < n.ents[j].k
  <2>1. j \in 2 .. (N + 1) - 1 /\ ~(j <= x)
    BY <1>1, <1>4, <1>5, <1>6
  <2>2. ~(n.ents[j].k <= key)
    BY <1>3, <2>1
  <2> QED
    BY <1>1, <2>2
<1> QED
  BY <1>2, <1>5, <1>6 DEF N

\* Replacing an entry.
LEMMA SwapEnt ==
  ASSUME NEW s, IsEnts(s), NEW e, IsEntry(e), NEW i \in 1 .. Len(s)
  PROVE  LET t == ReplaceAt(s, i, e) IN
         /\ IsEnts(t) /\ Len(t) = Len(s) /\ t[i] = e
         /\ \A j \in 1 .. Len(s) : j # i => t[j] = s[j]
         /\ SumBytes(t) = (SumBytes(s) - EntryBytes(s[i])) + EntryBytes(e)
<1> DEFINE t == ReplaceAt(s, i, e)
           N == Len(s)
           f == Sums(s)
           g == Sums(t)
<1>1. PICK S : s \in Seq(S) /\ \A x \in S : IsEntry(x)
  BY DEF IsEnts
<1>2. /\ t \in Seq(S \union {e}) /\ Len(t) = N /\ t[i] = e
      /\ \A j \in 1 .. N : j # i => t[j] = s[j]
  <2>1. s \in Seq(S \union {e}) /\ e \in S \union {e}
    BY <1>1, SeqMonotonic
  <2> QED
    BY <2>1, ExceptSeq DEF ReplaceAt
<1> HIDE DEF t
<1>3. IsEnts(t)
  <2> DEFINE W == S \union {e}
  <2>1. t \in Seq(W) /\ \A x \in W : IsEntry(x)
    BY <1>1, <1>2
  <2> HIDE DEF W
  <2> QED
    BY <2>1 DEF IsEnts
<1>4. /\ N \in Nat /\ EntryBytes(s[i]) \in Nat /\ EntryBytes(e) \in Nat
  BY <1>2, <1>3, EntryFacts
<1>5. /\ f[0] = 0 /\ (\A m \in 0 .. N : f[m] \in Nat)
      /\ (\A m \in 1 .. N : f[m] = f[m - 1] + EntryBytes(s[m]))
      /\ SumBytes(s) = f[N]
  BY SumsStep
<1>6. /\ g[0] = 0 /\ (\A m \in 0 .. N : g[m] \in Nat)
      /\ (\A m \in 1 .. N : g[m] = g[m - 1] + EntryBytes(t[m]))
      /\ SumBytes(t) = g[N]
  BY <1>2, <1>3, SumsStep
<1>7. g[i - 1] = f[i - 1]
  <2> DEFINE k == i - 1
             u == SubSeq(s, 1, k)
  <2>1. k \in 0 .. N /\ k \in Nat /\ k < i
    BY <1>4
  <2> HIDE DEF k
  <2>2. /\ IsEnts(u) /\ Len(u) = k
        /\ \A m \in 1 .. k : u[m] = s[m]
        /\ \A m \in 0 .. k : Sums(u)[m] = f[m]
    BY <2>1, FirstEnts
  <2> HIDE DEF u, f, g
  <2>3. IsPart(u, t, 0)
    <3> SUFFICES ASSUME NEW m \in 1 .. Len(u) PROVE u[m] = t[0 + m]
      BY <1>2, <1>4, <2>1, <2>2 DEF IsPart
    <3>1. m \in 1 .. k /\ m \in 1 .. N /\ m # i /\ 0 + m = m
      BY <1>4, <2>1, <2>2
    <3> QED
      BY <1>2, <2>2, <3>1
  <2>4. \A m \in 0 .. Len(u) : Sums(u)[m] = g[0 + m] - g[0]
    BY <1>3, <2>2, <2>3, SumsPart, SMT DEF g
  <2>5. k \in 0 .. k /\ 0 + k = k /\ g[k] \in Nat
    BY <1>6, <2>1
  <2>6. g[k] = f[k]
    BY <1>6, <2>2, <2>4, <2>5
  <2> QED
    BY <2>6 DEF k, f, g
<1>8. g[N] - g[i] = f[N] - f[i]
  <2> DEFINE u == SubSeq(s, i + 1, N)
  <2>1. i \in 0 .. N /\ i \in Nat
    BY <1>4
  <2>2. /\ IsEnts(u) /\ Len(u) = N - i
        /\ \A m \in 1 .. Len(u) : u[m] = s[i + m]
        /\ SumBytes(u) = f[N] - f[i]
    BY <2>1, LastEnts
  <2> HIDE DEF u, f, g
  <2>3. IsPart(u, t, i)
    <3> SUFFICES ASSUME NEW m \in 1 .. Len(u) PROVE u[m] = t[i + m]
      BY <1>2, <1>4, <2>1, <2>2 DEF IsPart
    <3>1. i + m \in 1 .. N /\ i + m # i
      BY <1>4, <2>1, <2>2
    <3> QED
      BY <1>2, <2>2, <3>1
  <2>4. IsEnts(u)
    BY <2>2
  <2>8. \A m \in 0 .. Len(u) : Sums(u)[m] = Sums(t)[i + m] - Sums(t)[i]
    BY <1>3, <2>3, <2>4, SumsPart, SMT
  <2>5. SumBytes(u) = Sums(u)[Len(u)]
    BY <2>2, SumsStep
  <2>6. Len(u) \in 0 .. Len(u) /\ i + Len(u) = N
    BY <1>4, <2>1, <2>2
  <2>7. SumBytes(u) = g[N] - g[i]
    BY <2>8, <2>5, <2>6 DEF g
  <2> QED
    BY <2>2, <2>7 DEF f, g
<1> HIDE DEF f, g, N
<1>9. SumBytes(t) = (SumBytes(s) - EntryBytes(s[i])) + EntryBytes(e)
  <2>1. /\ i \in 1 .. N /\ i \in 0 .. N /\ N \in 0 .. N /\ i - 1 \in 0 .. N
    BY <1>4 DEF N
  <2>2. /\ f[i] = f[i - 1] + EntryBytes(s[i]) /\ g[i] = g[i - 1] + EntryBytes(e)
        /\ f[N] \in Nat /\ f[i] \in Nat /\ f[i - 1] \in Nat
        /\ g[N] \in Nat /\ g[i] \in Nat /\ g[i - 1] \in Nat
    BY <1>2, <1>5, <1>6, <2>1
  <2> QED
    <3>1. SumBytes(s) = f[N] /\ SumBytes(t) = g[N]
      BY <1>5, <1>6
    <3>2. g[N] = (f[N] - f[i]) + g[i]
      BY <1>8, <2>2
    <3>3. g[i] = f[i - 1] + EntryBytes(e)
      BY <1>7, <2>2
    <3>4. f[i - 1] = f[i] - EntryBytes(s[i])
      BY <1>4, <2>2
    <3>5. f[N] \in Nat /\ f[i] \in Nat
      BY <2>2
    <3> QED
      BY <1>4, <3>1, <3>2, <3>3, <3>4, <3>5
<1> QED
  BY <1>2, <1>3, <1>9 DEF t, N

\* Replacing an entry by one with the same key keeps the keys ascending.
LEMMA SwapKeeps ==
  ASSUME NEW s, IsEnts(s), Ascending(s), NEW e, IsEntry(e), NEW i \in 1 .. Len(s),
         s[i].k = e.k
  PROVE  LET t == ReplaceAt(s, i, e) IN
         Ascending(t) /\ EntsIn(t) = {x \in EntsIn(s) : x.k # e.k} \union {e}
<1> DEFINE t == ReplaceAt(s, i, e)
<1>1. /\ Len(t) = Len(s) /\ t[i] = e
      /\ \A j \in 1 .. Len(s) : j # i => t[j] = s[j]
  BY SwapEnt
<1> HIDE DEF t
<1>2. Len(s) \in Nat /\ \A j \in 1 .. Len(s) : s[j].k \in Nat
  BY EntryFacts
<1>3. \A j \in 1 .. Len(s) : t[j].k = s[j].k
  BY <1>1
<1>4. Ascending(t)
  BY <1>1, <1>3 DEF Ascending
<1>5. ASSUME NEW j \in 1 .. Len(s), j # i PROVE s[j].k # e.k
  <2>1. j < i \/ i < j
    BY <1>2, <1>5
  <2>2. s[j].k < s[i].k \/ s[i].k < s[j].k
    BY <2>1 DEF Ascending
  <2>3. s[j].k \in Nat /\ s[i].k \in Nat
    BY <1>2
  <2> QED
    BY <2>2, <2>3
<1>6. EntsIn(t) = {x \in EntsIn(s) : x.k # e.k} \union {e}
  <2>1. ASSUME NEW x \in EntsIn(t) PROVE x \in {y \in EntsIn(s) : y.k # e.k} \union {e}
    <3>1. PICK j \in 1 .. Len(s) : x = t[j]
      BY <1>1 DEF EntsIn
    <3> QED
      BY <1>1, <1>5, <3>1 DEF EntsIn
  <2>2. ASSUME NEW x \in EntsIn(s), x.k # e.k PROVE x \in EntsIn(t)
    <3>1. PICK j \in 1 .. Len(s) : x = s[j]
      BY DEF EntsIn
    <3>2. j # i
      BY <2>2, <3>1
    <3> QED
      BY <1>1, <3>1, <3>2 DEF EntsIn
  <2>3. e \in EntsIn(t)
    BY <1>1 DEF EntsIn
  <2> QED
    BY <2>1, <2>2, <2>3
<1> QED
  BY <1>4, <1>6 DEF t

\* What the leaf case of treeInsert leaves behind, whatever the key: the keys
\* ascend, the entries are those of the other keys with the one stored, and the
\* leaf has grown by no more than that entry.
THEOREM LeafPutStores ==
  ASSUME NEW n, IsEnts(n.ents), n.ents # << >>, Ascending(n.ents),
         NEW key \in DOMAIN KeyLen, NEW val \in DOMAIN ValLen
  PROVE  LET m == LeafPut(n, key, val)
             e == Entry(key, val, Nil)
         IN  /\ m.type = Leaf /\ IsEnts(m.ents) /\ Ascending(m.ents)
             /\ EntsIn(m.ents) = {x \in EntsIn(n.ents) : x.k # key} \union {e}
             /\ NBytes(m) <= NBytes(n) + EntryBytes(e)
<1> DEFINE i == NodeLookupLE(n, key)
           e == Entry(key, val, Nil)
           s == n.ents
           m == LeafPut(n, key, val)
<1>1. IsEntry(e) /\ e.k = key
  BY DEF IsEntry, Entry
<1>2. key \in Nat
  BY BNodeAssumption
<1>3. /\ i \in 1 .. Len(s)
      /\ i # 1 => s[i].k <= key
      /\ \A j \in 1 .. Len(s) : i < j => key < s[j].k
  BY <1>2, LookupIs DEF NKeys
<1>4. m = IF s[i].k = key THEN Node(Leaf, ReplaceAt(s, i, e))
          ELSE IF i = 1 /\ key < s[1].k THEN Node(Leaf, <<e>> \o s)
          ELSE Node(Leaf, InsertAt(s, i + 1, e))
  BY DEF LeafPut
<1> HIDE DEF i, e, m
<1>5. /\ Len(s) \in Nat /\ SumBytes(s) \in Nat /\ EntryBytes(s[i]) \in Nat
      /\ \A j \in 1 .. Len(s) : s[j].k \in Nat
  BY <1>3, EntryFacts, SumIsNat
<1>6. Header \in Nat /\ EntryBytes(e) \in Nat
  <2>1. IsEnts(<<e>>) /\ Len(<<e>>) = 1 /\ <<e>>[1] = e /\ SumBytes(<<e>>) = EntryBytes(e)
    BY <1>1, OneEnt
  <2> QED
    BY <2>1, SumIsNat, BNodeAssumption
<1>7. CASE s[i].k = key
  <2> DEFINE t == ReplaceAt(s, i, e)
  <2>1. m.type = Leaf /\ m.ents = t
    BY <1>4, <1>7 DEF Node
  <2>2. IsEnts(t) /\ SumBytes(t) = (SumBytes(s) - EntryBytes(s[i])) + EntryBytes(e)
    BY <1>1, <1>3, SwapEnt
  <2>3. Ascending(t) /\ EntsIn(t) = {x \in EntsIn(s) : x.k # e.k} \union {e}
    BY <1>1, <1>3, <1>7, SwapKeeps
  <2> HIDE DEF t
  <2>4. NBytes(m) <= NBytes(n) + EntryBytes(e)
    BY <1>5, <1>6, <2>1, <2>2 DEF NBytes
  <2> QED
    BY <1>1, <2>1, <2>2, <2>3, <2>4 DEF m, e
<1>8. ASSUME NEW p \in 1 .. Len(s) + 1, PutIn(m.ents, s, p, e), m.type = Leaf,
             \A j \in 1 .. Len(s) : IF j < p THEN s[j].k < key ELSE key < s[j].k
      PROVE  /\ m.type = Leaf /\ IsEnts(m.ents) /\ Ascending(m.ents)
             /\ EntsIn(m.ents) = {x \in EntsIn(s) : x.k # key} \union {e}
             /\ NBytes(m) <= NBytes(n) + EntryBytes(e)
  <2>1. \A j \in 1 .. Len(s) : IF j < p THEN s[j].k < e.k ELSE e.k < s[j].k
    BY <1>1, <1>8
  <2>2. Ascending(m.ents) /\ EntsIn(m.ents) = {x \in EntsIn(s) : x.k # e.k} \union {e}
    BY <1>1, <1>8, <2>1, PutKeeps
  <2>3. IsEnts(m.ents) /\ SumBytes(m.ents) = SumBytes(s) + EntryBytes(e)
    BY <1>8 DEF PutIn
  <2>4. NBytes(m) <= NBytes(n) + EntryBytes(e)
    BY <1>5, <1>6, <2>3 DEF NBytes
  <2> QED
    BY <1>1, <1>8, <2>2, <2>3, <2>4
<1>9. CASE s[i].k # key /\ i = 1 /\ key < s[1].k
  <2>1. m.type = Leaf /\ m.ents = <<e>> \o s
    BY <1>4, <1>9 DEF Node
  <2>2. PutIn(m.ents, s, 1, e)
    BY <1>1, <2>1, PutFirst
  <2>3. 1 \in 1 .. Len(s) + 1
    BY <1>5
  <2>4. ASSUME NEW j \in 1 .. Len(s) PROVE IF j < 1 THEN s[j].k < key ELSE key < s[j].k
    <3>1. j = 1 \/ i < j
      BY <1>5, <1>9
    <3> QED
      BY <1>3, <1>5, <1>9, <3>1
  <2> QED
    BY <1>8, <2>1, <2>2, <2>3, <2>4 DEF m, e
<1>10. CASE s[i].k # key /\ ~(i = 1 /\ key < s[1].k)
  <2>1. m.type = Leaf /\ m.ents = InsertAt(s, i + 1, e)
    BY <1>4, <1>10 DEF Node
  <2>2. PutIn(m.ents, s, i + 1, e)
    BY <1>1, <1>3, <2>1, PutAt
  <2>3. i + 1 \in 1 .. Len(s) + 1
    BY <1>3, <1>5
  <2>4. s[i].k < key
    BY <1>2, <1>3, <1>5, <1>10
  <2>5. ASSUME NEW j \in 1 .. Len(s) PROVE IF j < i + 1 THEN s[j].k < key ELSE key < s[j].k
    <3>1. CASE j < i
      <4>1. s[j].k < s[i].k
        BY <1>3, <3>1 DEF Ascending
      <4> QED
        BY <1>2, <1>3, <1>5, <2>4, <3>1, <4>1
    <3>2. CASE j = i
      BY <1>3, <2>4, <3>2
    <3>3. CASE i < j
      BY <1>3, <1>5, <3>3
    <3> QED
      BY <1>3, <1>5, <3>1, <3>2, <3>3
  <2> QED
    BY <1>8, <2>1, <2>2, <2>3, <2>5 DEF m, e
<1> QED
  BY <1>7, <1>9, <1>10

\* A leaf in one page that takes in an entry splits into parts in one page each,
\* as long as no entry is more than half a page.
THEOREM LeafInsertFits ==
  ASSUME NEW n, IsEnts(n.ents), n.ents # << >>, Ascending(n.ents), NBytes(n) <= PageSize,
         \A x \in EntsIn(n.ents) : 2 * EntryBytes(x) <= PageSize,
         NEW key \in DOMAIN KeyLen, NEW val \in DOMAIN ValLen,
         2 * EntryBytes(Entry(key, val, Nil)) <= PageSize
  PROVE  LET m == LeafPut(n, key, val) IN SplitsInto(m, NodeSplit3(m))
<1> DEFINE m == LeafPut(n, key, val)
           e == Entry(key, val, Nil)
<1>1. /\ m.type = Leaf /\ IsEnts(m.ents) /\ Ascending(m.ents)
      /\ EntsIn(m.ents) = {x \in EntsIn(n.ents) : x.k # key} \union {e}
      /\ NBytes(m) <= NBytes(n) + EntryBytes(e)
  BY LeafPutStores
<1> HIDE DEF m, e
<1>2. m.ents # << >>
  <2>1. PICK j \in 1 .. Len(m.ents) : m.ents[j] = e
    BY <1>1 DEF EntsIn
  <2> QED
    BY <2>1
<1>3. \A j \in 1 .. NKeys(m) : 2 * EntryBytes(m.ents[j]) <= PageSize
  <2> SUFFICES ASSUME NEW j \in 1 .. NKeys(m) PROVE 2 * EntryBytes(m.ents[j]) <= PageSize
    OBVIOUS
  <2>1. m.ents[j] \in EntsIn(m.ents)
    BY DEF EntsIn, NKeys
  <2>2. m.ents[j] \in EntsIn(n.ents) \/ m.ents[j] = e
    BY <1>1, <2>1
  <2> QED
    BY <2>2 DEF e
<1>4. NBytes(m) <= 2 * PageSize - 2 * Header
  <2>1. PageSize \in Nat /\ Header \in Nat /\ 4 * Header < PageSize
    BY BNodeAssumption
  <2>2. NBytes(m) \in Nat /\ NBytes(n) \in Nat
    BY <1>1, <2>1, SumIsNat DEF NBytes
  <2>3. EntryBytes(e) \in Nat
    <3>1. PICK j \in 1 .. Len(m.ents) : m.ents[j] = e
      BY <1>1 DEF EntsIn
    <3> QED
      BY <1>1, <3>1, EntryFacts
  <2>4. 2 * EntryBytes(e) <= PageSize
    BY DEF e
  <2> QED
    BY <1>1, <2>1, <2>2, <2>3, <2>4
<1>5. Splittable(m)
  BY <1>1, <1>3, <1>4 DEF Splittable
<1> QED
  BY <1>2, <1>5, SplitFits DEF m

\* Removing an entry leaves the others in their order, and less bytes.
THEOREM LeafDeleteKeeps ==
  ASSUME NEW n, IsEnts(n.ents), Ascending(n.ents), NEW i \in 1 .. NKeys(n)
  PROVE  LET m == LeafDelete(n, i) IN
         /\ m.type = Leaf /\ IsEnts(m.ents) /\ Ascending(m.ents)
         /\ EntsIn(m.ents) = {x \in EntsIn(n.ents) : x.k # n.ents[i].k}
         /\ NBytes(m) < NBytes(n)
<1> DEFINE s == n.ents
           k == i - 1
           a == SubSeq(s, 1, k)
           b == SubSeq(s, i + 1, Len(s))
           t == a \o b
           m == LeafDelete(n, i)
<1>1. m.type = Leaf /\ m.ents = t
  BY DEF LeafDelete, RemoveAt, Node
<1>2. /\ Len(s) \in Nat
      /\ \A j \in 1 .. Len(s) : /\ s[j].k \in Nat /\ EntryBytes(s[j]) \in Nat
                                /\ Slot <= EntryBytes(s[j])
  BY EntryFacts
<1>3. k \in 0 .. Len(s) /\ i \in 0 .. Len(s) /\ i \in 1 .. Len(s) /\ i \in Nat /\ k = i - 1
  BY <1>2 DEF NKeys
<1> HIDE DEF k, m
<1>4. /\ IsEnts(a) /\ Len(a) = k
      /\ \A j \in 1 .. k : a[j] = s[j]
      /\ SumBytes(a) = Sums(s)[k]
  BY <1>3, FirstEnts
<1>5. /\ IsEnts(b) /\ Len(b) = Len(s) - i
      /\ \A j \in 1 .. Len(b) : b[j] = s[i + j]
      /\ SumBytes(b) = Sums(s)[Len(s)] - Sums(s)[i]
  BY <1>3, LastEnts
<1> HIDE DEF a, b
<1>6. /\ IsEnts(t) /\ Len(t) = Len(a) + Len(b)
      /\ \A j \in 1 .. Len(a) : t[j] = a[j]
      /\ \A j \in 1 .. Len(b) : t[Len(a) + j] = b[j]
      /\ SumBytes(t) = SumBytes(a) + SumBytes(b)
  BY <1>4, <1>5, JoinEnts
<1> HIDE DEF t
<1>7. Len(t) = Len(s) - 1
  BY <1>2, <1>3, <1>4, <1>5, <1>6
<1>8. \A j \in 1 .. Len(t) : j < i => j \in 1 .. Len(s) /\ t[j] = s[j]
  BY <1>2, <1>3, <1>4, <1>6, <1>7
<1>9. \A j \in 1 .. Len(t) : i <= j => j + 1 \in 1 .. Len(s) /\ t[j] = s[j + 1]
  <2> SUFFICES ASSUME NEW j \in 1 .. Len(t), i <= j
               PROVE  j + 1 \in 1 .. Len(s) /\ t[j] = s[j + 1]
    OBVIOUS
  <2> DEFINE q == j - k
  <2>1. q \in 1 .. Len(s) - i /\ k + q = j /\ i + q = j + 1 /\ j + 1 \in 1 .. Len(s)
    BY <1>2, <1>3, <1>7
  <2> HIDE DEF q
  <2>2. t[Len(a) + q] = b[q] /\ b[q] = s[i + q]
    BY <1>5, <1>6, <2>1
  <2> QED
    BY <1>4, <2>1, <2>2
<1>10. Ascending(t)
  <2> SUFFICES ASSUME NEW x \in 1 .. Len(t), NEW y \in 1 .. Len(t), x < y
               PROVE  t[x].k < t[y].k
    BY DEF Ascending
  <2>1. x \in Nat /\ y \in Nat
    BY <1>2, <1>7
  <2>2. CASE y < i
    <3>1. x < i
      BY <1>3, <2>1, <2>2
    <3> QED
      BY <1>8, <2>2, <3>1 DEF Ascending
  <2>3. CASE ~(y < i) /\ x < i
    <3>1. i <= y /\ x < y + 1
      BY <1>3, <2>1, <2>3
    <3> QED
      BY <1>8, <1>9, <2>3, <3>1 DEF Ascending
  <2>4. CASE ~(x < i)
    <3>1. i <= x /\ i <= y /\ x + 1 < y + 1
      BY <1>3, <2>1, <2>4
    <3> QED
      BY <1>9, <3>1 DEF Ascending
  <2> QED
    BY <2>2, <2>3, <2>4
<1>11. ASSUME NEW j \in 1 .. Len(s), j # i PROVE s[j].k # s[i].k
  <2>1. j < i \/ i < j
    BY <1>2, <1>3, <1>11
  <2>2. s[j].k < s[i].k \/ s[i].k < s[j].k
    BY <1>3, <2>1 DEF Ascending
  <2>3. s[j].k \in Nat /\ s[i].k \in Nat
    BY <1>2, <1>3
  <2> QED
    BY <2>2, <2>3
<1>12. EntsIn(t) = {x \in EntsIn(s) : x.k # s[i].k}
  <2>1. ASSUME NEW x \in EntsIn(t) PROVE x \in EntsIn(s) /\ x.k # s[i].k
    <3>1. PICK j \in 1 .. Len(t) : x = t[j]
      BY DEF EntsIn
    <3>2. CASE j < i
      <4>1. j \in 1 .. Len(s) /\ x = s[j] /\ j # i
        BY <1>3, <1>8, <3>1, <3>2
      <4> QED
        BY <1>11, <4>1 DEF EntsIn
    <3>3. CASE ~(j < i)
      <4>1. i <= j /\ j + 1 # i
        BY <1>3, <1>2, <1>7, <3>3
      <4>2. j + 1 \in 1 .. Len(s) /\ x = s[j + 1]
        BY <1>9, <3>1, <4>1
      <4> QED
        BY <1>11, <4>1, <4>2 DEF EntsIn
    <3> QED
      BY <3>2, <3>3
  <2>2. ASSUME NEW x \in EntsIn(s), x.k # s[i].k PROVE x \in EntsIn(t)
    <3>1. PICK j \in 1 .. Len(s) : x = s[j]
      BY DEF EntsIn
    <3>2. j # i
      BY <2>2, <3>1
    <3>3. CASE j < i
      <4>1. j \in 1 .. Len(t)
        BY <1>2, <1>3, <1>7, <3>3
      <4> QED
        BY <1>8, <3>1, <3>3, <4>1 DEF EntsIn
    <3>4. CASE ~(j < i)
      <4> DEFINE q == j - 1
      <4>1. q \in 1 .. Len(t) /\ i <= q /\ q + 1 = j
        BY <1>2, <1>3, <1>7, <3>2, <3>4
      <4> HIDE DEF q
      <4> QED
        BY <1>9, <3>1, <4>1 DEF EntsIn
    <3> QED
      BY <3>3, <3>4
  <2> QED
    BY <2>1, <2>2
<1>13. NBytes(m) < NBytes(n)
  <2>1. /\ \A j \in 0 .. Len(s) : Sums(s)[j] \in Nat
        /\ \A j \in 1 .. Len(s) : Sums(s)[j] = Sums(s)[j - 1] + EntryBytes(s[j])
        /\ SumBytes(s) = Sums(s)[Len(s)]
    BY SumsStep
  <2>2. /\ Sums(s)[i] = Sums(s)[k] + EntryBytes(s[i])
        /\ Sums(s)[i] \in Nat /\ Sums(s)[k] \in Nat /\ Sums(s)[Len(s)] \in Nat
    BY <1>2, <1>3, <2>1
  <2>3. EntryBytes(s[i]) \in Nat /\ EntryBytes(s[i]) # 0
    BY <1>2, <1>3, BNodeAssumption
  <2>4. SumBytes(t) = Sums(s)[k] + (Sums(s)[Len(s)] - Sums(s)[i])
    BY <1>4, <1>5, <1>6
  <2>5. SumBytes(t) \in Nat /\ SumBytes(s) \in Nat /\ SumBytes(t) < SumBytes(s)
    <3>1. SumBytes(s) = Sums(s)[Len(s)] /\ SumBytes(t) \in Nat
      BY <1>6, <2>1, SumIsNat
    <3>2. Sums(s)[k] = Sums(s)[i] - EntryBytes(s[i])
      BY <2>2, <2>3
    <3>3. Sums(s)[Len(s)] \in Nat /\ Sums(s)[i] \in Nat
      BY <2>2
    <3> QED
      BY <2>3, <2>4, <3>1, <3>2, <3>3
  <2>6. Header \in Nat
    BY BNodeAssumption
  <2> QED
    BY <1>1, <2>5, <2>6 DEF NBytes
<1> QED
  BY <1>1, <1>6, <1>10, <1>12, <1>13 DEF m

-----------------------------------------------------------------------------
(* Kids.                                                                    *)

\* nodeDelete merges only what one page holds.
THEOREM MergeFits ==
  ASSUME NEW n, NKeys(n) \in Nat, NEW i \in 1 .. NKeys(n), NEW updated, IsEnts(updated.ents),
         \A j \in 1 .. NKeys(n) : IsEnts(n.ents[j].p.ents)
  PROVE  /\ ShouldMerge(n, i, updated) = -1
              => NBytes(NodeMerge(n.ents[i - 1].p, updated)) <= PageSize
         /\ ShouldMerge(n, i, updated) = 1
              => NBytes(NodeMerge(updated, n.ents[i + 1].p)) <= PageSize
<1>1. Header \in Nat /\ PageSize \in Nat
  BY BNodeAssumption
<1>2. ASSUME NEW l, NEW r, IsEnts(l.ents), IsEnts(r.ents)
      PROVE  NBytes(NodeMerge(l, r)) = (NBytes(l) + NBytes(r)) - Header
  <2>1. SumBytes(l.ents \o r.ents) = SumBytes(l.ents) + SumBytes(r.ents)
    BY <1>2, JoinEnts
  <2>2. SumBytes(l.ents) \in Nat /\ SumBytes(r.ents) \in Nat
    BY <1>2, SumIsNat
  <2>3. NodeMerge(l, r).ents = l.ents \o r.ents
    BY DEF NodeMerge, Node
  <2> QED
    BY <1>1, <2>1, <2>2, <2>3 DEF NBytes
<1> DEFINE fits(j) == NBytes(n.ents[j].p) + NBytes(updated) - Header <= PageSize
<1>3. /\ ShouldMerge(n, i, updated) = -1 => i > 1 /\ fits(i - 1)
      /\ ShouldMerge(n, i, updated) = 1 => i < NKeys(n) /\ fits(i + 1)
  BY DEF ShouldMerge
<1>4. ASSUME ShouldMerge(n, i, updated) = -1
      PROVE  NBytes(NodeMerge(n.ents[i - 1].p, updated)) <= PageSize
  <2> DEFINE l == n.ents[i - 1].p
  <2>1. i - 1 \in 1 .. NKeys(n) /\ NBytes(l) + NBytes(updated) - Header <= PageSize
    BY <1>3, <1>4
  <2>2. IsEnts(l.ents)
    BY <2>1
  <2> HIDE DEF l
  <2>3. NBytes(NodeMerge(l, updated)) = (NBytes(l) + NBytes(updated)) - Header
    BY <1>2, <2>2
  <2>4. NBytes(l) \in Nat /\ NBytes(updated) \in Nat
    BY <1>1, <2>2, SumIsNat DEF NBytes
  <2> QED
    BY <1>1, <2>1, <2>3, <2>4 DEF l
<1>5. ASSUME ShouldMerge(n, i, updated) = 1
      PROVE  NBytes(NodeMerge(updated, n.ents[i + 1].p)) <= PageSize
  <2> DEFINE r == n.ents[i + 1].p
  <2>1. i + 1 \in 1 .. NKeys(n) /\ NBytes(r) + NBytes(updated) - Header <= PageSize
    BY <1>3, <1>5
  <2>2. IsEnts(r.ents)
    BY <2>1
  <2> HIDE DEF r
  <2>3. NBytes(NodeMerge(updated, r)) = (NBytes(updated) + NBytes(r)) - Header
    BY <1>2, <2>2
  <2>4. NBytes(r) \in Nat /\ NBytes(updated) \in Nat
    BY <1>1, <2>2, SumIsNat DEF NBytes
  <2> QED
    BY <1>1, <2>1, <2>3, <2>4 DEF r
<1> QED
  BY <1>4, <1>5

\* Up to three entries of up to a third of a page each.
LEMMA FewEnts ==
  ASSUME NEW s, IsEnts(s), Len(s) \in 1 .. 3,
         \A j \in 1 .. Len(s) : Header + 3 * EntryBytes(s[j]) <= PageSize
  PROVE  Header + SumBytes(s) <= PageSize
<1>1. Header \in Nat /\ PageSize \in Nat /\ \A j \in 1 .. Len(s) : EntryBytes(s[j]) \in Nat
  BY BNodeAssumption, EntryFacts
<1>2. /\ Sums(s)[0] = 0
      /\ \A i \in 1 .. Len(s) : Sums(s)[i] = Sums(s)[i - 1] + EntryBytes(s[i])
      /\ SumBytes(s) = Sums(s)[Len(s)]
  BY SumsStep
<1>3. Sums(s)[1] = EntryBytes(s[1])
  <2>1. 1 \in 1 .. Len(s) /\ 1 - 1 = 0
    OBVIOUS
  <2>2. Sums(s)[1] = Sums(s)[0] + EntryBytes(s[1]) /\ EntryBytes(s[1]) \in Nat
    BY <1>1, <1>2, <2>1
  <2> QED
    BY <1>2, <2>2
<1>4. CASE Len(s) = 1
  <2>1. SumBytes(s) = EntryBytes(s[1]) /\ EntryBytes(s[1]) \in Nat
        /\ Header + 3 * EntryBytes(s[1]) <= PageSize
    BY <1>1, <1>2, <1>3, <1>4
  <2> QED
    BY <1>1, <2>1
<1>5. ASSUME Len(s) >= 2 PROVE Sums(s)[2] = EntryBytes(s[1]) + EntryBytes(s[2])
  <2>1. 2 \in 1 .. Len(s) /\ 2 - 1 = 1
    BY <1>5
  <2> QED
    BY <1>2, <1>3, <2>1
<1>6. CASE Len(s) = 2
  <2>1. /\ SumBytes(s) = EntryBytes(s[1]) + EntryBytes(s[2])
        /\ EntryBytes(s[1]) \in Nat /\ EntryBytes(s[2]) \in Nat
        /\ Header + 3 * EntryBytes(s[1]) <= PageSize
        /\ Header + 3 * EntryBytes(s[2]) <= PageSize
    BY <1>1, <1>2, <1>5, <1>6
  <2> QED
    BY <1>1, <2>1
<1>7. CASE Len(s) = 3
  <2>1. 3 \in 1 .. Len(s) /\ 3 - 1 = 2
    BY <1>7
  <2>2. Sums(s)[3] = EntryBytes(s[1]) + EntryBytes(s[2]) + EntryBytes(s[3])
    BY <1>2, <1>5, <1>7, <2>1
  <2>3. /\ SumBytes(s) = EntryBytes(s[1]) + EntryBytes(s[2]) + EntryBytes(s[3])
        /\ EntryBytes(s[1]) \in Nat /\ EntryBytes(s[2]) \in Nat /\ EntryBytes(s[3]) \in Nat
        /\ Header + 3 * EntryBytes(s[1]) <= PageSize
        /\ Header + 3 * EntryBytes(s[2]) <= PageSize
        /\ Header + 3 * EntryBytes(s[3]) <= PageSize
    BY <1>1, <1>2, <1>7, <2>2
  <2> QED
    BY <1>1, <2>3, SMTT(30)
<1> QED
  BY <1>4, <1>6, <1>7

\* An inner node in one page whose kid gives way to the parts of a split splits
\* into parts in one page each. What MAXKEYLEN promises is enough: three of the
\* longest keys go in a page.
THEOREM InnerInsertFits ==
  ASSUME NEW n, IsEnts(n.ents), NBytes(n) <= PageSize,
         \A k \in DOMAIN KeyLen : Header + 3 * (Slot + KeyLen[k]) <= PageSize,
         \A j \in 1 .. NKeys(n) : n.ents[j].v = Nil,
         NEW i \in 1 .. NKeys(n), NEW kids, Len(kids) \in 1 .. 3,
         \A j \in 1 .. Len(kids) : FirstKey(kids[j]) \in DOMAIN KeyLen
  PROVE  LET m == NodeReplaceKidN(n, i, kids) IN SplitsInto(m, NodeSplit3(m))
<1> DEFINE s == n.ents
           k == i - 1
           a == SubSeq(s, 1, k)
           mid == [j \in 1 .. Len(kids) |-> KidEntry(kids[j])]
           b == SubSeq(s, i + 1, Len(s))
           c == a \o mid
           t == c \o b
           m == NodeReplaceKidN(n, i, kids)
           Short(e) == IsEntry(e) /\ EntryBytes(e) \in Nat /\ Header + 3 * EntryBytes(e) <= PageSize
<1>1. m.ents = t
  BY DEF NodeReplaceKidN, Node, NKeys
<1>2. /\ Header \in Nat /\ PageSize \in Nat /\ Slot \in Nat /\ Header <= Slot
      /\ 4 * Header < PageSize
  BY BNodeAssumption
<1>3. /\ Len(s) \in Nat
      /\ \A j \in 1 .. Len(s) : /\ IsEntry(s[j]) /\ EntryBytes(s[j]) \in Nat
                                /\ Slot <= EntryBytes(s[j])
  BY EntryFacts
<1>4. ASSUME NEW e, e.k \in DOMAIN KeyLen, e.v = Nil PROVE Short(e)
  <2>1. EntryBytes(e) = Slot + KeyLen[e.k] + 0
    BY <1>4 DEF EntryBytes
  <2>2. KeyLen[e.k] \in Nat /\ Header + 3 * (Slot + KeyLen[e.k]) <= PageSize
    BY <1>4, BNodeAssumption
  <2>3. EntryBytes(e) = Slot + KeyLen[e.k] /\ EntryBytes(e) \in Nat
    BY <1>2, <2>1, <2>2
  <2> QED
    BY <1>4, <2>2, <2>3 DEF IsEntry
<1>5. \A j \in 1 .. Len(s) : Short(s[j])
  <2> HIDE DEF Short
  <2> QED
    BY <1>3, <1>4 DEF IsEntry, NKeys
<1>6. \A j \in 1 .. Len(kids) : Short(KidEntry(kids[j]))
  <2> SUFFICES ASSUME NEW j \in 1 .. Len(kids) PROVE Short(KidEntry(kids[j]))
    OBVIOUS
  <2>1. KidEntry(kids[j]).k \in DOMAIN KeyLen /\ KidEntry(kids[j]).v = Nil
    BY DEF KidEntry, Entry
  <2> HIDE DEF Short
  <2> QED
    BY <1>4, <2>1
<1>7. /\ IsEnts(mid) /\ Len(mid) = Len(kids)
      /\ \A j \in 1 .. Len(mid) : Short(mid[j])
  <2> DEFINE S == {KidEntry(kids[j]) : j \in 1 .. Len(kids)}
  <2>1. mid \in Seq(S) /\ Len(mid) = Len(kids)
    <3>1. Len(kids) \in Nat
      OBVIOUS
    <3>2. \A j \in 1 .. Len(kids) : KidEntry(kids[j]) \in S
      OBVIOUS
    <3> HIDE DEF S
    <3> QED
      BY <3>1, <3>2, IsASeq
  <2>2. \A e \in S : IsEntry(e)
    BY <1>6
  <2>3. \A j \in 1 .. Len(mid) : Short(mid[j])
    BY <1>6, <2>1
  <2> HIDE DEF mid, S
  <2> QED
    BY <2>1, <2>2, <2>3 DEF IsEnts
<1>8. k \in 0 .. Len(s) /\ i \in 0 .. Len(s) /\ i \in 1 .. Len(s) /\ i \in Nat /\ k = i - 1
  BY <1>3 DEF NKeys
<1> HIDE DEF k, m, mid, Short
<1>9. /\ IsEnts(a) /\ Len(a) = k
      /\ \A j \in 1 .. k : a[j] = s[j]
      /\ SumBytes(a) = Sums(s)[k]
  BY <1>8, FirstEnts
<1>10. /\ IsEnts(b) /\ Len(b) = Len(s) - i
       /\ \A j \in 1 .. Len(b) : b[j] = s[i + j]
       /\ SumBytes(b) = Sums(s)[Len(s)] - Sums(s)[i]
  BY <1>8, LastEnts
<1> HIDE DEF a, b
<1>11. /\ IsEnts(c) /\ Len(c) = Len(a) + Len(mid)
       /\ \A j \in 1 .. Len(a) : c[j] = a[j]
       /\ \A j \in 1 .. Len(mid) : c[Len(a) + j] = mid[j]
       /\ SumBytes(c) = SumBytes(a) + SumBytes(mid)
  BY <1>7, <1>9, JoinEnts
<1> HIDE DEF c
<1>12. /\ IsEnts(t) /\ Len(t) = Len(c) + Len(b)
       /\ \A j \in 1 .. Len(c) : t[j] = c[j]
       /\ \A j \in 1 .. Len(b) : t[Len(c) + j] = b[j]
       /\ SumBytes(t) = SumBytes(c) + SumBytes(b)
  BY <1>10, <1>11, JoinEnts
<1> HIDE DEF t
<1>13. /\ Len(a) \in Nat /\ Len(b) \in Nat /\ Len(mid) \in 1 .. 3
       /\ Len(c) = Len(a) + Len(mid) /\ Len(t) = Len(c) + Len(b)
  <2>1. Len(a) \in Nat /\ Len(b) \in Nat
    BY <1>9, <1>10, EntryFacts
  <2>2. Len(mid) \in 1 .. 3
    BY <1>7
  <2> QED
    BY <1>11, <1>12, <2>1, <2>2
<1>14. \A j \in 1 .. Len(t) : Short(t[j])
  <2> SUFFICES ASSUME NEW j \in 1 .. Len(t) PROVE Short(t[j])
    OBVIOUS
  <2>1. CASE j <= Len(a)
    <3>1. j \in 1 .. k /\ j \in 1 .. Len(c) /\ j \in 1 .. Len(a) /\ j \in 1 .. Len(s)
      BY <1>3, <1>8, <1>9, <1>13, <2>1
    <3>2. t[j] = s[j]
      BY <1>9, <1>11, <1>12, <3>1
    <3> QED
      BY <1>5, <3>1, <3>2
  <2>2. CASE ~(j <= Len(a)) /\ j <= Len(c)
    <3> DEFINE q == j - Len(a)
    <3>1. q \in 1 .. Len(mid) /\ Len(a) + q = j /\ j \in 1 .. Len(c)
      BY <1>13, <2>2
    <3> HIDE DEF q
    <3>2. t[j] = mid[q]
      BY <1>11, <1>12, <3>1
    <3> QED
      BY <1>7, <3>1, <3>2
  <2>3. CASE ~(j <= Len(c))
    <3> DEFINE q == j - Len(c)
    <3>1. q \in 1 .. Len(b) /\ Len(c) + q = j
      BY <1>13, <2>3
    <3> HIDE DEF q
    <3>2. t[j] = s[i + q]
      BY <1>10, <1>12, <3>1
    <3>3. i + q \in 1 .. Len(s)
      BY <1>3, <1>8, <1>10, <3>1
    <3> QED
      BY <1>5, <3>2, <3>3
  <2> QED
    BY <2>1, <2>2, <2>3
<1>15. Header + SumBytes(mid) <= PageSize
  <2>1. \A j \in 1 .. Len(mid) : Header + 3 * EntryBytes(mid[j]) <= PageSize
    BY <1>7 DEF Short
  <2> QED
    BY <1>7, <1>13, <2>1, FewEnts
<1>16. NBytes(m) <= 2 * PageSize - 2 * Header
  <2>1. /\ \A j \in 0 .. Len(s) : Sums(s)[j] \in Nat
        /\ \A j \in 1 .. Len(s) : Sums(s)[j] = Sums(s)[j - 1] + EntryBytes(s[j])
        /\ SumBytes(s) = Sums(s)[Len(s)]
    BY SumsStep
  <2>2. /\ Sums(s)[i] = Sums(s)[k] + EntryBytes(s[i])
        /\ Sums(s)[i] \in Nat /\ Sums(s)[k] \in Nat /\ Sums(s)[Len(s)] \in Nat
    BY <1>3, <1>8, <2>1
  <2>3. EntryBytes(s[i]) \in Nat /\ Slot <= EntryBytes(s[i])
    BY <1>3, <1>8
  <2>4. Sums(s)[k] = Sums(s)[i] - EntryBytes(s[i])
    BY <2>2, <2>3
  <2>5. SumBytes(mid) \in Nat
    BY <1>7, SumIsNat
  <2>6. SumBytes(t) = (Sums(s)[k] + SumBytes(mid)) + (Sums(s)[Len(s)] - Sums(s)[i])
    BY <1>9, <1>10, <1>11, <1>12
  <2>7. Header + Sums(s)[Len(s)] <= PageSize
    BY <2>1 DEF NBytes
  <2>8. NBytes(m) = Header + SumBytes(t)
    BY <1>1 DEF NBytes
  <2>9. Sums(s)[i] \in Nat /\ Sums(s)[Len(s)] \in Nat
    BY <2>2
  <2>10. SumBytes(t) = (SumBytes(mid) + Sums(s)[Len(s)]) - EntryBytes(s[i])
    BY <2>3, <2>4, <2>5, <2>6, <2>9
  <2>11. SumBytes(mid) <= PageSize - Header /\ Sums(s)[Len(s)] <= PageSize - Header
    BY <1>2, <1>15, <2>5, <2>7, <2>9
  <2>12. SumBytes(t) <= (2 * PageSize - 2 * Header) - Slot
    BY <1>2, <2>3, <2>5, <2>9, <2>10, <2>11
  <2>13. SumBytes(t) \in Nat
    BY <1>12, SumIsNat
  <2> QED
    BY <1>2, <2>8, <2>12, <2>13
<1>17. Splittable(m)
  <2>1. \A j \in 1 .. NKeys(m) : 2 * EntryBytes(m.ents[j]) <= PageSize
    <3> SUFFICES ASSUME NEW j \in 1 .. NKeys(m) PROVE 2 * EntryBytes(m.ents[j]) <= PageSize
      OBVIOUS
    <3>1. Short(t[j]) /\ m.ents[j] = t[j]
      BY <1>1, <1>14 DEF NKeys
    <3> QED
      BY <1>2, <3>1 DEF Short
  <2> QED
    BY <1>1, <1>12, <1>16, <2>1 DEF Splittable
<1>18. m.ents # << >>
  <2>1. Len(t) # 0
    <3>1. Len(mid) \in Nat /\ Len(mid) # 0
      BY <1>13
    <3> QED
      BY <1>13, <3>1
  <2> QED
    BY <1>1, <2>1
<1> QED
  BY <1>17, <1>18, SplitFits DEF m
=============================================================================
