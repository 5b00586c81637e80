---------------------------- MODULE BTreeProofs ----------------------------
(***************************************************************************)
(* What btree_ops checks of BTree on a few keys, proved for any keys and   *)
(* values that fit a page, pages of any size and trees of any height.      *)
(*                                                                         *)
(* The invariant says that the root is the root of a tree: of Trees[h],    *)
(* the trees of h levels above their leaves, each with the set of the      *)
(* entries it holds. What an operation makes of a node is told in terms of *)
(* these sets; the node itself follows, since keys order them.             *)
(***************************************************************************)
EXTENDS BTree, BNodeProofs

-----------------------------------------------------------------------------
(* Trees and what they hold.                                                *)

\* The entries of leaves.
LeafEntry == {Entry(k, v, Nil) : k \in Key, v \in Value} \union {Entry(0, Nil, Nil)}

\* A leaf with its entries.
Single(s) == [node |-> Node(Leaf, s), holds |-> EntsIn(s)]

IsLeafSeq(s) == s # << >> /\ Ascending(s) /\ NBytes(Node(Leaf, s)) <= PageSize

\* Trees, side by side: what they hold, and the node above them.
HoldsOf(q) == UNION {q[i].holds : i \in 1 .. Len(q)}
Over(q) == Node(Inner, [i \in 1 .. Len(q) |-> KidEntry(q[i].node)])
Combined(q) == [node |-> Over(q), holds |-> HoldsOf(q)]

\* All keys of A come before all keys of B.
Precedes(A, B) == \A x \in A, y \in B : x.k < y.k

Sorted(q) == \A i, j \in 1 .. Len(q) : i < j => Precedes(q[i].holds, q[j].holds)

IsTreeSeq(q) == q # << >> /\ Sorted(q) /\ NBytes(Over(q)) <= PageSize

LeafTrees == {Single(s) : s \in {s \in Seq(LeafEntry) : IsLeafSeq(s)}}
InnerTrees(T) == {Combined(q) : q \in {q \in Seq(T) : IsTreeSeq(q)}}

\* Trees by the number of levels above their leaves.
Trees[h \in 0 .. MaxHeight] == IF h = 0 THEN LeafTrees ELSE InnerTrees(Trees[h - 1])

\* What the assumptions say of the entries of leaves.
LEMMA LeafEntries ==
  /\ DOMAIN KeyLen = Key \union {0} /\ DOMAIN ValLen = Value
  /\ \A k \in Key \union {0} : k \in Nat
  /\ \A x \in LeafEntry : /\ IsEntry(x) /\ x.k \in Key \union {0} /\ x.k \in Nat
                          /\ x.p = Nil
                          /\ x.k = 0 => x.v = Nil
                          /\ x.k # 0 => x.k \in Key /\ x.v \in Value /\ x = Entry(x.k, x.v, Nil)
  /\ \A k \in Key, v \in Value : Entry(k, v, Nil) \in LeafEntry
  /\ Entry(0, Nil, Nil) \in LeafEntry
<1>1. /\ DOMAIN KeyLen = Key \union {0} /\ DOMAIN ValLen = Value
      /\ \A k \in Key \union {0} : k \in Nat
  BY BTreeAssumption
<1>2. ASSUME NEW k \in Key, NEW v \in Value
      PROVE  LET x == Entry(k, v, Nil) IN
             /\ IsEntry(x) /\ x.k = k /\ x.v = v /\ x.p = Nil /\ k # 0
             /\ k \in Nat /\ x \in LeafEntry
  BY <1>1, BTreeAssumption DEF Entry, IsEntry, LeafEntry
<1>3. LET x == Entry(0, Nil, Nil) IN
      IsEntry(x) /\ x.k = 0 /\ x.v = Nil /\ x.p = Nil /\ x \in LeafEntry
  BY <1>1 DEF Entry, IsEntry, LeafEntry
<1>4. ASSUME NEW x \in LeafEntry
      PROVE  /\ IsEntry(x) /\ x.k \in Key \union {0} /\ x.k \in Nat
             /\ x.p = Nil
             /\ x.k = 0 => x.v = Nil
             /\ x.k # 0 => x.k \in Key /\ x.v \in Value /\ x = Entry(x.k, x.v, Nil)
  <2>1. x = Entry(0, Nil, Nil) \/ \E k \in Key, v \in Value : x = Entry(k, v, Nil)
    BY DEF LeafEntry
  <2> QED
    BY <1>1, <1>2, <1>3, <2>1
<1> QED
  BY <1>1, <1>2, <1>3, <1>4

\* A sequence given by its elements.
LEMMA FunctionSeq ==
  ASSUME NEW S, NEW m \in Nat, NEW f, f \in [1 .. m -> S]
  PROVE  f \in Seq(S) /\ Len(f) = m
<1>1. f \in Seq(S)
  BY SeqDef, Zenon
<1> QED
  BY <1>1, LenProperties

\* A sequence with its elements in another set.
LEMMA SeqIn ==
  ASSUME NEW S, NEW T, NEW s \in Seq(S), \A i \in 1 .. Len(s) : s[i] \in T
  PROVE  s \in Seq(T)
<1>1. Len(s) \in Nat /\ s \in [1 .. Len(s) -> S]
  BY LenProperties
<1>2. s \in [1 .. Len(s) -> T]
  BY <1>1
<1> QED
  BY <1>1, <1>2, FunctionSeq

\* Trees are taken apart level by level.
LEMMA TreesStep ==
  /\ MaxHeight \in Nat /\ MaxHeight >= 1
  /\ Trees[0] = LeafTrees
  /\ \A h \in 1 .. MaxHeight : Trees[h] = InnerTrees(Trees[h - 1])
<1> DEFINE W == MaxHeight
           Run(f, m) == [i \in 0 .. m |-> IF i = 0 THEN LeafTrees ELSE InnerTrees(f[i - 1])]
           T == {m \in 0 .. W : ~(\E f : f = Run(f, m))}
<1>1. W \in Nat /\ W >= 1
  BY BTreeAssumption
<1> HIDE DEF W
<1>2. T = {}
  <2> SUFFICES ASSUME T # {} PROVE FALSE
    OBVIOUS
  <2>1. PICK m \in T : \A y \in T : m <= y
    <3>1. T \subseteq Nat /\ T # {}
      BY <1>1
    <3> HIDE DEF T
    <3> QED
      BY <3>1, LeastNat
  <2>2. m \in 0 .. W /\ m \in Nat /\ ~(\E f : f = Run(f, m))
    BY <1>1
  <2>3. m # 0
    <3> SUFFICES ASSUME m = 0 PROVE FALSE
      OBVIOUS
    <3> DEFINE f == [i \in 0 .. m |-> LeafTrees]
    <3>1. f = Run(f, m)
      OBVIOUS
    <3> QED
      BY <2>2, <3>1
  <2>4. PICK g : g = Run(g, m - 1)
    <3>1. m - 1 \in 0 .. W /\ ~(m <= m - 1)
      BY <1>1, <2>2, <2>3
    <3>2. m - 1 \notin T
      BY <2>1, <3>1
    <3> QED
      BY <3>1, <3>2
  <2> DEFINE f == [i \in 0 .. m |-> IF i < m THEN g[i] ELSE InnerTrees(g[m - 1])]
  <2>5. ASSUME NEW i \in 0 .. m
        PROVE  f[i] = IF i = 0 THEN LeafTrees ELSE InnerTrees(f[i - 1])
    <3>1. i \in Int /\ 0 <= i /\ i <= m
      BY <2>2
    <3>2. i # 0 => f[i - 1] = g[i - 1]
      BY <2>2, <3>1
    <3>3. CASE i < m
      <4>1. i \in 0 .. m - 1 /\ f[i] = g[i]
        BY <2>2, <3>1, <3>3
      <4>2. g[i] = IF i = 0 THEN LeafTrees ELSE InnerTrees(g[i - 1])
        BY <2>4, <4>1
      <4> QED
        BY <3>2, <4>1, <4>2
    <3>4. CASE ~(i < m)
      <4>1. i = m /\ f[i] = InnerTrees(g[m - 1])
        BY <2>2, <3>1, <3>4
      <4> QED
        BY <2>3, <3>2, <4>1
    <3> QED
      BY <3>3, <3>4
  <2>6. f = Run(f, m)
    BY <2>5
  <2> QED
    BY <2>2, <2>6
<1>3. W \in 0 .. W
  BY <1>1
<1>4. PICK f : f = Run(f, W)
  BY <1>2, <1>3
<1>5. Trees = CHOOSE g : g = Run(g, W)
  BY DEF Trees, W
<1>6. Trees = Run(Trees, W)
  <2> HIDE DEF Run
  <2> QED
    BY <1>4, <1>5
<1>7. Trees[0] = LeafTrees /\ \A h \in 1 .. W : Trees[h] = InnerTrees(Trees[h - 1])
  BY <1>1, <1>6
<1> QED
  BY <1>1, <1>7 DEF W

\* What is known of a tree of height h.
Sane(t, h) ==
  /\ t.node.type = IF h = 0 THEN Leaf ELSE Inner
  /\ IsEnts(t.node.ents) /\ t.node.ents # << >> /\ Ascending(t.node.ents)
  /\ NBytes(t.node) <= PageSize
  /\ FirstKey(t.node) \in Key \union {0}
  /\ t.holds \subseteq LeafEntry
  /\ \E x \in t.holds : x.k = FirstKey(t.node)
  /\ \A x \in t.holds : FirstKey(t.node) <= x.k
  /\ \A x, y \in t.holds : x.k = y.k => x = y

\* A leaf.
LEMMA LeafSane ==
  ASSUME NEW s \in Seq(LeafEntry), IsLeafSeq(s)
  PROVE  Sane(Single(s), 0)
<1> DEFINE t == Single(s)
<1>1. t.node = Node(Leaf, s) /\ t.node.type = Leaf /\ t.node.ents = s /\ t.holds = EntsIn(s)
  BY DEF Single, Node
<1>2. IsEnts(s)
  BY LeafEntries DEF IsEnts
<1>3. Len(s) \in Nat /\ Len(s) >= 1 /\ \A i \in 1 .. Len(s) : s[i] \in LeafEntry
  BY LenProperties, EmptySeq, ElementOfSeq DEF IsLeafSeq
<1>4. s # << >> /\ Ascending(s) /\ NBytes(t.node) <= PageSize
  BY <1>1 DEF IsLeafSeq
<1>5. FirstKey(t.node) = s[1].k
  BY <1>1, <1>4 DEF FirstKey
<1> HIDE DEF t
<1>6. 1 \in 1 .. Len(s) /\ s[1] \in EntsIn(s) /\ s[1] \in LeafEntry
  BY <1>3 DEF EntsIn
<1>7. ASSUME NEW x \in EntsIn(s) PROVE x \in LeafEntry /\ s[1].k <= x.k
  <2>1. PICK i \in 1 .. Len(s) : x = s[i]
    BY DEF EntsIn
  <2>2. i = 1 \/ s[1].k < s[i].k
    BY <1>3, <1>4 DEF Ascending
  <2>3. s[1].k \in Nat /\ s[i].k \in Nat
    BY <1>3, <1>6, LeafEntries
  <2> QED
    BY <1>3, <2>1, <2>2, <2>3
<1>8. ASSUME NEW x \in EntsIn(s), NEW y \in EntsIn(s), x.k = y.k PROVE x = y
  <2>1. PICK i \in 1 .. Len(s) : x = s[i]
    BY DEF EntsIn
  <2>2. PICK j \in 1 .. Len(s) : y = s[j]
    BY DEF EntsIn
  <2>3. s[i].k \in Nat /\ s[j].k \in Nat
    BY <1>3, LeafEntries
  <2>4. ~(i < j) /\ ~(j < i)
    BY <1>4, <1>8, <2>1, <2>2, <2>3 DEF Ascending
  <2> QED
    BY <1>3, <2>1, <2>2, <2>4
<1>9. FirstKey(t.node) \in Key \union {0} /\ \E x \in t.holds : x.k = FirstKey(t.node)
  BY <1>1, <1>5, <1>6, LeafEntries
<1>10. t.holds \subseteq LeafEntry /\ \A x \in t.holds : FirstKey(t.node) <= x.k
  BY <1>1, <1>5, <1>7
<1>11. \A x, y \in t.holds : x.k = y.k => x = y
  BY <1>1, <1>8
<1>12. /\ t.node.type = IF 0 = 0 THEN Leaf ELSE Inner
       /\ IsEnts(t.node.ents) /\ t.node.ents # << >> /\ Ascending(t.node.ents)
       /\ NBytes(t.node) <= PageSize
  BY <1>1, <1>2, <1>4
<1> QED
  BY <1>9, <1>10, <1>11, <1>12 DEF Sane, t

\* The node above some trees.
LEMMA OverFacts ==
  ASSUME NEW S, NEW q \in Seq(S), \A i \in 1 .. Len(q) : FirstKey(q[i].node) \in Key \union {0}
  PROVE  /\ Over(q).type = Inner /\ NKeys(Over(q)) = Len(q) /\ Len(q) \in Nat
         /\ Over(q).ents = [i \in 1 .. Len(q) |-> KidEntry(q[i].node)]
         /\ IsEnts(Over(q).ents)
         /\ \A i \in 1 .. Len(q) : /\ Over(q).ents[i].k = FirstKey(q[i].node)
                                   /\ Over(q).ents[i].v = Nil
                                   /\ Over(q).ents[i].p = q[i].node
<1> DEFINE e == [i \in 1 .. Len(q) |-> KidEntry(q[i].node)]
           E == {e[i] : i \in 1 .. Len(q)}
<1>1. Len(q) \in Nat
  BY LenProperties
<1>2. Over(q).type = Inner /\ Over(q).ents = e
  BY DEF Over, Node
<1>3. \A i \in 1 .. Len(q) : e[i].k = FirstKey(q[i].node) /\ e[i].v = Nil /\ e[i].p = q[i].node
  BY DEF KidEntry, Entry
<1>4. e \in [1 .. Len(q) -> E]
  OBVIOUS
<1>5. e \in Seq(E) /\ Len(e) = Len(q)
  <2> HIDE DEF e, E
  <2>1. e \in Seq(E)
    BY <1>1, <1>4, SeqDef, Zenon
  <2> QED
    BY <1>1, <1>4, <2>1, LenProperties
<1>6. ASSUME NEW x \in E PROVE IsEntry(x)
  <2>1. PICK i \in 1 .. Len(q) : x = e[i]
    OBVIOUS
  <2> HIDE DEF e
  <2> QED
    BY <1>3, <2>1, LeafEntries DEF IsEntry
<1>7. IsEnts(e)
  <2> HIDE DEF e, E
  <2> QED
    BY <1>5, <1>6 DEF IsEnts
<1> QED
  BY <1>1, <1>2, <1>3, <1>5, <1>7 DEF NKeys

\* What trees side by side hold.
LEMMA HoldsOfFacts ==
  ASSUME NEW q
  PROVE  /\ \A i \in 1 .. Len(q) : q[i].holds \subseteq HoldsOf(q)
         /\ \A x \in HoldsOf(q) : \E i \in 1 .. Len(q) : x \in q[i].holds
  BY DEF HoldsOf

\* An inner node over trees.
LEMMA InnerSane ==
  ASSUME NEW S, NEW q \in Seq(S), IsTreeSeq(q), NEW h \in Nat \ {0},
         \A i \in 1 .. Len(q) : Sane(q[i], h - 1)
  PROVE  Sane(Combined(q), h)
<1> DEFINE t == Combined(q)
<1>1. \A i \in 1 .. Len(q) : FirstKey(q[i].node) \in Key \union {0}
  BY DEF Sane
<1>2. /\ Over(q).type = Inner /\ NKeys(Over(q)) = Len(q) /\ Len(q) \in Nat
      /\ IsEnts(Over(q).ents)
      /\ \A i \in 1 .. Len(q) : Over(q).ents[i].k = FirstKey(q[i].node)
  BY <1>1, OverFacts
<1>3. t.node = Over(q) /\ t.holds = HoldsOf(q)
  BY DEF Combined
<1>4. q # << >> /\ Sorted(q) /\ NBytes(Over(q)) <= PageSize
  BY DEF IsTreeSeq
<1>5. Len(q) >= 1 /\ Over(q).ents # << >>
  BY <1>2, <1>4, EmptySeq DEF NKeys
<1>6. FirstKey(Over(q)) = FirstKey(q[1].node) /\ 1 \in 1 .. Len(q)
  BY <1>2, <1>5 DEF FirstKey
<1> HIDE DEF t
<1>7. ASSUME NEW i \in 1 .. Len(q)
      PROVE  /\ q[i].holds \subseteq LeafEntry
             /\ \E x \in q[i].holds : x.k = FirstKey(q[i].node)
             /\ \A x \in q[i].holds : FirstKey(q[i].node) <= x.k
             /\ \A x, y \in q[i].holds : x.k = y.k => x = y
             /\ FirstKey(q[i].node) \in Nat
  BY <1>1, LeafEntries DEF Sane
<1>8. ASSUME NEW i \in 1 .. Len(q), NEW j \in 1 .. Len(q), i < j
      PROVE  FirstKey(q[i].node) < FirstKey(q[j].node)
  <2>1. PICK x \in q[i].holds : x.k = FirstKey(q[i].node)
    BY <1>7
  <2>2. PICK y \in q[j].holds : y.k = FirstKey(q[j].node)
    BY <1>7
  <2>3. Precedes(q[i].holds, q[j].holds)
    BY <1>4, <1>8 DEF Sorted
  <2> QED
    BY <2>1, <2>2, <2>3 DEF Precedes
<1>9. Ascending(Over(q).ents)
  BY <1>2, <1>8 DEF Ascending, NKeys
<1>10. ASSUME NEW x \in HoldsOf(q)
       PROVE  x \in LeafEntry /\ x.k \in Nat /\ FirstKey(q[1].node) <= x.k
  <2>1. PICK i \in 1 .. Len(q) : x \in q[i].holds
    BY HoldsOfFacts
  <2>2. x \in LeafEntry /\ FirstKey(q[i].node) <= x.k /\ x.k \in Nat
    BY <1>7, <2>1, LeafEntries
  <2>3. i = 1 \/ FirstKey(q[1].node) < FirstKey(q[i].node)
    BY <1>2, <1>6, <1>8
  <2> QED
    BY <1>6, <1>7, <2>2, <2>3
<1>11. ASSUME NEW x \in HoldsOf(q), NEW y \in HoldsOf(q), x.k = y.k PROVE x = y
  <2>1. PICK i \in 1 .. Len(q) : x \in q[i].holds
    BY HoldsOfFacts
  <2>2. PICK j \in 1 .. Len(q) : y \in q[j].holds
    BY HoldsOfFacts
  <2>3. ~(x.k < y.k) /\ ~(y.k < x.k)
    BY <1>10, <1>11
  <2>4. ~(i < j) /\ ~(j < i)
    BY <1>4, <2>1, <2>2, <2>3 DEF Sorted, Precedes
  <2>5. i = j
    BY <1>2, <2>4
  <2> QED
    BY <1>7, <1>11, <2>1, <2>2, <2>5
<1>12. PICK x \in q[1].holds : x.k = FirstKey(q[1].node)
  BY <1>6, <1>7
<1>13. x \in HoldsOf(q)
  BY <1>6, <1>12, HoldsOfFacts
<1>14. FirstKey(t.node) \in Key \union {0} /\ \E z \in t.holds : z.k = FirstKey(t.node)
  BY <1>1, <1>3, <1>6, <1>12, <1>13
<1>15. t.holds \subseteq LeafEntry /\ \A z \in t.holds : FirstKey(t.node) <= z.k
  BY <1>3, <1>6, <1>10
<1>16. \A y, z \in t.holds : y.k = z.k => y = z
  BY <1>3, <1>11
<1>17. /\ t.node.type = IF h = 0 THEN Leaf ELSE Inner
       /\ IsEnts(t.node.ents) /\ t.node.ents # << >> /\ Ascending(t.node.ents)
       /\ NBytes(t.node) <= PageSize
  BY <1>2, <1>3, <1>4, <1>5, <1>9
<1> QED
  BY <1>14, <1>15, <1>16, <1>17 DEF Sane, t

\* Trees of one leaf.
LEMMA LeafTreeIs ==
  /\ \A t \in Trees[0] : \E s \in Seq(LeafEntry) : IsLeafSeq(s) /\ t = Single(s)
  /\ \A s \in Seq(LeafEntry) : IsLeafSeq(s) => Single(s) \in Trees[0]
<1>1. Trees[0] = LeafTrees
  BY TreesStep
<1> QED
  BY <1>1 DEF LeafTrees

\* Trees of more levels.
LEMMA InnerTreeIs ==
  ASSUME NEW h \in 1 .. MaxHeight
  PROVE  /\ \A t \in Trees[h] : \E q \in Seq(Trees[h - 1]) : IsTreeSeq(q) /\ t = Combined(q)
         /\ \A q \in Seq(Trees[h - 1]) : IsTreeSeq(q) => Combined(q) \in Trees[h]
<1>1. Trees[h] = InnerTrees(Trees[h - 1])
  BY TreesStep
<1> QED
  BY <1>1 DEF InnerTrees

\* All this is known of every tree.
LEMMA TreeSane ==
  \A h \in 0 .. MaxHeight : \A t \in Trees[h] : Sane(t, h)
<1> DEFINE T == {h \in 0 .. MaxHeight : ~(\A t \in Trees[h] : Sane(t, h))}
<1> SUFFICES ASSUME T # {} PROVE FALSE
  OBVIOUS
<1>1. MaxHeight \in Nat
  BY TreesStep
<1>2. PICK h \in T : \A y \in T : h <= y
  <2>1. T \subseteq Nat /\ T # {}
    BY <1>1
  <2> HIDE DEF T
  <2> QED
    BY <2>1, LeastNat
<1>3. h \in 0 .. MaxHeight
  OBVIOUS
<1>4. PICK t \in Trees[h] : ~Sane(t, h)
  OBVIOUS
<1>5. h # 0
  <2> SUFFICES ASSUME h = 0 PROVE FALSE
    OBVIOUS
  <2>1. PICK s \in Seq(LeafEntry) : IsLeafSeq(s) /\ t = Single(s)
    BY <1>4, LeafTreeIs
  <2> QED
    BY <1>4, <2>1, LeafSane
<1>6. h \in 1 .. MaxHeight /\ h - 1 \in 0 .. MaxHeight /\ ~(h <= h - 1) /\ h \in Nat \ {0}
  BY <1>1, <1>3, <1>5
<1>7. \A u \in Trees[h - 1] : Sane(u, h - 1)
  <2>1. h - 1 \notin T
    BY <1>2, <1>6
  <2> QED
    BY <1>6, <2>1
<1>8. PICK q \in Seq(Trees[h - 1]) : IsTreeSeq(q) /\ t = Combined(q)
  BY <1>4, <1>6, InnerTreeIs
<1>9. \A i \in 1 .. Len(q) : Sane(q[i], h - 1)
  BY <1>7, <1>8, ElementOfSeq
<1>10. Sane(Combined(q), h)
  BY <1>6, <1>8, <1>9, InnerSane
<1> QED
  BY <1>4, <1>8, <1>10

-----------------------------------------------------------------------------
(* Trees side by side.                                                      *)

\* Sequences of the same elements.
LEMMA SameSeq ==
  ASSUME NEW S, NEW s \in Seq(S), NEW T, NEW t \in Seq(T), Len(s) = Len(t),
         \A i \in 1 .. Len(s) : s[i] = t[i]
  PROVE  s = t
<1>1. s \in [1 .. Len(s) -> S] /\ t \in [1 .. Len(t) -> T]
  BY LenProperties
<1> QED
  BY <1>1

\* The entries of the node above trees are a sequence, whatever the trees.
LEMMA OverIs ==
  ASSUME NEW S, NEW q \in Seq(S)
  PROVE  /\ Len(q) \in Nat /\ Len(Over(q).ents) = Len(q)
         /\ \E E : Over(q).ents \in Seq(E)
         /\ \A i \in 1 .. Len(q) : Over(q).ents[i] = KidEntry(q[i].node)
<1> DEFINE e == [i \in 1 .. Len(q) |-> KidEntry(q[i].node)]
           E == {e[i] : i \in 1 .. Len(q)}
<1>1. Len(q) \in Nat
  BY LenProperties
<1>2. Over(q).ents = e
  BY DEF Over, Node
<1>3. e \in [1 .. Len(q) -> E]
  OBVIOUS
<1>4. e \in Seq(E) /\ Len(e) = Len(q)
  <2> HIDE DEF e, E
  <2>1. e \in Seq(E)
    BY <1>1, <1>3, SeqDef, Zenon
  <2> QED
    BY <1>1, <1>3, <2>1, LenProperties
<1>5. \A i \in 1 .. Len(q) : e[i] = KidEntry(q[i].node)
  OBVIOUS
<1> HIDE DEF e, E
<1> QED
  BY <1>1, <1>2, <1>4, <1>5

IsJoin(T, q, r, s) ==
  /\ s \in Seq(T) /\ Len(s) = Len(q) + Len(r)
  /\ \A i \in 1 .. Len(q) : s[i] = q[i]
  /\ \A i \in 1 .. Len(r) : s[Len(q) + i] = r[i]
  /\ Over(s).ents = Over(q).ents \o Over(r).ents
  /\ HoldsOf(s) = HoldsOf(q) \union HoldsOf(r)
  /\ Sorted(q) /\ Sorted(r) /\ Precedes(HoldsOf(q), HoldsOf(r)) => Sorted(s)

\* Two rows of trees, one after the other.
LEMMA JoinTrees ==
  ASSUME NEW T, NEW q \in Seq(T), NEW r \in Seq(T)
  PROVE  IsJoin(T, q, r, q \o r)
<1> DEFINE s == q \o r
           m == Len(q)
           n == Len(r)
<1>1. m \in Nat /\ n \in Nat /\ s \in Seq(T) /\ Len(s) = m + n
  BY LenProperties, ConcatProperties
<1>2. \A i \in 1 .. m : s[i] = q[i]
  BY ConcatProperties, LenProperties
<1>3. \A i \in 1 .. n : s[m + i] = r[i]
  <2> SUFFICES ASSUME NEW i \in 1 .. n PROVE s[m + i] = r[i]
    OBVIOUS
  <2>1. m + i \in 1 .. m + n /\ ~(m + i <= m) /\ (m + i) - m = i
    BY <1>1
  <2> QED
    BY <1>1, <2>1, ConcatProperties
<1> HIDE DEF s
<1>4. \A i \in 1 .. Len(s) : i \in 1 .. m \/ \E j \in 1 .. n : i = m + j
  <2> SUFFICES ASSUME NEW i \in 1 .. Len(s), i \notin 1 .. m PROVE \E j \in 1 .. n : i = m + j
    OBVIOUS
  <2>1. i - m \in 1 .. n /\ i = m + (i - m)
    BY <1>1
  <2> QED
    BY <2>1
<1>5. \A i \in 1 .. m : i \in 1 .. Len(s)
  BY <1>1
<1>6. \A j \in 1 .. n : m + j \in 1 .. Len(s)
  BY <1>1
<1>7. HoldsOf(s) = HoldsOf(q) \union HoldsOf(r)
  <2>1. ASSUME NEW x \in HoldsOf(s) PROVE x \in HoldsOf(q) \union HoldsOf(r)
    <3>1. PICK i \in 1 .. Len(s) : x \in s[i].holds
      BY HoldsOfFacts
    <3>2. CASE i \in 1 .. m
      BY <1>2, <3>1, <3>2, HoldsOfFacts
    <3>3. CASE \E j \in 1 .. n : i = m + j
      BY <1>3, <3>1, <3>3, HoldsOfFacts
    <3> QED
      BY <1>4, <3>2, <3>3
  <2>2. ASSUME NEW x \in HoldsOf(q) PROVE x \in HoldsOf(s)
    <3>1. PICK i \in 1 .. m : x \in q[i].holds
      BY HoldsOfFacts
    <3> QED
      BY <1>2, <1>5, <3>1, HoldsOfFacts
  <2>3. ASSUME NEW x \in HoldsOf(r) PROVE x \in HoldsOf(s)
    <3>1. PICK i \in 1 .. n : x \in r[i].holds
      BY HoldsOfFacts
    <3> QED
      BY <1>3, <1>6, <3>1, HoldsOfFacts
  <2> QED
    BY <2>1, <2>2, <2>3
<1>8. ASSUME Sorted(q), Sorted(r), Precedes(HoldsOf(q), HoldsOf(r)) PROVE Sorted(s)
  <2> SUFFICES ASSUME NEW i \in 1 .. Len(s), NEW j \in 1 .. Len(s), i < j
               PROVE  Precedes(s[i].holds, s[j].holds)
    BY DEF Sorted
  <2>1. CASE i \in 1 .. m /\ j \in 1 .. m
    BY <1>2, <1>8, <2>1 DEF Sorted
  <2>2. CASE i \in 1 .. m /\ \E k \in 1 .. n : j = m + k
    <3>1. PICK k \in 1 .. n : j = m + k
      BY <2>2
    <3>2. s[i].holds \subseteq HoldsOf(q) /\ s[j].holds \subseteq HoldsOf(r)
      BY <1>2, <1>3, <2>2, <3>1, HoldsOfFacts
    <3> QED
      BY <1>8, <3>2 DEF Precedes
  <2>3. CASE \E k \in 1 .. n : i = m + k
    <3>1. PICK k \in 1 .. n : i = m + k
      BY <2>3
    <3>2. j \notin 1 .. m
      BY <1>1, <3>1
    <3>3. PICK l \in 1 .. n : j = m + l
      BY <1>4, <3>2
    <3>4. k < l
      BY <1>1, <3>1, <3>3
    <3>5. Precedes(r[k].holds, r[l].holds)
      BY <1>8, <3>4 DEF Sorted
    <3> QED
      BY <1>3, <3>1, <3>3, <3>5
  <2> QED
    BY <1>4, <2>1, <2>2, <2>3
<1>9. Over(s).ents = Over(q).ents \o Over(r).ents
  <2>1. /\ Len(Over(s).ents) = Len(s) /\ \E E : Over(s).ents \in Seq(E)
        /\ \A i \in 1 .. Len(s) : Over(s).ents[i] = KidEntry(s[i].node)
    BY <1>1, OverIs
  <2>2. /\ Len(Over(q).ents) = m /\ \E E : Over(q).ents \in Seq(E)
        /\ \A i \in 1 .. m : Over(q).ents[i] = KidEntry(q[i].node)
    BY <1>1, OverIs
  <2>3. /\ Len(Over(r).ents) = n /\ \E E : Over(r).ents \in Seq(E)
        /\ \A i \in 1 .. n : Over(r).ents[i] = KidEntry(r[i].node)
    BY <1>1, OverIs
  <2> DEFINE a == Over(q).ents
             b == Over(r).ents
             c == Over(s).ents
  <2>4. PICK A : a \in Seq(A)
    BY <2>2
  <2>5. PICK B : b \in Seq(B)
    BY <2>3
  <2>6. PICK C : c \in Seq(C)
    BY <2>1
  <2> DEFINE D == A \union B
  <2> HIDE DEF a, b, c
  <2>7. a \in Seq(D) /\ b \in Seq(D)
    BY <2>4, <2>5, SeqIn, ElementOfSeq
  <2>8. /\ a \o b \in Seq(D) /\ Len(a \o b) = m + n
        /\ \A i \in 1 .. m + n : (a \o b)[i] = IF i <= m THEN a[i] ELSE b[i - m]
    <3>1. Len(a) = m /\ Len(b) = n
      BY <2>2, <2>3 DEF a, b
    <3> HIDE DEF D
    <3>2. /\ a \o b \in Seq(D) /\ Len(a \o b) = Len(a) + Len(b)
          /\ \A i \in 1 .. Len(a) + Len(b) :
               (a \o b)[i] = IF i <= Len(a) THEN a[i] ELSE b[i - Len(a)]
      BY <2>7, ConcatProperties
    <3> QED
      BY <3>1, <3>2
  <2>9. ASSUME NEW i \in 1 .. Len(c) PROVE c[i] = (a \o b)[i]
    <3>1. i \in 1 .. m + n /\ i \in 1 .. Len(s) /\ c[i] = KidEntry(s[i].node)
      BY <1>1, <2>1 DEF c
    <3>2. CASE i \in 1 .. m
      <4>1. i <= m /\ s[i] = q[i] /\ a[i] = KidEntry(q[i].node)
        BY <1>1, <1>2, <2>2, <3>2 DEF a
      <4> QED
        BY <2>8, <3>1, <4>1
    <3>3. CASE \E j \in 1 .. n : i = m + j
      <4>1. PICK j \in 1 .. n : i = m + j
        BY <3>3
      <4>2. ~(i <= m) /\ i - m = j
        BY <1>1, <4>1
      <4>3. s[i] = r[j] /\ b[j] = KidEntry(r[j].node)
        BY <1>3, <2>3, <4>1 DEF b
      <4> QED
        BY <2>8, <3>1, <4>2, <4>3
    <3> QED
      BY <1>4, <3>1, <3>2, <3>3
  <2>10. Len(c) = Len(a \o b)
    BY <1>1, <2>1, <2>8 DEF c
  <2>11. c = a \o b
    <3> HIDE DEF D
    <3> QED
      BY <2>6, <2>8, <2>9, <2>10, SameSeq
  <2> QED
    BY <2>11 DEF a, b, c
<1> QED
  BY <1>1, <1>2, <1>3, <1>7, <1>8, <1>9 DEF s, IsJoin

\* A part of a sequence.
LEMMA CutSeq ==
  ASSUME NEW S, NEW s \in Seq(S), NEW m \in Nat \ {0}, NEW k \in Nat, m <= k + 1, k <= Len(s)
  PROVE  LET t == SubSeq(s, m, k) IN
         /\ t \in Seq(S) /\ Len(t) = (k + 1) - m
         /\ \A i \in 1 .. Len(t) : t[i] = s[(m - 1) + i] /\ (m - 1) + i \in m .. k
<1> DEFINE t == SubSeq(s, m, k)
<1>1. Len(s) \in Nat
  BY LenProperties
<1>2. \A i \in m .. k : s[i] \in S
  <2> SUFFICES ASSUME NEW i \in m .. k PROVE s[i] \in S
    OBVIOUS
  <2>1. i \in 1 .. Len(s)
    BY <1>1
  <2> QED
    BY <2>1, ElementOfSeq
<1>3. m \in Int /\ k \in Int
  OBVIOUS
<1>4. /\ t \in Seq(S) /\ Len(t) = IF m <= k THEN k - m + 1 ELSE 0
      /\ \A i \in 1 .. k - m + 1 : t[i] = s[m + i - 1]
  BY <1>2, <1>3, SubSeqProperties
<1> HIDE DEF t
<1>5. Len(t) = (k + 1) - m /\ Len(t) = k - m + 1
  BY <1>4
<1>6. \A i \in 1 .. Len(t) : m + i - 1 = (m - 1) + i /\ (m - 1) + i \in m .. k
  BY <1>5
<1> QED
  BY <1>4, <1>5, <1>6 DEF t

IsPartOf(T, q, m, k, s) ==
  /\ s \in Seq(T) /\ Len(s) = (k + 1) - m
  /\ \A i \in 1 .. Len(s) : s[i] = q[(m - 1) + i] /\ (m - 1) + i \in m .. k
  /\ Over(s).ents = SubSeq(Over(q).ents, m, k)
  /\ HoldsOf(s) = UNION {q[i].holds : i \in m .. k}
  /\ Sorted(q) => Sorted(s)

\* Some trees of a row.
LEMMA PartTrees ==
  ASSUME NEW T, NEW q \in Seq(T), NEW m \in Nat \ {0}, NEW k \in Nat, m <= k + 1, k <= Len(q)
  PROVE  IsPartOf(T, q, m, k, SubSeq(q, m, k))
<1> DEFINE s == SubSeq(q, m, k)
           e == Over(q).ents
           f == SubSeq(e, m, k)
<1>1. Len(q) \in Nat
  BY LenProperties
<1>2. /\ s \in Seq(T) /\ Len(s) = (k + 1) - m
      /\ \A i \in 1 .. Len(s) : s[i] = q[(m - 1) + i] /\ (m - 1) + i \in m .. k
  BY CutSeq
<1> HIDE DEF s
<1>3. \A i \in 1 .. Len(s) : (m - 1) + i \in 1 .. Len(q)
  BY <1>1, <1>2
<1>4. Over(s).ents = f
  <2>1. PICK E : e \in Seq(E)
    BY OverIs
  <2>2. Len(e) = Len(q) /\ \A i \in 1 .. Len(q) : e[i] = KidEntry(q[i].node)
    BY OverIs
  <2>3. PICK F : Over(s).ents \in Seq(F)
    BY <1>2, OverIs
  <2>4. /\ Len(Over(s).ents) = Len(s)
        /\ \A i \in 1 .. Len(s) : Over(s).ents[i] = KidEntry(s[i].node)
    BY <1>2, OverIs
  <2> HIDE DEF e
  <2>5. /\ f \in Seq(E) /\ Len(f) = (k + 1) - m
        /\ \A i \in 1 .. Len(f) : f[i] = e[(m - 1) + i]
    BY <2>1, <2>2, CutSeq
  <2> HIDE DEF f
  <2>6. \A i \in 1 .. Len(Over(s).ents) : Over(s).ents[i] = f[i]
    BY <1>2, <1>3, <2>2, <2>4, <2>5
  <2>7. Len(Over(s).ents) = Len(f)
    BY <1>2, <2>4, <2>5
  <2> QED
    BY <2>3, <2>5, <2>6, <2>7, SameSeq
<1>5. HoldsOf(s) = UNION {q[i].holds : i \in m .. k}
  <2>1. ASSUME NEW x \in HoldsOf(s) PROVE \E i \in m .. k : x \in q[i].holds
    <3>1. PICK i \in 1 .. Len(s) : x \in s[i].holds
      BY HoldsOfFacts
    <3> QED
      BY <1>2, <3>1
  <2>2. ASSUME NEW i \in m .. k, NEW x \in q[i].holds PROVE x \in HoldsOf(s)
    <3>1. i - (m - 1) \in 1 .. Len(s) /\ (m - 1) + (i - (m - 1)) = i
      BY <1>2
    <3>2. x \in s[i - (m - 1)].holds
      BY <1>2, <3>1
    <3> QED
      BY <3>1, <3>2, HoldsOfFacts
  <2> QED
    BY <2>1, <2>2
<1>6. ASSUME Sorted(q) PROVE Sorted(s)
  <2> SUFFICES ASSUME NEW i \in 1 .. Len(s), NEW j \in 1 .. Len(s), i < j
               PROVE  Precedes(s[i].holds, s[j].holds)
    BY DEF Sorted
  <2>1. (m - 1) + i < (m - 1) + j
    BY <1>2
  <2>2. Precedes(q[(m - 1) + i].holds, q[(m - 1) + j].holds)
    BY <1>3, <1>6, <2>1 DEF Sorted
  <2> QED
    BY <1>2, <2>2
<1> QED
  BY <1>2, <1>4, <1>5, <1>6 DEF s, IsPartOf

\* A single tree.
LEMMA OneTree ==
  ASSUME NEW T, NEW t \in T
  PROVE  /\ <<t>> \in Seq(T) /\ Len(<<t>>) = 1 /\ <<t>>[1] = t
         /\ Over(<<t>>).ents = <<KidEntry(t.node)>>
         /\ HoldsOf(<<t>>) = t.holds /\ Sorted(<<t>>)
<1>1. <<t>> \in Seq(T) /\ Len(<<t>>) = 1 /\ <<t>>[1] = t /\ 1 .. 1 = {1}
  OBVIOUS
<1>2. HoldsOf(<<t>>) = t.holds
  BY <1>1 DEF HoldsOf
<1>3. Sorted(<<t>>)
  BY <1>1 DEF Sorted
<1>4. Over(<<t>>).ents = [i \in 1 .. 1 |-> KidEntry(<<t>>[i].node)]
  BY <1>1 DEF Over, Node
<1>5. [i \in 1 .. 1 |-> KidEntry(<<t>>[i].node)] = [i \in 1 .. 1 |-> KidEntry(t.node)]
  BY <1>1
<1>6. [i \in 1 .. 1 |-> KidEntry(t.node)] = <<KidEntry(t.node)>>
  OBVIOUS
<1> QED
  BY <1>1, <1>2, <1>3, <1>4, <1>5, <1>6

\* A row of trees around those from i to j.
LEMMA Around ==
  ASSUME NEW T, NEW q \in Seq(T), Sorted(q),
         NEW i \in 1 .. Len(q), NEW j \in 1 .. Len(q), i <= j
  PROVE  LET a == SubSeq(q, 1, i - 1)
             c == SubSeq(q, i, j)
             b == SubSeq(q, j + 1, Len(q))
         IN  /\ a \in Seq(T) /\ c \in Seq(T) /\ b \in Seq(T)
             /\ Sorted(a) /\ Sorted(c) /\ Sorted(b)
             /\ HoldsOf(q) = HoldsOf(a) \union HoldsOf(c) \union HoldsOf(b)
             /\ Precedes(HoldsOf(a), HoldsOf(c)) /\ Precedes(HoldsOf(c), HoldsOf(b))
             /\ Precedes(HoldsOf(a), HoldsOf(b))
             /\ HoldsOf(a) = UNION {q[l].holds : l \in 1 .. i - 1}
             /\ HoldsOf(c) = UNION {q[l].holds : l \in i .. j}
             /\ HoldsOf(b) = UNION {q[l].holds : l \in j + 1 .. Len(q)}
             /\ Over(a).ents = SubSeq(Over(q).ents, 1, i - 1)
             /\ Over(b).ents = SubSeq(Over(q).ents, j + 1, Len(q))
<1> DEFINE N == Len(q)
           a == SubSeq(q, 1, i - 1)
           c == SubSeq(q, i, j)
           b == SubSeq(q, j + 1, N)
<1>1. N \in Nat
  BY LenProperties
<1>2. /\ i - 1 \in Nat /\ 1 <= (i - 1) + 1 /\ i - 1 <= N /\ 1 \in Nat \ {0}
      /\ i \in Nat \ {0} /\ j \in Nat /\ i <= j + 1 /\ j <= N
      /\ j + 1 \in Nat \ {0} /\ j + 1 <= N + 1 /\ N <= N
  BY <1>1
<1>p. /\ IsPartOf(T, q, 1, i - 1, a) /\ IsPartOf(T, q, i, j, c)
      /\ IsPartOf(T, q, j + 1, N, b)
  BY <1>1, <1>2, PartTrees
<1> HIDE DEF a, b, c
<1>3. /\ a \in Seq(T) /\ Sorted(a) /\ Over(a).ents = SubSeq(Over(q).ents, 1, i - 1)
      /\ HoldsOf(a) = UNION {q[l].holds : l \in 1 .. i - 1}
  BY <1>p DEF IsPartOf
<1>4. c \in Seq(T) /\ Sorted(c) /\ HoldsOf(c) = UNION {q[l].holds : l \in i .. j}
  BY <1>p DEF IsPartOf
<1>5. /\ b \in Seq(T) /\ Sorted(b) /\ Over(b).ents = SubSeq(Over(q).ents, j + 1, N)
      /\ HoldsOf(b) = UNION {q[l].holds : l \in j + 1 .. N}
  BY <1>p DEF IsPartOf
<1> HIDE DEF N
<1>6. \A l \in 1 .. N : l \in 1 .. i - 1 \/ l \in i .. j \/ l \in j + 1 .. N
  BY <1>1
<1>7. /\ \A l \in 1 .. i - 1 : l \in 1 .. N
      /\ \A l \in i .. j : l \in 1 .. N
      /\ \A l \in j + 1 .. N : l \in 1 .. N
  BY <1>1, <1>2
<1>8. HoldsOf(q) = HoldsOf(a) \union HoldsOf(c) \union HoldsOf(b)
  <2>1. HoldsOf(q) = UNION {q[l].holds : l \in 1 .. N}
    BY DEF HoldsOf, N
  <2> QED
    BY <1>3, <1>4, <1>5, <1>6, <1>7, <2>1
<1>9. \A l, m \in 1 .. N : l < m => Precedes(q[l].holds, q[m].holds)
  BY DEF Sorted, N
<1>10. /\ \A l \in 1 .. i - 1, m \in i .. j : l < m
       /\ \A l \in i .. j, m \in j + 1 .. N : l < m
       /\ \A l \in 1 .. i - 1, m \in j + 1 .. N : l < m
  BY <1>1, <1>2
<1>11. Precedes(HoldsOf(a), HoldsOf(c))
  BY <1>3, <1>4, <1>7, <1>9, <1>10 DEF Precedes
<1>12. Precedes(HoldsOf(c), HoldsOf(b))
  BY <1>4, <1>5, <1>7, <1>9, <1>10 DEF Precedes
<1>13. Precedes(HoldsOf(a), HoldsOf(b))
  BY <1>3, <1>5, <1>7, <1>9, <1>10 DEF Precedes
<1> QED
  BY <1>3, <1>4, <1>5, <1>8, <1>11, <1>12, <1>13 DEF a, b, c, N

\* s is the rows a, m and b, one after the other.
IsBetween(T, a, m, b, s) ==
  /\ s \in Seq(T) /\ Len(s) = Len(a) + Len(m) + Len(b) /\ Sorted(s)
  /\ HoldsOf(s) = HoldsOf(a) \union HoldsOf(m) \union HoldsOf(b)
  /\ Over(s).ents = Over(a).ents \o Over(m).ents \o Over(b).ents

\* Other trees in the place of those.
LEMMA Between ==
  ASSUME NEW T, NEW a \in Seq(T), NEW m \in Seq(T), NEW b \in Seq(T),
         Sorted(a), Sorted(m), Sorted(b),
         Precedes(HoldsOf(a), HoldsOf(m)), Precedes(HoldsOf(m), HoldsOf(b)),
         Precedes(HoldsOf(a), HoldsOf(b))
  PROVE  IsBetween(T, a, m, b, a \o m \o b)
<1> DEFINE c == a \o m
           s == a \o m \o b
<1>1. IsJoin(T, a, m, c)
  BY JoinTrees
<1>2. c \in Seq(T)
  BY <1>1 DEF IsJoin
<1>3. IsJoin(T, c, b, s)
  <2> HIDE DEF c
  <2>1. IsJoin(T, c, b, c \o b)
    BY <1>2, JoinTrees
  <2> QED
    BY <2>1 DEF c
<1> HIDE DEF c, s
<1>4. /\ Len(c) = Len(a) + Len(m) /\ Sorted(c)
      /\ HoldsOf(c) = HoldsOf(a) \union HoldsOf(m)
      /\ Over(c).ents = Over(a).ents \o Over(m).ents
  BY <1>1 DEF IsJoin
<1>5. Precedes(HoldsOf(c), HoldsOf(b))
  BY <1>4 DEF Precedes
<1>6. /\ s \in Seq(T) /\ Len(s) = Len(c) + Len(b) /\ Sorted(s)
      /\ HoldsOf(s) = HoldsOf(c) \union HoldsOf(b)
      /\ Over(s).ents = Over(c).ents \o Over(b).ents
  BY <1>3, <1>4, <1>5 DEF IsJoin
<1>7. /\ s \in Seq(T) /\ Len(s) = Len(a) + Len(m) + Len(b) /\ Sorted(s)
      /\ HoldsOf(s) = HoldsOf(a) \union HoldsOf(m) \union HoldsOf(b)
      /\ Over(s).ents = Over(a).ents \o Over(m).ents \o Over(b).ents
  BY <1>4, <1>6
<1>8. IsBetween(T, a, m, b, s)
  BY <1>7 DEF IsBetween
<1> QED
  BY <1>8 DEF s

-----------------------------------------------------------------------------
(* Functions of the level. Those of BTree are defined by recursion; here    *)
(* they are shown to take each value from the one before.                   *)

\* A step of the way down.
Onward(n, key) == IF HasKids(n) THEN n.ents[NodeLookupLE(n, key)].p ELSE n

\* What becomes of the node at level l of a path, when below is what has become
\* of the one under it.
InsertStep(path, key, val, l, below) ==
  IF path[l].type = Leaf THEN LeafPut(path[l], key, val)
  ELSE IF l = MaxHeight \/ path[l].ents = << >> THEN Fatal("bounds")
  ELSE NodeInsert(path[l], NodeLookupLE(path[l], key), below)

DeleteStep(path, key, l, below) ==
  LET i == NodeLookupLE(path[l], key) IN
  IF path[l].type = Leaf
  THEN IF path[l].ents # << >> /\ path[l].ents[i].k = key THEN LeafDelete(path[l], i) ELSE NotFound
  ELSE IF l = MaxHeight \/ path[l].ents = << >> THEN Fatal("bounds")
  ELSE NodeDelete(path[l], i, below)

\* The steps of the functions of the level: downwards for c.what "path" and
\* "level", upwards for the others.
RunStep(c, l, x) ==
  CASE c.what = "path" -> Onward(x, c.key)
    [] c.what = "level" -> UNION {Kids(m) : m \in x}
    [] c.what = "insert" -> InsertStep(c.path, c.key, c.val, (MaxHeight + 1) - l, x)
    [] c.what = "delete" -> DeleteStep(c.path, c.key, (MaxHeight + 1) - l, x)

Runs(c, a, f, m) == f = [l \in 1 .. m |-> IF l = 1 THEN a ELSE RunStep(c, l, f[l - 1])]

\* Such functions exist.
LEMMA RunExists ==
  ASSUME NEW c, NEW a, NEW W \in Nat \ {0}
  PROVE  \E f : Runs(c, a, f, W)
<1> DEFINE T == {m \in 1 .. W : ~(\E f : Runs(c, a, f, m))}
<1>1. T = {}
  <2> SUFFICES ASSUME T # {} PROVE FALSE
    OBVIOUS
  <2>1. PICK m \in T : \A y \in T : m <= y
    <3>1. T \subseteq Nat /\ T # {}
      OBVIOUS
    <3> HIDE DEF T
    <3> QED
      BY <3>1, LeastNat
  <2>2. m \in 1 .. W /\ m \in Nat /\ ~(\E f : Runs(c, a, f, m))
    OBVIOUS
  <2>3. m # 1
    <3> SUFFICES ASSUME m = 1 PROVE FALSE
      OBVIOUS
    <3> DEFINE f == [l \in 1 .. m |-> a]
    <3>1. Runs(c, a, f, m)
      BY DEF Runs
    <3> QED
      BY <2>2, <3>1
  <2>4. PICK g : Runs(c, a, g, m - 1)
    <3>1. m - 1 \in 1 .. W /\ ~(m <= m - 1)
      BY <2>2, <2>3
    <3>2. m - 1 \notin T
      BY <2>1, <3>1
    <3> QED
      BY <3>1, <3>2
  <2> DEFINE f == [l \in 1 .. m |-> IF l < m THEN g[l] ELSE RunStep(c, m, g[m - 1])]
  <2>5. ASSUME NEW l \in 1 .. m
        PROVE  f[l] = IF l = 1 THEN a ELSE RunStep(c, l, f[l - 1])
    <3>1. l \in Int /\ 1 <= l /\ l <= m
      BY <2>2
    <3>2. l # 1 => f[l - 1] = g[l - 1]
      BY <2>2, <3>1
    <3>3. CASE l < m
      <4>1. l \in 1 .. m - 1 /\ f[l] = g[l]
        BY <2>2, <3>1, <3>3
      <4>2. g[l] = IF l = 1 THEN a ELSE RunStep(c, l, g[l - 1])
        BY <2>4, <4>1 DEF Runs
      <4> QED
        BY <3>2, <4>1, <4>2
    <3>4. CASE ~(l < m)
      <4>1. l = m /\ f[l] = RunStep(c, m, g[m - 1])
        BY <2>2, <3>1, <3>4
      <4> QED
        BY <2>3, <3>2, <4>1
    <3> QED
      BY <3>3, <3>4
  <2>6. Runs(c, a, f, m)
    BY <2>5 DEF Runs
  <2> QED
    BY <2>2, <2>6
<1>2. W \in 1 .. W
  OBVIOUS
<1> QED
  BY <1>1, <1>2

\* The way down goes step by step.
LEMMA PathStep ==
  ASSUME NEW n, NEW key
  PROVE  /\ Path(n, key)[1] = n
         /\ \A l \in 1 .. MaxHeight - 1 : Path(n, key)[l + 1] = Onward(Path(n, key)[l], key)
<1> DEFINE W == MaxHeight
           c == [what |-> "path", key |-> key]
           IsPath(p) == p = [l \in 1 .. W |->
                               IF l = 1 THEN n
                               ELSE IF ~HasKids(p[l - 1]) THEN p[l - 1]
                               ELSE p[l - 1].ents[NodeLookupLE(p[l - 1], key)].p]
           P == Path(n, key)
<1>1. W \in Nat \ {0}
  BY BTreeAssumption
<1>2. P = CHOOSE p : IsPath(p)
  BY DEF Path
<1>3. \A l, x : RunStep(c, l, x) = Onward(x, key)
  BY DEF RunStep
<1> HIDE DEF W, c
<1>4. PICK f : Runs(c, n, f, W)
  BY <1>1, RunExists
<1>5. IsPath(f)
  <2>1. ASSUME NEW l \in 1 .. W
        PROVE  f[l] = IF l = 1 THEN n
                      ELSE IF ~HasKids(f[l - 1]) THEN f[l - 1]
                      ELSE f[l - 1].ents[NodeLookupLE(f[l - 1], key)].p
    <3>1. f[l] = IF l = 1 THEN n ELSE RunStep(c, l, f[l - 1])
      BY <1>4 DEF Runs
    <3> QED
      BY <1>3, <3>1 DEF Onward
  <2>2. f = [l \in 1 .. W |-> f[l]]
    BY <1>4 DEF Runs
  <2> QED
    BY <2>1, <2>2
<1>6. IsPath(P)
  <2> HIDE DEF IsPath, P
  <2> QED
    BY <1>2, <1>5
<1> HIDE DEF P
<1>7. P[1] = n
  BY <1>1, <1>6
<1>8. ASSUME NEW l \in 1 .. W - 1 PROVE P[l + 1] = Onward(P[l], key)
  <2>1. l + 1 \in 1 .. W /\ l + 1 # 1 /\ (l + 1) - 1 = l
    BY <1>1
  <2>2. P[l + 1] = IF ~HasKids(P[l]) THEN P[l] ELSE P[l].ents[NodeLookupLE(P[l], key)].p
    BY <1>6, <2>1
  <2> QED
    BY <2>2 DEF Onward
<1> QED
  BY <1>7, <1>8 DEF P, W

\* Levels follow one another.
LEMMA LevelStep ==
  ASSUME NEW n, n # NoTree
  PROVE  /\ Level(n)[1] = {n}
         /\ \A l \in 1 .. MaxHeight - 1 : Level(n)[l + 1] = UNION {Kids(m) : m \in Level(n)[l]}
<1> DEFINE W == MaxHeight
           c == [what |-> "level"]
           IsLevel(p) == p = [l \in 1 .. W |->
                                IF n = NoTree THEN {}
                                ELSE IF l = 1 THEN {n}
                                ELSE UNION {Kids(m) : m \in p[l - 1]}]
           P == Level(n)
<1>1. W \in Nat \ {0}
  BY BTreeAssumption
<1>2. P = CHOOSE p : IsLevel(p)
  BY DEF Level
<1>3. \A l, x : RunStep(c, l, x) = UNION {Kids(m) : m \in x}
  BY DEF RunStep
<1> HIDE DEF W, c
<1>4. PICK f : Runs(c, {n}, f, W)
  BY <1>1, RunExists
<1>5. IsLevel(f)
  <2>1. ASSUME NEW l \in 1 .. W
        PROVE  f[l] = IF l = 1 THEN {n} ELSE UNION {Kids(m) : m \in f[l - 1]}
    <3>1. f[l] = IF l = 1 THEN {n} ELSE RunStep(c, l, f[l - 1])
      BY <1>4 DEF Runs
    <3> QED
      BY <1>3, <3>1
  <2>2. f = [l \in 1 .. W |-> f[l]]
    BY <1>4 DEF Runs
  <2> QED
    BY <2>1, <2>2
<1>6. IsLevel(P)
  <2> HIDE DEF IsLevel, P
  <2> QED
    BY <1>2, <1>5
<1> HIDE DEF P
<1>7. P[1] = {n}
  BY <1>1, <1>6
<1>8. ASSUME NEW l \in 1 .. W - 1 PROVE P[l + 1] = UNION {Kids(m) : m \in P[l]}
  <2>1. l + 1 \in 1 .. W /\ l + 1 # 1 /\ (l + 1) - 1 = l
    BY <1>1
  <2> QED
    BY <1>6, <2>1
<1> QED
  BY <1>7, <1>8 DEF P, W

\* No tree, no nodes.
LEMMA NoLevels ==
  \A l \in 1 .. MaxHeight : Level(NoTree)[l] = {}
<1> DEFINE W == MaxHeight
           IsLevel(p) == p = [l \in 1 .. W |->
                                IF NoTree = NoTree THEN {}
                                ELSE IF l = 1 THEN {NoTree}
                                ELSE UNION {Kids(m) : m \in p[l - 1]}]
           f == [l \in 1 .. W |-> {}]
<1>1. Level(NoTree) = CHOOSE p : IsLevel(p)
  BY DEF Level
<1>2. IsLevel(f)
  OBVIOUS
<1>3. IsLevel(Level(NoTree))
  <2> HIDE DEF IsLevel, f
  <2> QED
    BY <1>1, <1>2
<1> QED
  BY <1>3

\* What Insert makes of a path, from the leaf up.
LEMMA InsertFollows ==
  ASSUME NEW n, NEW key, NEW val
  PROVE  \E new : /\ TreeInsert(n, key, val) = new[1]
                  /\ \A l \in 1 .. MaxHeight :
                       new[l] = InsertStep(Path(n, key), key, val, l, new[l + 1])
<1> DEFINE W == MaxHeight
           path == Path(n, key)
           c == [what |-> "insert", path |-> path, key |-> key, val |-> val]
           IsNew(p) == p = [l \in 1 .. W |->
                              IF path[l].type = Leaf THEN LeafPut(path[l], key, val)
                              ELSE IF l = W \/ path[l].ents = << >> THEN Fatal("bounds")
                              ELSE NodeInsert(path[l], NodeLookupLE(path[l], key), p[l + 1])]
           new == CHOOSE p : IsNew(p)
           a == InsertStep(path, key, val, W, Nil)
<1>1. W \in Nat \ {0}
  BY BTreeAssumption
<1>2. TreeInsert(n, key, val) = new[1]
  BY DEF TreeInsert
<1>3. \A l, x : RunStep(c, l, x) = InsertStep(path, key, val, (W + 1) - l, x)
  BY DEF RunStep
<1>4. \A x : InsertStep(path, key, val, W, x) = a
  BY DEF InsertStep
<1>5. \A l, x : InsertStep(path, key, val, l, x)
                  = (IF path[l].type = Leaf THEN LeafPut(path[l], key, val)
                     ELSE IF l = W \/ path[l].ents = << >> THEN Fatal("bounds")
                     ELSE NodeInsert(path[l], NodeLookupLE(path[l], key), x))
  BY DEF InsertStep
<1> HIDE DEF W, c, path, a
<1>6. PICK g : Runs(c, a, g, W)
  BY <1>1, RunExists
<1> DEFINE f == [l \in 1 .. W |-> g[(W + 1) - l]]
<1>7. ASSUME NEW l \in 1 .. W PROVE f[l] = InsertStep(path, key, val, l, f[l + 1])
  <2>1. (W + 1) - l \in 1 .. W /\ (W + 1) - ((W + 1) - l) = l
    BY <1>1
  <2>2. CASE l = W
    <3>1. f[l] = g[1] /\ g[1] = a
      BY <1>1, <1>6, <2>1, <2>2 DEF Runs
    <3> QED
      BY <1>4, <2>2, <3>1
  <2>3. CASE l # W
    <3>1. (W + 1) - l # 1 /\ l + 1 \in 1 .. W /\ ((W + 1) - l) - 1 = (W + 1) - (l + 1)
      BY <1>1, <2>3
    <3>2. g[(W + 1) - l] = RunStep(c, (W + 1) - l, g[((W + 1) - l) - 1])
      BY <1>6, <2>1, <3>1 DEF Runs
    <3>3. f[l + 1] = g[(W + 1) - (l + 1)]
      BY <3>1
    <3>4. f[l] = RunStep(c, (W + 1) - l, f[l + 1])
      BY <3>1, <3>2, <3>3
    <3> QED
      BY <1>3, <2>1, <3>4
  <2> QED
    BY <2>2, <2>3
<1>8. f = [l \in 1 .. W |-> f[l]]
  OBVIOUS
<1> HIDE DEF f
<1>9. IsNew(f)
  BY <1>5, <1>7, <1>8
<1>10. IsNew(new)
  <2> HIDE DEF IsNew
  <2> QED
    BY <1>9
<1> HIDE DEF new
<1>11. ASSUME NEW l \in 1 .. W PROVE new[l] = InsertStep(path, key, val, l, new[l + 1])
  <2>1. new[l] = (IF path[l].type = Leaf THEN LeafPut(path[l], key, val)
                  ELSE IF l = W \/ path[l].ents = << >> THEN Fatal("bounds")
                  ELSE NodeInsert(path[l], NodeLookupLE(path[l], key), new[l + 1]))
    BY <1>10
  <2> HIDE DEF IsNew
  <2> QED
    BY <1>5, <2>1
<1> QED
  BY <1>2, <1>11 DEF W, path

\* What Delete makes of a path, from the leaf up.
LEMMA DeleteFollows ==
  ASSUME NEW n, NEW key
  PROVE  \E new : /\ TreeDelete(n, key) = new[1]
                  /\ \A l \in 1 .. MaxHeight :
                       new[l] = DeleteStep(Path(n, key), key, l, new[l + 1])
<1> DEFINE W == MaxHeight
           path == Path(n, key)
           c == [what |-> "delete", path |-> path, key |-> key]
           at(l) == NodeLookupLE(path[l], key)
           IsNew(p) == p = [l \in 1 .. W |->
                              IF path[l].type = Leaf
                              THEN IF path[l].ents # << >> /\ path[l].ents[at(l)].k = key
                                   THEN LeafDelete(path[l], at(l)) ELSE NotFound
                              ELSE IF l = W \/ path[l].ents = << >> THEN Fatal("bounds")
                              ELSE NodeDelete(path[l], at(l), p[l + 1])]
           new == CHOOSE p : IsNew(p)
           a == DeleteStep(path, key, W, Nil)
<1>1. W \in Nat \ {0}
  BY BTreeAssumption
<1>2. TreeDelete(n, key) = new[1]
  BY DEF TreeDelete
<1>3. \A l, x : RunStep(c, l, x) = DeleteStep(path, key, (W + 1) - l, x)
  BY DEF RunStep
<1>4. \A x : DeleteStep(path, key, W, x) = a
  BY DEF DeleteStep
<1>5. \A l, x : DeleteStep(path, key, l, x)
                  = (IF path[l].type = Leaf
                     THEN IF path[l].ents # << >> /\ path[l].ents[at(l)].k = key
                          THEN LeafDelete(path[l], at(l)) ELSE NotFound
                     ELSE IF l = W \/ path[l].ents = << >> THEN Fatal("bounds")
                     ELSE NodeDelete(path[l], at(l), x))
  BY DEF DeleteStep
<1> HIDE DEF W, c, path, a, at
<1>6. PICK g : Runs(c, a, g, W)
  BY <1>1, RunExists
<1> DEFINE f == [l \in 1 .. W |-> g[(W + 1) - l]]
<1>7. ASSUME NEW l \in 1 .. W PROVE f[l] = DeleteStep(path, key, l, f[l + 1])
  <2>1. (W + 1) - l \in 1 .. W /\ (W + 1) - ((W + 1) - l) = l
    BY <1>1
  <2>2. CASE l = W
    <3>1. f[l] = g[1] /\ g[1] = a
      BY <1>1, <1>6, <2>1, <2>2 DEF Runs
    <3> QED
      BY <1>4, <2>2, <3>1
  <2>3. CASE l # W
    <3>1. (W + 1) - l # 1 /\ l + 1 \in 1 .. W /\ ((W + 1) - l) - 1 = (W + 1) - (l + 1)
      BY <1>1, <2>3
    <3>2. g[(W + 1) - l] = RunStep(c, (W + 1) - l, g[((W + 1) - l) - 1])
      BY <1>6, <2>1, <3>1 DEF Runs
    <3>3. f[l + 1] = g[(W + 1) - (l + 1)]
      BY <3>1
    <3>4. f[l] = RunStep(c, (W + 1) - l, f[l + 1])
      BY <3>1, <3>2, <3>3
    <3> QED
      BY <1>3, <2>1, <3>4
  <2> QED
    BY <2>2, <2>3
<1>8. f = [l \in 1 .. W |-> f[l]]
  OBVIOUS
<1> HIDE DEF f
<1>9. IsNew(f)
  BY <1>5, <1>7, <1>8
<1>10. IsNew(new)
  <2> HIDE DEF IsNew
  <2> QED
    BY <1>9
<1> HIDE DEF new
<1>11. ASSUME NEW l \in 1 .. W PROVE new[l] = DeleteStep(path, key, l, new[l + 1])
  <2>1. new[l] = (IF path[l].type = Leaf
                  THEN IF path[l].ents # << >> /\ path[l].ents[at(l)].k = key
                       THEN LeafDelete(path[l], at(l)) ELSE NotFound
                  ELSE IF l = W \/ path[l].ents = << >> THEN Fatal("bounds")
                  ELSE NodeDelete(path[l], at(l), new[l + 1]))
    BY <1>10
  <2> HIDE DEF IsNew
  <2> QED
    BY <1>5, <2>1
<1> QED
  BY <1>2, <1>11 DEF W, path

-----------------------------------------------------------------------------
(* The way down a tree.                                                     *)

\* What is known of trees side by side.
LEMMA RowFacts ==
  ASSUME NEW h \in 0 .. MaxHeight, NEW q \in Seq(Trees[h])
  PROVE  /\ Len(q) \in Nat
         /\ \A i \in 1 .. Len(q) : q[i] \in Trees[h] /\ Sane(q[i], h)
         /\ Over(q).type = Inner /\ NKeys(Over(q)) = Len(q)
         /\ IsEnts(Over(q).ents)
         /\ \A i \in 1 .. Len(q) : /\ Over(q).ents[i].k = FirstKey(q[i].node)
                                   /\ Over(q).ents[i].v = Nil
                                   /\ Over(q).ents[i].p = q[i].node
<1>1. \A i \in 1 .. Len(q) : q[i] \in Trees[h]
  BY ElementOfSeq
<1>2. \A i \in 1 .. Len(q) : Sane(q[i], h)
  BY <1>1, TreeSane
<1>3. \A i \in 1 .. Len(q) : FirstKey(q[i].node) \in Key \union {0}
  BY <1>2 DEF Sane
<1> QED
  BY <1>1, <1>2, <1>3, OverFacts

\* The kid a search goes to: what comes before it has smaller keys, what comes
\* after it larger ones.
LEMMA KidFor ==
  ASSUME NEW h \in 0 .. MaxHeight, NEW q \in Seq(Trees[h]), IsTreeSeq(q), NEW key \in Nat
  PROVE  LET i == NodeLookupLE(Over(q), key) IN
         /\ i \in 1 .. Len(q)
         /\ \A l \in 1 .. i - 1 : \A x \in q[l].holds : x.k < key
         /\ \A l \in i + 1 .. Len(q) : \A x \in q[l].holds : key < x.k
<1> DEFINE i == NodeLookupLE(Over(q), key)
           n == Over(q)
<1>1. /\ Len(q) \in Nat /\ NKeys(n) = Len(q) /\ IsEnts(n.ents)
      /\ \A l \in 1 .. Len(q) : Sane(q[l], h) /\ n.ents[l].k = FirstKey(q[l].node)
  BY RowFacts
<1>2. Sorted(q) /\ q # << >>
  BY DEF IsTreeSeq
<1>3. ASSUME NEW l \in 1 .. Len(q)
      PROVE  /\ FirstKey(q[l].node) \in Nat
             /\ \E x \in q[l].holds : x.k = FirstKey(q[l].node)
             /\ \A x \in q[l].holds : FirstKey(q[l].node) <= x.k /\ x.k \in Nat
  BY <1>1, LeafEntries DEF Sane
<1>4. ASSUME NEW l \in 1 .. Len(q), NEW m \in 1 .. Len(q), l < m, NEW x \in q[l].holds
      PROVE  x.k < FirstKey(q[m].node)
  <2>1. PICK y \in q[m].holds : y.k = FirstKey(q[m].node)
    BY <1>3
  <2> QED
    BY <1>2, <1>4, <2>1 DEF Sorted, Precedes
<1>5. Ascending(n.ents)
  <2>1. ASSUME NEW l \in 1 .. Len(q), NEW m \in 1 .. Len(q), l < m
        PROVE  FirstKey(q[l].node) < FirstKey(q[m].node)
    BY <1>3, <1>4, <2>1
  <2> QED
    BY <1>1, <2>1 DEF Ascending, NKeys
<1>6. n.ents # << >>
  BY <1>1, <1>2, EmptySeq DEF NKeys
<1> HIDE DEF n, i
<1>7. /\ i \in 1 .. NKeys(n)
      /\ i # 1 => n.ents[i].k <= key
      /\ \A j \in 1 .. NKeys(n) : i < j => key < n.ents[j].k
  BY <1>1, <1>5, <1>6, LookupIs DEF i, n
<1>8. ASSUME NEW l \in 1 .. i - 1, NEW x \in q[l].holds PROVE x.k < key
  <2>1. l \in 1 .. Len(q) /\ l < i /\ i # 1 /\ i \in 1 .. Len(q)
    BY <1>1, <1>7
  <2>2. x.k < FirstKey(q[i].node) /\ FirstKey(q[i].node) <= key
    BY <1>1, <1>4, <1>7, <2>1
  <2>3. x.k \in Nat /\ FirstKey(q[i].node) \in Nat
    BY <1>3, <2>1
  <2> QED
    BY <2>2, <2>3
<1>9. ASSUME NEW l \in i + 1 .. Len(q), NEW x \in q[l].holds PROVE key < x.k
  <2>1. l \in 1 .. Len(q) /\ i < l
    BY <1>1, <1>7
  <2>2. key < FirstKey(q[l].node) /\ FirstKey(q[l].node) <= x.k
    BY <1>1, <1>3, <1>7, <2>1
  <2>3. x.k \in Nat /\ FirstKey(q[l].node) \in Nat
    BY <1>3, <2>1
  <2> QED
    BY <2>2, <2>3
<1> QED
  BY <1>1, <1>7, <1>8, <1>9 DEF i, n

\* The node of a leaf and of an inner tree.
LEMMA TreeNode ==
  ASSUME NEW h \in 0 .. MaxHeight, NEW t \in Trees[h]
  PROVE  /\ Sane(t, h) /\ t.node # NoTree /\ ~IsFatal(t.node) /\ t.node.ents # << >>
         /\ HasKids(t.node) <=> h # 0
         /\ h = 0 => t.node.type = Leaf /\ t.node.ents \in Seq(LeafEntry)
                     /\ IsLeafSeq(t.node.ents) /\ t = Single(t.node.ents)
                     /\ t.holds = EntsIn(t.node.ents)
         /\ h # 0 => t.node.type = Inner
                     /\ \E q \in Seq(Trees[h - 1]) : IsTreeSeq(q) /\ t = Combined(q)
                                                  /\ t.node = Over(q) /\ t.holds = HoldsOf(q)
<1>1. Sane(t, h)
  BY TreeSane
<1>2. t.node.ents # << >> /\ t.node.type = IF h = 0 THEN Leaf ELSE Inner
  BY <1>1 DEF Sane
<1>3. t.node # NoTree /\ ~IsFatal(t.node) /\ (HasKids(t.node) <=> h # 0)
  <2>1. t.node.type # "none"
    BY <1>2 DEF Leaf, Inner
  <2>2. NoTree.type = "none"
    BY DEF NoTree, Node
  <2> QED
    BY <1>2, <2>1, <2>2 DEF IsFatal, HasKids, Leaf, Inner
<1>4. ASSUME h = 0
      PROVE  /\ t.node.ents \in Seq(LeafEntry) /\ IsLeafSeq(t.node.ents)
             /\ t = Single(t.node.ents) /\ t.holds = EntsIn(t.node.ents)
  <2>1. PICK s \in Seq(LeafEntry) : IsLeafSeq(s) /\ t = Single(s)
    BY <1>4, LeafTreeIs
  <2>2. t.node.ents = s /\ t.holds = EntsIn(s)
    BY <2>1 DEF Single, Node
  <2> QED
    BY <2>1, <2>2
<1>5. ASSUME h # 0
      PROVE  \E q \in Seq(Trees[h - 1]) : IsTreeSeq(q) /\ t = Combined(q)
                                       /\ t.node = Over(q) /\ t.holds = HoldsOf(q)
  <2>1. h \in 1 .. MaxHeight
    BY <1>5, TreesStep
  <2>2. PICK q \in Seq(Trees[h - 1]) : IsTreeSeq(q) /\ t = Combined(q)
    BY <2>1, InnerTreeIs
  <2>3. t.node = Over(q) /\ t.holds = HoldsOf(q)
    BY <2>2 DEF Combined
  <2> QED
    BY <2>2, <2>3
<1> QED
  BY <1>1, <1>2, <1>3, <1>4, <1>5

\* One level down: the kid the key leads to holds what the tree holds for the key.
LEMMA Descend ==
  ASSUME NEW h \in 1 .. MaxHeight, NEW t \in Trees[h], NEW key \in Nat
  PROVE  \E u \in Trees[h - 1] : /\ u.node = Onward(t.node, key)
                                 /\ u.holds \subseteq t.holds
                                 /\ \A x \in t.holds : x.k = key => x \in u.holds
<1>1. h \in 0 .. MaxHeight /\ h - 1 \in 0 .. MaxHeight /\ h # 0
  BY TreesStep
<1>2. PICK q \in Seq(Trees[h - 1]) : IsTreeSeq(q) /\ t.node = Over(q) /\ t.holds = HoldsOf(q)
  BY <1>1, TreeNode
<1>3. HasKids(t.node)
  BY <1>1, TreeNode
<1> DEFINE i == NodeLookupLE(Over(q), key)
<1>4. /\ i \in 1 .. Len(q)
      /\ \A l \in 1 .. i - 1 : \A x \in q[l].holds : x.k < key
      /\ \A l \in i + 1 .. Len(q) : \A x \in q[l].holds : key < x.k
  BY <1>1, <1>2, KidFor
<1>5. Onward(t.node, key) = Over(q).ents[i].p
  BY <1>2, <1>3 DEF Onward
<1> HIDE DEF i
<1>6. /\ Len(q) \in Nat /\ q[i] \in Trees[h - 1] /\ Over(q).ents[i].p = q[i].node
      /\ \A l \in 1 .. Len(q) : Sane(q[l], h - 1)
  BY <1>1, <1>4, RowFacts
<1>7. ASSUME NEW x \in t.holds, x.k = key PROVE x \in q[i].holds
  <2>1. PICK l \in 1 .. Len(q) : x \in q[l].holds
    BY <1>2, HoldsOfFacts
  <2>2. ~(x.k < key) /\ ~(key < x.k)
    BY <1>7
  <2>3. l \notin 1 .. i - 1 /\ l \notin i + 1 .. Len(q)
    BY <1>4, <2>1, <2>2
  <2>4. l = i
    BY <1>4, <1>6, <2>3
  <2> QED
    BY <2>1, <2>4
<1>8. q[i].holds \subseteq t.holds
  BY <1>2, <1>4, HoldsOfFacts
<1> QED
  BY <1>5, <1>6, <1>7, <1>8

\* u is the tree at level l of the way of a key down tree t of height h.
OnWay(t, h, key, l, u) ==
  /\ u \in Trees[IF l <= h THEN (h + 1) - l ELSE 0]
  /\ u.node = Path(t.node, key)[l]
  /\ u.holds \subseteq t.holds
  /\ \A x \in t.holds : x.k = key => x \in u.holds

\* There is a tree at every level of the way.
LEMMA Ways ==
  ASSUME NEW h \in 0 .. MaxHeight, NEW t \in Trees[h], NEW key \in Nat
  PROVE  \A l \in 1 .. MaxHeight : \E u : OnWay(t, h, key, l, u)
<1> DEFINE T == {l \in 1 .. MaxHeight : ~(\E u : OnWay(t, h, key, l, u))}
           P == Path(t.node, key)
<1> SUFFICES ASSUME T # {} PROVE FALSE
  OBVIOUS
<1>1. MaxHeight \in Nat /\ h \in Nat /\ h <= MaxHeight
  BY TreesStep
<1>2. PICK l \in T : \A y \in T : l <= y
  <2>1. T \subseteq Nat /\ T # {}
    BY <1>1
  <2> HIDE DEF T
  <2> QED
    BY <2>1, LeastNat
<1>3. l \in 1 .. MaxHeight /\ ~(\E u : OnWay(t, h, key, l, u))
  OBVIOUS
<1>4. P[1] = t.node /\ \A m \in 1 .. MaxHeight - 1 : P[m + 1] = Onward(P[m], key)
  BY PathStep
<1>5. l # 1
  <2> SUFFICES ASSUME l = 1 PROVE FALSE
    OBVIOUS
  <2>1. (IF l <= h THEN (h + 1) - l ELSE 0) = h
    BY <1>1
  <2>2. OnWay(t, h, key, l, t)
    BY <1>4, <2>1 DEF OnWay
  <2> QED
    BY <1>3, <2>2
<1> DEFINE m == l - 1
<1>6. m \in 1 .. MaxHeight /\ m \in 1 .. MaxHeight - 1 /\ m + 1 = l /\ ~(l <= m)
  BY <1>1, <1>3, <1>5
<1>7. m \notin T
  BY <1>2, <1>6
<1>8. PICK w : OnWay(t, h, key, m, w)
  BY <1>6, <1>7
<1> HIDE DEF T, m
<1>9. P[l] = Onward(P[m], key)
  BY <1>4, <1>6
<1>10. /\ w \in Trees[IF m <= h THEN (h + 1) - m ELSE 0] /\ w.node = P[m]
       /\ w.holds \subseteq t.holds /\ \A x \in t.holds : x.k = key => x \in w.holds
  BY <1>8 DEF OnWay
<1> HIDE DEF P
<1>11. CASE m <= h
  <2> DEFINE d == (h + 1) - m
  <2>1. d \in 1 .. MaxHeight /\ d - 1 = (IF l <= h THEN (h + 1) - l ELSE 0)
    BY <1>1, <1>6, <1>11
  <2>2. w \in Trees[d]
    BY <1>10, <1>11
  <2> HIDE DEF d
  <2>3. PICK u \in Trees[d - 1] : /\ u.node = Onward(w.node, key)
                                  /\ u.holds \subseteq w.holds
                                  /\ \A x \in w.holds : x.k = key => x \in u.holds
    BY <2>1, <2>2, Descend
  <2>4. u \in Trees[IF l <= h THEN (h + 1) - l ELSE 0]
    BY <2>1
  <2>5. u.node = P[l] /\ u.holds \subseteq t.holds /\ \A x \in t.holds : x.k = key => x \in u.holds
    BY <1>9, <1>10, <2>3
  <2>6. OnWay(t, h, key, l, u)
    BY <2>4, <2>5 DEF OnWay, P
  <2> QED
    BY <1>3, <2>6
<1>12. CASE ~(m <= h)
  <2>1. (IF l <= h THEN (h + 1) - l ELSE 0) = 0 /\ (IF m <= h THEN (h + 1) - m ELSE 0) = 0
    BY <1>1, <1>6, <1>12
  <2>2. w \in Trees[0] /\ 0 \in 0 .. MaxHeight
    BY <1>1, <1>10, <2>1
  <2>3. ~HasKids(w.node)
    BY <2>2, TreeNode
  <2>4. w.node = P[l]
    BY <1>9, <1>10, <2>3 DEF Onward
  <2>5. OnWay(t, h, key, l, w)
    BY <1>10, <2>1, <2>2, <2>4 DEF OnWay, P
  <2> QED
    BY <1>3, <2>5
<1> QED
  BY <1>11, <1>12

\* A tree within the bound has its leaves within the bound.
LEMMA HeightWithin ==
  ASSUME NEW h \in 0 .. MaxHeight, NEW t \in Trees[h], WithinHeight(t.node)
  PROVE  h < MaxHeight
<1>1. MaxHeight \in Nat /\ MaxHeight >= 1 /\ h \in Nat /\ h <= MaxHeight /\ 0 \in Nat
  BY TreesStep
<1>2. PICK u : OnWay(t, h, 0, MaxHeight, u)
  <2>1. MaxHeight \in 1 .. MaxHeight
    BY <1>1
  <2> QED
    BY <1>1, <2>1, Ways
<1> SUFFICES ASSUME ~(h < MaxHeight) PROVE FALSE
  OBVIOUS
<1>3. (IF MaxHeight <= h THEN (h + 1) - MaxHeight ELSE 0) = 1 /\ 1 \in 0 .. MaxHeight
  BY <1>1
<1>4. u \in Trees[1] /\ u.node = Path(t.node, 0)[MaxHeight]
  BY <1>2, <1>3 DEF OnWay
<1>5. HasKids(u.node)
  BY <1>3, <1>4, TreeNode
<1> QED
  BY <1>4, <1>5 DEF WithinHeight

\* A lookup finds what the tree holds.
LEMMA GetValFinds ==
  ASSUME NEW h \in 0 .. MaxHeight, h < MaxHeight, NEW t \in Trees[h], NEW key \in Nat
  PROVE  /\ \A x \in t.holds : x.k = key => GetVal(t.node, key) = x.v
         /\ (\A x \in t.holds : x.k # key) => GetVal(t.node, key) = Absent
<1>1. MaxHeight \in Nat /\ MaxHeight >= 1 /\ h \in Nat /\ MaxHeight \in 1 .. MaxHeight
  BY TreesStep
<1>2. PICK u : OnWay(t, h, key, MaxHeight, u)
  BY <1>1, Ways
<1>3. ~(MaxHeight <= h)
  BY <1>1
<1>4. /\ u \in Trees[0] /\ u.node = Path(t.node, key)[MaxHeight]
      /\ u.holds \subseteq t.holds /\ \A x \in t.holds : x.k = key => x \in u.holds
  BY <1>2, <1>3 DEF OnWay
<1> DEFINE n == u.node
           i == NodeLookupLE(n, key)
<1>5. Sane(u, 0) /\ n.ents # << >> /\ u.holds = EntsIn(n.ents)
  <2>1. 0 \in 0 .. MaxHeight
    BY <1>1
  <2> QED
    BY <1>4, <2>1, TreeNode
<1>6. t.node # NoTree
  BY TreeNode
<1>7. GetVal(t.node, key) = IF n.ents[i].k = key THEN n.ents[i].v ELSE Absent
  BY <1>4, <1>5, <1>6 DEF GetVal
<1>8. IsEnts(n.ents) /\ Ascending(n.ents) /\ \A x, y \in u.holds : x.k = y.k => x = y
  BY <1>5 DEF Sane
<1>9. i \in 1 .. Len(n.ents) /\ \A j \in 1 .. Len(n.ents) : i < j => key < n.ents[j].k
  BY <1>5, <1>8, LookupIs DEF NKeys
<1>10. Len(n.ents) \in Nat /\ \A j \in 1 .. Len(n.ents) : n.ents[j].k \in Nat
  BY <1>8, EntryFacts
<1> HIDE DEF n, i
<1>11. n.ents[i] \in u.holds
  BY <1>5, <1>9 DEF EntsIn
<1>12. ASSUME NEW x \in t.holds, x.k = key PROVE n.ents[i].k = key /\ n.ents[i].v = x.v
  <2>1. PICK j \in 1 .. Len(n.ents) : x = n.ents[j]
    BY <1>4, <1>5, <1>12 DEF EntsIn
  <2>2. ~(i < j)
    BY <1>9, <1>10, <1>12, <2>1
  <2>3. n.ents[i].k = key
    <3>1. CASE i = j
      BY <1>12, <2>1, <3>1
    <3>2. CASE i # j
      <4>1. j < i
        BY <1>9, <1>10, <2>2, <3>2
      <4>2. i # 1 /\ n.ents[j].k < n.ents[i].k
        BY <1>8, <1>9, <1>10, <4>1 DEF Ascending
      <4>3. n.ents[i].k <= key
        BY <1>5, <1>8, <4>2, LookupIs DEF i, n
      <4> QED
        BY <1>9, <1>10, <1>12, <2>1, <4>2, <4>3
    <3> QED
      BY <3>1, <3>2
  <2>4. n.ents[i] = x
    BY <1>4, <1>8, <1>11, <1>12, <2>3
  <2> QED
    BY <2>3, <2>4
<1>13. (\A x \in t.holds : x.k # key) => n.ents[i].k # key
  BY <1>4, <1>11
<1> QED
  BY <1>7, <1>12, <1>13

\* The nodes of a tree, level by level.
LEMMA LevelsOf ==
  ASSUME NEW h \in 0 .. MaxHeight, NEW t \in Trees[h]
  PROVE  \A l \in 1 .. MaxHeight : \A m \in Level(t.node)[l] :
           l <= h + 1 /\ \E u \in Trees[(h + 1) - l] : u.node = m
<1> DEFINE Q(l) == \A m \in Level(t.node)[l] : l <= h + 1 /\ \E u \in Trees[(h + 1) - l] : u.node = m
           T == {l \in 1 .. MaxHeight : ~Q(l)}
<1> SUFFICES ASSUME T # {} PROVE FALSE
  OBVIOUS
<1>1. MaxHeight \in Nat /\ h \in Nat /\ h <= MaxHeight
  BY TreesStep
<1>2. PICK l \in T : \A y \in T : l <= y
  <2>1. T \subseteq Nat /\ T # {}
    BY <1>1
  <2> HIDE DEF T
  <2> QED
    BY <2>1, LeastNat
<1>3. l \in 1 .. MaxHeight /\ ~Q(l)
  OBVIOUS
<1>4. /\ Level(t.node)[1] = {t.node}
      /\ \A k \in 1 .. MaxHeight - 1 :
           Level(t.node)[k + 1] = UNION {Kids(m) : m \in Level(t.node)[k]}
  BY TreeNode, LevelStep
<1>5. l # 1
  <2> SUFFICES ASSUME l = 1 PROVE FALSE
    OBVIOUS
  <2>1. (h + 1) - l = h /\ l <= h + 1
    BY <1>1
  <2>2. Q(l)
    BY <1>4, <2>1
  <2> QED
    BY <1>3, <2>2
<1> DEFINE k == l - 1
<1>6. k \in 1 .. MaxHeight /\ k \in 1 .. MaxHeight - 1 /\ k + 1 = l /\ ~(l <= k)
  BY <1>1, <1>3, <1>5
<1>7. Q(k)
  BY <1>2, <1>6
<1>8. Level(t.node)[l] = UNION {Kids(m) : m \in Level(t.node)[k]}
  BY <1>4, <1>6
<1>9. ASSUME NEW m \in Level(t.node)[l]
      PROVE  l <= h + 1 /\ \E u \in Trees[(h + 1) - l] : u.node = m
  <2>1. PICK p \in Level(t.node)[k] : m \in Kids(p)
    BY <1>8, <1>9
  <2>2. k <= h + 1 /\ \E w \in Trees[(h + 1) - k] : w.node = p
    BY <1>7, <2>1
  <2>3. PICK w \in Trees[(h + 1) - k] : w.node = p
    BY <2>2
  <2>4. (h + 1) - k \in 0 .. MaxHeight
    BY <1>1, <1>6, <2>2
  <2>5. p.type = Inner /\ \E i \in 1 .. NKeys(p) : m = p.ents[i].p
    BY <2>1 DEF Kids
  <2>6. (h + 1) - k # 0
    <3>1. (h + 1) - k = 0 => w.node.type = Leaf
      BY <2>3, <2>4, TreeNode
    <3> QED
      BY <2>3, <2>5, <3>1 DEF Leaf, Inner
  <2>7. PICK q \in Seq(Trees[((h + 1) - k) - 1]) : p = Over(q)
    BY <2>3, <2>4, <2>6, TreeNode
  <2>8. ((h + 1) - k) - 1 = (h + 1) - l /\ l <= h + 1 /\ (h + 1) - l \in 0 .. MaxHeight
    BY <1>1, <1>6, <2>2, <2>4, <2>6
  <2>9. q \in Seq(Trees[(h + 1) - l])
    BY <2>7, <2>8
  <2>10. /\ NKeys(p) = Len(q)
         /\ \A i \in 1 .. Len(q) : q[i] \in Trees[(h + 1) - l] /\ p.ents[i].p = q[i].node
    BY <2>7, <2>8, <2>9, RowFacts
  <2> QED
    BY <2>5, <2>8, <2>10
<1> QED
  BY <1>3, <1>9

-----------------------------------------------------------------------------
(* The parts of a node that was split.                                      *)

IsNode(n) == n = Node(n.type, n.ents)

\* The parts are nodes.
LEMMA SplitNodes ==
  ASSUME NEW n, IsNode(n)
  PROVE  \A i \in 1 .. Len(NodeSplit3(n)) : IsNode(NodeSplit3(n)[i])
<1>1. \A type, s : IsNode(Node(type, s))
  BY DEF IsNode, Node
<1>2. \A m : IsNode(LeftOf(m)) /\ IsNode(RightOf(m))
  BY <1>1 DEF LeftOf, RightOf
<1>3. IsNode(Fatal("assert"))
  BY <1>1 DEF Fatal
<1> DEFINE l == LeftOf(n)
           r == RightOf(n)
           ll == LeftOf(l)
           lr == RightOf(l)
           a == Fatal("assert")
<1>4. IsNode(l) /\ IsNode(r) /\ IsNode(ll) /\ IsNode(lr) /\ IsNode(a)
  BY <1>2, <1>3
<1>5. \/ NodeSplit3(n) = <<n>> \/ NodeSplit3(n) = <<l, r>>
      \/ NodeSplit3(n) = <<a>> \/ NodeSplit3(n) = <<ll, lr, r>>
  BY DEF NodeSplit3
<1> HIDE DEF l, r, ll, lr, a
<1>6. CASE NodeSplit3(n) = <<n>>
  BY <1>6
<1>7. CASE NodeSplit3(n) = <<l, r>>
  <2>1. Len(NodeSplit3(n)) = 2 /\ NodeSplit3(n)[1] = l /\ NodeSplit3(n)[2] = r
    BY <1>7
  <2>2. \A i \in 1 .. 2 : i = 1 \/ i = 2
    OBVIOUS
  <2> QED
    BY <1>4, <2>1, <2>2
<1>8. CASE NodeSplit3(n) = <<a>>
  BY <1>4, <1>8
<1>9. CASE NodeSplit3(n) = <<ll, lr, r>>
  <2>1. /\ Len(NodeSplit3(n)) = 3 /\ NodeSplit3(n)[1] = ll
        /\ NodeSplit3(n)[2] = lr /\ NodeSplit3(n)[3] = r
    BY <1>9
  <2>2. \A i \in 1 .. 3 : i = 1 \/ i = 2 \/ i = 3
    OBVIOUS
  <2> QED
    BY <1>4, <2>1, <2>2
<1> QED
  BY <1>5, <1>6, <1>7, <1>8, <1>9

\* The parts stand one after the other in n, part i after the first o[i] entries.
Cuts(n, parts, o) ==
  /\ \A i \in 1 .. Len(parts) :
       /\ o[i] \in Nat
       /\ \A j \in 1 .. NKeys(parts[i]) : /\ o[i] + j \in 1 .. NKeys(n)
                                          /\ parts[i].ents[j] = n.ents[o[i] + j]
  /\ \A i, j \in 1 .. Len(parts) : i < j => o[i] + NKeys(parts[i]) <= o[j]
  /\ \A k \in 1 .. NKeys(n) : \E i \in 1 .. Len(parts) : k - o[i] \in 1 .. NKeys(parts[i])

LEMMA CutsExist ==
  ASSUME NEW n, NEW parts, SplitsInto(n, parts)
  PROVE  \E o : Cuts(n, parts, o)
<1>1. /\ Len(parts) \in 1 .. 3
      /\ \A i \in 1 .. Len(parts) : IsEnts(parts[i].ents) /\ Len(parts[i].ents) \in Nat
  BY DEF SplitsInto, NKeys
<1>2. CASE Len(parts) = 1
  <2> DEFINE o == <<0>>
             s == parts[1].ents
  <2>1. s = n.ents /\ Len(s) \in Nat
    BY <1>1, <1>2 DEF SplitsInto
  <2>2. o[1] = 0 /\ 1 .. 1 = {1}
    OBVIOUS
  <2> HIDE DEF o
  <2>3. \A j \in 1 .. Len(s) : 0 + j = j
    BY <2>1
  <2>4. \A j \in 1 .. Len(s) : j - 0 = j
    BY <2>1
  <2>5. Cuts(n, parts, o)
    BY <1>2, <2>1, <2>2, <2>3, <2>4 DEF Cuts, NKeys
  <2> QED
    BY <2>5
<1>3. CASE Len(parts) = 2
  <2> DEFINE s == parts[1].ents
             t == parts[2].ents
             u == n.ents
             o == <<0, Len(s)>>
  <2>1. 1 \in 1 .. Len(parts) /\ 2 \in 1 .. Len(parts) /\ \A i \in 1 .. Len(parts) : i = 1 \/ i = 2
    BY <1>3
  <2>2. s \o t = u
    BY <1>3, Zenon DEF SplitsInto
  <2>3. IsEnts(s) /\ IsEnts(t) /\ Len(s) \in Nat /\ Len(t) \in Nat
    BY <1>1, <2>1
  <2>4. NKeys(parts[1]) = Len(s) /\ NKeys(parts[2]) = Len(t) /\ NKeys(n) = Len(u)
    BY DEF NKeys
  <2>5. parts[1].ents = s /\ parts[2].ents = t /\ n.ents = u
    OBVIOUS
  <2> HIDE DEF s, t, u
  <2>6. o[1] = 0 /\ o[2] = Len(s)
    BY <2>3
  <2> HIDE DEF o
  <2>7. /\ Len(u) = Len(s) + Len(t)
        /\ \A i \in 1 .. Len(s) : u[i] = s[i]
        /\ \A i \in 1 .. Len(t) : u[Len(s) + i] = t[i]
    BY <2>2, <2>3, JoinEnts
  <2>8. ASSUME NEW i \in 1 .. Len(parts)
        PROVE  /\ o[i] \in Nat
               /\ \A j \in 1 .. NKeys(parts[i]) : /\ o[i] + j \in 1 .. NKeys(n)
                                                  /\ parts[i].ents[j] = n.ents[o[i] + j]
    <3>1. CASE i = 1
      <4>1. \A j \in 1 .. Len(s) : 0 + j = j /\ j \in 1 .. Len(u)
        BY <2>3, <2>7
      <4> QED
        BY <2>3, <2>4, <2>5, <2>6, <2>7, <3>1, <4>1
    <3>2. CASE i = 2
      <4>1. \A j \in 1 .. Len(t) : Len(s) + j \in 1 .. Len(u)
        BY <2>3, <2>7
      <4> QED
        BY <2>3, <2>4, <2>5, <2>6, <2>7, <3>2, <4>1
    <3> QED
      BY <2>1, <3>1, <3>2
  <2>9. ASSUME NEW i \in 1 .. Len(parts), NEW j \in 1 .. Len(parts), i < j
        PROVE  o[i] + NKeys(parts[i]) <= o[j]
    <3>1. i = 1 /\ j = 2
      BY <1>3, <2>9
    <3> QED
      BY <2>3, <2>4, <2>6, <3>1
  <2>10. ASSUME NEW k \in 1 .. NKeys(n)
        PROVE  \E i \in 1 .. Len(parts) : k - o[i] \in 1 .. NKeys(parts[i])
    <3>1. k - o[1] \in 1 .. NKeys(parts[1]) \/ k - o[2] \in 1 .. NKeys(parts[2])
      BY <2>3, <2>4, <2>6, <2>7
    <3> QED
      BY <2>1, <3>1
  <2>11. Cuts(n, parts, o)
    BY <2>8, <2>9, <2>10 DEF Cuts
  <2> QED
    BY <2>11
<1>4. CASE Len(parts) = 3
  <2> DEFINE s == parts[1].ents
             t == parts[2].ents
             v == parts[3].ents
             w == s \o t
             u == n.ents
             o == <<0, Len(s), Len(s) + Len(t)>>
  <2>1. /\ 1 \in 1 .. Len(parts) /\ 2 \in 1 .. Len(parts) /\ 3 \in 1 .. Len(parts)
        /\ \A i \in 1 .. Len(parts) : i = 1 \/ i = 2 \/ i = 3
    BY <1>4
  <2>2. w \o v = u
    BY <1>4, Zenon DEF SplitsInto
  <2>3. /\ IsEnts(s) /\ IsEnts(t) /\ IsEnts(v)
        /\ Len(s) \in Nat /\ Len(t) \in Nat /\ Len(v) \in Nat
    BY <1>1, <2>1
  <2>4. /\ NKeys(parts[1]) = Len(s) /\ NKeys(parts[2]) = Len(t) /\ NKeys(parts[3]) = Len(v)
        /\ NKeys(n) = Len(u)
    BY DEF NKeys
  <2>5. parts[1].ents = s /\ parts[2].ents = t /\ parts[3].ents = v /\ n.ents = u
    OBVIOUS
  <2> HIDE DEF s, t, u, v
  <2>6. o[1] = 0 /\ o[2] = Len(s) /\ o[3] = Len(s) + Len(t)
    BY <2>3
  <2> HIDE DEF o
  <2>7. /\ Len(w) = Len(s) + Len(t) /\ IsEnts(w)
        /\ \A i \in 1 .. Len(s) : w[i] = s[i]
        /\ \A i \in 1 .. Len(t) : w[Len(s) + i] = t[i]
    BY <2>3, JoinEnts
  <2> HIDE DEF w
  <2>8. /\ Len(u) = Len(w) + Len(v)
        /\ \A i \in 1 .. Len(w) : u[i] = w[i]
        /\ \A i \in 1 .. Len(v) : u[Len(w) + i] = v[i]
    <3>0. IsEnts(w) /\ IsEnts(v)
      BY <2>3, <2>7
    <3>1. /\ Len(w \o v) = Len(w) + Len(v)
          /\ \A i \in 1 .. Len(w) : (w \o v)[i] = w[i]
          /\ \A i \in 1 .. Len(v) : (w \o v)[Len(w) + i] = v[i]
      BY <3>0, JoinEnts
    <3> QED
      BY <2>2, <3>1, Zenon
  <2>9. ASSUME NEW i \in 1 .. Len(parts)
        PROVE  /\ o[i] \in Nat
               /\ \A j \in 1 .. NKeys(parts[i]) : /\ o[i] + j \in 1 .. NKeys(n)
                                                  /\ parts[i].ents[j] = n.ents[o[i] + j]
    <3>1. CASE i = 1
      <4>1. \A j \in 1 .. Len(s) : j \in 1 .. Len(w) /\ 0 + j = j /\ j \in 1 .. Len(u)
        BY <2>3, <2>7, <2>8
      <4> QED
        BY <2>4, <2>5, <2>6, <2>7, <2>8, <3>1, <4>1, SMTT(20)
    <3>2. CASE i = 2
      <4>1. \A j \in 1 .. Len(t) : Len(s) + j \in 1 .. Len(w) /\ Len(s) + j \in 1 .. Len(u)
        BY <2>3, <2>7, <2>8
      <4>2. \A j \in 1 .. Len(t) : t[j] = u[Len(s) + j]
        BY <2>7, <2>8, <4>1
      <4> QED
        BY <2>3, <2>4, <2>5, <2>6, <3>2, <4>1, <4>2
    <3>3. CASE i = 3
      <4>1. o[3] = Len(w) /\ o[3] \in Nat /\ \A j \in 1 .. Len(v) : Len(w) + j \in 1 .. Len(u)
        BY <2>3, <2>6, <2>7, <2>8
      <4> QED
        BY <2>4, <2>5, <2>8, <3>3, <4>1
    <3> QED
      BY <2>1, <3>1, <3>2, <3>3
  <2>10. ASSUME NEW i \in 1 .. Len(parts), NEW j \in 1 .. Len(parts), i < j
        PROVE  o[i] + NKeys(parts[i]) <= o[j]
    <3>1. (i = 1 /\ j = 2) \/ (i = 1 /\ j = 3) \/ (i = 2 /\ j = 3)
      BY <1>4, <2>10
    <3> QED
      BY <2>3, <2>4, <2>6, <3>1, SMTT(20)
  <2>11. ASSUME NEW k \in 1 .. NKeys(n)
        PROVE  \E i \in 1 .. Len(parts) : k - o[i] \in 1 .. NKeys(parts[i])
    <3>1. \/ k - o[1] \in 1 .. NKeys(parts[1]) \/ k - o[2] \in 1 .. NKeys(parts[2])
          \/ k - o[3] \in 1 .. NKeys(parts[3])
      BY <2>3, <2>4, <2>6, <2>7, <2>8
    <3> QED
      BY <2>1, <3>1
  <2>12. Cuts(n, parts, o)
    BY <2>9, <2>10, <2>11 DEF Cuts
  <2> QED
    BY <2>12
<1> QED
  BY <1>1, <1>2, <1>3, <1>4

\* A row of trees whose nodes are the parts, and that holds H.
IsRow(d, parts, ts, H) ==
  /\ ts \in Seq(Trees[d]) /\ Len(ts) = Len(parts)
  /\ \A i \in 1 .. Len(parts) : ts[i].node = parts[i]
  /\ Sorted(ts) /\ HoldsOf(ts) = H

\* The parts of a leaf are leaves.
LEMMA LeafRow ==
  ASSUME NEW m, m.type = Leaf, m.ents \in Seq(LeafEntry), Ascending(m.ents),
         NEW parts, SplitsInto(m, parts), \A i \in 1 .. Len(parts) : IsNode(parts[i])
  PROVE  \E ts : IsRow(0, parts, ts, EntsIn(m.ents))
<1> DEFINE s == m.ents
           P == Len(parts)
           ts == [i \in 1 .. P |-> Single(parts[i].ents)]
<1>1. /\ P \in Nat
      /\ \A i \in 1 .. P : /\ parts[i].type = Leaf /\ IsEnts(parts[i].ents)
                           /\ Len(parts[i].ents) \in Nat \ {0}
                           /\ NBytes(parts[i]) <= PageSize
  BY DEF SplitsInto, NKeys
<1>2. PICK o : Cuts(m, parts, o)
  BY CutsExist
<1>3. /\ \A i \in 1 .. P :
           /\ o[i] \in Nat
           /\ \A j \in 1 .. Len(parts[i].ents) : /\ o[i] + j \in 1 .. Len(s)
                                                 /\ parts[i].ents[j] = s[o[i] + j]
      /\ \A i, j \in 1 .. P : i < j => o[i] + Len(parts[i].ents) <= o[j]
      /\ \A k \in 1 .. Len(s) : \E i \in 1 .. P : k - o[i] \in 1 .. Len(parts[i].ents)
  BY <1>2 DEF Cuts, NKeys
<1>4. Len(s) \in Nat /\ \A k \in 1 .. Len(s) : s[k] \in LeafEntry
  BY LenProperties, ElementOfSeq
<1>5. \A j, k \in 1 .. Len(s) : j < k => s[j].k < s[k].k
  BY DEF Ascending
<1> HIDE DEF s, P
<1>6. ASSUME NEW i \in 1 .. P
      PROVE  /\ ts[i] \in Trees[0] /\ ts[i].node = parts[i]
             /\ ts[i].holds = EntsIn(parts[i].ents)
  <2> DEFINE r == parts[i].ents
  <2>1. /\ IsEnts(r) /\ Len(r) \in Nat /\ Len(r) # 0
        /\ \A j \in 1 .. Len(r) : o[i] + j \in 1 .. Len(s) /\ r[j] = s[o[i] + j]
        /\ o[i] \in Nat
    BY <1>1, <1>3
  <2>2. parts[i] = Node(Leaf, r) /\ NBytes(Node(Leaf, r)) <= PageSize
    <3>1. IsNode(parts[i]) /\ parts[i].type = Leaf /\ NBytes(parts[i]) <= PageSize
      BY <1>1 DEF P
    <3> QED
      BY <3>1 DEF IsNode
  <2>3. ts[i].node = Node(Leaf, r) /\ ts[i].holds = EntsIn(r) /\ ts[i] = Single(r)
    BY DEF Single
  <2> HIDE DEF r, ts
  <2>4. r \in Seq(LeafEntry)
    <3>1. PICK R : r \in Seq(R)
      BY <2>1 DEF IsEnts
    <3>2. \A j \in 1 .. Len(r) : r[j] \in LeafEntry
      BY <1>4, <2>1
    <3> QED
      BY <3>1, <3>2, SeqIn
  <2>5. Ascending(r)
    <3> SUFFICES ASSUME NEW j \in 1 .. Len(r), NEW k \in 1 .. Len(r), j < k
                 PROVE  r[j].k < r[k].k
      BY DEF Ascending
    <3>1. o[i] + j < o[i] + k
      BY <2>1
    <3> QED
      BY <1>5, <2>1, <3>1
  <2>6. IsLeafSeq(r)
    <3>1. r # << >>
      BY <2>1
    <3> QED
      BY <2>2, <2>5, <3>1 DEF IsLeafSeq
  <2> QED
    BY <2>2, <2>3, <2>4, <2>6, LeafTreeIs DEF r
<1>7. ts \in Seq(Trees[0]) /\ Len(ts) = P
  <2>1. ts \in [1 .. P -> Trees[0]]
    BY <1>6
  <2> HIDE DEF ts
  <2> QED
    BY <1>1, <2>1, FunctionSeq
<1> HIDE DEF ts
<1>8. Sorted(ts)
  <2> SUFFICES ASSUME NEW i \in 1 .. P, NEW j \in 1 .. P, i < j,
                      NEW x \in ts[i].holds, NEW y \in ts[j].holds
               PROVE  x.k < y.k
    BY <1>7 DEF Sorted, Precedes
  <2>1. PICK a \in 1 .. Len(parts[i].ents) : x = parts[i].ents[a]
    BY <1>6 DEF EntsIn
  <2>2. PICK b \in 1 .. Len(parts[j].ents) : y = parts[j].ents[b]
    BY <1>6 DEF EntsIn
  <2>3. o[i] + Len(parts[i].ents) <= o[j] /\ o[i] \in Nat /\ o[j] \in Nat
        /\ Len(parts[i].ents) \in Nat /\ Len(parts[j].ents) \in Nat
    BY <1>1, <1>3
  <2>4. o[i] + a < o[j] + b
    BY <2>3, SMTT(20)
  <2> QED
    BY <1>3, <1>5, <2>1, <2>2, <2>4
<1>9. HoldsOf(ts) = EntsIn(s)
  <2>1. ASSUME NEW x \in HoldsOf(ts) PROVE x \in EntsIn(s)
    <3>1. PICK i \in 1 .. P : x \in ts[i].holds
      BY <1>7, HoldsOfFacts
    <3>2. PICK a \in 1 .. Len(parts[i].ents) : x = parts[i].ents[a]
      BY <1>6, <3>1 DEF EntsIn
    <3> QED
      BY <1>3, <3>2 DEF EntsIn
  <2>2. ASSUME NEW x \in EntsIn(s) PROVE x \in HoldsOf(ts)
    <3>1. PICK k \in 1 .. Len(s) : x = s[k]
      BY DEF EntsIn
    <3>2. PICK i \in 1 .. P : k - o[i] \in 1 .. Len(parts[i].ents)
      BY <1>3
    <3>3. o[i] + (k - o[i]) = k
      BY <1>3, <1>4
    <3>4. x = parts[i].ents[k - o[i]]
      BY <1>3, <3>1, <3>2, <3>3
    <3>5. x \in ts[i].holds
      BY <1>6, <3>2, <3>4 DEF EntsIn
    <3> QED
      BY <1>7, <3>5, HoldsOfFacts
  <2> QED
    BY <2>1, <2>2
<1>10. IsRow(0, parts, ts, EntsIn(s))
  BY <1>6, <1>7, <1>8, <1>9 DEF IsRow, P
<1> QED
  BY <1>10 DEF s

\* The parts of an inner node are inner nodes over parts of the row below.
LEMMA InnerRow ==
  ASSUME NEW h \in 1 .. MaxHeight, NEW q \in Seq(Trees[h - 1]), Sorted(q),
         NEW parts, SplitsInto(Over(q), parts), \A i \in 1 .. Len(parts) : IsNode(parts[i])
  PROVE  \E ts : IsRow(h, parts, ts, HoldsOf(q))
<1> DEFINE m == Over(q)
           P == Len(parts)
           N(i) == NKeys(parts[i])
<1>1. /\ P \in Nat
      /\ \A i \in 1 .. P : /\ parts[i].type = Over(q).type /\ IsEnts(parts[i].ents)
                           /\ NKeys(parts[i]) \in Nat \ {0}
                           /\ NBytes(parts[i]) <= PageSize
  BY DEF SplitsInto
<1>2. PICK o : Cuts(m, parts, o)
  BY CutsExist
<1>3. h - 1 \in 0 .. MaxHeight /\ h \in 0 .. MaxHeight
  BY TreesStep
<1>4. Len(q) \in Nat /\ NKeys(m) = Len(q) /\ m.type = Inner /\ IsEnts(m.ents)
  BY <1>3, RowFacts
<1>5. /\ \A i \in 1 .. P :
           /\ o[i] \in Nat
           /\ \A j \in 1 .. N(i) : /\ o[i] + j \in 1 .. Len(q)
                                   /\ parts[i].ents[j] = m.ents[o[i] + j]
      /\ \A i, j \in 1 .. P : i < j => o[i] + N(i) <= o[j]
      /\ \A k \in 1 .. Len(q) : \E i \in 1 .. P : k - o[i] \in 1 .. N(i)
  BY <1>2, <1>4 DEF Cuts
<1> DEFINE sub(i) == SubSeq(q, o[i] + 1, o[i] + N(i))
           ts == [i \in 1 .. P |-> Combined(sub(i))]
<1> HIDE DEF m, N, P
<1>6. ASSUME NEW i \in 1 .. P PROVE N(i) \in Nat /\ N(i) # 0 /\ o[i] \in Nat /\ o[i] + N(i) <= Len(q)
  <2>1. N(i) \in Nat /\ N(i) # 0 /\ o[i] \in Nat
    BY <1>1, <1>5 DEF N
  <2>2. N(i) \in 1 .. N(i)
    BY <2>1
  <2>3. o[i] + N(i) \in 1 .. Len(q)
    BY <1>5, <2>2
  <2> QED
    BY <1>4, <2>1, <2>3
<1>7. ASSUME NEW i \in 1 .. P
      PROVE  /\ ts[i] \in Trees[h] /\ ts[i].node = parts[i]
             /\ ts[i].holds = UNION {q[k].holds : k \in o[i] + 1 .. o[i] + N(i)}
  <2> DEFINE r == sub(i)
  <2>1. /\ o[i] + 1 \in Nat \ {0} /\ o[i] + N(i) \in Nat /\ o[i] + 1 <= (o[i] + N(i)) + 1
        /\ ((o[i] + N(i)) + 1) - (o[i] + 1) = N(i) /\ (o[i] + 1) - 1 = o[i]
    BY <1>6, SMTT(20)
  <2>2. IsPartOf(Trees[h - 1], q, o[i] + 1, o[i] + N(i), r)
    BY <1>6, <2>1, PartTrees
  <2>3. ts[i] = Combined(r)
    OBVIOUS
  <2> HIDE DEF r, ts
  <2>4. /\ r \in Seq(Trees[h - 1]) /\ Len(r) = N(i) /\ Sorted(r)
        /\ Over(r).ents = SubSeq(m.ents, o[i] + 1, o[i] + N(i))
        /\ HoldsOf(r) = UNION {q[k].holds : k \in o[i] + 1 .. o[i] + N(i)}
    BY <2>1, <2>2 DEF IsPartOf, m
  <2>5. Over(r).ents = parts[i].ents
    <3> DEFINE e == SubSeq(m.ents, o[i] + 1, o[i] + N(i))
    <3>1. o[i] + N(i) <= Len(m.ents)
      BY <1>4, <1>6 DEF NKeys
    <3>2. PICK E : m.ents \in Seq(E)
      BY <1>4 DEF IsEnts
    <3> DEFINE s == m.ents
               lo == o[i] + 1
               hi == o[i] + N(i)
    <3>a. s \in Seq(E) /\ lo \in Nat \ {0} /\ hi \in Nat /\ lo <= hi + 1 /\ hi <= Len(s)
      BY <2>1, <3>1, <3>2
    <3> HIDE DEF s, lo, hi
    <3>b. /\ SubSeq(s, lo, hi) \in Seq(E) /\ Len(SubSeq(s, lo, hi)) = (hi + 1) - lo
          /\ \A j \in 1 .. Len(SubSeq(s, lo, hi)) : SubSeq(s, lo, hi)[j] = s[(lo - 1) + j]
      BY <3>a, CutSeq
    <3>3. /\ e \in Seq(E) /\ Len(e) = ((o[i] + N(i)) + 1) - (o[i] + 1)
          /\ \A j \in 1 .. Len(e) : e[j] = m.ents[((o[i] + 1) - 1) + j]
      BY <3>b DEF s, lo, hi
    <3> HIDE DEF e
    <3>4. Len(e) = N(i) /\ \A j \in 1 .. N(i) : e[j] = m.ents[o[i] + j]
      BY <2>1, <3>3
    <3>5. PICK F : parts[i].ents \in Seq(F)
      BY <1>1 DEF IsEnts
    <3>6. Len(parts[i].ents) = N(i) /\ \A j \in 1 .. N(i) : parts[i].ents[j] = m.ents[o[i] + j]
      BY <1>5 DEF N, NKeys
    <3>c. e \in Seq(E) /\ Len(e) = Len(parts[i].ents)
          /\ \A j \in 1 .. Len(e) : e[j] = parts[i].ents[j]
      BY <3>3, <3>4, <3>6
    <3>7. e = parts[i].ents
      BY <3>5, <3>c, SameSeq
    <3> QED
      BY <2>4, <3>7 DEF e
  <2>6. Over(r) = parts[i]
    <3>1. Over(r) = Node(Inner, Over(r).ents)
      BY DEF Over, Node
    <3>2. IsNode(parts[i]) /\ parts[i].type = Inner
      BY <1>1, <1>4 DEF m, P
    <3> QED
      BY <2>5, <3>1, <3>2 DEF IsNode
  <2>7. IsTreeSeq(r)
    <3>1. r # << >>
      BY <1>6, <2>4
    <3> QED
      BY <1>1, <2>4, <2>6, <3>1 DEF IsTreeSeq
  <2>8. Combined(r) \in Trees[h]
    BY <2>4, <2>7, InnerTreeIs
  <2>9. ts[i].node = Over(r) /\ ts[i].holds = HoldsOf(r)
    BY <2>3 DEF Combined
  <2> QED
    BY <2>3, <2>4, <2>6, <2>8, <2>9
<1>8. ts \in Seq(Trees[h]) /\ Len(ts) = P
  <2>1. ts \in [1 .. P -> Trees[h]]
    BY <1>7
  <2> HIDE DEF ts
  <2> QED
    BY <1>1, <2>1, FunctionSeq DEF P
<1> HIDE DEF ts
<1>9. Sorted(ts)
  <2> SUFFICES ASSUME NEW i \in 1 .. P, NEW j \in 1 .. P, i < j,
                      NEW x \in ts[i].holds, NEW y \in ts[j].holds
               PROVE  x.k < y.k
    BY <1>8 DEF Sorted, Precedes
  <2>1. PICK a \in o[i] + 1 .. o[i] + N(i) : x \in q[a].holds
    BY <1>7
  <2>2. PICK b \in o[j] + 1 .. o[j] + N(j) : y \in q[b].holds
    BY <1>7, SMTT(20)
  <2>3. o[i] + N(i) <= o[j]
    BY <1>5
  <2>4. a < b /\ a \in 1 .. Len(q) /\ b \in 1 .. Len(q)
    <3>1. /\ N(i) \in Nat /\ o[i] \in Nat /\ o[i] + N(i) <= Len(q)
          /\ N(j) \in Nat /\ o[j] \in Nat /\ o[j] + N(j) <= Len(q)
      BY <1>6
    <3>2. /\ a \in Int /\ o[i] + 1 <= a /\ a <= o[i] + N(i)
          /\ b \in Int /\ o[j] + 1 <= b /\ b <= o[j] + N(j)
      BY <3>1
    <3> DEFINE oi == o[i]
               oj == o[j]
               Ni == N(i)
               Nj == N(j)
               L == Len(q)
    <3>3. /\ Ni \in Nat /\ oi \in Nat /\ oi + Ni <= L
          /\ Nj \in Nat /\ oj \in Nat /\ oj + Nj <= L
          /\ oi + Ni <= oj /\ L \in Nat
          /\ a \in Int /\ oi + 1 <= a /\ a <= oi + Ni
          /\ b \in Int /\ oj + 1 <= b /\ b <= oj + Nj
      BY <1>4, <2>3, <3>1, <3>2
    <3> HIDE DEF oi, oj, Ni, Nj, L
    <3>4. a < b /\ a \in 1 .. L /\ b \in 1 .. L
      BY <3>3, SMTT(20)
    <3> QED
      BY <3>4 DEF L
  <2> QED
    BY <2>1, <2>2, <2>4 DEF Sorted, Precedes
<1>10. HoldsOf(ts) = HoldsOf(q)
  <2>1. ASSUME NEW x \in HoldsOf(ts) PROVE x \in HoldsOf(q)
    <3>1. PICK i \in 1 .. P : x \in ts[i].holds
      BY <1>8, HoldsOfFacts
    <3>2. PICK a \in o[i] + 1 .. o[i] + N(i) : x \in q[a].holds
      BY <1>7, <3>1
    <3>3. a \in 1 .. Len(q)
      BY <1>4, <1>6
    <3> QED
      BY <3>2, <3>3, HoldsOfFacts
  <2>2. ASSUME NEW x \in HoldsOf(q) PROVE x \in HoldsOf(ts)
    <3>1. PICK k \in 1 .. Len(q) : x \in q[k].holds
      BY HoldsOfFacts
    <3>2. PICK i \in 1 .. P : k - o[i] \in 1 .. N(i)
      BY <1>5
    <3>3. k \in o[i] + 1 .. o[i] + N(i)
      BY <1>4, <1>6, <3>2
    <3>4. x \in ts[i].holds
      BY <1>7, <3>1, <3>3
    <3> QED
      BY <1>8, <3>4, HoldsOfFacts
  <2> QED
    BY <2>1, <2>2
<1>11. IsRow(h, parts, ts, HoldsOf(q))
  BY <1>7, <1>8, <1>9, <1>10 DEF IsRow, P
<1> QED
  BY <1>11

-----------------------------------------------------------------------------
(* Insertion.                                                               *)

\* The entries H once e is stored.
Put(H, e) == {x \in H : x.k # e.k} \union {e}

\* Is there an entry of more than half a page in H?
Large(H) == \E x \in H : 2 * EntryBytes(x) > PageSize

\* The bytes of the entries of leaves.
LEMMA LeafBytes ==
  ASSUME NEW key \in Key, NEW val \in Value
  PROVE  /\ EntryBytes(Entry(key, val, Nil)) \in Nat
         /\ Header < EntryBytes(Entry(key, val, Nil))
         /\ (Header + Slot) + EntryBytes(Entry(key, val, Nil)) <= PageSize
         /\ EntryBytes(Entry(0, Nil, Nil)) = Slot
         /\ 2 * (Header + Slot) < PageSize
<1> DEFINE K == KeyLen[key]
           V == ValLen[val]
<1>1. /\ K \in Nat /\ V \in Nat /\ K > 0 /\ val # Nil /\ KeyLen[0] = 0
      /\ Header + 2 * Slot + K + V <= PageSize
      /\ Header + 3 * (Slot + K) <= PageSize
  BY BTreeAssumption
<1>2. Header \in Nat /\ Slot \in Nat /\ PageSize \in Nat /\ Header <= Slot
  BY BNodeAssumption
<1>3. EntryBytes(Entry(key, val, Nil)) = Slot + K + V
  BY <1>1 DEF EntryBytes, Entry
<1>4. EntryBytes(Entry(0, Nil, Nil)) = Slot + KeyLen[0] + 0
  BY DEF EntryBytes, Entry
<1> HIDE DEF K, V
<1> QED
  BY <1>1, <1>2, <1>3, <1>4

\* What Insert makes of a tree u of height d: n, not split yet.
Grown(d, u, e, n) ==
  LET parts == NodeSplit3(n)
      want == Put(u.holds, e)
  IN  \/ n = Fatal("assert") /\ Large(want)
      \/ ~IsFatal(n) /\ parts = <<Fatal("assert")>> /\ Large(want)
      \/ ~IsFatal(n) /\ SplitsInto(n, parts) /\ \E ts : IsRow(d, parts, ts, want)

\* A leaf with an entry put in.
LEMMA LeafGrows ==
  ASSUME NEW t \in Trees[0], NEW key \in Key, NEW val \in Value
  PROVE  LET m == LeafPut(t.node, key, val)
             e == Entry(key, val, Nil)
         IN  /\ m.type = Leaf /\ m.ents \in Seq(LeafEntry) /\ Ascending(m.ents)
             /\ EntsIn(m.ents) = Put(t.holds, e)
             /\ \E z : Outgrown(m, z)
             /\ Grown(0, t, e, m)
<1> DEFINE n == t.node
           m == LeafPut(t.node, key, val)
           e == Entry(key, val, Nil)
           want == Put(t.holds, e)
<1>1. /\ Sane(t, 0) /\ n.ents # << >> /\ n.ents \in Seq(LeafEntry) /\ t.holds = EntsIn(n.ents)
  <2>1. 0 \in 0 .. MaxHeight
    BY TreesStep
  <2> QED
    BY <2>1, TreeNode
<1>2. IsEnts(n.ents) /\ Ascending(n.ents) /\ NBytes(n) <= PageSize /\ t.holds \subseteq LeafEntry
  BY <1>1 DEF Sane
<1>3. key \in DOMAIN KeyLen /\ val \in DOMAIN ValLen /\ e.k = key /\ e \in LeafEntry /\ IsEntry(e)
  BY LeafEntries DEF Entry
<1>4. /\ m.type = Leaf /\ IsEnts(m.ents) /\ Ascending(m.ents)
      /\ EntsIn(m.ents) = {x \in EntsIn(n.ents) : x.k # key} \union {e}
      /\ NBytes(m) <= NBytes(n) + EntryBytes(e)
  BY <1>1, <1>2, <1>3, LeafPutStores
<1>5. IsNode(m)
  BY <1>1 DEF LeafPut, IsNode, Node
<1>6. EntsIn(m.ents) = want /\ want \subseteq LeafEntry /\ e \in want
  BY <1>1, <1>2, <1>3, <1>4 DEF Put
<1>7. EntryBytes(e) \in Nat /\ (Header + Slot) + EntryBytes(e) <= PageSize
  BY LeafBytes
<1>8. /\ Header \in Nat /\ PageSize \in Nat /\ Slot \in Nat /\ 4 * Header < PageSize
  BY BNodeAssumption
<1>9. NBytes(n) \in Nat /\ NBytes(m) \in Nat
  BY <1>2, <1>4, Sizes
<1> HIDE DEF m, n, e, want
<1>10. Len(m.ents) \in Nat /\ \A i \in 1 .. Len(m.ents) : m.ents[i] \in want
  <2>1. Len(m.ents) \in Nat
    BY <1>4, EntryFacts
  <2> QED
    BY <1>6, <2>1 DEF EntsIn
<1>11. m.ents \in Seq(LeafEntry)
  <2>1. PICK S : m.ents \in Seq(S)
    BY <1>4 DEF IsEnts
  <2>2. \A i \in 1 .. Len(m.ents) : m.ents[i] \in LeafEntry
    BY <1>6, <1>10
  <2> QED
    BY <2>1, <2>2, SeqIn
<1>12. PICK z \in 1 .. Len(m.ents) : m.ents[z] = e
  BY <1>6 DEF EntsIn
<1>13. \A i \in 2 .. Len(m.ents) : Header < EntryBytes(m.ents[i])
  <2> SUFFICES ASSUME NEW i \in 2 .. Len(m.ents) PROVE Header < EntryBytes(m.ents[i])
    OBVIOUS
  <2>1. 1 \in 1 .. Len(m.ents) /\ i \in 1 .. Len(m.ents) /\ 1 < i
    BY <1>10
  <2>2. m.ents[1] \in LeafEntry /\ m.ents[i] \in LeafEntry /\ m.ents[1].k < m.ents[i].k
    BY <1>4, <1>6, <1>10, <2>1 DEF Ascending
  <2>3. m.ents[1].k \in Nat /\ m.ents[i].k \in Nat
    BY <2>2, LeafEntries
  <2>4. m.ents[i].k # 0
    BY <2>2, <2>3
  <2>5. PICK k \in Key, v \in Value : m.ents[i] = Entry(k, v, Nil)
    BY <2>2, <2>4, LeafEntries
  <2> QED
    BY <2>5, LeafBytes
<1>14. Outgrown(m, z)
  <2>1. NBytes(m) <= PageSize + EntryBytes(e) /\ Header + EntryBytes(e) <= PageSize
    BY <1>2, <1>4, <1>7, <1>8, <1>9
  <2> QED
    BY <1>4, <1>12, <1>13, <2>1 DEF Outgrown, NKeys
<1>15. NodeSplit3(m) = <<Fatal("assert")>> \/ SplitsInto(m, NodeSplit3(m))
  BY <1>14, SplitOrAssert
<1>16. ~IsFatal(m)
  BY <1>4 DEF IsFatal
<1>17. Grown(0, t, e, m)
  <2>1. CASE SplitsInto(m, NodeSplit3(m))
    <3>1. \A i \in 1 .. Len(NodeSplit3(m)) : IsNode(NodeSplit3(m)[i])
      BY <1>5, SplitNodes
    <3> DEFINE parts == NodeSplit3(m)
    <3> HIDE DEF parts
    <3>2. \E ts : IsRow(0, parts, ts, EntsIn(m.ents))
      BY <1>4, <1>11, <2>1, <3>1, LeafRow DEF parts
    <3> QED
      BY <1>6, <1>16, <2>1, <3>2 DEF Grown, parts, want
  <2>2. CASE NodeSplit3(m) = <<Fatal("assert")>> /\ Large(want)
    BY <1>16, <2>2 DEF Grown, want
  <2>3. CASE ~Large(want) /\ ~SplitsInto(m, NodeSplit3(m))
    <3>1. \A i \in 1 .. Len(m.ents) : 2 * EntryBytes(m.ents[i]) <= PageSize
      <4> SUFFICES ASSUME NEW i \in 1 .. Len(m.ents) PROVE 2 * EntryBytes(m.ents[i]) <= PageSize
        OBVIOUS
      <4>1. ~(2 * EntryBytes(m.ents[i]) > PageSize)
        BY <1>10, <2>3 DEF Large
      <4>2. EntryBytes(m.ents[i]) \in Nat
        BY <1>4, EntryFacts
      <4> QED
        BY <1>8, <4>1, <4>2
    <3>2. 2 * EntryBytes(e) <= PageSize
      BY <1>12, <3>1
    <3>3. NBytes(m) <= 2 * PageSize - 2 * Header
      BY <1>2, <1>4, <1>7, <1>8, <1>9, <3>2
    <3>4. Splittable(m) /\ m.ents # << >>
      BY <1>4, <1>12, <3>1, <3>3 DEF Splittable, NKeys
    <3> QED
      BY <2>3, <3>4, SplitFits
  <2> QED
    BY <1>15, <2>1, <2>2, <2>3
<1> QED
  BY <1>4, <1>6, <1>11, <1>14, <1>17 DEF m, n, e, want

\* x is held by a tree of row q before the i-th or after the j-th.
Outside(q, i, j, x) ==
  \/ \E l \in 1 .. i - 1 : x \in q[l].holds
  \/ \E l \in j + 1 .. Len(q) : x \in q[l].holds

\* s is the row q with the trees ts in the place of those from i to j.
Replaces(h, q, i, j, ts, s) ==
  /\ s \in Seq(Trees[h]) /\ Sorted(s)
  /\ ts # << >> => s # << >>
  /\ Over(s) = Node(Inner, SubSeq(Over(q).ents, 1, i - 1) \o Over(ts).ents
                             \o SubSeq(Over(q).ents, j + 1, Len(q)))
  /\ \A x : x \in HoldsOf(s) <=> x \in HoldsOf(ts) \/ Outside(q, i, j, x)

LEMMA ReplacedRow ==
  ASSUME NEW h \in 0 .. MaxHeight, NEW q \in Seq(Trees[h]), Sorted(q),
         NEW i \in 1 .. Len(q), NEW j \in 1 .. Len(q), i <= j,
         NEW ts \in Seq(Trees[h]), Sorted(ts),
         \A x \in HoldsOf(ts) :
           /\ \A l \in 1 .. i - 1 : \A y \in q[l].holds : y.k < x.k
           /\ \A l \in j + 1 .. Len(q) : \A y \in q[l].holds : x.k < y.k
  PROVE  \E s : Replaces(h, q, i, j, ts, s)
<1> DEFINE T == Trees[h]
           a == SubSeq(q, 1, i - 1)
           c == SubSeq(q, i, j)
           b == SubSeq(q, j + 1, Len(q))
           s == a \o ts \o b
<1>1. q \in Seq(T) /\ ts \in Seq(T)
  OBVIOUS
<1> HIDE DEF T
<1>2. /\ a \in Seq(T) /\ c \in Seq(T) /\ b \in Seq(T)
      /\ Sorted(a) /\ Sorted(c) /\ Sorted(b)
      /\ HoldsOf(q) = HoldsOf(a) \union HoldsOf(c) \union HoldsOf(b)
      /\ Precedes(HoldsOf(a), HoldsOf(c)) /\ Precedes(HoldsOf(c), HoldsOf(b))
      /\ Precedes(HoldsOf(a), HoldsOf(b))
      /\ HoldsOf(a) = UNION {q[l].holds : l \in 1 .. i - 1}
      /\ HoldsOf(c) = UNION {q[l].holds : l \in i .. j}
      /\ HoldsOf(b) = UNION {q[l].holds : l \in j + 1 .. Len(q)}
      /\ Over(a).ents = SubSeq(Over(q).ents, 1, i - 1)
      /\ Over(b).ents = SubSeq(Over(q).ents, j + 1, Len(q))
  BY <1>1, Around
<1> HIDE DEF a, b, c
<1>3. /\ \A x : x \in HoldsOf(a) <=> \E l \in 1 .. i - 1 : x \in q[l].holds
      /\ \A x : x \in HoldsOf(b) <=> \E l \in j + 1 .. Len(q) : x \in q[l].holds
  BY <1>2
<1>4. Precedes(HoldsOf(a), HoldsOf(ts)) /\ Precedes(HoldsOf(ts), HoldsOf(b))
  BY <1>3 DEF Precedes
<1>5. a \in Seq(T) /\ b \in Seq(T) /\ Sorted(a) /\ Sorted(b) /\ Precedes(HoldsOf(a), HoldsOf(b))
  BY <1>2
<1>6. /\ s \in Seq(T) /\ Len(s) = Len(a) + Len(ts) + Len(b) /\ Sorted(s)
      /\ HoldsOf(s) = HoldsOf(a) \union HoldsOf(ts) \union HoldsOf(b)
      /\ Over(s).ents = Over(a).ents \o Over(ts).ents \o Over(b).ents
  <2>1. a \in Seq(T)
    BY <1>5
  <2>2. b \in Seq(T)
    BY <1>5
  <2>3. ts \in Seq(T)
    BY <1>1
  <2>4. IsBetween(T, a, ts, b, s)
    BY <1>4, <1>5, <2>1, <2>2, <2>3, Between
  <2> QED
    BY <2>4 DEF IsBetween
<1> HIDE DEF s
<1>7. ts # << >> => s # << >>
  <2>1. Len(a) \in Nat /\ Len(b) \in Nat /\ Len(ts) \in Nat
    BY <1>1, <1>5, LenProperties
  <2>2. ts # << >> => Len(ts) # 0
    BY <1>1, EmptySeq
  <2>3. ts # << >> => Len(s) # 0
    BY <1>6, <2>1, <2>2
  <2> QED
    BY <2>3
<1>8. Over(s) = Node(Inner, Over(s).ents)
  BY DEF Over, Node
<1>9. Over(s) = Node(Inner, SubSeq(Over(q).ents, 1, i - 1) \o Over(ts).ents
                              \o SubSeq(Over(q).ents, j + 1, Len(q)))
  BY <1>2, <1>6, <1>8, Zenon
<1>10. \A x : x \in HoldsOf(s) <=> x \in HoldsOf(ts) \/ Outside(q, i, j, x)
  <2>1. HoldsOf(s) = HoldsOf(a) \union HoldsOf(ts) \union HoldsOf(b)
    BY <1>6
  <2>2. \A x : x \in HoldsOf(s) <=> x \in HoldsOf(a) \/ x \in HoldsOf(ts) \/ x \in HoldsOf(b)
    BY <2>1
  <2> QED
    BY <1>3, <2>2 DEF Outside
<1>11. s \in Seq(Trees[h]) /\ Sorted(s)
  BY <1>6 DEF T
<1>12. Replaces(h, q, i, j, ts, s)
  BY <1>7, <1>9, <1>10, <1>11 DEF Replaces
<1> QED
  BY <1>12

\* The entries for the nodes of a row.
LEMMA RowEntries ==
  ASSUME NEW d, NEW parts, NEW ts, NEW H, IsRow(d, parts, ts, H)
  PROVE  Over(ts).ents = [j \in 1 .. Len(parts) |-> KidEntry(parts[j])]
<1>1. Len(ts) = Len(parts) /\ \A i \in 1 .. Len(parts) : ts[i].node = parts[i]
  BY DEF IsRow
<1>2. Over(ts).ents = [i \in 1 .. Len(ts) |-> KidEntry(ts[i].node)]
  BY DEF Over, Node
<1> QED
  BY <1>1, <1>2

\* An inner node whose kid has grown.
LEMMA InnerGrows ==
  ASSUME NEW h \in 1 .. MaxHeight, NEW q \in Seq(Trees[h - 1]), IsTreeSeq(q),
         NEW key \in Key, NEW val \in Value, NEW below,
         Grown(h - 1, q[NodeLookupLE(Over(q), key)], Entry(key, val, Nil), below)
  PROVE  Grown(h, Combined(q), Entry(key, val, Nil),
               NodeInsert(Over(q), NodeLookupLE(Over(q), key), below))
<1> DEFINE i == NodeLookupLE(Over(q), key)
           e == Entry(key, val, Nil)
           u == q[i]
           parts == NodeSplit3(below)
           new == NodeInsert(Over(q), i, below)
           want == Put(HoldsOf(q), e)
<1>1. h - 1 \in 0 .. MaxHeight /\ h \in 0 .. MaxHeight
  BY TreesStep
<1>2. key \in Nat /\ e.k = key
  BY LeafEntries DEF Entry
<1>3. /\ i \in 1 .. Len(q)
      /\ \A l \in 1 .. i - 1 : \A x \in q[l].holds : x.k < key
      /\ \A l \in i + 1 .. Len(q) : \A x \in q[l].holds : key < x.k
  BY <1>1, <1>2, KidFor
<1>4. Sorted(q) /\ NBytes(Over(q)) <= PageSize
  BY DEF IsTreeSeq
<1>5. /\ Len(q) \in Nat /\ Over(q).type = Inner /\ NKeys(Over(q)) = Len(q) /\ IsEnts(Over(q).ents)
      /\ \A l \in 1 .. Len(q) : /\ q[l] \in Trees[h - 1] /\ Sane(q[l], h - 1)
                                /\ Over(q).ents[l].v = Nil
  BY <1>1, RowFacts
<1>6. Combined(q).holds = HoldsOf(q)
  BY DEF Combined
<1>7. /\ Grown(h - 1, u, e, below)
  OBVIOUS
<1>8. new = LET kids == IF IsFatal(below) THEN <<below>> ELSE parts
            IN  IF IsFatal(kids[1]) THEN kids[1] ELSE NodeReplaceKidN(Over(q), i, kids)
  BY DEF NodeInsert
<1>9. IsFatal(Fatal("assert"))
  BY DEF IsFatal, Fatal, Node, Leaf, Inner
<1>10. Put(u.holds, e) \subseteq want
  BY <1>3, HoldsOfFacts DEF Put
<1> HIDE DEF i, u, parts, new, want, e
<1>11. CASE below = Fatal("assert") /\ Large(Put(u.holds, e))
  <2>1. new = Fatal("assert")
    BY <1>8, <1>9, <1>11
  <2>2. Large(want)
    BY <1>10, <1>11 DEF Large
  <2> QED
    BY <1>6, <2>1, <2>2 DEF Grown, want, new, i, e
<1>12. CASE ~IsFatal(below) /\ parts = <<Fatal("assert")>> /\ Large(Put(u.holds, e))
  <2>1. new = Fatal("assert")
    BY <1>8, <1>9, <1>12
  <2>2. Large(want)
    BY <1>10, <1>12 DEF Large
  <2> QED
    BY <1>6, <2>1, <2>2 DEF Grown, want, new, i, e
<1>13. CASE ~IsFatal(below) /\ SplitsInto(below, parts)
            /\ \E ts : IsRow(h - 1, parts, ts, Put(u.holds, e))
  <2>1. PICK ts : IsRow(h - 1, parts, ts, Put(u.holds, e))
    BY <1>13
  <2>2. /\ ts \in Seq(Trees[h - 1]) /\ Len(ts) = Len(parts) /\ Sorted(ts)
        /\ \A l \in 1 .. Len(parts) : ts[l].node = parts[l]
        /\ HoldsOf(ts) = Put(u.holds, e)
    BY <2>1 DEF IsRow
  <2>3. Len(parts) \in 1 .. 3 /\ 1 \in 1 .. Len(parts)
    <3>1. Len(parts) \in 1 .. 3
      BY <1>13 DEF SplitsInto
    <3>2. \A p \in 1 .. 3 : 1 \in 1 .. p
      OBVIOUS
    <3> QED
      BY <3>1, <3>2
  <2>4. \A l \in 1 .. Len(parts) : ts[l] \in Trees[h - 1] /\ Sane(ts[l], h - 1)
    BY <1>1, <2>2, RowFacts
  <2>5. ~IsFatal(parts[1])
    <3>1. ~IsFatal(ts[1].node)
      BY <1>1, <2>3, <2>4, TreeNode
    <3> QED
      BY <2>2, <2>3, <3>1
  <2>6. new = NodeReplaceKidN(Over(q), i, parts)
    BY <1>8, <1>13, <2>5
  <2>7. SplitsInto(new, NodeSplit3(new))
    <3>1. \A l \in 1 .. Len(parts) : FirstKey(parts[l]) \in DOMAIN KeyLen
      BY <2>2, <2>4, LeafEntries DEF Sane
    <3>2. \A k \in DOMAIN KeyLen : Header + 3 * (Slot + KeyLen[k]) <= PageSize
      <4> SUFFICES ASSUME NEW k \in DOMAIN KeyLen PROVE Header + 3 * (Slot + KeyLen[k]) <= PageSize
        OBVIOUS
      <4>1. CASE k \in Key
        BY <4>1, BTreeAssumption
      <4>2. CASE k = 0
        <5>1. KeyLen[0] = 0 /\ KeyLen[key] \in Nat /\ Header + 3 * (Slot + KeyLen[key]) <= PageSize
          BY BTreeAssumption
        <5>2. Header \in Nat /\ Slot \in Nat /\ PageSize \in Nat
          BY BNodeAssumption
        <5> QED
          BY <4>2, <5>1, <5>2
      <4> QED
        BY <4>1, <4>2, LeafEntries
    <3>3. \A l \in 1 .. NKeys(Over(q)) : Over(q).ents[l].v = Nil
      BY <1>5
    <3>4. i \in 1 .. NKeys(Over(q))
      BY <1>3, <1>5
    <3> QED
      BY <1>4, <1>5, <2>3, <2>6, <3>1, <3>2, <3>3, <3>4, InnerInsertFits
  <2>8. ASSUME NEW x \in HoldsOf(ts)
        PROVE  /\ \A l \in 1 .. i - 1 : \A y \in q[l].holds : y.k < x.k
               /\ \A l \in i + 1 .. Len(q) : \A y \in q[l].holds : x.k < y.k
    <3>1. x = e \/ x \in u.holds
      BY <2>2 DEF Put
    <3>2. CASE x = e
      BY <1>2, <1>3, <3>2
    <3>3. CASE x \in u.holds
      <4>1. \A l \in 1 .. i - 1 : l \in 1 .. Len(q) /\ l < i
        BY <1>3, <1>5
      <4>2. \A l \in i + 1 .. Len(q) : l \in 1 .. Len(q) /\ i < l
        BY <1>3, <1>5
      <4> QED
        BY <1>3, <1>4, <3>3, <4>1, <4>2 DEF Sorted, Precedes, u
    <3> QED
      BY <3>1, <3>2, <3>3
  <2>9. PICK s : Replaces(h - 1, q, i, i, ts, s)
    <3>1. i <= i
      BY <1>3
    <3> QED
      BY <1>1, <1>3, <1>4, <2>2, <2>8, <3>1, ReplacedRow
  <2>10. Over(s) = new
    <3>1. Over(ts).ents = [j \in 1 .. Len(parts) |-> KidEntry(parts[j])]
      BY <2>1, RowEntries
    <3>2. new = Node(Inner, SubSeq(Over(q).ents, 1, i - 1)
                              \o [j \in 1 .. Len(parts) |-> KidEntry(parts[j])]
                              \o SubSeq(Over(q).ents, i + 1, NKeys(Over(q))))
      BY <2>6 DEF NodeReplaceKidN
    <3>3. Over(s) = Node(Inner, SubSeq(Over(q).ents, 1, i - 1) \o Over(ts).ents
                                  \o SubSeq(Over(q).ents, i + 1, Len(q)))
      BY <2>9 DEF Replaces
    <3> QED
      BY <1>5, <3>1, <3>2, <3>3
  <2>11. s \in Seq(Trees[h - 1]) /\ Sorted(s)
    BY <2>9 DEF Replaces
  <2>12. HoldsOf(s) = want
    <3>1. \A x : x \in HoldsOf(s) <=> x \in Put(u.holds, e) \/ Outside(q, i, i, x)
      BY <2>2, <2>9 DEF Replaces
    <3>2. ASSUME NEW x \in HoldsOf(s) PROVE x \in want
      <4>1. CASE x \in Put(u.holds, e)
        BY <1>10, <4>1
      <4>2. CASE \E l \in 1 .. i - 1 : x \in q[l].holds
        <5>1. PICK l \in 1 .. i - 1 : x \in q[l].holds
          BY <4>2
        <5>2. l \in 1 .. Len(q) /\ x.k < key
          BY <1>3, <1>5, <5>1
        <5>3. x \in HoldsOf(q) /\ x.k # key
          BY <1>2, <5>1, <5>2, HoldsOfFacts
        <5> QED
          BY <1>2, <5>3 DEF want, Put
      <4>3. CASE \E l \in i + 1 .. Len(q) : x \in q[l].holds
        <5>1. PICK l \in i + 1 .. Len(q) : x \in q[l].holds
          BY <4>3
        <5>2. l \in 1 .. Len(q) /\ key < x.k
          BY <1>3, <1>5, <5>1
        <5>3. x \in HoldsOf(q) /\ x.k # key
          BY <1>2, <5>1, <5>2, HoldsOfFacts
        <5> QED
          BY <1>2, <5>3 DEF want, Put
      <4> QED
        BY <3>1, <4>1, <4>2, <4>3 DEF Outside
    <3>3. ASSUME NEW x \in want PROVE x \in HoldsOf(s)
      <4>1. CASE x = e
        BY <3>1, <4>1 DEF Put
      <4>2. CASE x # e
        <5>1. x \in HoldsOf(q) /\ x.k # e.k
          BY <3>3, <4>2 DEF want, Put
        <5>2. PICK l \in 1 .. Len(q) : x \in q[l].holds
          BY <5>1, HoldsOfFacts
        <5>3. l \in 1 .. i - 1 \/ l = i \/ l \in i + 1 .. Len(q)
          BY <1>3, <1>5
        <5>4. CASE l = i
          <6>1. x \in Put(u.holds, e)
            BY <5>1, <5>2, <5>4 DEF Put, u
          <6> QED
            BY <3>1, <6>1
        <5>5. CASE l # i
          BY <3>1, <5>2, <5>3, <5>5 DEF Outside
        <5> QED
          BY <5>4, <5>5
      <4> QED
        BY <4>1, <4>2
    <3> QED
      BY <3>2, <3>3
  <2>13. \A l \in 1 .. Len(NodeSplit3(new)) : IsNode(NodeSplit3(new)[l])
    <3>1. IsNode(new)
      BY <2>6 DEF IsNode, NodeReplaceKidN, Node
    <3> QED
      BY <3>1, SplitNodes
  <2>14. \E rs : IsRow(h, NodeSplit3(new), rs, HoldsOf(s))
    BY <2>7, <2>10, <2>11, <2>13, InnerRow
  <2>15. ~IsFatal(new)
    <3>1. new.type = Inner
      BY <2>6 DEF NodeReplaceKidN, Node
    <3> QED
      BY <3>1 DEF IsFatal
  <2> QED
    BY <1>6, <2>7, <2>12, <2>14, <2>15 DEF Grown, want, new, i, e
<1> QED
  BY <1>7, <1>11, <1>12, <1>13 DEF Grown, parts

\* treeInsert grows a tree.
LEMMA InsertGrows ==
  ASSUME NEW h \in 0 .. MaxHeight, h < MaxHeight, NEW t \in Trees[h],
         NEW key \in Key, NEW val \in Value
  PROVE  /\ Grown(h, t, Entry(key, val, Nil), TreeInsert(t.node, key, val))
         /\ h = 0 => TreeInsert(t.node, key, val) = LeafPut(t.node, key, val)
<1> DEFINE e == Entry(key, val, Nil)
           P == Path(t.node, key)
<1>1. PICK new : /\ TreeInsert(t.node, key, val) = new[1]
                 /\ \A l \in 1 .. MaxHeight : new[l] = InsertStep(P, key, val, l, new[l + 1])
  BY InsertFollows
<1>2. P[1] = t.node /\ \A m \in 1 .. MaxHeight - 1 : P[m + 1] = Onward(P[m], key)
  BY PathStep
<1>3. MaxHeight \in Nat /\ h \in Nat
  BY TreesStep
<1> HIDE DEF e, P
<1> DEFINE Q(d) == \A u \in Trees[d] : u.node = P[(h + 1) - d] => Grown(d, u, e, new[(h + 1) - d])
           T == {d \in 0 .. h : ~Q(d)}
<1>4. ASSUME NEW d \in 0 .. h, d = 0 PROVE Q(d)
  <2> SUFFICES ASSUME NEW u \in Trees[0], u.node = P[h + 1] PROVE Grown(0, u, e, new[h + 1])
    <3>1. (h + 1) - d = h + 1
      BY <1>3, <1>4
    <3> QED
      BY <1>4, <3>1
  <2>1. h + 1 \in 1 .. MaxHeight /\ 0 \in 0 .. MaxHeight
    BY <1>3
  <2>2. P[h + 1].type = Leaf
    BY <2>1, TreeNode
  <2>3. new[h + 1] = LeafPut(u.node, key, val)
    BY <1>1, <2>1, <2>2 DEF InsertStep
  <2> QED
    BY <2>3, LeafGrows DEF e
<1>5. ASSUME NEW d \in 0 .. h, d # 0, Q(d - 1) PROVE Q(d)
  <2> DEFINE l == (h + 1) - d
  <2>1. /\ l \in 1 .. MaxHeight /\ l \in 1 .. MaxHeight - 1 /\ l # MaxHeight
        /\ d \in 1 .. MaxHeight /\ d \in 0 .. MaxHeight /\ d - 1 \in 0 .. MaxHeight
        /\ (h + 1) - (d - 1) = l + 1
    BY <1>3, <1>5
  <2> HIDE DEF l
  <2> SUFFICES ASSUME NEW u \in Trees[d], u.node = P[l] PROVE Grown(d, u, e, new[l])
    BY DEF l
  <2>2. PICK q \in Seq(Trees[d - 1]) : IsTreeSeq(q) /\ u = Combined(q) /\ u.node = Over(q)
    BY <1>5, <2>1, TreeNode
  <2>3. HasKids(P[l]) /\ P[l].type = Inner /\ P[l].ents # << >>
    BY <1>5, <2>1, TreeNode
  <2> DEFINE i == NodeLookupLE(Over(q), key)
  <2>4. i \in 1 .. Len(q)
    <3>1. key \in Nat
      BY LeafEntries
    <3> QED
      BY <2>1, <2>2, <3>1, KidFor
  <2>5. P[l + 1] = Over(q).ents[i].p
    BY <1>2, <2>1, <2>2, <2>3 DEF Onward
  <2>6. new[l] = NodeInsert(Over(q), i, new[l + 1])
    <3>1. P[l].type # Leaf
      BY <2>3 DEF Leaf, Inner
    <3>2. new[l] = InsertStep(P, key, val, l, new[l + 1])
      BY <1>1, <2>1
    <3>3. P[l] = Over(q)
      BY <2>2
    <3> HIDE DEF i
    <3> QED
      BY <2>1, <2>3, <3>1, <3>2, <3>3 DEF InsertStep, i
  <2> HIDE DEF i
  <2>7. q[i] \in Trees[d - 1] /\ q[i].node = P[l + 1]
    BY <2>1, <2>4, <2>5, RowFacts
  <2>8. Grown(d - 1, q[i], e, new[l + 1])
    BY <1>5, <2>1, <2>7
  <2>9. Grown(d, Combined(q), e, NodeInsert(Over(q), i, new[l + 1]))
    BY <2>1, <2>2, <2>8, InnerGrows DEF e, i
  <2> QED
    BY <2>2, <2>6, <2>9
<1>6. T = {}
  <2> SUFFICES ASSUME T # {} PROVE FALSE
    OBVIOUS
  <2>1. PICK d \in T : \A y \in T : d <= y
    <3>1. T \subseteq Nat /\ T # {}
      BY <1>3
    <3> HIDE DEF T
    <3> QED
      BY <3>1, LeastNat
  <2>2. d \in 0 .. h /\ ~Q(d)
    OBVIOUS
  <2> HIDE DEF Q
  <2>3. d # 0
    BY <1>4, <2>2
  <2>4. d - 1 \in 0 .. h /\ ~(d <= d - 1)
    BY <1>3, <2>2, <2>3
  <2>5. d - 1 \notin T
    BY <2>1, <2>4
  <2> QED
    BY <1>5, <2>2, <2>3, <2>4, <2>5
<1>7. Grown(h, t, e, new[1])
  <2>1. h \in 0 .. h /\ (h + 1) - h = 1
    BY <1>3
  <2>2. Q(h)
    BY <1>6, <2>1
  <2> QED
    BY <1>2, <2>1, <2>2
<1>8. ASSUME h = 0 PROVE new[1] = LeafPut(t.node, key, val)
  <2>1. 1 \in 1 .. MaxHeight /\ 0 \in 0 .. MaxHeight
    BY <1>3
  <2>2. P[1].type = Leaf
    BY <1>2, <1>8, <2>1, TreeNode
  <2> QED
    BY <1>1, <1>2, <2>1, <2>2 DEF InsertStep
<1> QED
  BY <1>1, <1>7, <1>8 DEF e

-----------------------------------------------------------------------------
(* Insert, at the root.                                                     *)

\* What holds of every node, also of trees that came to harm.
FineNode(n) ==
  ~IsFatal(n) /\ IsEnts(n.ents) /\ Ascending(n.ents) /\ NBytes(n) <= PageSize

\* A root that came to harm: its kids, if any, are leaves.
Shallow(n) ==
  n.type = Inner /\ FineNode(n) /\ \A m \in Kids(n) : FineNode(m) /\ m.type = Leaf

\* Entries without the first.
IsTail(s, t) ==
  /\ t \in Seq(LeafEntry) /\ Ascending(t) /\ IsEnts(t) /\ NBytes(Node(Leaf, t)) <= PageSize
  /\ Len(s) # 1 => IsLeafSeq(t) /\ FirstKey(Node(Leaf, s)) < FirstKey(Node(Leaf, t))
  /\ Len(s) = 1 => t = << >>
  /\ EntsIn(t) = EntsIn(s) \ {s[1]}

LEMMA TailEnts ==
  ASSUME NEW s \in Seq(LeafEntry), IsLeafSeq(s)
  PROVE  IsTail(s, Tail(s))
<1> DEFINE t == Tail(s)
<1>1. s # << >> /\ Ascending(s) /\ NBytes(Node(Leaf, s)) <= PageSize
  BY DEF IsLeafSeq
<1>2. /\ t \in Seq(LeafEntry) /\ Len(t) = Len(s) - 1
      /\ \A i \in 1 .. Len(t) : t[i] = s[i + 1]
  BY <1>1, HeadTailProperties
<1>3. Len(s) \in Nat /\ Len(s) # 0 /\ \A i \in 1 .. Len(s) : s[i] \in LeafEntry /\ s[i].k \in Nat
  BY <1>1, LenProperties, ElementOfSeq, LeafEntries, EmptySeq
<1>4. IsEnts(s) /\ IsEnts(t)
  BY <1>2, LeafEntries DEF IsEnts
<1>5. t = SubSeq(s, 1 + 1, Len(s))
  BY <1>1, TailIsSubSeq
<1>6. SumBytes(t) = Sums(s)[Len(s)] - Sums(s)[1]
  <2>1. 1 \in 0 .. Len(s)
    BY <1>3
  <2>2. SumBytes(SubSeq(s, 1 + 1, Len(s))) = Sums(s)[Len(s)] - Sums(s)[1]
    BY <1>4, <2>1, LastEnts
  <2> QED
    BY <1>5, <2>2
<1>7. NBytes(Node(Leaf, t)) <= PageSize
  <2>1. Sums(s)[1] \in Nat /\ Sums(s)[Len(s)] \in Nat /\ SumBytes(s) = Sums(s)[Len(s)]
    BY <1>3, <1>4, SumsStep
  <2>2. NBytes(Node(Leaf, s)) = Header + SumBytes(s) /\ NBytes(Node(Leaf, t)) = Header + SumBytes(t)
    BY DEF NBytes, Node
  <2>3. Header \in Nat /\ PageSize \in Nat
    BY BNodeAssumption
  <2> QED
    BY <1>1, <1>6, <2>1, <2>2, <2>3
<1> HIDE DEF t
<1>8. \A i, j \in 1 .. Len(s) : i < j => s[i].k < s[j].k
  BY <1>1 DEF Ascending
<1>9. Ascending(t)
  <2> SUFFICES ASSUME NEW i \in 1 .. Len(t), NEW j \in 1 .. Len(t), i < j
               PROVE  t[i].k < t[j].k
    BY DEF Ascending
  <2>1. i + 1 \in 1 .. Len(s) /\ j + 1 \in 1 .. Len(s) /\ i + 1 < j + 1
    BY <1>2, <1>3
  <2> QED
    BY <1>2, <1>8, <2>1
<1>10. Len(s) = 1 => t = << >>
  BY <1>2, EmptySeq
<1>11. Len(s) # 1 => IsLeafSeq(t) /\ FirstKey(Node(Leaf, s)) < FirstKey(Node(Leaf, t))
  <2> SUFFICES ASSUME Len(s) # 1
               PROVE  IsLeafSeq(t) /\ FirstKey(Node(Leaf, s)) < FirstKey(Node(Leaf, t))
    OBVIOUS
  <2>1. Len(t) # 0 /\ 1 \in 1 .. Len(t) /\ 1 \in 1 .. Len(s) /\ 1 + 1 \in 1 .. Len(s) /\ 1 < 1 + 1
    BY <1>2, <1>3
  <2>2. t # << >>
    BY <2>1, EmptySeq
  <2>3. s[1].k < t[1].k
    BY <1>2, <1>8, <2>1
  <2> QED
    BY <1>1, <1>7, <1>9, <2>2, <2>3 DEF IsLeafSeq, FirstKey, Node
<1>12. EntsIn(t) = EntsIn(s) \ {s[1]}
  <2>1. ASSUME NEW x \in EntsIn(t) PROVE x \in EntsIn(s) \ {s[1]}
    <3>1. PICK i \in 1 .. Len(t) : x = t[i]
      BY DEF EntsIn
    <3>2. i + 1 \in 1 .. Len(s) /\ 1 \in 1 .. Len(s) /\ 1 < i + 1
      BY <1>2, <1>3
    <3>3. x = s[i + 1] /\ s[1].k < s[i + 1].k
      BY <1>2, <1>8, <3>1, <3>2
    <3>4. x # s[1]
      BY <1>3, <3>2, <3>3
    <3> QED
      BY <3>2, <3>3, <3>4 DEF EntsIn
  <2>2. ASSUME NEW x \in EntsIn(s) \ {s[1]} PROVE x \in EntsIn(t)
    <3>1. PICK i \in 1 .. Len(s) : x = s[i]
      BY DEF EntsIn
    <3>2. i # 1
      BY <3>1
    <3>3. i - 1 \in 1 .. Len(t) /\ (i - 1) + 1 = i
      BY <1>2, <1>3, <3>2
    <3>4. x = t[i - 1]
      BY <1>2, <3>1, <3>3
    <3> QED
      BY <3>3, <3>4 DEF EntsIn
  <2> QED
    BY <2>1, <2>2
<1> QED
  BY <1>2, <1>4, <1>7, <1>9, <1>10, <1>11, <1>12 DEF IsTail, t

\* Up to three kids: the node above them fits a page.
LEMMA FewKids ==
  ASSUME NEW kids, NEW P \in 1 .. 3, Key # {},
         \A i \in 1 .. P : FirstKey(kids[i]) \in Key \union {0}
  PROVE  LET n == Node(Inner, [i \in 1 .. P |-> KidEntry(kids[i])]) IN
         /\ IsEnts(n.ents) /\ NKeys(n) = P /\ NBytes(n) <= PageSize
         /\ \A i \in 1 .. P : n.ents[i] = KidEntry(kids[i]) /\ n.ents[i].k = FirstKey(kids[i])
<1> DEFINE s == [i \in 1 .. P |-> KidEntry(kids[i])]
           n == Node(Inner, s)
           S == {KidEntry(kids[i]) : i \in 1 .. P}
<1>1. \A i \in 1 .. P : /\ s[i] = KidEntry(kids[i]) /\ KidEntry(kids[i]).k = FirstKey(kids[i])
                        /\ KidEntry(kids[i]).v = Nil
  BY DEF KidEntry, Entry
<1>2. \A e \in S : IsEntry(e)
  BY <1>1, LeafEntries DEF IsEntry
<1>3. s \in Seq(S) /\ Len(s) = P
  <2>1. s \in [1 .. P -> S] /\ P \in Nat
    OBVIOUS
  <2> HIDE DEF s, S
  <2> QED
    BY <2>1, FunctionSeq
<1> HIDE DEF s, S
<1>4. IsEnts(s)
  BY <1>2, <1>3 DEF IsEnts
<1>5. ASSUME NEW i \in 1 .. Len(s) PROVE Header + 3 * EntryBytes(s[i]) <= PageSize
  <2>1. EntryBytes(s[i]) = Slot + KeyLen[FirstKey(kids[i])]
    <3>1. s[i].v = Nil /\ s[i].k = FirstKey(kids[i])
      BY <1>1, <1>3
    <3>2. FirstKey(kids[i]) \in Key \union {0}
      BY <1>3
    <3>3. Slot \in Nat /\ KeyLen[FirstKey(kids[i])] \in Nat
      BY <3>2, BNodeAssumption, BTreeAssumption
    <3> QED
      BY <3>1, <3>3 DEF EntryBytes
  <2>2. \A k \in Key \union {0} : Header + 3 * (Slot + KeyLen[k]) <= PageSize
    <3>1. PICK key \in Key : TRUE
      OBVIOUS
    <3>2. KeyLen[0] = 0 /\ KeyLen[key] \in Nat
          /\ \A k \in Key : Header + 3 * (Slot + KeyLen[k]) <= PageSize
      BY BTreeAssumption
    <3>3. Header \in Nat /\ Slot \in Nat /\ PageSize \in Nat
      BY BNodeAssumption
    <3>4. Header + 3 * (Slot + KeyLen[0]) <= PageSize
      BY <3>2, <3>3
    <3> QED
      BY <3>2, <3>4
  <2> QED
    BY <1>3, <2>1, <2>2
<1>6. Header + SumBytes(s) <= PageSize
  BY <1>3, <1>4, <1>5, FewEnts
<1>7. n.ents = s
  BY DEF Node
<1> QED
  BY <1>1, <1>3, <1>4, <1>6, <1>7 DEF NKeys, NBytes, s

\* What Insert makes of a tree t of height h, with one more level or without.
\* The entry of the empty key may go with the first split; when it was not
\* there, another one goes.
RootGrown(h, t, e, new) ==
  LET want == Put(t.holds, e) IN
  \/ new = Fatal("assert") /\ Large(want)
  \/ \E d \in {h, h + 1} : \E u \in Trees[d] :
       /\ u.node = new
       /\ u.holds = want \/ (d # 0 /\ u.holds = want \ {Entry(0, Nil, Nil)})
       /\ h = 0 /\ d # 0 => FirstKey(t.node) = 0
  \/ h = 0 /\ FirstKey(t.node) # 0 /\ Shallow(new)

\* A root over the parts of an inner root.
LEMMA InnerRootGrows ==
  ASSUME NEW h \in 1 .. MaxHeight, h < MaxHeight, NEW t \in Trees[h], NEW e,
         NEW parts, NEW ts, IsRow(h, parts, ts, Put(t.holds, e)), Len(parts) \in 2 .. 3, Key # {}
  PROVE  RootGrown(h, t, e, NewRoot(t.node, parts))
<1> DEFINE want == Put(t.holds, e)
<1>1. /\ ts \in Seq(Trees[h]) /\ Len(ts) = Len(parts) /\ Sorted(ts) /\ HoldsOf(ts) = want
      /\ \A i \in 1 .. Len(parts) : ts[i].node = parts[i]
  BY DEF IsRow
<1>2. h \in 0 .. MaxHeight /\ h + 1 \in 1 .. MaxHeight /\ (h + 1) - 1 = h /\ h # 0 /\ h + 1 # 0
  BY TreesStep
<1>3. Over(ts).ents = [i \in 1 .. Len(parts) |-> KidEntry(parts[i])]
  BY RowEntries
<1>4. NewRoot(t.node, parts) = Over(ts)
  <2>1. t.node.type # Leaf
    BY <1>2, TreeNode DEF Leaf, Inner
  <2>2. NewRoot(t.node, parts) = Node(Inner, [i \in 1 .. Len(parts) |-> KidEntry(parts[i])])
    BY <2>1 DEF NewRoot
  <2>3. Over(ts) = Node(Inner, Over(ts).ents)
    BY DEF Over, Node
  <2> QED
    BY <1>3, <2>2, <2>3
<1>5. \A i \in 1 .. Len(parts) : FirstKey(parts[i]) \in Key \union {0}
  BY <1>1, <1>2, RowFacts DEF Sane
<1>6. NBytes(Over(ts)) <= PageSize
  <2>1. Len(parts) \in 1 .. 3
    OBVIOUS
  <2>2. NBytes(Node(Inner, [i \in 1 .. Len(parts) |-> KidEntry(parts[i])])) <= PageSize
    BY <1>5, <2>1, FewKids
  <2>3. Over(ts) = Node(Inner, Over(ts).ents)
    BY DEF Over, Node
  <2> QED
    BY <1>3, <2>2, <2>3
<1>7. ts # << >>
  BY <1>1, EmptySeq
<1>8. IsTreeSeq(ts)
  BY <1>1, <1>6, <1>7 DEF IsTreeSeq
<1>9. Combined(ts) \in Trees[h + 1] /\ Combined(ts).node = Over(ts) /\ Combined(ts).holds = want
  BY <1>1, <1>2, <1>8, InnerTreeIs DEF Combined
<1> QED
  BY <1>2, <1>4, <1>9 DEF RootGrown

\* The leaves of a split root, the first without its first entry.
Trimmed(parts) == [parts EXCEPT ![1] = Node(Leaf, Tail(parts[1].ents))]

\* A root over the parts of a leaf, when the first part has more than one entry.
LEMMA TrimmedRow ==
  ASSUME NEW parts, NEW ts, NEW H, IsRow(0, parts, ts, H), Len(parts) \in 2 .. 3,
         DOMAIN parts = 1 .. Len(parts), NKeys(parts[1]) # 1, Key # {}
  PROVE  \E u \in Trees[1] : /\ u.node = Node(Inner, [i \in 1 .. Len(parts) |-> KidEntry(Trimmed(parts)[i])])
                             /\ u.holds = H \ {parts[1].ents[1]}
<1> DEFINE P == Len(parts)
           s == parts[1].ents
           kids == Trimmed(parts)
           us == [i \in 1 .. P |-> IF i = 1 THEN Single(Tail(s)) ELSE ts[i]]
<1>1. /\ ts \in Seq(Trees[0]) /\ Len(ts) = P /\ Sorted(ts) /\ HoldsOf(ts) = H
      /\ \A i \in 1 .. P : ts[i].node = parts[i]
  BY DEF IsRow
<1>2. P \in Nat /\ 1 \in 1 .. P /\ 0 \in 0 .. MaxHeight /\ 1 \in 1 .. MaxHeight /\ 1 - 1 = 0
      /\ P \in 1 .. 3 /\ P # 0
  BY TreesStep
<1>3. \A i \in 1 .. P : ts[i] \in Trees[0] /\ Sane(ts[i], 0)
  BY <1>1, <1>2, RowFacts
<1>4. s \in Seq(LeafEntry) /\ IsLeafSeq(s) /\ ts[1] = Single(s) /\ ts[1].holds = EntsIn(s)
  BY <1>1, <1>2, <1>3, TreeNode
<1>5. IsTail(s, Tail(s))
  BY <1>4, TailEnts
<1>6. Len(s) # 1
  BY DEF NKeys
<1>7. /\ Single(Tail(s)) \in Trees[0]
      /\ Single(Tail(s)).node = Node(Leaf, Tail(s))
      /\ Single(Tail(s)).holds = EntsIn(s) \ {s[1]}
  BY <1>5, <1>6, LeafTreeIs DEF IsTail, Single
<1>8. s[1] \in EntsIn(s)
  BY <1>4, LenProperties, EmptySeq DEF IsLeafSeq, EntsIn
<1>9. ASSUME NEW i \in 1 .. P
      PROVE  us[i] \in Trees[0] /\ us[i].node = kids[i] /\ us[i].holds \subseteq ts[i].holds
  BY <1>1, <1>2, <1>3, <1>4, <1>7 DEF Trimmed
<1>10. us[1].holds = EntsIn(s) \ {s[1]} /\ \A i \in 1 .. P : i # 1 => us[i] = ts[i]
  BY <1>2, <1>7
<1>11. us \in Seq(Trees[0]) /\ Len(us) = P
  <2>1. us \in [1 .. P -> Trees[0]]
    BY <1>9
  <2> HIDE DEF us, P
  <2> QED
    BY <1>2, <2>1, FunctionSeq
<1> HIDE DEF us, P, s, kids
<1>12. Sorted(us)
  BY <1>1, <1>9, <1>11 DEF Sorted, Precedes
<1>13. HoldsOf(us) = H \ {s[1]}
  <2>1. ASSUME NEW x \in HoldsOf(us) PROVE x \in H \ {s[1]}
    <3>1. PICK i \in 1 .. P : x \in us[i].holds
      BY <1>11, HoldsOfFacts
    <3>2. x \in H
      BY <1>1, <1>9, <3>1, HoldsOfFacts
    <3>3. x # s[1]
      <4>1. CASE i = 1
        BY <1>10, <3>1, <4>1
      <4>2. CASE i # 1
        <5>1. 1 < i
          BY <1>2, <4>2
        <5>2. s[1].k < x.k
          BY <1>1, <1>2, <1>4, <1>8, <1>9, <3>1, <5>1 DEF Sorted, Precedes
        <5>3. x.k \in Nat
          BY <1>3, <1>9, <3>1, LeafEntries DEF Sane
        <5> QED
          BY <5>2, <5>3
      <4> QED
        BY <4>1, <4>2
    <3> QED
      BY <3>2, <3>3
  <2>2. ASSUME NEW x \in H \ {s[1]} PROVE x \in HoldsOf(us)
    <3>1. PICK i \in 1 .. P : x \in ts[i].holds
      BY <1>1, HoldsOfFacts
    <3>2. x \in us[i].holds
      BY <1>4, <1>10, <3>1
    <3> QED
      BY <1>11, <3>2, HoldsOfFacts
  <2> QED
    BY <2>1, <2>2
<1>14. Over(us) = Node(Inner, [i \in 1 .. P |-> KidEntry(kids[i])])
  <2>1. Over(us) = Node(Inner, [i \in 1 .. P |-> KidEntry(us[i].node)])
    BY <1>11 DEF Over
  <2>2. [i \in 1 .. P |-> KidEntry(us[i].node)] = [i \in 1 .. P |-> KidEntry(kids[i])]
    BY <1>9
  <2> QED
    BY <2>1, <2>2
<1>15. NBytes(Over(us)) <= PageSize
  <2>1. \A i \in 1 .. P : FirstKey(kids[i]) \in Key \union {0}
    <3>1. \A i \in 1 .. P : Sane(us[i], 0)
      BY <1>2, <1>11, RowFacts
    <3> QED
      BY <1>9, <3>1 DEF Sane
  <2>2. NBytes(Node(Inner, [i \in 1 .. P |-> KidEntry(kids[i])])) <= PageSize
    BY <1>2, <2>1, FewKids
  <2> QED
    BY <1>14, <2>2
<1>16. IsTreeSeq(us)
  <2>1. us # << >>
    BY <1>2, <1>11, EmptySeq
  <2> QED
    BY <1>12, <1>15, <2>1 DEF IsTreeSeq
<1>17. Combined(us) \in Trees[1] /\ Combined(us).node = Over(us) /\ Combined(us).holds = HoldsOf(us)
  <2>1. us \in Seq(Trees[1 - 1])
    BY <1>2, <1>11
  <2> QED
    BY <1>2, <1>16, <2>1, InnerTreeIs DEF Combined
<1> QED
  BY <1>13, <1>14, <1>17 DEF P, s, kids

\* A root over the parts of a leaf, whatever the first one loses.
LEMMA TrimmedShallow ==
  ASSUME NEW parts, NEW ts, NEW H, IsRow(0, parts, ts, H), Len(parts) \in 2 .. 3,
         DOMAIN parts = 1 .. Len(parts), Key # {}
  PROVE  Shallow(Node(Inner, [i \in 1 .. Len(parts) |-> KidEntry(Trimmed(parts)[i])]))
<1> DEFINE P == Len(parts)
           s == parts[1].ents
           kids == Trimmed(parts)
           n == Node(Inner, [i \in 1 .. P |-> KidEntry(kids[i])])
<1>1. /\ ts \in Seq(Trees[0]) /\ Len(ts) = P /\ Sorted(ts)
      /\ \A i \in 1 .. P : ts[i].node = parts[i]
  BY DEF IsRow
<1>2. P \in Nat /\ 1 \in 1 .. P /\ 0 \in 0 .. MaxHeight /\ P \in 1 .. 3
  BY TreesStep
<1>3. \A i \in 1 .. P : ts[i] \in Trees[0] /\ Sane(ts[i], 0)
  BY <1>1, <1>2, RowFacts
<1>4. s \in Seq(LeafEntry) /\ IsLeafSeq(s) /\ parts[1] = Node(Leaf, s)
  <2>1. ts[1].node.ents \in Seq(LeafEntry) /\ IsLeafSeq(ts[1].node.ents)
        /\ ts[1] = Single(ts[1].node.ents)
    BY <1>2, <1>3, TreeNode
  <2>2. ts[1].node = parts[1]
    BY <1>1, <1>2
  <2>3. Single(s).node = Node(Leaf, s)
    BY DEF Single
  <2> QED
    BY <2>1, <2>2, <2>3
<1>5. IsTail(s, Tail(s))
  BY <1>4, TailEnts
<1>6. kids[1] = Node(Leaf, Tail(s)) /\ \A i \in 1 .. P : i # 1 => kids[i] = parts[i]
  BY <1>2 DEF Trimmed
<1> HIDE DEF P, s, kids
<1>7. \A i \in 1 .. P : /\ FineNode(parts[i]) /\ parts[i].type = Leaf
                        /\ FirstKey(parts[i]) \in Key \union {0} /\ FirstKey(parts[i]) \in Nat
  <2> SUFFICES ASSUME NEW i \in 1 .. P
               PROVE  /\ FineNode(parts[i]) /\ parts[i].type = Leaf
                      /\ FirstKey(parts[i]) \in Key \union {0} /\ FirstKey(parts[i]) \in Nat
    OBVIOUS
  <2>1. Sane(ts[i], 0) /\ ts[i].node = parts[i]
    BY <1>1, <1>3
  <2> QED
    BY <2>1, LeafEntries DEF Sane, FineNode, IsFatal
<1>8. /\ FineNode(kids[1]) /\ kids[1].type = Leaf
      /\ FirstKey(kids[1]) \in Key \union {0}
  <2>1. /\ Tail(s) \in Seq(LeafEntry) /\ Ascending(Tail(s)) /\ IsEnts(Tail(s))
        /\ NBytes(Node(Leaf, Tail(s))) <= PageSize
    BY <1>5 DEF IsTail
  <2>2. kids[1].type = Leaf /\ kids[1].ents = Tail(s)
    BY <1>6 DEF Node
  <2>3. FineNode(kids[1])
    BY <1>6, <2>1, <2>2 DEF FineNode, IsFatal
  <2>4. FirstKey(kids[1]) \in Key \union {0}
    <3>1. CASE Tail(s) = << >>
      BY <2>2, <3>1 DEF FirstKey
    <3>2. CASE Tail(s) # << >>
      <4>1. Tail(s)[1] \in LeafEntry
        BY <2>1, <3>2, LenProperties, EmptySeq, ElementOfSeq
      <4> QED
        BY <2>2, <3>2, <4>1, LeafEntries DEF FirstKey
    <3> QED
      BY <3>1, <3>2
  <2> QED
    BY <2>2, <2>3, <2>4
<1>9. \A i \in 1 .. P : /\ FineNode(kids[i]) /\ kids[i].type = Leaf
                        /\ FirstKey(kids[i]) \in Key \union {0} /\ FirstKey(kids[i]) \in Nat
  BY <1>6, <1>7, <1>8, LeafEntries
<1>10. /\ IsEnts(n.ents) /\ NKeys(n) = P /\ NBytes(n) <= PageSize
       /\ \A i \in 1 .. P : n.ents[i] = KidEntry(kids[i]) /\ n.ents[i].k = FirstKey(kids[i])
  BY <1>2, <1>9, FewKids
<1>11. n.type = Inner
  BY DEF Node
<1>12. \A i, j \in 1 .. P : i < j => FirstKey(parts[i]) < FirstKey(parts[j])
  <2> SUFFICES ASSUME NEW i \in 1 .. P, NEW j \in 1 .. P, i < j
               PROVE  FirstKey(parts[i]) < FirstKey(parts[j])
    OBVIOUS
  <2>1. \E x \in ts[i].holds : x.k = FirstKey(parts[i])
    BY <1>1, <1>3 DEF Sane
  <2>2. \E x \in ts[j].holds : x.k = FirstKey(parts[j])
    BY <1>1, <1>3 DEF Sane
  <2> QED
    BY <1>1, <2>1, <2>2 DEF Sorted, Precedes
<1>13. ASSUME NEW j \in 1 .. P, j # 1 PROVE FirstKey(kids[1]) < FirstKey(parts[j])
  <2>1. FirstKey(parts[1]) < FirstKey(parts[j]) /\ FirstKey(parts[1]) \in Nat /\ FirstKey(parts[j]) \in Nat
    <3>1. 1 < j
      BY <1>2, <1>13
    <3> QED
      BY <1>2, <1>7, <1>12, <3>1
  <2>2. CASE Tail(s) = << >>
    <3>1. FirstKey(kids[1]) = 0
      BY <1>6, <2>2 DEF FirstKey, Node
    <3> QED
      BY <2>1, <3>1
  <2>3. CASE Tail(s) # << >>
    <3>1. Tail(s)[1] \in EntsIn(Tail(s))
      BY <1>5, <2>3, LenProperties, EmptySeq, SMTT(20) DEF IsTail, EntsIn
    <3>2. Tail(s)[1] \in EntsIn(s)
      BY <1>5, <3>1 DEF IsTail
    <3>3. FirstKey(kids[1]) = Tail(s)[1].k
      BY <1>6, <2>3 DEF FirstKey, Node
    <3>4. Tail(s)[1] \in ts[1].holds
      <4>1. ts[1].holds = EntsIn(ts[1].node.ents) /\ ts[1].node = parts[1]
        BY <1>1, <1>2, <1>3, TreeNode
      <4> QED
        BY <3>2, <4>1 DEF s
    <3>5. \E x \in ts[j].holds : x.k = FirstKey(parts[j])
      BY <1>1, <1>3 DEF Sane
    <3>6. 1 < j
      BY <1>2, <1>13
    <3> QED
      BY <1>1, <1>2, <3>3, <3>4, <3>5, <3>6 DEF Sorted, Precedes
  <2> QED
    BY <2>2, <2>3
<1>14. Ascending(n.ents)
  <2>1. Len(n.ents) = P
    BY <1>10 DEF NKeys
  <2> SUFFICES ASSUME NEW i \in 1 .. P, NEW j \in 1 .. P, i < j
               PROVE  n.ents[i].k < n.ents[j].k
    BY <2>1 DEF Ascending
  <2>2. j # 1
    BY <1>2
  <2>3. n.ents[i].k = FirstKey(kids[i]) /\ n.ents[j].k = FirstKey(parts[j])
    BY <1>6, <1>10, <2>2
  <2>4. CASE i = 1
    BY <1>13, <2>2, <2>3, <2>4
  <2>5. CASE i # 1
    BY <1>6, <1>12, <2>3, <2>5
  <2> QED
    BY <2>4, <2>5
<1>15. ASSUME NEW m \in Kids(n) PROVE FineNode(m) /\ m.type = Leaf
  <2>1. PICK i \in 1 .. P : m = n.ents[i].p
    BY <1>10, <1>11 DEF Kids
  <2>2. m = kids[i]
    BY <1>10, <2>1 DEF KidEntry, Entry
  <2> QED
    BY <1>9, <2>2
<1> HIDE DEF n
<1>16. FineNode(n)
  BY <1>10, <1>11, <1>14 DEF FineNode, IsFatal
<1>17. Shallow(n)
  BY <1>11, <1>15, <1>16 DEF Shallow
<1> QED
  BY <1>17 DEF n, P, kids

\* The parts of a node are a sequence.
LEMMA SplitDomain ==
  ASSUME NEW n
  PROVE  DOMAIN NodeSplit3(n) = 1 .. Len(NodeSplit3(n))
<1>1. \/ \E a : NodeSplit3(n) = <<a>>
      \/ \E a, b : NodeSplit3(n) = <<a, b>>
      \/ \E a, b, c : NodeSplit3(n) = <<a, b, c>>
  BY DEF NodeSplit3
<1> QED
  BY <1>1

\* A root that is a leaf and is split.
LEMMA LeafRootGrows ==
  ASSUME NEW t \in Trees[0], NEW key \in Key, NEW val \in Value, NEW ts,
         LET m == LeafPut(t.node, key, val)
             parts == NodeSplit3(m)
         IN  /\ SplitsInto(m, parts) /\ Len(parts) \in 2 .. 3
             /\ IsRow(0, parts, ts, Put(t.holds, Entry(key, val, Nil)))
  PROVE  RootGrown(0, t, Entry(key, val, Nil), NewRoot(t.node, NodeSplit3(LeafPut(t.node, key, val))))
<1> DEFINE m == LeafPut(t.node, key, val)
           parts == NodeSplit3(m)
           e == Entry(key, val, Nil)
           want == Put(t.holds, e)
           zero == Entry(0, Nil, Nil)
           new == NewRoot(t.node, parts)
           N == Node(Inner, [i \in 1 .. Len(parts) |-> KidEntry(Trimmed(parts)[i])])
<1>1. /\ m.type = Leaf /\ m.ents \in Seq(LeafEntry) /\ Ascending(m.ents)
      /\ EntsIn(m.ents) = want /\ \E z : Outgrown(m, z)
  BY LeafGrows
<1>2. SplitsInto(m, parts) /\ Len(parts) \in 2 .. 3 /\ IsRow(0, parts, ts, want)
  OBVIOUS
<1>3. DOMAIN parts = 1 .. Len(parts)
  BY SplitDomain
<1>4. Sane(t, 0) /\ t.node.type = Leaf /\ 0 \in 0 .. MaxHeight /\ Key # {}
  BY TreeNode, TreesStep
<1>5. new = N
  <2> HIDE DEF parts, m, want
  <2>1. parts[1].type = Leaf
    <3>1. \A p \in 2 .. 3 : 1 \in 1 .. p
      OBVIOUS
    <3>2. 1 \in 1 .. Len(parts)
      BY <1>2, <3>1
    <3> QED
      BY <1>1, <1>2, <3>2 DEF SplitsInto
  <2>2. [parts EXCEPT ![1] = Node(parts[1].type, Tail(parts[1].ents))] = Trimmed(parts)
    BY <2>1 DEF Trimmed
  <2>3. Len(Trimmed(parts)) = Len(parts)
    BY <1>2, <1>3 DEF Trimmed
  <2>4. new = LET kids == [parts EXCEPT ![1] = Node(parts[1].type, Tail(parts[1].ents))]
              IN  Node(Inner, [i \in 1 .. Len(kids) |-> KidEntry(kids[i])])
    BY <1>4 DEF NewRoot
  <2>5. new = Node(Inner, [i \in 1 .. Len(Trimmed(parts)) |-> KidEntry(Trimmed(parts)[i])])
    BY <2>2, <2>4
  <2> QED
    BY <2>3, <2>5
<1> HIDE DEF parts, m, want, new
<1>6. CASE FirstKey(t.node) # 0
  <2>1. Shallow(N)
    BY <1>2, <1>3, <1>4, TrimmedShallow
  <2> QED
    BY <1>5, <1>6, <2>1 DEF RootGrown, new, parts, m
<1>7. CASE FirstKey(t.node) = 0
  <2>1. zero \in want
    <3>1. PICK x \in t.holds : x.k = 0
      BY <1>4, <1>7 DEF Sane
    <3>2. x \in LeafEntry
      BY <1>4 DEF Sane
    <3>3. x = zero
      BY <3>1, <3>2, LeafEntries DEF LeafEntry, Entry
    <3>4. e.k = key /\ key # 0
      BY BTreeAssumption DEF Entry
    <3> QED
      BY <3>1, <3>3, <3>4 DEF want, Put
  <2>2. \A x \in LeafEntry : x.k \in Nat /\ (x.k = 0 => x = zero)
    BY LeafEntries DEF LeafEntry, Entry
  <2>3. m.ents[1] = zero
    <3>1. PICK i \in 1 .. Len(m.ents) : m.ents[i] = zero
      BY <1>1, <2>1 DEF EntsIn
    <3>2. Len(m.ents) \in Nat /\ 1 \in 1 .. Len(m.ents)
      BY <1>1, <3>1, LenProperties
    <3>3. m.ents[1] \in LeafEntry
      BY <1>1, <3>2, ElementOfSeq
    <3>4. CASE i = 1
      BY <3>1, <3>4
    <3>5. CASE i # 1
      <4>1. 1 < i
        BY <3>2, <3>5
      <4>2. m.ents[1].k < zero.k
        BY <1>1, <3>1, <3>2, <4>1 DEF Ascending
      <4>3. zero.k = 0
        BY DEF Entry
      <4> QED
        BY <2>2, <3>3, <4>2, <4>3
    <3> QED
      BY <3>4, <3>5
  <2>4. NKeys(parts[1]) # 1
    <3>1. PICK z : Outgrown(m, z)
      BY <1>1
    <3>2. NBytes(m) > PageSize
      <4> SUFFICES ASSUME ~(NBytes(m) > PageSize) PROVE FALSE
        OBVIOUS
      <4>1. NBytes(m) \in Nat /\ PageSize \in Nat
        BY <3>1, Sizes DEF Outgrown
      <4>2. parts = <<m>>
        BY <4>1 DEF parts, NodeSplit3
      <4> QED
        BY <1>2, <4>2
    <3>3. 2 * (Header + EntryBytes(m.ents[1])) < PageSize
      BY <2>3, LeafBytes
    <3> QED
      BY <1>2, <3>1, <3>2, <3>3, FirstPart DEF parts
  <2>5. parts[1].ents[1] = zero
    <3>1. /\ ts \in Seq(Trees[0]) /\ Len(ts) = Len(parts) /\ Sorted(ts) /\ HoldsOf(ts) = want
          /\ \A i \in 1 .. Len(parts) : ts[i].node = parts[i]
      BY <1>2 DEF IsRow
    <3>2. \A i \in 1 .. Len(parts) : ts[i] \in Trees[0] /\ Sane(ts[i], 0)
      BY <1>4, <3>1, RowFacts
    <3>3. 1 \in 1 .. Len(parts) /\ Len(parts) \in Nat
      <4>1. \A p \in 2 .. 3 : 1 \in 1 .. p /\ p \in Nat
        OBVIOUS
      <4> QED
        BY <1>2, <4>1
    <3>4. PICK i \in 1 .. Len(parts) : zero \in ts[i].holds
      BY <2>1, <3>1, HoldsOfFacts
    <3>5. i = 1
      <4> SUFFICES ASSUME i # 1 PROVE FALSE
        OBVIOUS
      <4>1. PICK y \in ts[1].holds : y \in LeafEntry
        BY <3>2, <3>3 DEF Sane
      <4>2. 1 < i
        BY <3>3
      <4>3. y.k < zero.k /\ zero.k = 0
        BY <3>1, <3>3, <3>4, <4>2 DEF Sorted, Precedes, Entry
      <4> QED
        BY <2>2, <4>1, <4>3
    <3>6. FirstKey(parts[1]) = 0
      <4>1. FirstKey(ts[1].node) <= zero.k /\ FirstKey(ts[1].node) \in Key \union {0} /\ zero.k = 0
        BY <3>2, <3>3, <3>4, <3>5 DEF Sane, Entry
      <4>2. FirstKey(ts[1].node) \in Nat
        BY <4>1, LeafEntries
      <4> QED
        BY <3>1, <3>3, <4>1, <4>2
    <3>7. parts[1].ents \in Seq(LeafEntry) /\ parts[1].ents # << >>
      BY <1>4, <3>1, <3>2, <3>3, TreeNode
    <3>8. parts[1].ents[1] \in LeafEntry /\ parts[1].ents[1].k = 0
      BY <3>6, <3>7, LenProperties, EmptySeq, ElementOfSeq DEF FirstKey
    <3> QED
      BY <2>2, <3>8
  <2>6. \E u \in Trees[1] : u.node = N /\ u.holds = want \ {parts[1].ents[1]}
    BY <1>2, <1>3, <1>4, <2>4, TrimmedRow
  <2>7. PICK u \in Trees[1] : u.node = new /\ u.holds = want \ {zero}
    BY <1>5, <2>5, <2>6
  <2>8. 1 \in {0, 0 + 1} /\ 1 # 0
    OBVIOUS
  <2> QED
    BY <1>7, <2>7, <2>8 DEF RootGrown, want, new, parts, m
<1> QED
  BY <1>6, <1>7

\* BTree.Insert on a tree.
LEMMA InsertedTree ==
  ASSUME NEW h \in 0 .. MaxHeight, h < MaxHeight, NEW t \in Trees[h],
         NEW key \in Key, NEW val \in Value
  PROVE  RootGrown(h, t, Entry(key, val, Nil), Inserted(t.node, key, val))
<1> DEFINE n == TreeInsert(t.node, key, val)
           parts == NodeSplit3(n)
           e == Entry(key, val, Nil)
           want == Put(t.holds, e)
           new == Inserted(t.node, key, val)
<1>1. Grown(h, t, e, n) /\ (h = 0 => n = LeafPut(t.node, key, val))
  BY InsertGrows
<1>2. t.node # NoTree
  BY TreeNode
<1>3. new = LET ps == IF IsFatal(n) THEN <<n>> ELSE parts
            IN  IF Len(ps) = 1 THEN ps[1] ELSE NewRoot(t.node, ps)
  BY <1>2 DEF Inserted
<1>4. IsFatal(Fatal("assert"))
  BY DEF IsFatal, Fatal, Node, Leaf, Inner
<1> HIDE DEF n, new, want, e
<1>5. CASE n = Fatal("assert") /\ Large(want)
  <2>1. new = Fatal("assert")
    BY <1>3, <1>4, <1>5
  <2> QED
    BY <1>5, <2>1 DEF RootGrown, want, new, e
<1>6. CASE ~IsFatal(n) /\ parts = <<Fatal("assert")>> /\ Large(want)
  <2>1. new = Fatal("assert")
    BY <1>3, <1>6
  <2> QED
    BY <1>6, <2>1 DEF RootGrown, want, new, e
<1>7. CASE ~IsFatal(n) /\ SplitsInto(n, parts) /\ \E ts : IsRow(h, parts, ts, want)
  <2>1. PICK ts : IsRow(h, parts, ts, want)
    BY <1>7
  <2>2. Len(parts) \in 1 .. 3
    BY <1>7 DEF SplitsInto
  <2>3. new = IF Len(parts) = 1 THEN parts[1] ELSE NewRoot(t.node, parts)
    BY <1>3, <1>7
  <2> HIDE DEF parts
  <2>4. CASE Len(parts) = 1
    <3>1. /\ ts \in Seq(Trees[h]) /\ Len(ts) = 1 /\ HoldsOf(ts) = want /\ ts[1].node = parts[1]
      BY <2>1, <2>4 DEF IsRow
    <3>2. ts[1] \in Trees[h]
      <4>1. 1 \in 1 .. Len(ts)
        BY <3>1
      <4> QED
        BY <3>1, <4>1, ElementOfSeq
    <3>3. ts[1].holds = want
      <4>1. 1 .. Len(ts) = {1}
        BY <3>1
      <4> QED
        BY <3>1, <4>1 DEF HoldsOf
    <3>4. ts[1].node = new
      BY <2>3, <2>4, <3>1
    <3>5. RootGrown(h, t, e, new)
      <4>1. \E u \in Trees[h] : u.node = new /\ u.holds = want /\ (h = 0 /\ h # 0 => FirstKey(t.node) = 0)
        BY <3>2, <3>3, <3>4
      <4> QED
        BY <4>1 DEF RootGrown, want
    <3> QED
      BY <3>5 DEF new, e
  <2>5. CASE Len(parts) # 1
    <3>1. Len(parts) \in 2 .. 3 /\ new = NewRoot(t.node, parts)
      BY <2>2, <2>3, <2>5
    <3>2. CASE h = 0
      <4>1. n = LeafPut(t.node, key, val) /\ parts = NodeSplit3(LeafPut(t.node, key, val))
        BY <1>1, <3>2 DEF parts
      <4>2. t \in Trees[0] /\ IsRow(0, parts, ts, Put(t.holds, Entry(key, val, Nil)))
        BY <2>1, <3>2 DEF want, e
      <4>3. RootGrown(0, t, Entry(key, val, Nil), NewRoot(t.node, NodeSplit3(LeafPut(t.node, key, val))))
        BY <1>7, <3>1, <4>1, <4>2, LeafRootGrows
      <4> QED
        BY <3>1, <3>2, <4>1, <4>3 DEF new
    <3>3. CASE h # 0
      <4>1. h \in 1 .. MaxHeight /\ Key # {}
        BY <3>3, TreesStep
      <4>2. RootGrown(h, t, e, NewRoot(t.node, parts))
        BY <2>1, <3>1, <4>1, InnerRootGrows DEF want
      <4> QED
        BY <3>1, <4>2 DEF new, e
    <3> QED
      BY <3>2, <3>3
  <2> QED
    BY <2>4, <2>5
<1> QED
  BY <1>1, <1>5, <1>6, <1>7 DEF Grown, want

-----------------------------------------------------------------------------
(* Deletion.                                                                *)

\* The entries H without those of a key.
Without(H, key) == {x \in H : x.k # key}

\* A node with no entry left, d levels above the leaves.
Empty(d) == Node(IF d = 0 THEN Leaf ELSE Inner, << >>)

\* n is what became of a tree of height d that holds H now.
Updated(d, n, H) ==
  \/ n = Empty(d) /\ H = {}
  \/ \E w \in Trees[d] : w.node = n /\ w.holds = H

\* What Delete makes of a tree u of height d.
Shrunk(d, u, key, n) ==
  \/ n = NotFound /\ \A x \in u.holds : x.k # key
  \/ n = Fatal("overflow")
  \/ Updated(d, n, Without(u.holds, key))

\* A leaf with an entry taken out.
LEMMA LeafShrinks ==
  ASSUME NEW t \in Trees[0], NEW key \in Nat
  PROVE  LET i == NodeLookupLE(t.node, key) IN
         Shrunk(0, t, key, IF t.node.ents # << >> /\ t.node.ents[i].k = key
                           THEN LeafDelete(t.node, i) ELSE NotFound)
<1> DEFINE n == t.node
           s == t.node.ents
           i == NodeLookupLE(n, key)
           m == LeafDelete(n, i)
<1>1. /\ Sane(t, 0) /\ s # << >> /\ s \in Seq(LeafEntry) /\ IsLeafSeq(s)
      /\ t.node = Node(Leaf, s) /\ t.holds = EntsIn(s)
  <2>1. 0 \in 0 .. MaxHeight
    BY TreesStep
  <2>2. t = Single(s) /\ Sane(t, 0) /\ s # << >> /\ s \in Seq(LeafEntry) /\ IsLeafSeq(s)
        /\ t.holds = EntsIn(s)
    BY <2>1, TreeNode
  <2>3. Single(s).node = Node(Leaf, s)
    BY DEF Single
  <2> HIDE DEF s
  <2> QED
    BY <2>2, <2>3
<1>2. IsEnts(s) /\ Ascending(s) /\ NBytes(n) <= PageSize
  BY <1>1 DEF Sane
<1>3. /\ i \in 1 .. NKeys(n)
      /\ i # 1 => s[i].k <= key
      /\ \A j \in 1 .. NKeys(n) : i < j => key < s[j].k
  BY <1>1, <1>2, LookupIs
<1>4. NKeys(n) = Len(s) /\ Len(s) \in Nat /\ \A j \in 1 .. Len(s) : s[j] \in LeafEntry /\ s[j].k \in Nat
  BY <1>1, LenProperties, ElementOfSeq, LeafEntries DEF NKeys
<1> HIDE DEF i
<1>5. CASE s[i].k = key
  <2>1. /\ m.type = Leaf /\ IsEnts(m.ents) /\ Ascending(m.ents)
        /\ EntsIn(m.ents) = {x \in EntsIn(s) : x.k # key}
        /\ NBytes(m) < NBytes(n)
    BY <1>2, <1>3, <1>5, LeafDeleteKeeps
  <2>2. EntsIn(m.ents) = Without(t.holds, key)
    BY <1>1, <2>1 DEF Without
  <2>3. m = Node(Leaf, m.ents)
    BY DEF LeafDelete, Node
  <2> HIDE DEF m
  <2>4. CASE m.ents = << >>
    <3>1. EntsIn(m.ents) = {}
      BY <2>4 DEF EntsIn
    <3>2. m = Empty(0)
      BY <2>3, <2>4 DEF Empty
    <3>3. Updated(0, m, Without(t.holds, key))
      BY <2>2, <3>1, <3>2 DEF Updated
    <3> QED
      BY <1>1, <1>5, <3>3 DEF Shrunk, m, i
  <2>5. CASE m.ents # << >>
    <3> DEFINE r == m.ents
    <3>1. r \in Seq(LeafEntry)
      <4>1. PICK R : r \in Seq(R)
        BY <2>1 DEF IsEnts
      <4>2. \A x \in EntsIn(s) : x \in LeafEntry
        BY <1>4 DEF EntsIn
      <4>3. \A j \in 1 .. Len(r) : r[j] \in EntsIn(r)
        BY DEF EntsIn
      <4>4. \A j \in 1 .. Len(r) : r[j] \in LeafEntry
        BY <2>1, <4>2, <4>3
      <4> QED
        BY <4>1, <4>4, SeqIn
    <3>2. NBytes(Node(Leaf, r)) <= PageSize
      <4>1. NBytes(n) \in Nat /\ NBytes(m) \in Nat /\ PageSize \in Nat
        BY <1>2, <2>1, Sizes
      <4>2. NBytes(m) <= PageSize
        BY <1>2, <2>1, <4>1
      <4> QED
        BY <2>3, <4>2
    <3> HIDE DEF r
    <3>3. IsLeafSeq(r)
      BY <2>1, <2>5, <3>2 DEF IsLeafSeq, r
    <3>4. Single(r) \in Trees[0] /\ Single(r).node = Node(Leaf, r) /\ Single(r).holds = EntsIn(r)
      BY <3>1, <3>3, LeafTreeIs DEF Single
    <3>5. Updated(0, m, Without(t.holds, key))
      BY <2>2, <2>3, <3>4 DEF Updated, r
    <3> QED
      BY <1>1, <1>5, <3>5 DEF Shrunk, m, i
  <2> QED
    BY <2>4, <2>5
<1>6. CASE s[i].k # key
  <2>1. ASSUME NEW x \in t.holds PROVE x.k # key
    <3>1. PICK j \in 1 .. Len(s) : x = s[j]
      BY <1>1 DEF EntsIn
    <3>2. CASE i < j
      BY <1>3, <1>4, <3>1, <3>2
    <3>3. CASE i = j
      BY <1>6, <3>1, <3>3
    <3>4. CASE j < i
      <4>1. i # 1 /\ i \in 1 .. Len(s)
        BY <1>3, <1>4, <3>4
      <4>2. s[j].k < s[i].k
        BY <1>2, <3>4, <4>1 DEF Ascending
      <4> QED
        BY <1>3, <1>4, <3>1, <4>1, <4>2
    <3> QED
      BY <1>3, <1>4, <3>2, <3>3, <3>4
  <2> QED
    BY <1>6, <2>1 DEF Shrunk, i
<1> QED
  BY <1>5, <1>6

\* Two sequences of entries of leaves, one after the other.
LEMMA JoinLeaves ==
  ASSUME NEW s \in Seq(LeafEntry), NEW r \in Seq(LeafEntry), IsLeafSeq(s), IsLeafSeq(r),
         Precedes(EntsIn(s), EntsIn(r)), NBytes(Node(Leaf, s \o r)) <= PageSize
  PROVE  /\ s \o r \in Seq(LeafEntry) /\ IsLeafSeq(s \o r)
         /\ EntsIn(s \o r) = EntsIn(s) \union EntsIn(r)
<1> DEFINE u == s \o r
<1>1. s # << >> /\ Ascending(s) /\ Ascending(r)
  BY DEF IsLeafSeq
<1>2. /\ u \in Seq(LeafEntry) /\ Len(u) = Len(s) + Len(r)
      /\ \A j \in 1 .. Len(s) + Len(r) : u[j] = IF j <= Len(s) THEN s[j] ELSE r[j - Len(s)]
  BY ConcatProperties
<1>3. Len(s) \in Nat /\ Len(r) \in Nat /\ Len(s) # 0
  BY <1>1, LenProperties, EmptySeq
<1> HIDE DEF u
<1>4. ASSUME NEW j \in 1 .. Len(u)
      PROVE  \/ j \in 1 .. Len(s) /\ u[j] = s[j]
             \/ j - Len(s) \in 1 .. Len(r) /\ u[j] = r[j - Len(s)] /\ ~(j <= Len(s))
  BY <1>2, <1>3
<1>5. Ascending(u)
  <2> SUFFICES ASSUME NEW i \in 1 .. Len(u), NEW j \in 1 .. Len(u), i < j
               PROVE  u[i].k < u[j].k
    BY DEF Ascending
  <2>1. i \in Nat /\ j \in Nat
    BY <1>2, <1>3
  <2>2. CASE j \in 1 .. Len(s) /\ u[j] = s[j]
    <3>1. i \in 1 .. Len(s) /\ u[i] = s[i]
      BY <1>3, <1>4, <2>1, <2>2
    <3> QED
      BY <1>1, <2>2, <3>1 DEF Ascending
  <2>3. CASE j - Len(s) \in 1 .. Len(r) /\ u[j] = r[j - Len(s)]
    <3>1. CASE i \in 1 .. Len(s) /\ u[i] = s[i]
      <4>1. u[i] \in EntsIn(s) /\ u[j] \in EntsIn(r)
        BY <2>3, <3>1 DEF EntsIn
      <4> QED
        BY <4>1 DEF Precedes
    <3>2. CASE i - Len(s) \in 1 .. Len(r) /\ u[i] = r[i - Len(s)]
      <4>1. i - Len(s) < j - Len(s)
        BY <1>3, <2>1
      <4> QED
        BY <1>1, <2>3, <3>2, <4>1 DEF Ascending
    <3> QED
      BY <1>4, <3>1, <3>2
  <2> QED
    BY <1>4, <2>2, <2>3
<1>6. u # << >>
  BY <1>2, <1>3, EmptySeq
<1>7. EntsIn(u) = EntsIn(s) \union EntsIn(r)
  <2>1. ASSUME NEW x \in EntsIn(u) PROVE x \in EntsIn(s) \union EntsIn(r)
    <3>1. PICK j \in 1 .. Len(u) : x = u[j]
      BY DEF EntsIn
    <3> QED
      BY <1>4, <3>1 DEF EntsIn
  <2>2. ASSUME NEW x \in EntsIn(s) PROVE x \in EntsIn(u)
    <3>1. PICK j \in 1 .. Len(s) : x = s[j]
      BY DEF EntsIn
    <3>2. j \in 1 .. Len(u) /\ u[j] = s[j]
      BY <1>2, <1>3
    <3> QED
      BY <3>1, <3>2 DEF EntsIn
  <2>3. ASSUME NEW x \in EntsIn(r) PROVE x \in EntsIn(u)
    <3>1. PICK j \in 1 .. Len(r) : x = r[j]
      BY DEF EntsIn
    <3>2. Len(s) + j \in 1 .. Len(u) /\ u[Len(s) + j] = r[j]
      <4>1. Len(s) + j \in 1 .. Len(s) + Len(r) /\ ~(Len(s) + j <= Len(s)) /\ (Len(s) + j) - Len(s) = j
        BY <1>3
      <4> QED
        BY <1>2, <4>1
    <3> QED
      BY <3>1, <3>2 DEF EntsIn
  <2> QED
    BY <2>1, <2>2, <2>3
<1> QED
  BY <1>2, <1>5, <1>6, <1>7 DEF IsLeafSeq, u

\* Two trees of one height, their nodes merged.
LEMMA MergeTrees ==
  ASSUME NEW d \in 0 .. MaxHeight, NEW a \in Trees[d], NEW b \in Trees[d],
         Precedes(a.holds, b.holds), NBytes(NodeMerge(a.node, b.node)) <= PageSize
  PROVE  \E g \in Trees[d] : g.node = NodeMerge(a.node, b.node) /\ g.holds = a.holds \union b.holds
<1>1. CASE d = 0
  <2> DEFINE s == a.node.ents
             r == b.node.ents
  <2>1. /\ a.node.type = Leaf /\ s \in Seq(LeafEntry) /\ IsLeafSeq(s) /\ a.holds = EntsIn(s)
        /\ r \in Seq(LeafEntry) /\ IsLeafSeq(r) /\ b.holds = EntsIn(r)
    BY <1>1, TreeNode
  <2>2. NodeMerge(a.node, b.node) = Node(Leaf, s \o r)
    BY <2>1 DEF NodeMerge
  <2> HIDE DEF s, r
  <2>3. NBytes(Node(Leaf, s \o r)) <= PageSize
    BY <2>2
  <2>4. /\ s \o r \in Seq(LeafEntry) /\ IsLeafSeq(s \o r)
        /\ EntsIn(s \o r) = EntsIn(s) \union EntsIn(r)
    BY <2>1, <2>3, JoinLeaves
  <2>5. /\ Single(s \o r) \in Trees[0] /\ Single(s \o r).node = Node(Leaf, s \o r)
        /\ Single(s \o r).holds = EntsIn(s \o r)
    BY <2>4, LeafTreeIs DEF Single
  <2> QED
    BY <1>1, <2>1, <2>2, <2>4, <2>5
<1>2. CASE d # 0
  <2>1. d \in 1 .. MaxHeight
    BY <1>2, TreesStep
  <2>2. PICK q \in Seq(Trees[d - 1]) : IsTreeSeq(q) /\ a.node = Over(q) /\ a.holds = HoldsOf(q)
    BY <1>2, TreeNode
  <2>3. PICK r \in Seq(Trees[d - 1]) : IsTreeSeq(r) /\ b.node = Over(r) /\ b.holds = HoldsOf(r)
    BY <1>2, TreeNode
  <2> DEFINE s == q \o r
  <2>4. IsJoin(Trees[d - 1], q, r, s)
    BY JoinTrees
  <2>5. q # << >> /\ Sorted(q) /\ Sorted(r)
    BY <2>2, <2>3 DEF IsTreeSeq
  <2> HIDE DEF s
  <2>6. /\ s \in Seq(Trees[d - 1]) /\ Len(s) = Len(q) + Len(r) /\ Over(s).ents = Over(q).ents \o Over(r).ents
        /\ HoldsOf(s) = a.holds \union b.holds /\ Sorted(s)
    BY <2>2, <2>3, <2>4, <2>5 DEF IsJoin
  <2>7. Over(s) = NodeMerge(a.node, b.node)
    <3>1. Over(s) = Node(Inner, Over(s).ents) /\ Over(q).type = Inner
      BY DEF Over, Node
    <3> QED
      BY <2>2, <2>3, <2>6, <3>1 DEF NodeMerge
  <2>8. s # << >>
    <3>1. Len(q) \in Nat /\ Len(q) # 0 /\ Len(r) \in Nat
      BY <2>5, LenProperties, EmptySeq
    <3> QED
      BY <2>6, <3>1, EmptySeq
  <2>9. IsTreeSeq(s)
    BY <2>6, <2>7, <2>8 DEF IsTreeSeq
  <2>10. Combined(s) \in Trees[d] /\ Combined(s).node = Over(s) /\ Combined(s).holds = HoldsOf(s)
    BY <2>1, <2>6, <2>9, InnerTreeIs DEF Combined
  <2> QED
    BY <2>6, <2>7, <2>10
<1> QED
  BY <1>1, <1>2

\* The node of a tree is its type and its entries.
LEMMA TreeIsNode ==
  ASSUME NEW d \in 0 .. MaxHeight, NEW t \in Trees[d]
  PROVE  /\ \E S : t.node.ents \in Seq(S)
         /\ t.node = Node(IF d = 0 THEN Leaf ELSE Inner, t.node.ents)
<1>1. Sane(t, d)
  BY TreeNode
<1>2. \E S : t.node.ents \in Seq(S)
  BY <1>1 DEF Sane, IsEnts
<1>3. CASE d = 0
  <2>1. t = Single(t.node.ents)
    BY <1>3, TreeNode
  <2>2. Single(t.node.ents).node = Node(Leaf, t.node.ents)
    BY DEF Single
  <2> QED
    BY <1>2, <1>3, <2>1, <2>2
<1>4. CASE d # 0
  <2>1. PICK q \in Seq(Trees[d - 1]) : t.node = Over(q)
    BY <1>4, TreeNode
  <2>2. Over(q) = Node(Inner, Over(q).ents)
    BY DEF Over, Node
  <2> QED
    BY <1>2, <1>4, <2>1, <2>2
<1> QED
  BY <1>3, <1>4

\* Merging what was updated with its sibling, on either side.
LEMMA MergeUpdated ==
  ASSUME NEW d \in 0 .. MaxHeight, NEW a \in Trees[d], NEW n, NEW H, Updated(d, n, H)
  PROVE  /\ Precedes(a.holds, H) /\ NBytes(NodeMerge(a.node, n)) <= PageSize =>
              \E g \in Trees[d] : g.node = NodeMerge(a.node, n) /\ g.holds = a.holds \union H
         /\ Precedes(H, a.holds) /\ NBytes(NodeMerge(n, a.node)) <= PageSize =>
              \E g \in Trees[d] : g.node = NodeMerge(n, a.node) /\ g.holds = H \union a.holds
<1>1. CASE n = Empty(d) /\ H = {}
  <2>1. PICK S : a.node.ents \in Seq(S)
    BY TreeIsNode
  <2>2. /\ a.node = Node(IF d = 0 THEN Leaf ELSE Inner, a.node.ents)
        /\ a.node.type = IF d = 0 THEN Leaf ELSE Inner
    BY TreeIsNode, TreeNode DEF Sane
  <2>3. n.ents = << >> /\ n.type = IF d = 0 THEN Leaf ELSE Inner
    BY <1>1 DEF Empty, Node
  <2>4. a.node.ents \o << >> = a.node.ents /\ << >> \o a.node.ents = a.node.ents
    BY <2>1, ConcatEmptySeq
  <2>5. NodeMerge(a.node, n) = a.node /\ NodeMerge(n, a.node) = a.node
    BY <2>2, <2>3, <2>4 DEF NodeMerge
  <2>6. a.holds \union H = a.holds /\ H \union a.holds = a.holds
    BY <1>1
  <2> QED
    BY <2>5, <2>6
<1>2. CASE \E w \in Trees[d] : w.node = n /\ w.holds = H
  <2>1. PICK w \in Trees[d] : w.node = n /\ w.holds = H
    BY <1>2
  <2> QED
    BY <2>1, MergeTrees
<1> QED
  BY <1>1, <1>2 DEF Updated

\* An inner node with one tree, g, in the place of its kids from a to b: g holds
\* what they held, but for the key.
LEMMA RowShrinks ==
  ASSUME NEW h \in 1 .. MaxHeight, NEW q \in Seq(Trees[h - 1]), IsTreeSeq(q), NEW key \in Nat,
         NEW a \in 1 .. Len(q), NEW b \in 1 .. Len(q), NEW i \in a .. b,
         i = NodeLookupLE(Over(q), key), NEW g \in Trees[h - 1],
         \A x : x \in g.holds <=> x.k # key /\ \E l \in a .. b : x \in q[l].holds
  PROVE  Shrunk(h, Combined(q), key,
                InOnePage(Node(Inner, SubSeq(Over(q).ents, 1, a - 1) \o <<KidEntry(g.node)>>
                                        \o SubSeq(Over(q).ents, b + 1, Len(q)))))
<1> DEFINE n == Node(Inner, SubSeq(Over(q).ents, 1, a - 1) \o <<KidEntry(g.node)>>
                              \o SubSeq(Over(q).ents, b + 1, Len(q)))
           want == Without(HoldsOf(q), key)
<1>1. h - 1 \in 0 .. MaxHeight /\ h \in 0 .. MaxHeight
  BY TreesStep
<1>2. Len(q) \in Nat /\ a \in Nat /\ b \in Nat /\ i \in Nat /\ a <= i /\ i <= b /\ a <= b
      /\ 1 <= a /\ b <= Len(q)
  BY LenProperties
<1>3. /\ \A l \in 1 .. i - 1 : \A x \in q[l].holds : x.k < key
      /\ \A l \in i + 1 .. Len(q) : \A x \in q[l].holds : key < x.k
  BY <1>1, KidFor
<1>4. Sorted(q)
  BY DEF IsTreeSeq
<1>5. /\ <<g>> \in Seq(Trees[h - 1]) /\ Over(<<g>>).ents = <<KidEntry(g.node)>>
      /\ HoldsOf(<<g>>) = g.holds /\ Sorted(<<g>>) /\ Len(<<g>>) = 1
  BY OneTree
<1>6. ASSUME NEW x \in HoldsOf(<<g>>)
      PROVE  /\ \A l \in 1 .. a - 1 : \A y \in q[l].holds : y.k < x.k
             /\ \A l \in b + 1 .. Len(q) : \A y \in q[l].holds : x.k < y.k
  <2>1. PICK j \in a .. b : x \in q[j].holds
    BY <1>5
  <2>2. j \in 1 .. Len(q) /\ \A l \in 1 .. a - 1 : l \in 1 .. Len(q) /\ l < j
    BY <1>2
  <2>3. \A l \in b + 1 .. Len(q) : l \in 1 .. Len(q) /\ j < l
    BY <1>2
  <2> QED
    BY <1>4, <2>1, <2>2, <2>3 DEF Sorted, Precedes
<1>7. PICK s : Replaces(h - 1, q, a, b, <<g>>, s)
  <2> DEFINE ts == <<g>>
  <2>1. ts \in Seq(Trees[h - 1]) /\ Sorted(ts)
    BY <1>5
  <2>2. \A x \in HoldsOf(ts) : /\ \A l \in 1 .. a - 1 : \A y \in q[l].holds : y.k < x.k
                               /\ \A l \in b + 1 .. Len(q) : \A y \in q[l].holds : x.k < y.k
    BY <1>6
  <2> HIDE DEF ts
  <2>3. \E s : Replaces(h - 1, q, a, b, ts, s)
    BY <1>1, <1>2, <1>4, <2>1, <2>2, ReplacedRow
  <2> QED
    BY <2>3 DEF ts
<1>8. /\ s \in Seq(Trees[h - 1]) /\ Sorted(s) /\ s # << >>
      /\ \A x : x \in HoldsOf(s) <=> x \in g.holds \/ Outside(q, a, b, x)
  <2>1. <<g>> # << >>
    OBVIOUS
  <2> QED
    BY <1>5, <1>7, <2>1 DEF Replaces
<1>9. Over(s) = n
  BY <1>5, <1>7 DEF Replaces
<1>10. HoldsOf(s) = want
  <2>1. ASSUME NEW x \in HoldsOf(s) PROVE x \in want
    <3>1. CASE x \in g.holds
      <4>1. PICK l \in a .. b : x \in q[l].holds
        BY <3>1
      <4>2. l \in 1 .. Len(q) /\ x.k # key
        BY <1>2, <3>1
      <4> QED
        BY <4>1, <4>2, HoldsOfFacts DEF Without
    <3>2. CASE \E l \in 1 .. a - 1 : x \in q[l].holds
      <4>1. PICK l \in 1 .. a - 1 : x \in q[l].holds
        BY <3>2
      <4>2. l \in 1 .. i - 1 /\ l \in 1 .. Len(q)
        BY <1>2
      <4>3. x.k < key
        BY <1>3, <4>1, <4>2
      <4>4. x.k # key
        BY <4>3
      <4> QED
        BY <4>1, <4>2, <4>4, HoldsOfFacts DEF Without
    <3>3. CASE \E l \in b + 1 .. Len(q) : x \in q[l].holds
      <4>1. PICK l \in b + 1 .. Len(q) : x \in q[l].holds
        BY <3>3
      <4>2. l \in i + 1 .. Len(q) /\ l \in 1 .. Len(q)
        BY <1>2
      <4>3. key < x.k
        BY <1>3, <4>1, <4>2
      <4>4. x.k # key
        BY <4>3
      <4> QED
        BY <4>1, <4>2, <4>4, HoldsOfFacts DEF Without
    <3> QED
      BY <1>8, <3>1, <3>2, <3>3 DEF Outside
  <2>2. ASSUME NEW x \in want PROVE x \in HoldsOf(s)
    <3>1. x \in HoldsOf(q) /\ x.k # key
      BY DEF Without
    <3>2. PICK l \in 1 .. Len(q) : x \in q[l].holds
      BY <3>1, HoldsOfFacts
    <3>3. l \in 1 .. a - 1 \/ l \in a .. b \/ l \in b + 1 .. Len(q)
      BY <1>2
    <3> QED
      BY <1>8, <3>1, <3>2, <3>3 DEF Outside
  <2> QED
    BY <2>1, <2>2
<1> HIDE DEF n, want
<1>11. CASE NBytes(n) > PageSize
  <2>1. InOnePage(n) = Fatal("overflow")
    BY <1>11 DEF InOnePage
  <2> QED
    BY <2>1 DEF Shrunk, n
<1>12. CASE ~(NBytes(n) > PageSize)
  <2>1. InOnePage(n) = n
    BY <1>12 DEF InOnePage
  <2>2. NBytes(n) <= PageSize
    <3>1. IsEnts(Over(s).ents)
      BY <1>1, <1>8, RowFacts
    <3>2. NBytes(n) \in Nat /\ PageSize \in Nat
      BY <1>9, <3>1, Sizes
    <3> QED
      BY <1>12, <3>2
  <2>3. IsTreeSeq(s)
    BY <1>8, <1>9, <2>2 DEF IsTreeSeq
  <2>4. Combined(s) \in Trees[h] /\ Combined(s).node = n /\ Combined(s).holds = want
    BY <1>8, <1>9, <1>10, <2>3, InnerTreeIs DEF Combined
  <2>5. Combined(q).holds = HoldsOf(q)
    BY DEF Combined
  <2>6. Updated(h, n, Without(Combined(q).holds, key))
    BY <2>4, <2>5 DEF Updated, want
  <2> QED
    BY <2>1, <2>6 DEF Shrunk, n
<1> QED
  BY <1>11, <1>12

\* No entries.
LEMMA NoEnts ==
  IsEnts(<< >>)
<1> DEFINE s == <<Entry(0, Nil, Nil)>>
           t == SubSeq(s, 1, 0)
<1>1. IsEnts(s) /\ Len(s) = 1
  BY LeafEntries, OneEnt
<1>2. IsEnts(t) /\ Len(t) = 0
  <2>1. 0 \in 0 .. Len(s)
    BY <1>1
  <2> HIDE DEF s
  <2> QED
    BY <1>1, <2>1, FirstEnts
<1> HIDE DEF t
<1>3. t = << >>
  BY <1>2, EmptySeq DEF IsEnts
<1> QED
  BY <1>2, <1>3

\* An empty node merges with any sibling.
LEMMA EmptyMerges ==
  ASSUME NEW h \in 1 .. MaxHeight, NEW q \in Seq(Trees[h - 1]),
         NEW i \in 1 .. Len(q), NEW n, n.ents = << >>, ShouldMerge(Over(q), i, n) = 0
  PROVE  Len(q) = 1
<1>1. h - 1 \in 0 .. MaxHeight
  BY TreesStep
<1>2. Len(q) \in Nat /\ \A l \in 1 .. Len(q) :
        /\ Over(q).ents[l].p = q[l].node /\ NBytes(q[l].node) <= PageSize /\ IsEnts(q[l].node.ents)
  BY <1>1, RowFacts DEF Sane
<1>3. NKeys(Over(q)) = Len(q)
  BY <1>1, RowFacts
<1>4. NBytes(n) = Header
  <2>1. IsEnts(n.ents)
    BY NoEnts
  <2>2. SumBytes(n.ents) = Sums(n.ents)[Len(n.ents)] /\ Sums(n.ents)[0] = 0 /\ Len(n.ents) = 0
    BY <2>1, SumsStep
  <2>3. Header \in Nat
    BY BNodeAssumption
  <2> QED
    BY <2>2, <2>3 DEF NBytes
<1>5. Header \in Nat /\ PageSize \in Nat /\ ~(Header > PageSize \div 4)
  BY BNodeAssumption
<1>6. \A l \in 1 .. Len(q) : NBytes(Over(q).ents[l].p) + NBytes(n) - Header <= PageSize
  <2> SUFFICES ASSUME NEW l \in 1 .. Len(q)
               PROVE  NBytes(Over(q).ents[l].p) + NBytes(n) - Header <= PageSize
    OBVIOUS
  <2>1. NBytes(q[l].node) \in Nat /\ NBytes(q[l].node) <= PageSize /\ Over(q).ents[l].p = q[l].node
    BY <1>2, Sizes
  <2> QED
    BY <1>4, <1>5, <2>1
<1>7. ~(i > 1)
  <2> SUFFICES ASSUME i > 1 PROVE FALSE
    OBVIOUS
  <2>1. i - 1 \in 1 .. Len(q)
    BY <1>2
  <2>2. ShouldMerge(Over(q), i, n) = -1
    BY <1>4, <1>5, <1>6, <2>1 DEF ShouldMerge
  <2> QED
    BY <2>2
<1>8. ~(i < Len(q))
  <2> SUFFICES ASSUME i < Len(q) PROVE FALSE
    OBVIOUS
  <2>1. i + 1 \in 1 .. Len(q)
    BY <1>2
  <2>2. ShouldMerge(Over(q), i, n) = 1
    BY <1>3, <1>4, <1>5, <1>6, <1>7, <2>1 DEF ShouldMerge
  <2> QED
    BY <2>2
<1>9. i \in Int /\ Len(q) \in Int /\ 1 <= i /\ i <= Len(q)
  BY <1>2
<1>10. \A a, b \in Int : 1 <= a /\ a <= b /\ ~(a > 1) /\ ~(a < b) => b = 1
  OBVIOUS
<1> QED
  BY <1>7, <1>8, <1>9, <1>10, Zenon

\* The kids a key does not lead to hold no entry of the key.
LEMMA KidsWithout ==
  ASSUME NEW h \in 1 .. MaxHeight, NEW q \in Seq(Trees[h - 1]), IsTreeSeq(q), NEW key \in Nat
  PROVE  LET i == NodeLookupLE(Over(q), key) IN
         /\ i \in 1 .. Len(q) /\ Len(q) \in Nat
         /\ \A l \in 1 .. Len(q) : l # i => \A x \in q[l].holds : x.k # key
<1> DEFINE i == NodeLookupLE(Over(q), key)
<1>1. h - 1 \in 0 .. MaxHeight
  BY TreesStep
<1>2. /\ i \in 1 .. Len(q)
      /\ \A l \in 1 .. i - 1 : \A x \in q[l].holds : x.k < key
      /\ \A l \in i + 1 .. Len(q) : \A x \in q[l].holds : key < x.k
  BY <1>1, KidFor
<1>3. Len(q) \in Nat
  BY <1>1, RowFacts
<1> HIDE DEF i
<1>4. ASSUME NEW l \in 1 .. Len(q), l # i, NEW x \in q[l].holds PROVE x.k # key
  <2>1. l \in 1 .. i - 1 \/ l \in i + 1 .. Len(q)
    BY <1>2, <1>3, <1>4
  <2>2. x.k < key \/ key < x.k
    BY <1>2, <2>1
  <2> QED
    BY <2>2
<1> QED
  BY <1>2, <1>3, <1>4 DEF i

\* An inner node whose kid has become updated, which is not fatal.
LEMMA KidShrinks ==
  ASSUME NEW h \in 1 .. MaxHeight, NEW q \in Seq(Trees[h - 1]), IsTreeSeq(q), NEW key \in Nat,
         NEW n,
         LET i == NodeLookupLE(Over(q), key) IN Updated(h - 1, n, Without(q[i].holds, key))
  PROVE  Shrunk(h, Combined(q), key,
                InOnePage(WithUpdatedKid(Over(q), NodeLookupLE(Over(q), key), n)))
<1> DEFINE d == h - 1
           i == NodeLookupLE(Over(q), key)
           H == Without(q[i].holds, key)
           dir == ShouldMerge(Over(q), i, n)
           O == Over(q)
           new == WithUpdatedKid(O, i, n)
<1>1. d \in 0 .. MaxHeight
  BY TreesStep
<1>2. /\ i \in 1 .. Len(q) /\ Len(q) \in Nat
      /\ \A l \in 1 .. Len(q) : l # i => \A x \in q[l].holds : x.k # key
  BY KidsWithout
<1>3. /\ O.type = Inner /\ NKeys(O) = Len(q)
      /\ \A l \in 1 .. Len(q) : /\ q[l] \in Trees[d] /\ O.ents[l].p = q[l].node
                                /\ IsEnts(O.ents[l].p.ents)
  BY <1>1, RowFacts DEF Sane
<1>4. Sorted(q)
  BY DEF IsTreeSeq
<1>5. Updated(d, n, H)
  OBVIOUS
<1>6. \A x : x \in H <=> x \in q[i].holds /\ x.k # key
  BY DEF Without
<1>7. IsEnts(n.ents)
  <2>1. CASE n = Empty(d)
    <3>1. n.ents = << >>
      BY <2>1 DEF Empty, Node
    <3> QED
      BY <3>1, NoEnts
  <2>2. CASE \E w \in Trees[d] : w.node = n /\ w.holds = H
    BY <1>1, <2>2, TreeNode DEF Sane
  <2> QED
    BY <1>5, <2>1, <2>2 DEF Updated
<1> HIDE DEF i, d, H, dir, O, new
<1>8. new = CASE dir = -1 -> NodeReplace2Kid(O, i - 1, NodeMerge(O.ents[i - 1].p, n))
              [] dir = 1 -> NodeReplace2Kid(O, i, NodeMerge(n, O.ents[i + 1].p))
              [] dir = 0 /\ n.ents = << >> -> Node(Inner, << >>)
              [] OTHER -> NodeReplaceKidN(O, i, <<n>>)
  BY DEF WithUpdatedKid, new, dir, O
<1>9. /\ dir \in {-1, 0, 1}
      /\ dir = -1 => i > 1
      /\ dir = 1 => i < Len(q)
  BY <1>3 DEF ShouldMerge, dir, O
<1>10. /\ dir = -1 => NBytes(NodeMerge(O.ents[i - 1].p, n)) <= PageSize
       /\ dir = 1 => NBytes(NodeMerge(n, O.ents[i + 1].p)) <= PageSize
  BY <1>2, <1>3, <1>7, MergeFits DEF dir, O
<1>11. CASE dir = -1
  <2>1. i - 1 \in 1 .. Len(q) /\ i - 1 < i /\ i \in (i - 1) .. i
        /\ (i - 1) + 2 = i + 1 /\ (i - 1) .. i = {i - 1, i} /\ i - 1 # i
    <3>1. i \in Int /\ 1 < i /\ i <= Len(q)
      BY <1>2, <1>9, <1>11
    <3>2. i - 1 \in 1 .. Len(q) /\ i - 1 < i /\ i \in (i - 1) .. i /\ (i - 1) + 2 = i + 1 /\ i - 1 # i
      BY <1>2, <3>1
    <3>3. (i - 1) .. i = {i - 1, i}
      BY <3>1
    <3> QED
      BY <3>2, <3>3
  <2> DEFINE m == NodeMerge(q[i - 1].node, n)
  <2>2. Precedes(q[i - 1].holds, H)
    BY <1>2, <1>4, <1>6, <2>1 DEF Sorted, Precedes
  <2>3. PICK g \in Trees[d] : g.node = m /\ g.holds = q[i - 1].holds \union H
    <3>1. NBytes(m) <= PageSize /\ q[i - 1] \in Trees[d]
      BY <1>3, <1>10, <1>11, <2>1
    <3> HIDE DEF m
    <3> QED
      BY <1>1, <1>5, <2>2, <3>1, MergeUpdated DEF m
  <2>4. \A x : x \in g.holds <=> x.k # key /\ \E l \in (i - 1) .. i : x \in q[l].holds
    <3> SUFFICES ASSUME NEW x
                 PROVE  x \in g.holds <=> x.k # key /\ \E l \in (i - 1) .. i : x \in q[l].holds
      OBVIOUS
    <3>1. (\E l \in (i - 1) .. i : x \in q[l].holds) <=> x \in q[i - 1].holds \/ x \in q[i].holds
      BY <2>1
    <3>2. x \in q[i - 1].holds => x.k # key
      BY <1>2, <2>1
    <3> QED
      BY <1>6, <2>3, <3>1, <3>2
  <2>5. new = Node(Inner, SubSeq(O.ents, 1, (i - 1) - 1) \o <<KidEntry(g.node)>>
                            \o SubSeq(O.ents, i + 1, Len(q)))
    <3>1. new = NodeReplace2Kid(O, i - 1, m)
      BY <1>3, <1>8, <1>11, <2>1
    <3> HIDE DEF m
    <3> QED
      BY <1>3, <2>1, <2>3, <3>1 DEF NodeReplace2Kid
  <2> DEFINE a == i - 1
  <2>6. a \in 1 .. Len(q) /\ i \in a .. i
    BY <2>1
  <2>7. /\ new = Node(Inner, SubSeq(Over(q).ents, 1, a - 1) \o <<KidEntry(g.node)>>
                               \o SubSeq(Over(q).ents, i + 1, Len(q)))
        /\ \A x : x \in g.holds <=> x.k # key /\ \E l \in a .. i : x \in q[l].holds
        /\ g \in Trees[h - 1]
    BY <2>4, <2>5 DEF O, d
  <2> HIDE DEF a
  <2>8. i = NodeLookupLE(Over(q), key)
    BY DEF i
  <2>9. Shrunk(h, Combined(q), key, InOnePage(new))
    BY <1>2, <2>6, <2>7, <2>8, RowShrinks
  <2> QED
    BY <2>9 DEF new, O, i
<1>12. CASE dir = 1
  <2>1. i + 1 \in 1 .. Len(q) /\ i < i + 1 /\ i \in i .. (i + 1)
        /\ i + 2 = (i + 1) + 1 /\ i .. (i + 1) = {i, i + 1} /\ i + 1 # i
    BY <1>2, <1>9, <1>12
  <2> DEFINE m == NodeMerge(n, q[i + 1].node)
  <2>2. Precedes(H, q[i + 1].holds)
    BY <1>2, <1>4, <1>6, <2>1 DEF Sorted, Precedes
  <2>3. PICK g \in Trees[d] : g.node = m /\ g.holds = H \union q[i + 1].holds
    <3>1. NBytes(m) <= PageSize /\ q[i + 1] \in Trees[d]
      BY <1>3, <1>10, <1>12, <2>1
    <3> HIDE DEF m
    <3> QED
      BY <1>1, <1>5, <2>2, <3>1, MergeUpdated DEF m
  <2>4. \A x : x \in g.holds <=> x.k # key /\ \E l \in i .. (i + 1) : x \in q[l].holds
    <3> SUFFICES ASSUME NEW x
                 PROVE  x \in g.holds <=> x.k # key /\ \E l \in i .. (i + 1) : x \in q[l].holds
      OBVIOUS
    <3>1. (\E l \in i .. (i + 1) : x \in q[l].holds) <=> x \in q[i].holds \/ x \in q[i + 1].holds
      BY <2>1
    <3>2. x \in q[i + 1].holds => x.k # key
      BY <1>2, <2>1
    <3> QED
      BY <1>6, <2>3, <3>1, <3>2
  <2>5. new = Node(Inner, SubSeq(O.ents, 1, i - 1) \o <<KidEntry(g.node)>>
                            \o SubSeq(O.ents, (i + 1) + 1, Len(q)))
    <3>1. new = NodeReplace2Kid(O, i, m)
      BY <1>3, <1>8, <1>12, <2>1
    <3> HIDE DEF m
    <3> QED
      BY <1>3, <2>1, <2>3, <3>1 DEF NodeReplace2Kid
  <2> DEFINE b == i + 1
  <2>6. b \in 1 .. Len(q) /\ i \in i .. b
    BY <2>1
  <2>7. /\ new = Node(Inner, SubSeq(Over(q).ents, 1, i - 1) \o <<KidEntry(g.node)>>
                               \o SubSeq(Over(q).ents, b + 1, Len(q)))
        /\ \A x : x \in g.holds <=> x.k # key /\ \E l \in i .. b : x \in q[l].holds
        /\ g \in Trees[h - 1]
    BY <2>4, <2>5 DEF O, d
  <2> HIDE DEF b
  <2>8. i = NodeLookupLE(Over(q), key)
    BY DEF i
  <2>9. Shrunk(h, Combined(q), key, InOnePage(new))
    BY <1>2, <2>6, <2>7, <2>8, RowShrinks
  <2> QED
    BY <2>9 DEF new, O, i
<1>13. CASE dir = 0 /\ n.ents = << >>
  <2>1. Len(q) = 1 /\ i = 1
    <3>1. ShouldMerge(Over(q), i, n) = 0
      BY <1>13 DEF dir, O
    <3>2. Len(q) = 1
      BY <1>2, <1>13, <3>1, EmptyMerges
    <3> QED
      BY <1>2, <3>2
  <2>2. H = {}
    <3> SUFFICES ASSUME H # {} PROVE FALSE
      OBVIOUS
    <3>1. PICK w \in Trees[d] : w.node = n
      BY <1>5 DEF Updated
    <3> QED
      BY <1>1, <1>13, <3>1, TreeNode
  <2>3. Without(HoldsOf(q), key) = {}
    <3> SUFFICES ASSUME NEW x \in HoldsOf(q), x.k # key PROVE FALSE
      BY DEF Without
    <3>1. PICK l \in 1 .. Len(q) : x \in q[l].holds
      BY HoldsOfFacts
    <3>2. l = i
      BY <2>1
    <3> QED
      BY <1>6, <2>2, <3>1, <3>2
  <2>4. new = Node(Inner, << >>)
    BY <1>8, <1>13
  <2>5. InOnePage(new) = Empty(h)
    <3>1. new.ents = << >> /\ h # 0
      BY <2>4 DEF Node
    <3>2. NBytes(new) = Header
      <4>2. IsEnts(new.ents)
        BY <3>1, NoEnts
      <4>3. SumBytes(new.ents) = Sums(new.ents)[Len(new.ents)] /\ Sums(new.ents)[0] = 0
        BY <4>2, SumsStep
      <4>4. Len(new.ents) = 0 /\ Header \in Nat
        BY <3>1, BNodeAssumption
      <4> QED
        BY <4>3, <4>4 DEF NBytes
    <3>3. ~(Header > PageSize)
      BY BNodeAssumption
    <3> QED
      BY <2>4, <3>1, <3>2, <3>3 DEF InOnePage, Empty
  <2>6. Combined(q).holds = HoldsOf(q)
    BY DEF Combined
  <2>7. Shrunk(h, Combined(q), key, InOnePage(new))
    BY <2>3, <2>5, <2>6 DEF Shrunk, Updated
  <2> QED
    BY <2>7 DEF new, O, i
<1>14. CASE dir = 0 /\ n.ents # << >>
  <2>1. PICK g \in Trees[d] : g.node = n /\ g.holds = H
    <3>1. n # Empty(d)
      BY <1>14 DEF Empty, Node
    <3> QED
      BY <1>5, <3>1 DEF Updated
  <2>2. \A x : x \in g.holds <=> x.k # key /\ \E l \in i .. i : x \in q[l].holds
    <3>1. i .. i = {i}
      BY <1>2
    <3> QED
      BY <1>6, <2>1, <3>1
  <2>3. new = NodeReplaceKidN(O, i, <<n>>)
    BY <1>8, <1>14
  <2>4. [j \in 1 .. Len(<<n>>) |-> KidEntry(<<n>>[j])] = <<KidEntry(n)>>
    <3>1. Len(<<n>>) = 1 /\ <<n>>[1] = n /\ Len(<<KidEntry(n)>>) = 1 /\ <<KidEntry(n)>>[1] = KidEntry(n)
      OBVIOUS
    <3> HIDE DEF KidEntry
    <3>2. DOMAIN <<KidEntry(n)>> = 1 .. 1
      OBVIOUS
    <3> QED
      BY <3>1, <3>2
  <2>5. new = Node(Inner, SubSeq(O.ents, 1, i - 1) \o <<KidEntry(g.node)>>
                            \o SubSeq(O.ents, i + 1, Len(q)))
    BY <1>3, <2>1, <2>3, <2>4 DEF NodeReplaceKidN
  <2>6. /\ new = Node(Inner, SubSeq(Over(q).ents, 1, i - 1) \o <<KidEntry(g.node)>>
                               \o SubSeq(Over(q).ents, i + 1, Len(q)))
        /\ g \in Trees[h - 1] /\ i \in i .. i
    BY <1>2, <2>5 DEF O, d
  <2>7. i = NodeLookupLE(Over(q), key)
    BY DEF i
  <2>8. Shrunk(h, Combined(q), key, InOnePage(new))
    BY <1>2, <2>2, <2>6, <2>7, RowShrinks
  <2> QED
    BY <2>8 DEF new, O, i
<1> QED
  BY <1>9, <1>11, <1>12, <1>13, <1>14

\* nodeDelete, with what treeDelete made of the kid.
LEMMA InnerShrinks ==
  ASSUME NEW h \in 1 .. MaxHeight, NEW q \in Seq(Trees[h - 1]), IsTreeSeq(q), NEW key \in Nat,
         NEW n, Shrunk(h - 1, q[NodeLookupLE(Over(q), key)], key, n)
  PROVE  Shrunk(h, Combined(q), key, NodeDelete(Over(q), NodeLookupLE(Over(q), key), n))
<1> DEFINE i == NodeLookupLE(Over(q), key)
           new == NodeDelete(Over(q), i, n)
<1>1. h - 1 \in 0 .. MaxHeight
  BY TreesStep
<1>2. /\ i \in 1 .. Len(q)
      /\ \A l \in 1 .. Len(q) : l # i => \A x \in q[l].holds : x.k # key
  BY KidsWithout
<1>3. Combined(q).holds = HoldsOf(q)
  BY DEF Combined
<1>4. new = IF n = NotFound \/ IsFatal(n) THEN n ELSE InOnePage(WithUpdatedKid(Over(q), i, n))
  BY DEF NodeDelete
<1>5. CASE n = NotFound /\ \A x \in q[i].holds : x.k # key
  <2>1. ASSUME NEW x \in HoldsOf(q) PROVE x.k # key
    <3>1. PICK l \in 1 .. Len(q) : x \in q[l].holds
      BY HoldsOfFacts
    <3> QED
      BY <1>2, <1>5, <3>1
  <2> QED
    BY <1>3, <1>4, <1>5, <2>1 DEF Shrunk
<1>6. CASE n = Fatal("overflow")
  <2>1. IsFatal(n)
    BY <1>6 DEF IsFatal, Fatal, Node, Leaf, Inner
  <2> QED
    BY <1>4, <1>6, <2>1 DEF Shrunk
<1>7. CASE Updated(h - 1, n, Without(q[i].holds, key))
  <2>1. n.type \in {Leaf, Inner}
    <3>1. CASE n = Empty(h - 1)
      BY <3>1 DEF Empty, Node
    <3>2. CASE \E w \in Trees[h - 1] : w.node = n
      BY <1>1, <3>2, TreeNode DEF IsFatal
    <3> QED
      BY <1>7, <3>1, <3>2 DEF Updated
  <2>2. ~IsFatal(n) /\ n # NotFound
    BY <2>1 DEF IsFatal, NotFound, Node, Leaf, Inner
  <2>3. Shrunk(h, Combined(q), key, InOnePage(WithUpdatedKid(Over(q), i, n)))
    BY <1>7, KidShrinks
  <2> HIDE DEF i, new
  <2>4. new = InOnePage(WithUpdatedKid(Over(q), i, n))
    BY <1>4, <2>2
  <2>5. Shrunk(h, Combined(q), key, new)
    BY <2>3, <2>4
  <2> QED
    BY <2>5 DEF new, i
<1> QED
  BY <1>5, <1>6, <1>7 DEF Shrunk

\* treeDelete shrinks a tree.
LEMMA DeleteShrinks ==
  ASSUME NEW h \in 0 .. MaxHeight, h < MaxHeight, NEW t \in Trees[h], NEW key \in Nat
  PROVE  Shrunk(h, t, key, TreeDelete(t.node, key))
<1> DEFINE P == Path(t.node, key)
<1>1. PICK new : /\ TreeDelete(t.node, key) = new[1]
                 /\ \A l \in 1 .. MaxHeight : new[l] = DeleteStep(P, key, l, new[l + 1])
  BY DeleteFollows
<1>2. P[1] = t.node /\ \A m \in 1 .. MaxHeight - 1 : P[m + 1] = Onward(P[m], key)
  BY PathStep
<1>3. MaxHeight \in Nat /\ h \in Nat
  BY TreesStep
<1> HIDE DEF P
<1> DEFINE Q(d) == \A u \in Trees[d] : u.node = P[(h + 1) - d] => Shrunk(d, u, key, new[(h + 1) - d])
           T == {d \in 0 .. h : ~Q(d)}
<1>4. ASSUME NEW d \in 0 .. h, d = 0 PROVE Q(d)
  <2> SUFFICES ASSUME NEW u \in Trees[0], u.node = P[h + 1] PROVE Shrunk(0, u, key, new[h + 1])
    <3>1. (h + 1) - d = h + 1
      BY <1>3, <1>4
    <3> QED
      BY <1>4, <3>1
  <2>1. h + 1 \in 1 .. MaxHeight /\ 0 \in 0 .. MaxHeight
    BY <1>3
  <2>2. P[h + 1].type = Leaf
    BY <2>1, TreeNode
  <2>3. new[h + 1] = LET i == NodeLookupLE(u.node, key) IN
                     IF u.node.ents # << >> /\ u.node.ents[i].k = key
                     THEN LeafDelete(u.node, i) ELSE NotFound
    BY <1>1, <2>1, <2>2 DEF DeleteStep
  <2> QED
    BY <2>3, LeafShrinks
<1>5. ASSUME NEW d \in 0 .. h, d # 0, Q(d - 1) PROVE Q(d)
  <2> DEFINE l == (h + 1) - d
  <2>1. /\ l \in 1 .. MaxHeight /\ l \in 1 .. MaxHeight - 1 /\ l # MaxHeight
        /\ d \in 1 .. MaxHeight /\ d \in 0 .. MaxHeight /\ d - 1 \in 0 .. MaxHeight
        /\ (h + 1) - (d - 1) = l + 1
    BY <1>3, <1>5
  <2> HIDE DEF l
  <2> SUFFICES ASSUME NEW u \in Trees[d], u.node = P[l] PROVE Shrunk(d, u, key, new[l])
    BY DEF l
  <2>2. PICK q \in Seq(Trees[d - 1]) : IsTreeSeq(q) /\ u = Combined(q) /\ u.node = Over(q)
    BY <1>5, <2>1, TreeNode
  <2>3. HasKids(P[l]) /\ P[l].type = Inner /\ P[l].ents # << >>
    BY <1>5, <2>1, TreeNode
  <2> DEFINE i == NodeLookupLE(Over(q), key)
  <2>4. i \in 1 .. Len(q)
    BY <2>1, <2>2, KidFor
  <2>5. P[l + 1] = Over(q).ents[i].p
    BY <1>2, <2>1, <2>2, <2>3 DEF Onward
  <2>6. new[l] = NodeDelete(Over(q), i, new[l + 1])
    <3>1. P[l].type # Leaf
      BY <2>3 DEF Leaf, Inner
    <3>2. new[l] = DeleteStep(P, key, l, new[l + 1])
      BY <1>1, <2>1
    <3>3. P[l] = Over(q)
      BY <2>2
    <3> HIDE DEF i
    <3> QED
      BY <2>1, <2>3, <3>1, <3>2, <3>3 DEF DeleteStep, i
  <2> HIDE DEF i
  <2>7. q[i] \in Trees[d - 1] /\ q[i].node = P[l + 1]
    BY <2>1, <2>4, <2>5, RowFacts
  <2>8. Shrunk(d - 1, q[i], key, new[l + 1])
    BY <1>5, <2>1, <2>7
  <2>9. Shrunk(d, Combined(q), key, NodeDelete(Over(q), i, new[l + 1]))
    BY <2>1, <2>2, <2>8, InnerShrinks DEF i
  <2> QED
    BY <2>2, <2>6, <2>9
<1>6. T = {}
  <2> SUFFICES ASSUME T # {} PROVE FALSE
    OBVIOUS
  <2>1. PICK d \in T : \A y \in T : d <= y
    <3>1. T \subseteq Nat /\ T # {}
      BY <1>3
    <3> HIDE DEF T
    <3> QED
      BY <3>1, LeastNat
  <2>2. d \in 0 .. h /\ ~Q(d)
    OBVIOUS
  <2> HIDE DEF Q
  <2>3. d # 0
    BY <1>4, <2>2
  <2>4. d - 1 \in 0 .. h /\ ~(d <= d - 1)
    BY <1>3, <2>2, <2>3
  <2>5. d - 1 \notin T
    BY <2>1, <2>4
  <2> QED
    BY <1>5, <2>2, <2>3, <2>4, <2>5
<1>7. Shrunk(h, t, key, new[1])
  <2>1. h \in 0 .. h /\ (h + 1) - h = 1
    BY <1>3
  <2>2. Q(h)
    BY <1>6, <2>1
  <2> QED
    BY <1>2, <2>1, <2>2
<1> QED
  BY <1>1, <1>7

-----------------------------------------------------------------------------
(* The invariant.                                                           *)

\* S has the values of c, and no other entry with a key of the caller.
Tells(c, S) ==
  \A k \in Key : IF c[k] = Absent THEN \A x \in S : x.k # k ELSE Entry(k, c[k], Nil) \in S

\* The root is that of a tree that holds S. As long as no tree has shrunk to a
\* leaf, a root that is a leaf has the empty key.
RootIs(S) ==
  \/ root = NoTree /\ S = {}
  \/ root = Node(Leaf, << >>) /\ small /\ S = {}
  \/ \E h \in 0 .. MaxHeight : \E t \in Trees[h] :
       /\ h < MaxHeight /\ t.node = root /\ t.holds = S
       /\ h = 0 /\ ~small => \E x \in S : x.k = 0

\* The fates after which the root is no longer that of a tree.
Harmed == {"dropped", "kidless"}

IInv ==
  /\ content \in [Key -> Value \union {Absent}] /\ fate \in Fates /\ small \in BOOLEAN
  /\ fate \notin Harmed => \E S : RootIs(S) /\ (fate = "sound" => Tells(content, S))
  /\ fate \in Harmed => Shallow(root)
  /\ ~small => fate \notin {"dropped", "bounds"}
  /\ fate = "assert" => HoldsLarge

\* Storing a value: besides the entry stored, only the empty key's may differ.
LEMMA TellsPut ==
  ASSUME NEW c \in [Key -> Value \union {Absent}], NEW S, Tells(c, S),
         NEW key \in Key, NEW val \in Value, NEW R,
         \A x : x.k # 0 => (x \in R <=> x \in Put(S, Entry(key, val, Nil))),
         \A x \in R : x \in Put(S, Entry(key, val, Nil))
  PROVE  Tells([c EXCEPT ![key] = val], R)
<1> DEFINE e == Entry(key, val, Nil)
           b == [c EXCEPT ![key] = val]
<1> SUFFICES ASSUME NEW k \in Key
             PROVE  IF b[k] = Absent THEN \A x \in R : x.k # k ELSE Entry(k, b[k], Nil) \in R
  BY DEF Tells
<1>1. \A j \in Key : j # 0
  BY BTreeAssumption
<1>2. val # Absent
  BY BTreeAssumption
<1>3. e.k = key /\ \A v : Entry(k, v, Nil).k = k
  BY DEF Entry
<1>4. CASE k = key
  <2>1. b[k] = val
    BY <1>4
  <2>2. e \in R
    BY <1>1, <1>3 DEF Put
  <2> QED
    BY <1>2, <1>4, <2>1, <2>2
<1>5. CASE k # key
  <2>1. b[k] = c[k]
    BY <1>5
  <2>2. IF c[k] = Absent THEN \A x \in S : x.k # k ELSE Entry(k, c[k], Nil) \in S
    BY DEF Tells
  <2>3. CASE c[k] = Absent
    BY <1>3, <1>5, <2>1, <2>2, <2>3 DEF Put
  <2>4. CASE c[k] # Absent
    <3>1. Entry(k, c[k], Nil) \in Put(S, e)
      BY <1>3, <1>5, <2>2, <2>4 DEF Put
    <3> QED
      BY <1>1, <1>3, <2>1, <2>4, <3>1
  <2> QED
    BY <2>3, <2>4
<1> QED
  BY <1>4, <1>5

\* Taking a key out.
LEMMA TellsWithout ==
  ASSUME NEW c \in [Key -> Value \union {Absent}], NEW S, Tells(c, S), NEW key \in Key
  PROVE  Tells([c EXCEPT ![key] = Absent], Without(S, key))
<1> DEFINE b == [c EXCEPT ![key] = Absent]
<1> SUFFICES ASSUME NEW k \in Key
             PROVE  IF b[k] = Absent THEN \A x \in Without(S, key) : x.k # k
                    ELSE Entry(k, b[k], Nil) \in Without(S, key)
  BY DEF Tells
<1>1. \A v : Entry(k, v, Nil).k = k
  BY DEF Entry
<1>2. CASE k = key
  BY <1>2 DEF Without
<1>3. CASE k # key
  <2>1. b[k] = c[k]
    BY <1>3
  <2>2. IF c[k] = Absent THEN \A x \in S : x.k # k ELSE Entry(k, c[k], Nil) \in S
    BY DEF Tells
  <2> QED
    BY <1>1, <1>3, <2>1, <2>2 DEF Without
<1> QED
  BY <1>2, <1>3

\* The first tree.
LEMMA FirstTree ==
  ASSUME NEW key \in Key, NEW val \in Value
  PROVE  \E t \in Trees[0] : /\ t.node = FirstLeaf(key, val)
                             /\ t.holds = {Entry(0, Nil, Nil), Entry(key, val, Nil)}
<1> DEFINE z == Entry(0, Nil, Nil)
           e == Entry(key, val, Nil)
           s == <<z, e>>
<1>1. z \in LeafEntry /\ e \in LeafEntry /\ IsEntry(z) /\ IsEntry(e)
  BY LeafEntries
<1>2. z.k = 0 /\ e.k = key /\ key \in Nat /\ 0 < key
  BY BTreeAssumption DEF Entry
<1> HIDE DEF z, e
<1>3. s \in Seq(LeafEntry) /\ s # << >> /\ Len(s) = 2 /\ s[1] = z /\ s[2] = e
  BY <1>1
<1>4. Ascending(s)
  BY <1>2, <1>3 DEF Ascending
<1>5. NBytes(Node(Leaf, s)) <= PageSize
  <2>1. IsEnts(<<z>>) /\ SumBytes(<<z>>) = EntryBytes(z) /\ IsEnts(<<e>>) /\ SumBytes(<<e>>) = EntryBytes(e)
    BY <1>1, OneEnt
  <2>2. SumBytes(<<z>> \o <<e>>) = SumBytes(<<z>>) + SumBytes(<<e>>)
    BY <2>1, JoinEnts
  <2>3. <<z>> \o <<e>> = s
    <3> DEFINE a == <<z>>
               b == <<e>>
    <3>1. a \in Seq(LeafEntry) /\ b \in Seq(LeafEntry) /\ Len(a) = 1 /\ Len(b) = 1 /\ a[1] = z /\ b[1] = e
      BY <1>1
    <3> HIDE DEF a, b
    <3>2. /\ a \o b \in Seq(LeafEntry) /\ Len(a \o b) = 2
          /\ (a \o b)[1] = z /\ (a \o b)[2] = e
      BY <3>1, ConcatProperties
    <3> HIDE DEF s
    <3>3. \A i \in 1 .. Len(s) : (a \o b)[i] = s[i]
      <4>1. 1 .. Len(s) = {1, 2}
        BY <1>3
      <4> QED
        BY <1>3, <3>2, <4>1
    <3>4. a \o b = s
      BY <1>3, <3>2, <3>3, SameSeq
    <3> QED
      BY <3>4 DEF a, b
  <2>4. SumBytes(s) = EntryBytes(z) + EntryBytes(e)
    BY <2>1, <2>2, <2>3
  <2>5. EntryBytes(z) = Slot /\ EntryBytes(e) \in Nat /\ (Header + Slot) + EntryBytes(e) <= PageSize
    BY LeafBytes DEF z, e
  <2>6. Header \in Nat /\ Slot \in Nat /\ PageSize \in Nat
    BY BNodeAssumption
  <2>7. NBytes(Node(Leaf, s)) = Header + SumBytes(s)
    BY DEF NBytes, Node
  <2> HIDE DEF s
  <2> QED
    BY <2>4, <2>5, <2>6, <2>7
<1>6. EntsIn(s) = {z, e}
  <2>1. 1 .. Len(s) = {1, 2}
    BY <1>3
  <2> HIDE DEF s
  <2> QED
    BY <1>3, <2>1 DEF EntsIn
<1>7. FirstLeaf(key, val) = Node(Leaf, s)
  BY DEF FirstLeaf, z, e
<1> HIDE DEF s
<1>8. Single(s) \in Trees[0] /\ Single(s).node = Node(Leaf, s) /\ Single(s).holds = EntsIn(s)
  BY <1>3, <1>4, <1>5, LeafTreeIs DEF IsLeafSeq, Single
<1> QED
  BY <1>6, <1>7, <1>8 DEF z, e

\* The operations on an empty leaf.
LEMMA EmptyLeaf ==
  ASSUME NEW key, NEW val
  PROVE  /\ Inserted(Node(Leaf, << >>), key, val) = Fatal("bounds")
         /\ TreeDelete(Node(Leaf, << >>), key) = NotFound
<1> DEFINE n == Node(Leaf, << >>)
           P == Path(n, key)
<1>1. n.type = Leaf /\ n.ents = << >> /\ n # NoTree
  BY DEF Node, NoTree, Leaf
<1>2. 1 \in 1 .. MaxHeight
  BY TreesStep
<1>3. P[1] = n
  BY PathStep
<1> HIDE DEF n, P
<1>4. TreeInsert(n, key, val) = Fatal("bounds")
  <2>1. PICK new : /\ TreeInsert(n, key, val) = new[1]
                   /\ \A l \in 1 .. MaxHeight : new[l] = InsertStep(P, key, val, l, new[l + 1])
    BY InsertFollows DEF P
  <2> QED
    BY <1>1, <1>2, <1>3, <2>1 DEF InsertStep, LeafPut
<1>5. TreeDelete(n, key) = NotFound
  <2>1. PICK new : /\ TreeDelete(n, key) = new[1]
                   /\ \A l \in 1 .. MaxHeight : new[l] = DeleteStep(P, key, l, new[l + 1])
    BY DeleteFollows DEF P
  <2> QED
    BY <1>1, <1>2, <1>3, <2>1 DEF DeleteStep
<1>6. IsFatal(Fatal("bounds"))
  BY DEF IsFatal, Fatal, Node, Leaf, Inner
<1>7. Inserted(n, key, val) = Fatal("bounds")
  BY <1>1, <1>4, <1>6 DEF Inserted
<1> QED
  BY <1>5, <1>7 DEF n

\* A large entry in a tree is one the caller stored.
LEMMA LargeStored ==
  ASSUME NEW c \in [Key -> Value \union {Absent}], NEW S, S \subseteq LeafEntry, Tells(c, S),
         \A x, y \in S : x.k = y.k => x = y, Large(S), Key # {}, Value # {}
  PROVE  \E k \in Key : c[k] # Absent /\ 2 * EntryBytes(Entry(k, c[k], Nil)) > PageSize
<1>1. PICK x \in S : 2 * EntryBytes(x) > PageSize
  BY DEF Large
<1>2. x.k # 0
  <2> SUFFICES ASSUME x.k = 0 PROVE FALSE
    OBVIOUS
  <2>1. x = Entry(0, Nil, Nil)
    BY LeafEntries DEF LeafEntry, Entry
  <2>2. EntryBytes(x) = Slot /\ 2 * (Header + Slot) < PageSize
    BY <2>1, LeafBytes
  <2>3. Header \in Nat /\ Slot \in Nat /\ PageSize \in Nat
    BY BNodeAssumption
  <2> QED
    BY <1>1, <2>2, <2>3
<1>3. x.k \in Key
  BY <1>2, LeafEntries
<1>4. c[x.k] # Absent /\ Entry(x.k, c[x.k], Nil) \in S
  BY <1>3 DEF Tells
<1>5. Entry(x.k, c[x.k], Nil) = x
  BY <1>4 DEF Entry
<1> QED
  BY <1>1, <1>3, <1>4, <1>5

\* Insert keeps the invariant.
LEMMA InsertKeeps ==
  ASSUME IInv, NEW key \in Key, NEW val \in Value, Insert(key, val)
  PROVE  IInv'
<1> DEFINE new == Inserted(root, key, val)
           e == Entry(key, val, Nil)
           zero == Entry(0, Nil, Nil)
<1>1. /\ content \in [Key -> Value \union {Absent}] /\ fate \in Fates /\ small \in BOOLEAN
      /\ fate = "sound" /\ WithinHeight(new)
      /\ content' = [content EXCEPT ![key] = val] /\ small' = small
  BY DEF Insert, IInv
<1>2. IF IsFatal(new) THEN fate' = new.type /\ root' = root
      ELSE fate' = (IF DropsKey(root, new) THEN "dropped" ELSE fate) /\ root' = new
  BY DEF Insert
<1>3. content' \in [Key -> Value \union {Absent}] /\ small' \in BOOLEAN
  BY <1>1
<1>4. PICK S : RootIs(S) /\ Tells(content, S)
  BY <1>1 DEF IInv, Harmed
<1>5. 0 \in 0 .. MaxHeight /\ 0 < MaxHeight /\ MaxHeight \in Nat /\ e.k = key /\ zero.k = 0
      /\ key # 0 /\ e # zero
  BY TreesStep, BTreeAssumption DEF Entry
<1> HIDE DEF new, e, zero
<1>6. ASSUME NEW R, RootIs(R)', Tells(content', R), fate' = "sound"
      PROVE  IInv'
  <2>1. \E A : RootIs(A)' /\ Tells(content', A)
    BY <1>6
  <2>2. fate' \in Fates /\ fate' \notin Harmed /\ fate' \notin {"dropped", "bounds"} /\ fate' # "assert"
    BY <1>6 DEF Fates, Harmed
  <2> QED
    BY <1>3, <2>1, <2>2 DEF IInv
<1>7. CASE root = NoTree /\ S = {}
  <2>1. new = FirstLeaf(key, val)
    BY <1>7 DEF Inserted, new
  <2>2. PICK t \in Trees[0] : t.node = new /\ t.holds = {zero, e}
    BY <2>1, FirstTree DEF zero, e
  <2>3. ~IsFatal(new) /\ ~DropsKey(root, new)
    BY <1>5, <1>7, <2>2, TreeNode DEF DropsKey
  <2>4. root' = new /\ fate' = "sound"
    BY <1>1, <1>2, <2>3
  <2>5. RootIs({zero, e})'
    <3>1. /\ 0 < MaxHeight /\ t.node = root' /\ t.holds = {zero, e}
          /\ 0 = 0 /\ ~small' => \E x \in {zero, e} : x.k = 0
      BY <1>5, <2>2, <2>4
    <3> QED
      BY <1>5, <3>1 DEF RootIs
  <2>6. Tells(content', {zero, e})
    <3>1. Put(S, e) = {e}
      BY <1>7 DEF Put
    <3>2. Tells([content EXCEPT ![key] = val], {e})
      BY <1>1, <1>4, <3>1, TellsPut DEF e
    <3>3. \A k \in Key : zero.k # k
      BY <1>5, BTreeAssumption
    <3> QED
      BY <1>1, <3>2, <3>3 DEF Tells
  <2> QED
    BY <1>6, <2>4, <2>5, <2>6
<1>8. CASE root = Node(Leaf, << >>) /\ small /\ S = {}
  <2>1. new = Fatal("bounds")
    BY <1>8, EmptyLeaf DEF new
  <2>2. IsFatal(new) /\ new.type = "bounds"
    BY <2>1 DEF IsFatal, Fatal, Node, Leaf, Inner
  <2>3. fate' = "bounds" /\ root' = root
    BY <1>2, <2>2
  <2>4. RootIs(S)'
    BY <1>1, <1>8, <2>3 DEF RootIs
  <2>5. fate' \in Fates /\ fate' \notin Harmed /\ fate' # "assert" /\ fate' # "sound" /\ small'
    BY <1>1, <1>8, <2>3 DEF Fates, Harmed
  <2> QED
    BY <1>3, <2>4, <2>5 DEF IInv
<1>9. ASSUME NEW h \in 0 .. MaxHeight, NEW t \in Trees[h],
             h < MaxHeight, t.node = root, t.holds = S,
             h = 0 /\ ~small => \E x \in S : x.k = 0
      PROVE  IInv'
  <2> DEFINE want == Put(S, e)
  <2>1. RootGrown(h, t, e, new)
    BY <1>9, InsertedTree DEF new, e
  <2>2. Sane(t, h) /\ (h = 0 <=> root.type = Leaf)
    BY <1>9, TreeNode DEF Leaf, Inner
  <2>3. S \subseteq LeafEntry /\ \A x, y \in S : x.k = y.k => x = y
    BY <1>9, <2>2 DEF Sane
  <2>4. e \in LeafEntry
    BY LeafEntries DEF e
  <2>5. want \subseteq LeafEntry /\ \A x, y \in want : x.k = y.k => x = y
    BY <1>5, <2>3, <2>4 DEF Put
  <2>6. Tells(content', want)
    BY <1>1, <1>4, TellsPut DEF e
  <2> HIDE DEF want
  <2>7. CASE new = Fatal("assert") /\ Large(want)
    <3>1. IsFatal(new) /\ new.type = "assert"
      BY <2>7 DEF IsFatal, Fatal, Node, Leaf, Inner
    <3>2. fate' = "assert" /\ root' = root
      BY <1>2, <3>1
    <3>3. RootIs(S)'
      BY <1>1, <1>4, <3>2 DEF RootIs
    <3>4. \E k \in Key : content'[k] # Absent /\ 2 * EntryBytes(Entry(k, content'[k], Nil)) > PageSize
      <4>1. Key # {} /\ Value # {}
        OBVIOUS
      <4> QED
        BY <1>3, <2>5, <2>6, <2>7, <4>1, LargeStored
    <3>5. HoldsLarge'
      BY <3>4 DEF HoldsLarge
    <3>6. fate' \in Fates /\ fate' \notin Harmed /\ fate' # "sound" /\ fate' \notin {"dropped", "bounds"}
      BY <3>2 DEF Fates, Harmed
    <3> QED
      BY <1>3, <3>3, <3>5, <3>6 DEF IInv
  <2>8. ASSUME NEW d \in {h, h + 1}, NEW u \in Trees[d], u.node = new,
               u.holds = want \/ (d # 0 /\ u.holds = want \ {zero}),
               h = 0 /\ d # 0 => FirstKey(t.node) = 0
        PROVE  IInv'
    <3>1. d \in 0 .. MaxHeight /\ (d = 0 => h = 0)
      BY <1>5, <1>9, <2>8
    <3>2. d < MaxHeight
      <4>1. WithinHeight(u.node)
        BY <1>1, <2>8
      <4> QED
        BY <3>1, <4>1, HeightWithin
    <3>3. ~IsFatal(new) /\ (d = 0 <=> new.type = Leaf)
      BY <2>8, <3>1, TreeNode DEF Leaf, Inner
    <3>4. ~DropsKey(root, new)
      <4> SUFFICES ASSUME DropsKey(root, new) PROVE FALSE
        OBVIOUS
      <4>1. root.type = Leaf /\ FirstKey(root) # 0 /\ new.type = Inner
        BY DEF DropsKey
      <4>2. h = 0 /\ d # 0
        BY <2>2, <3>3, <4>1 DEF Leaf, Inner
      <4> QED
        BY <1>9, <2>8, <4>1, <4>2
    <3>5. root' = new /\ fate' = "sound"
      BY <1>1, <1>2, <3>3, <3>4
    <3>6. Tells(content', u.holds)
      <4>1. \A x : x.k # 0 => (x \in u.holds <=> x \in want)
        BY <1>5, <2>8
      <4>2. \A x \in u.holds : x \in want
        BY <2>8
      <4> QED
        BY <1>1, <1>4, <4>1, <4>2, TellsPut DEF want, e
    <3>7. ASSUME d = 0, ~small' PROVE \E x \in u.holds : x.k = 0
      <4>1. PICK x \in S : x.k = 0
        BY <1>1, <1>9, <3>1, <3>7
      <4>2. x \in want
        BY <1>5, <4>1 DEF want, Put
      <4> QED
        BY <2>8, <3>7, <4>1, <4>2
    <3>8. RootIs(u.holds)'
      <4>1. /\ d < MaxHeight /\ u.node = root'
            /\ d = 0 /\ ~small' => \E x \in u.holds : x.k = 0
        BY <2>8, <3>2, <3>5, <3>7
      <4> QED
        BY <3>1, <4>1 DEF RootIs
    <3> QED
      BY <1>6, <3>5, <3>6, <3>8
  <2>9. CASE h = 0 /\ FirstKey(t.node) # 0 /\ Shallow(new)
    <3>1. new.type = Inner /\ ~IsFatal(new)
      BY <2>9 DEF Shallow, FineNode
    <3>2. root # NoTree /\ root.type = Leaf /\ FirstKey(root) # 0
      BY <1>9, <2>2, <2>9, TreeNode
    <3>3. DropsKey(root, new)
      BY <3>1, <3>2 DEF DropsKey
    <3>4. root' = new /\ fate' = "dropped"
      BY <1>2, <3>1, <3>3
    <3>5. small
      <4> SUFFICES ASSUME ~small PROVE FALSE
        OBVIOUS
      <4>1. PICK x \in S : x.k = 0
        BY <1>9, <2>9
      <4>2. FirstKey(t.node) <= 0 /\ FirstKey(t.node) \in Key \union {0}
        BY <1>9, <2>2, <4>1 DEF Sane
      <4>3. FirstKey(t.node) \in Nat
        BY <4>2, LeafEntries
      <4> QED
        BY <2>9, <4>2, <4>3
    <3>6. fate' \in Fates /\ fate' \in Harmed /\ fate' # "assert" /\ small' /\ Shallow(root')
      BY <1>1, <2>9, <3>4, <3>5 DEF Fates, Harmed
    <3>7. Shallow(root)'
      BY <3>6 DEF Shallow, FineNode, Kids, IsFatal
    <3> QED
      BY <1>3, <3>6, <3>7 DEF IInv
  <2> QED
    BY <1>9, <2>1, <2>7, <2>8, <2>9 DEF RootGrown, want, zero
<1> QED
  BY <1>4, <1>7, <1>8, <1>9 DEF RootIs

\* Delete keeps the invariant.
LEMMA DeleteKeeps ==
  ASSUME IInv, NEW key \in Key, Delete(key)
  PROVE  IInv'
<1> DEFINE new == TreeDelete(root, key)
           top == Deleted(new)
           none == Node(Inner, << >>)
<1>1. /\ content \in [Key -> Value \union {Absent}] /\ small \in BOOLEAN
      /\ fate = "sound" /\ root # NoTree /\ new # NotFound
      /\ content' = [content EXCEPT ![key] = Absent]
  BY DEF Delete, IInv
<1>2. IF IsFatal(new) THEN fate' = new.type /\ root' = root /\ small' = small
      ELSE /\ root' = top
           /\ small' = (small \/ (root.type = Inner /\ top.type = Leaf))
           /\ fate' = IF top = none THEN "kidless" ELSE fate
  BY DEF Delete
<1>3. content' \in [Key -> Value \union {Absent}] /\ small' \in BOOLEAN
  BY <1>1, <1>2
<1>4. PICK S : RootIs(S) /\ Tells(content, S)
  BY <1>1 DEF IInv, Harmed
<1>5. 0 \in 0 .. MaxHeight /\ MaxHeight \in Nat /\ key # 0 /\ key \in Nat
  BY TreesStep, BTreeAssumption
<1>6. top = IF new.type = Inner /\ NKeys(new) = 1 THEN new.ents[1].p ELSE new
  BY DEF Deleted
<1> HIDE DEF new, top, none
<1>7. root # Node(Leaf, << >>)
  BY <1>1, EmptyLeaf DEF new
<1>8. PICK h \in 0 .. MaxHeight : \E t \in Trees[h] :
        /\ h < MaxHeight /\ t.node = root /\ t.holds = S
        /\ h = 0 /\ ~small => \E x \in S : x.k = 0
  BY <1>1, <1>4, <1>7 DEF RootIs
<1>9. PICK t \in Trees[h] : /\ h < MaxHeight /\ t.node = root /\ t.holds = S
                            /\ h = 0 /\ ~small => \E x \in S : x.k = 0
  BY <1>8
<1> DEFINE want == Without(S, key)
<1>10. Shrunk(h, t, key, new)
  BY <1>5, <1>9, DeleteShrinks DEF new
<1>11. Tells(content', want)
  BY <1>1, <1>4, TellsWithout
<1>12. ~small /\ h = 0 => \E x \in want : x.k = 0
  BY <1>5, <1>9 DEF Without
<1>13. h = 0 <=> root.type = Leaf
  BY <1>9, TreeNode DEF Leaf, Inner
<1> HIDE DEF want
<1>14. ASSUME RootIs(want)', ~IsFatal(new), top # none
       PROVE  IInv'
  <2>1. fate' = "sound"
    BY <1>1, <1>2, <1>14
  <2>2. fate' \in Fates /\ fate' \notin Harmed /\ fate' \notin {"dropped", "bounds"} /\ fate' # "assert"
    BY <2>1 DEF Fates, Harmed
  <2>3. \E A : RootIs(A)' /\ Tells(content', A)
    BY <1>11, <1>14
  <2> QED
    BY <1>3, <2>2, <2>3 DEF IInv
<1>15. CASE new = Fatal("overflow")
  <2>1. IsFatal(new) /\ new.type = "overflow"
    BY <1>15 DEF IsFatal, Fatal, Node, Leaf, Inner
  <2>2. fate' = "overflow" /\ root' = root /\ small' = small
    BY <1>2, <2>1
  <2>3. RootIs(S)'
    BY <1>4, <2>2 DEF RootIs
  <2>4. fate' \in Fates /\ fate' \notin Harmed /\ fate' # "assert" /\ fate' # "sound"
        /\ fate' \notin {"dropped", "bounds"}
    BY <2>2 DEF Fates, Harmed
  <2> QED
    BY <1>3, <2>3, <2>4 DEF IInv
<1>16. CASE new = Empty(h) /\ want = {}
  <2>1. CASE h = 0
    <3>1. new = Node(Leaf, << >>) /\ new.type = Leaf /\ ~IsFatal(new)
      BY <1>16, <2>1 DEF Empty, Node, IsFatal
    <3>2. top = new /\ top # none
      BY <1>6, <3>1 DEF none, Leaf, Inner, Node
    <3>3. root' = Node(Leaf, << >>)
      BY <1>2, <3>1, <3>2
    <3>4. small
      BY <1>12, <1>16, <2>1
    <3>5. small'
      BY <1>2, <3>1, <3>4
    <3>6. RootIs(want)'
      BY <1>16, <3>3, <3>5 DEF RootIs
    <3> QED
      BY <1>14, <3>1, <3>2, <3>6
  <2>2. CASE h # 0
    <3>1. new = none /\ new.type = Inner /\ new.ents = << >> /\ ~IsFatal(new)
      BY <1>16, <2>2 DEF Empty, Node, IsFatal, none
    <3>2. top = none
      BY <1>6, <3>1 DEF NKeys
    <3>3. root' = none /\ fate' = "kidless"
      BY <1>2, <3>1, <3>2
    <3>4. Shallow(none)
      <4>1. none.type = Inner /\ none.ents = << >>
        BY DEF none, Node
      <4>2. IsEnts(none.ents) /\ Len(none.ents) = 0
        BY <4>1, NoEnts
      <4>3. NBytes(none) = Header
        <5>1. SumBytes(none.ents) = 0
          BY <4>2, SumsStep
        <5>2. Header \in Nat
          BY BNodeAssumption
        <5> QED
          BY <5>1, <5>2 DEF NBytes
      <4>4. Header <= PageSize
        BY BNodeAssumption
      <4>5. Ascending(none.ents) /\ Kids(none) = {}
        BY <4>2 DEF Ascending, Kids, NKeys
      <4> QED
        BY <4>1, <4>2, <4>3, <4>4, <4>5 DEF Shallow, FineNode, IsFatal
    <3>5. Shallow(root)'
      <4>1. Shallow(root')
        BY <3>3, <3>4
      <4> QED
        BY <4>1 DEF Shallow, FineNode, Kids, IsFatal
    <3>6. fate' \in Fates /\ fate' \in Harmed /\ fate' # "assert" /\ fate' \notin {"dropped", "bounds"}
      BY <3>3 DEF Fates, Harmed
    <3> QED
      BY <1>3, <3>5, <3>6 DEF IInv
  <2> QED
    BY <2>1, <2>2
<1>17. ASSUME NEW w \in Trees[h], w.node = new, w.holds = want
       PROVE  IInv'
  <2>1. /\ ~IsFatal(new) /\ new.ents # << >>
        /\ h = 0 => new.type = Leaf
        /\ h # 0 => new.type = Inner
    BY <1>17, TreeNode
  <2>2. CASE ~(new.type = Inner /\ NKeys(new) = 1)
    <3>1. top = new
      BY <1>6, <2>2
    <3>2. top # none
      BY <2>1, <3>1 DEF none, Node
    <3>3. root' = new /\ (small' <=> small \/ (root.type = Inner /\ new.type = Leaf))
      BY <1>2, <2>1, <3>1
    <3>4. h = 0 /\ ~small' => \E x \in want : x.k = 0
      BY <1>12, <3>3
    <3>5. RootIs(want)'
      <4>1. /\ h < MaxHeight /\ w.node = root' /\ w.holds = want
            /\ h = 0 /\ ~small' => \E x \in want : x.k = 0
        BY <1>9, <1>17, <3>3, <3>4
      <4> QED
        BY <4>1 DEF RootIs
    <3> QED
      BY <1>14, <2>1, <3>2, <3>5
  <2>3. CASE new.type = Inner /\ NKeys(new) = 1
    <3>1. h # 0 /\ root.type = Inner
      <4>1. h # 0
        BY <2>1, <2>3 DEF Leaf, Inner
      <4> QED
        BY <1>9, <4>1, TreeNode
    <3>2. PICK q \in Seq(Trees[h - 1]) : new = Over(q) /\ want = HoldsOf(q)
      BY <1>17, <3>1, TreeNode
    <3>3. h - 1 \in 0 .. MaxHeight /\ h - 1 < MaxHeight
      BY <1>5, <1>9, <3>1
    <3>4. Len(q) = 1 /\ q[1] \in Trees[h - 1] /\ new.ents[1].p = q[1].node
      <4>1. Len(q) = 1
        BY <2>3, <3>2, <3>3, RowFacts
      <4>2. 1 \in 1 .. Len(q)
        BY <4>1
      <4> QED
        BY <3>2, <3>3, <4>1, <4>2, RowFacts
    <3>5. q[1].holds = want
      <4>1. 1 .. Len(q) = {1}
        BY <3>4
      <4> QED
        BY <3>2, <4>1 DEF HoldsOf
    <3>6. top = q[1].node
      BY <1>6, <2>3, <3>4
    <3>7. top # none /\ (h - 1 = 0 => top.type = Leaf)
      <4>1. top.ents # << >> /\ (h - 1 = 0 => top.type = Leaf)
        BY <3>3, <3>4, <3>6, TreeNode
      <4>2. none.ents = << >>
        BY DEF none, Node
      <4> QED
        BY <4>1, <4>2
    <3>8. root' = top /\ (h - 1 = 0 => small')
      BY <1>2, <2>1, <3>1, <3>7
    <3>9. RootIs(want)'
      <4> DEFINE d == h - 1
      <4>1. /\ d \in 0 .. MaxHeight /\ q[1] \in Trees[d]
            /\ d < MaxHeight /\ q[1].node = root' /\ q[1].holds = want
            /\ d = 0 /\ ~small' => \E x \in want : x.k = 0
        BY <3>3, <3>4, <3>5, <3>6, <3>8
      <4> HIDE DEF d
      <4> QED
        BY <4>1 DEF RootIs
    <3> QED
      BY <1>14, <2>1, <3>7, <3>9
  <2> QED
    BY <2>2, <2>3
<1> QED
  BY <1>1, <1>9, <1>10, <1>15, <1>16, <1>17 DEF Shrunk, Updated, want

\* The invariant holds of no tree.
LEMMA InitKeeps == Init => IInv
<1> SUFFICES ASSUME Init PROVE IInv
  OBVIOUS
<1>1. root = NoTree /\ content = [k \in Key |-> Absent] /\ small = FALSE /\ fate = "sound"
  BY DEF Init
<1>2. RootIs({})
  BY <1>1 DEF RootIs
<1>3. Tells(content, {})
  BY <1>1 DEF Tells
<1>4. content \in [Key -> Value \union {Absent}] /\ small \in BOOLEAN
  BY <1>1
<1>5. fate \in Fates /\ fate \notin Harmed /\ fate \notin {"dropped", "bounds"} /\ fate # "assert"
  BY <1>1 DEF Fates, Harmed
<1> QED
  BY <1>2, <1>3, <1>4, <1>5 DEF IInv

\* Every step keeps it.
LEMMA NextKeeps == IInv /\ [Next]_vars => IInv'
<1> SUFFICES ASSUME IInv, [Next]_vars PROVE IInv'
  OBVIOUS
<1>1. CASE \E k \in Key, v \in Value : Insert(k, v)
  BY <1>1, InsertKeeps
<1>2. CASE \E k \in Key : Delete(k)
  BY <1>2, DeleteKeeps
<1>3. CASE UNCHANGED vars
  BY <1>3 DEF vars, IInv, RootIs, Shallow, FineNode, HoldsLarge, Kids, Tells
<1> QED
  BY <1>1, <1>2, <1>3 DEF Next

(* The invariant of the tree over time, for any keys and values, pages of   *)
(* any size and any bound on the height: until a key is dropped or the root *)
(* has no kids left, the root is that of a tree, and while no operation has *)
(* ended the process that tree holds what was stored (btree.go:325-520).    *)
THEOREM BTreeInvariant == Spec => []IInv
  BY InitKeeps, NextKeeps, PTL DEF Spec

-----------------------------------------------------------------------------
(* What the invariant is for.                                               *)

\* A way that has come to its end stays there.
LEMMA LeafPath ==
  ASSUME NEW n, ~HasKids(n), NEW key
  PROVE  Path(n, key)[MaxHeight] = n
<1> DEFINE P == Path(n, key)
           T == {l \in 1 .. MaxHeight : P[l] # n}
<1>1. P[1] = n /\ \A l \in 1 .. MaxHeight - 1 : P[l + 1] = Onward(P[l], key)
  BY PathStep
<1>2. MaxHeight \in Nat /\ MaxHeight >= 1
  BY TreesStep
<1> HIDE DEF P
<1>3. T = {}
  <2> SUFFICES ASSUME T # {} PROVE FALSE
    OBVIOUS
  <2>1. PICK l \in T : \A y \in T : l <= y
    <3>1. T \subseteq Nat /\ T # {}
      BY <1>2
    <3> HIDE DEF T
    <3> QED
      BY <3>1, LeastNat
  <2>2. l \in 1 .. MaxHeight /\ P[l] # n
    OBVIOUS
  <2>3. l # 1
    BY <1>1, <2>2
  <2>4. l - 1 \in 1 .. MaxHeight /\ l - 1 \in 1 .. MaxHeight - 1 /\ (l - 1) + 1 = l /\ ~(l <= l - 1)
    BY <1>2, <2>2, <2>3
  <2>5. P[l - 1] = n
    BY <2>1, <2>4
  <2>6. P[l] = Onward(n, key)
    BY <1>1, <2>4, <2>5
  <2> QED
    BY <2>2, <2>6 DEF Onward
<1>4. MaxHeight \in 1 .. MaxHeight
  BY <1>2
<1> QED
  BY <1>3, <1>4 DEF P

\* The nodes of a root whose kids, if any, are leaves.
LEMMA ShallowLevels ==
  ASSUME NEW n, n # NoTree, \A m \in Kids(n) : m.type = Leaf
  PROVE  \A l \in 1 .. MaxHeight : \A m \in Level(n)[l] :
           (l = 1 /\ m = n) \/ (l = 2 /\ m \in Kids(n))
<1> DEFINE L == Level(n)
           Q(l) == \A m \in L[l] : (l = 1 /\ m = n) \/ (l = 2 /\ m \in Kids(n))
           T == {l \in 1 .. MaxHeight : ~Q(l)}
<1>1. L[1] = {n} /\ \A l \in 1 .. MaxHeight - 1 : L[l + 1] = UNION {Kids(m) : m \in L[l]}
  BY LevelStep
<1>2. MaxHeight \in Nat
  BY TreesStep
<1>3. \A m : m.type = Leaf => Kids(m) = {}
  BY DEF Kids, Leaf, Inner
<1> HIDE DEF L
<1>4. T = {}
  <2> SUFFICES ASSUME T # {} PROVE FALSE
    OBVIOUS
  <2>1. PICK l \in T : \A y \in T : l <= y
    <3>1. T \subseteq Nat /\ T # {}
      BY <1>2
    <3> HIDE DEF T
    <3> QED
      BY <3>1, LeastNat
  <2>2. l \in 1 .. MaxHeight /\ ~Q(l)
    OBVIOUS
  <2>3. l # 1
    <3>1. Q(1)
      BY <1>1
    <3> HIDE DEF Q
    <3> QED
      BY <2>2, <3>1
  <2>4. l - 1 \in 1 .. MaxHeight /\ l - 1 \in 1 .. MaxHeight - 1 /\ (l - 1) + 1 = l /\ ~(l <= l - 1)
    BY <1>2, <2>2, <2>3
  <2>5. Q(l - 1)
    BY <2>1, <2>4
  <2>6. PICK m \in L[l] : ~((l = 1 /\ m = n) \/ (l = 2 /\ m \in Kids(n)))
    BY <2>2
  <2>7. PICK p \in L[l - 1] : m \in Kids(p)
    <3>1. L[l] = UNION {Kids(p) : p \in L[l - 1]}
      BY <1>1, <2>4
    <3> QED
      BY <2>6, <3>1
  <2>8. (l - 1 = 1 /\ p = n) \/ (l - 1 = 2 /\ p \in Kids(n))
    BY <2>5, <2>7
  <2>9. CASE l - 1 = 1 /\ p = n
    BY <2>4, <2>6, <2>7, <2>9
  <2>10. CASE p \in Kids(n)
    BY <1>3, <2>7, <2>10
  <2> QED
    BY <2>8, <2>9, <2>10
<1> QED
  BY <1>4 DEF L

\* Every node of the tree, sound or not, is in order and in its page.
LEMMA NodesFine ==
  ASSUME IInv
  PROVE  \A n \in AllNodes : FineNode(n)
<1> SUFFICES ASSUME NEW l \in 1 .. MaxHeight, NEW m \in Level(root)[l] PROVE FineNode(m)
  BY DEF AllNodes, Nodes
<1>1. CASE root = NoTree
  BY <1>1, NoLevels
<1>2. ASSUME NEW h \in 0 .. MaxHeight, NEW t \in Trees[h], t.node = root
      PROVE  FineNode(m)
  <2>1. l <= h + 1 /\ \E u \in Trees[(h + 1) - l] : u.node = m
    <3>1. \A i \in 1 .. MaxHeight : \A p \in Level(t.node)[i] :
            i <= h + 1 /\ \E u \in Trees[(h + 1) - i] : u.node = p
      BY LevelsOf
    <3>2. m \in Level(t.node)[l]
      BY <1>2
    <3> QED
      BY <3>1, <3>2, Zenon
  <2>2. (h + 1) - l \in 0 .. MaxHeight
    BY <2>1, TreesStep
  <2> QED
    BY <2>1, <2>2, TreeNode DEF Sane, FineNode
<1>3. CASE root = Node(Leaf, << >>)
  <2>1. root.type = Leaf /\ root.ents = << >> /\ root # NoTree
    BY <1>3 DEF Node, NoTree, Leaf
  <2>2. Kids(root) = {}
    BY <2>1 DEF Kids, Leaf, Inner
  <2>3. m = root
    BY <2>1, <2>2, ShallowLevels
  <2>4. IsEnts(m.ents) /\ Len(m.ents) = 0
    BY <2>1, <2>3, NoEnts
  <2>5. SumBytes(m.ents) = 0
    BY <2>4, SumsStep
  <2>6. NBytes(m) <= PageSize
    BY <2>5, BNodeAssumption DEF NBytes
  <2> QED
    BY <2>1, <2>3, <2>4, <2>6 DEF FineNode, IsFatal, Ascending
<1>4. CASE Shallow(root)
  <2>1. root # NoTree
    BY <1>4 DEF Shallow, NoTree, Node, Inner
  <2>2. \A p \in Kids(root) : p.type = Leaf
    BY <1>4 DEF Shallow
  <2>3. m = root \/ m \in Kids(root)
    BY <2>1, <2>2, ShallowLevels
  <2> QED
    BY <1>4, <2>3 DEF Shallow
<1> QED
  BY <1>1, <1>2, <1>3, <1>4 DEF IInv, RootIs

(* The type invariant: whatever the operations do, no node of the tree is   *)
(* written past its page and none is fatal.                                 *)
THEOREM BTreeTypeOK == Spec => []TypeOK
<1>1. IInv => TypeOK
  <2> SUFFICES ASSUME IInv PROVE TypeOK
    OBVIOUS
  <2> QED
    BY NodesFine DEF TypeOK, FineNode, IInv
<1> QED
  BY <1>1, BTreeInvariant, PTL

(* nodeLookupLE finds the last key up to the one it looks for on every node *)
(* the operations ever build, harmed trees included (btree.go:132-152).     *)
THEOREM BTreeLookupFindsLast == Spec => []LookupFindsLast
<1>1. IInv => LookupFindsLast
  <2> SUFFICES ASSUME IInv, NEW n \in AllNodes, NEW k \in Key
               PROVE  NodeLookupLE(n, k) = LastUpTo(n, k)
    BY DEF LookupFindsLast
  <2>1. IsEnts(n.ents) /\ Ascending(n.ents)
    BY NodesFine DEF FineNode
  <2>2. NKeys(n) \in Nat /\ \A i \in 1 .. NKeys(n) : n.ents[i].k \in Nat
    BY <2>1, EntryFacts DEF NKeys
  <2>3. k \in Nat
    BY LeafEntries
  <2> QED
    BY <2>1, <2>2, <2>3, LookupFinds
<1> QED
  BY <1>1, BTreeInvariant, PTL

(* A lookup finds exactly the last value stored for every key, through      *)
(* every history of insertions and deletions that has done no harm          *)
(* (btree.go:423-446).                                                      *)
THEOREM BTreeHoldsContent == Spec => []HoldsContent
<1>1. IInv => HoldsContent
  <2> SUFFICES ASSUME IInv, fate = "sound", NEW k \in Key PROVE GetVal(root, k) = content[k]
    BY DEF HoldsContent
  <2>1. PICK S : RootIs(S) /\ Tells(content, S)
    BY DEF IInv, Harmed
  <2>2. IF content[k] = Absent THEN \A x \in S : x.k # k ELSE Entry(k, content[k], Nil) \in S
    BY <2>1 DEF Tells
  <2>3. Entry(k, content[k], Nil).k = k /\ Entry(k, content[k], Nil).v = content[k] /\ k \in Nat
    BY LeafEntries DEF Entry
  <2>4. CASE root = NoTree /\ S = {}
    <3>1. GetVal(root, k) = Absent
      BY <2>4 DEF GetVal
    <3> QED
      BY <2>2, <2>4, <3>1
  <2>5. CASE root = Node(Leaf, << >>) /\ S = {}
    <3>1. root.ents = << >> /\ ~HasKids(root)
      BY <2>5 DEF HasKids, Node
    <3>2. Path(root, k)[MaxHeight] = root
      BY <3>1, LeafPath
    <3>3. GetVal(root, k) = Absent
      BY <3>1, <3>2 DEF GetVal
    <3> QED
      BY <2>2, <2>5, <3>3
  <2>6. ASSUME NEW h \in 0 .. MaxHeight, NEW t \in Trees[h], h < MaxHeight, t.node = root, t.holds = S
        PROVE  GetVal(root, k) = content[k]
    <3>1. /\ \A x \in S : x.k = k => GetVal(root, k) = x.v
          /\ (\A x \in S : x.k # k) => GetVal(root, k) = Absent
      BY <2>3, <2>6, GetValFinds
    <3> QED
      BY <2>2, <2>3, <3>1
  <2> QED
    BY <2>1, <2>4, <2>5, <2>6 DEF RootIs
<1> QED
  BY <1>1, BTreeInvariant, PTL

(* The shape of the tree: keys ascend in every node, separators repeat the  *)
(* first keys of the kids, and all leaves are at one level (btree.go:232,   *)
(* 240, 479).                                                               *)
THEOREM BTreeOrdered == Spec => []Ordered
<1>1. IInv => Ordered
  <2> SUFFICES ASSUME IInv, fate = "sound"
               PROVE  /\ \A l \in 1 .. MaxHeight : \A m, n \in Level(root)[l] : m.type = n.type
                      /\ \A n \in AllNodes :
                           /\ \A i \in 1 .. NKeys(n) - 1 : n.ents[i].k < n.ents[i + 1].k
                           /\ n.type = Inner =>
                                \A i \in 1 .. NKeys(n) : n.ents[i].k = FirstKey(n.ents[i].p)
    BY DEF Ordered
  <2>1. PICK S : RootIs(S)
    BY DEF IInv, Harmed
  <2>2. \A n \in AllNodes : \A i \in 1 .. NKeys(n) - 1 : n.ents[i].k < n.ents[i + 1].k
    <3> SUFFICES ASSUME NEW n \in AllNodes, NEW i \in 1 .. NKeys(n) - 1
                 PROVE  n.ents[i].k < n.ents[i + 1].k
      OBVIOUS
    <3>1. IsEnts(n.ents) /\ Ascending(n.ents)
      BY NodesFine DEF FineNode
    <3>2. Len(n.ents) \in Nat /\ NKeys(n) = Len(n.ents)
      BY <3>1, EntryFacts DEF NKeys
    <3>3. i \in 1 .. Len(n.ents) /\ i + 1 \in 1 .. Len(n.ents) /\ i < i + 1
      BY <3>2
    <3> QED
      BY <3>1, <3>3 DEF Ascending
  <2>3. \A n \in AllNodes : \E l \in 1 .. MaxHeight : n \in Level(root)[l]
    BY DEF AllNodes, Nodes
  <2>4. CASE root = NoTree
    BY <2>3, <2>4, NoLevels
  <2>5. CASE root = Node(Leaf, << >>)
    <3>1. root.type = Leaf /\ root # NoTree /\ root.type # Inner
      BY <2>5 DEF Node, NoTree, Leaf, Inner
    <3>2. Kids(root) = {}
      BY <3>1 DEF Kids
    <3>3. \A l \in 1 .. MaxHeight : \A m \in Level(root)[l] : m = root
      BY <3>1, <3>2, ShallowLevels
    <3> QED
      BY <2>2, <2>3, <3>1, <3>3
  <2>6. ASSUME NEW h \in 0 .. MaxHeight, NEW t \in Trees[h], t.node = root
        PROVE  /\ \A l \in 1 .. MaxHeight : \A m, n \in Level(root)[l] : m.type = n.type
               /\ \A n \in AllNodes : n.type = Inner =>
                    \A i \in 1 .. NKeys(n) : n.ents[i].k = FirstKey(n.ents[i].p)
    <3>1. \A l \in 1 .. MaxHeight : \A m \in Level(root)[l] :
            l <= h + 1 /\ \E u \in Trees[(h + 1) - l] : u.node = m
      BY <2>6, LevelsOf
    <3>2. \A l \in 1 .. MaxHeight : l <= h + 1 => (h + 1) - l \in 0 .. MaxHeight
      BY TreesStep
    <3>3. ASSUME NEW l \in 1 .. MaxHeight, NEW m \in Level(root)[l], NEW n \in Level(root)[l]
          PROVE  m.type = n.type
      <4> DEFINE d == (h + 1) - l
      <4>1. d \in 0 .. MaxHeight /\ (\E u \in Trees[d] : u.node = m) /\ (\E u \in Trees[d] : u.node = n)
        BY <3>1, <3>2
      <4> HIDE DEF d
      <4> QED
        BY <4>1, TreeNode
    <3>4. ASSUME NEW n \in AllNodes, n.type = Inner, NEW i \in 1 .. NKeys(n)
          PROVE  n.ents[i].k = FirstKey(n.ents[i].p)
      <4>1. PICK l \in 1 .. MaxHeight : n \in Level(root)[l]
        BY <2>3
      <4> DEFINE d == (h + 1) - l
      <4>2. d \in 0 .. MaxHeight /\ \E u \in Trees[d] : u.node = n
        BY <3>1, <3>2, <4>1
      <4> HIDE DEF d
      <4>3. PICK u \in Trees[d] : u.node = n
        BY <4>2
      <4>4. d # 0
        BY <3>4, <4>2, <4>3, TreeNode DEF Leaf, Inner
      <4>5. PICK q \in Seq(Trees[d - 1]) : n = Over(q)
        BY <4>2, <4>3, <4>4, TreeNode
      <4>6. d - 1 \in 0 .. MaxHeight
        BY <4>2, <4>4, TreesStep
      <4>7. NKeys(Over(q)) = Len(q) /\ \A j \in 1 .. Len(q) : /\ Over(q).ents[j].k = FirstKey(q[j].node)
                                                               /\ Over(q).ents[j].p = q[j].node
        BY <4>6, RowFacts
      <4> QED
        BY <4>5, <4>7
    <3> QED
      BY <3>3, <3>4
  <2> QED
    BY <2>1, <2>2, <2>4, <2>5, <2>6 DEF RootIs
<1> QED
  BY <1>1, BTreeInvariant, PTL

(* A tree that was never reduced to a single leaf, or to nothing, loses no  *)
(* key and meets no index out of bounds, and the assertion of nodeSplit3    *)
(* fails only while an entry of more than half a page is stored             *)
(* (btree.go:205-210, 312, 471-476).                                        *)
THEOREM BTreeSoundUntilSmall == Spec => []SoundUntilSmall
<1>1. IInv => SoundUntilSmall
  <2> SUFFICES ASSUME IInv PROVE SoundUntilSmall
    OBVIOUS
  <2>1. fate \in Fates /\ (~small => fate \notin {"dropped", "bounds"}) /\ (fate = "assert" => HoldsLarge)
    BY DEF IInv
  <2>2. ~small => fate \in {"sound", "overflow", "kidless", "assert"}
    BY <2>1 DEF Fates
  <2> QED
    BY <2>1, <2>2 DEF SoundUntilSmall
<1> QED
  BY <1>1, BTreeInvariant, PTL
=============================================================================
