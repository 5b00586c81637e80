----------------------------- MODULE ScanProofs -----------------------------
(***************************************************************************)
(* What scan_range checks of the iterator on a few keys, proved for trees  *)
(* of any shape and height: it stands on a path of the tree whatever is    *)
(* called on it, and Next and Prev walk the stored keys in order and undo  *)
(* each other.                                                             *)
(*                                                                         *)
(* Next and Prev differ in direction only; what is said of both takes the  *)
(* direction as an argument, back.                                         *)
(***************************************************************************)
EXTENDS Scan, BTreeProofs

-----------------------------------------------------------------------------
(* Next and Prev as functions of the level.                                 *)

\* Is there an entry to move to at level l?
CanMove(it, l, back) == IF back THEN it.pos[l] > 1 ELSE it.pos[l] < NKeys(it.path[l])
Moved(it, l, back) == [it EXCEPT !.pos[l] = IF back THEN @ - 1 ELSE @ + 1]

\* Where a node is entered.
EntryEnd(n, back) == IF back THEN NKeys(n) ELSE 1

\* A call of iterNext or iterPrev for level l, x being what the call for the
\* level above made.
TurnStep(it, back, l, x) ==
  IF CanMove(it, l, back) THEN ReloadKid(Moved(it, l, back), l, back)
  ELSE IF l > 1 THEN ReloadKid(x, l, back)
  ELSE [it EXCEPT !.valid = FALSE]

Turned(it, back) == IF back THEN IterPrev(it) ELSE IterNext(it)

TurnRuns(it, back, f, m) == f = [l \in 1 .. m |-> TurnStep(it, back, l, f[l - 1])]

\* Such functions exist.
LEMMA TurnExists ==
  ASSUME NEW it, NEW back, NEW W \in Nat \ {0}
  PROVE  \E f : TurnRuns(it, back, f, W)
<1> DEFINE T == {m \in 1 .. W : ~(\E f : TurnRuns(it, back, f, m))}
<1>1. T = {}
  <2> SUFFICES ASSUME T # {} PROVE FALSE
    OBVIOUS
  <2>1. PICK m \in T : \A y \in T : m <= y
    <3>1. T \subseteq Nat /\ T # {}
      OBVIOUS
    <3> HIDE DEF T
    <3> QED
      BY <3>1, LeastNat
  <2>2. m \in 1 .. W /\ m \in Nat /\ ~(\E f : TurnRuns(it, back, f, m))
    OBVIOUS
  <2>3. \A x, y : TurnStep(it, back, 1, x) = TurnStep(it, back, 1, y)
    BY DEF TurnStep
  <2>4. m # 1
    <3> SUFFICES ASSUME m = 1 PROVE FALSE
      OBVIOUS
    <3> DEFINE f == [l \in 1 .. m |-> TurnStep(it, back, l, it)]
    <3>1. ASSUME NEW l \in 1 .. m PROVE f[l] = TurnStep(it, back, l, f[l - 1])
      <4>1. l = 1
        OBVIOUS
      <4> QED
        BY <2>3, <4>1
    <3>2. TurnRuns(it, back, f, m)
      BY <3>1 DEF TurnRuns
    <3> QED
      BY <2>2, <3>2
  <2>5. PICK g : TurnRuns(it, back, g, m - 1)
    <3>1. m - 1 \in 1 .. W /\ ~(m <= m - 1)
      BY <2>2, <2>4
    <3>2. m - 1 \notin T
      BY <2>1, <3>1
    <3> QED
      BY <3>1, <3>2
  <2> DEFINE f == [l \in 1 .. m |-> IF l < m THEN g[l] ELSE TurnStep(it, back, m, g[m - 1])]
  <2>6. ASSUME NEW l \in 1 .. m PROVE f[l] = TurnStep(it, back, l, f[l - 1])
    <3>1. l \in Int /\ 1 <= l /\ l <= m
      BY <2>2
    <3>2. l # 1 => f[l - 1] = g[l - 1]
      BY <2>2, <3>1
    <3>3. TurnStep(it, back, l, f[l - 1]) = TurnStep(it, back, l, g[l - 1])
      BY <2>3, <3>2
    <3>4. CASE l < m
      <4>1. l \in 1 .. m - 1 /\ f[l] = g[l]
        BY <2>2, <3>1, <3>4
      <4>2. g[l] = TurnStep(it, back, l, g[l - 1])
        BY <2>5, <4>1 DEF TurnRuns
      <4> QED
        BY <3>3, <4>1, <4>2
    <3>5. CASE ~(l < m)
      <4>1. l = m /\ f[l] = TurnStep(it, back, m, g[m - 1])
        BY <2>2, <3>1, <3>5
      <4> QED
        BY <3>3, <4>1
    <3> QED
      BY <3>4, <3>5
  <2>7. TurnRuns(it, back, f, m)
    BY <2>6 DEF TurnRuns
  <2> QED
    BY <2>2, <2>7
<1>2. W \in 1 .. W
  OBVIOUS
<1> QED
  BY <1>1, <1>2

\* Next and Prev go through the levels from the root on.
LEMMA TurnFollows ==
  ASSUME NEW it, NEW back \in BOOLEAN, Len(it.path) \in Nat \ {0}
  PROVE  \E f : /\ Turned(it, back) = f[Len(it.path)]
                /\ \A l \in 1 .. Len(it.path) : f[l] = TurnStep(it, back, l, f[l - 1])
<1> DEFINE W == Len(it.path)
           IsNext(g) == g = [l \in 1 .. Len(it.path) |->
                              IF it.pos[l] < NKeys(it.path[l])
                              THEN ReloadKid([it EXCEPT !.pos[l] = @ + 1], l, FALSE)
                              ELSE IF l > 1 THEN ReloadKid(g[l - 1], l, FALSE)
                              ELSE [it EXCEPT !.valid = FALSE]]
           IsPrev(g) == g = [l \in 1 .. Len(it.path) |->
                              IF it.pos[l] > 1
                              THEN ReloadKid([it EXCEPT !.pos[l] = @ - 1], l, TRUE)
                              ELSE IF l > 1 THEN ReloadKid(g[l - 1], l, TRUE)
                              ELSE [it EXCEPT !.valid = FALSE]]
           next == CHOOSE g : IsNext(g)
           prev == CHOOSE g : IsPrev(g)
<1>1. IterNext(it) = next[Len(it.path)] /\ IterPrev(it) = prev[Len(it.path)]
  BY DEF IterNext, IterPrev
<1>2. ASSUME NEW l, NEW x
      PROVE  /\ TurnStep(it, FALSE, l, x) =
                  IF it.pos[l] < NKeys(it.path[l])
                  THEN ReloadKid([it EXCEPT !.pos[l] = @ + 1], l, FALSE)
                  ELSE IF l > 1 THEN ReloadKid(x, l, FALSE)
                  ELSE [it EXCEPT !.valid = FALSE]
             /\ TurnStep(it, TRUE, l, x) =
                  IF it.pos[l] > 1
                  THEN ReloadKid([it EXCEPT !.pos[l] = @ - 1], l, TRUE)
                  ELSE IF l > 1 THEN ReloadKid(x, l, TRUE)
                  ELSE [it EXCEPT !.valid = FALSE]
  BY DEF TurnStep, CanMove, Moved
<1>3. \E g : IsNext(g)
  <2>1. PICK g : TurnRuns(it, FALSE, g, W)
    BY TurnExists
  <2>2. ASSUME NEW l \in 1 .. Len(it.path)
        PROVE  g[l] = IF it.pos[l] < NKeys(it.path[l])
                       THEN ReloadKid([it EXCEPT !.pos[l] = @ + 1], l, FALSE)
                       ELSE IF l > 1 THEN ReloadKid(g[l - 1], l, FALSE)
                       ELSE [it EXCEPT !.valid = FALSE]
    <3>1. g[l] = TurnStep(it, FALSE, l, g[l - 1])
      BY <2>1 DEF TurnRuns
    <3> QED
      BY <1>2, <3>1
  <2>3. g = [l \in 1 .. Len(it.path) |-> g[l]]
    BY <2>1 DEF TurnRuns
  <2>4. IsNext(g)
    BY <2>2, <2>3
  <2> HIDE DEF IsNext
  <2> QED
    BY <2>4
<1>4. \E g : IsPrev(g)
  <2>1. PICK g : TurnRuns(it, TRUE, g, W)
    BY TurnExists
  <2>2. ASSUME NEW l \in 1 .. Len(it.path)
        PROVE  g[l] = IF it.pos[l] > 1
                       THEN ReloadKid([it EXCEPT !.pos[l] = @ - 1], l, TRUE)
                       ELSE IF l > 1 THEN ReloadKid(g[l - 1], l, TRUE)
                       ELSE [it EXCEPT !.valid = FALSE]
    <3>1. g[l] = TurnStep(it, TRUE, l, g[l - 1])
      BY <2>1 DEF TurnRuns
    <3> QED
      BY <1>2, <3>1
  <2>3. g = [l \in 1 .. Len(it.path) |-> g[l]]
    BY <2>1 DEF TurnRuns
  <2>4. IsPrev(g)
    BY <2>2, <2>3
  <2> HIDE DEF IsPrev
  <2> QED
    BY <2>4
<1>5. IsNext(next) /\ IsPrev(prev)
  <2> HIDE DEF IsNext, IsPrev
  <2> QED
    BY <1>3, <1>4
<1> HIDE DEF next, prev
<1>6. ASSUME NEW l \in 1 .. Len(it.path)
      PROVE  next[l] = TurnStep(it, FALSE, l, next[l - 1]) /\ prev[l] = TurnStep(it, TRUE, l, prev[l - 1])
  BY <1>2, <1>5
<1>7. CASE back
  BY <1>1, <1>6, <1>7 DEF Turned
<1>8. CASE ~back
  BY <1>1, <1>6, <1>8 DEF Turned
<1> QED
  BY <1>7, <1>8

-----------------------------------------------------------------------------
(* Positions in a tree.                                                     *)

TreeNodes == {t.node : t \in UNION {Trees[h] : h \in 0 .. MaxHeight}}

\* Iterators with paths of L nodes.
Iters(L) == [path : [1 .. L -> TreeNodes], pos : [1 .. L -> Nat], valid : BOOLEAN]

\* As far as level m, the iterator is on a path of tree t, of height h.
Good(t, h, it, m) ==
  /\ it \in Iters(h + 1)
  /\ it.path[1] = t.node
  /\ \A l \in 1 .. m : /\ \E u \in Trees[(h + 1) - l] : u.node = it.path[l]
                       /\ it.pos[l] \in 1 .. NKeys(it.path[l])
  /\ \A l \in 2 .. m : it.path[l] = it.path[l - 1].ents[it.pos[l - 1]].p

\* Nodes of trees have entries.
LEMMA NodeFacts ==
  ASSUME NEW h \in 0 .. MaxHeight, NEW t \in Trees[h]
  PROVE  /\ t.node \in TreeNodes /\ NKeys(t.node) \in Nat \ {0}
         /\ NKeys(t.node) = Len(t.node.ents)
         /\ IsEnts(t.node.ents) /\ Ascending(t.node.ents) /\ t.node.ents # << >>
         /\ \A i \in 1 .. NKeys(t.node) : t.node.ents[i].k \in Nat
<1>1. Sane(t, h) /\ t.node.ents # << >>
  BY TreeNode
<1>2. IsEnts(t.node.ents) /\ Ascending(t.node.ents)
  BY <1>1 DEF Sane
<1>3. Len(t.node.ents) \in Nat /\ \A i \in 1 .. Len(t.node.ents) : t.node.ents[i].k \in Nat
  BY <1>2, EntryFacts
<1>4. Len(t.node.ents) # 0
  <2>1. PICK S : t.node.ents \in Seq(S)
    BY <1>2 DEF IsEnts
  <2> QED
    BY <1>1, <2>1, EmptySeq
<1>5. t.node \in TreeNodes
  BY DEF TreeNodes
<1> QED
  BY <1>1, <1>2, <1>3, <1>4, <1>5 DEF NKeys

\* The kids of a tree: the entry of each has its first key, and what the others
\* hold comes before or after, on its side of the next entry's key.
LEMMA KidFacts ==
  ASSUME NEW h \in 1 .. MaxHeight, NEW t \in Trees[h], NEW i \in 1 .. NKeys(t.node)
  PROVE  \E u \in Trees[h - 1] :
           /\ u.node = t.node.ents[i].p /\ u.holds \subseteq t.holds
           /\ FirstKey(u.node) = t.node.ents[i].k
           /\ i < NKeys(t.node) => \A y \in u.holds : y.k < t.node.ents[i + 1].k
           /\ \A x \in t.holds : \/ x \in u.holds
                                 \/ \A y \in u.holds : x.k < y.k
                                 \/ i < NKeys(t.node) /\ t.node.ents[i + 1].k <= x.k
<1>1. h \in 0 .. MaxHeight /\ h - 1 \in 0 .. MaxHeight /\ h # 0
  BY TreesStep
<1>2. PICK q \in Seq(Trees[h - 1]) : IsTreeSeq(q) /\ t.node = Over(q) /\ t.holds = HoldsOf(q)
  BY <1>1, TreeNode
<1>3. /\ Len(q) \in Nat /\ NKeys(t.node) = Len(q)
      /\ \A j \in 1 .. Len(q) : /\ q[j] \in Trees[h - 1] /\ Sane(q[j], h - 1)
                                /\ t.node.ents[j].k = FirstKey(q[j].node)
                                /\ t.node.ents[j].p = q[j].node
  BY <1>1, <1>2, RowFacts
<1>4. \A j, k \in 1 .. Len(q) : j < k => \A x \in q[j].holds, y \in q[k].holds : x.k < y.k
  BY <1>2 DEF IsTreeSeq, Sorted, Precedes
<1>5. \A j \in 1 .. Len(q) : /\ FirstKey(q[j].node) \in Nat
                             /\ \E x \in q[j].holds : x.k = FirstKey(q[j].node)
                             /\ \A x \in q[j].holds : x.k \in Nat /\ FirstKey(q[j].node) <= x.k
  BY <1>3, LeafEntries DEF Sane
<1> DEFINE u == q[i]
<1>6. u \in Trees[h - 1] /\ u.node = t.node.ents[i].p /\ FirstKey(u.node) = t.node.ents[i].k
  BY <1>3
<1>7. u.holds \subseteq t.holds
  BY <1>2, <1>3, HoldsOfFacts
<1>8. ASSUME i < NKeys(t.node), NEW y \in u.holds PROVE y.k < t.node.ents[i + 1].k
  <2>1. i + 1 \in 1 .. Len(q) /\ i < i + 1 /\ i \in 1 .. Len(q)
    BY <1>3, <1>8
  <2>2. PICK x \in q[i + 1].holds : x.k = FirstKey(q[i + 1].node)
    BY <1>5, <2>1
  <2> QED
    BY <1>3, <1>4, <2>1, <2>2
<1>9. ASSUME NEW x \in t.holds
      PROVE  \/ x \in u.holds
             \/ \A y \in u.holds : x.k < y.k
             \/ i < NKeys(t.node) /\ t.node.ents[i + 1].k <= x.k
  <2>1. PICK j \in 1 .. Len(q) : x \in q[j].holds
    BY <1>2, HoldsOfFacts
  <2>2. i \in 1 .. Len(q)
    BY <1>3
  <2>3. CASE j = i
    BY <2>1, <2>3
  <2>4. CASE j < i
    BY <1>4, <2>1, <2>2, <2>4
  <2>5. CASE i < j
    <3>1. i < NKeys(t.node) /\ i + 1 \in 1 .. Len(q)
      BY <1>3, <2>1, <2>2, <2>5
    <3>2. t.node.ents[i + 1].k = FirstKey(q[i + 1].node) /\ FirstKey(q[i + 1].node) \in Nat
      BY <1>3, <1>5, <3>1
    <3>3. x.k \in Nat
      BY <1>5, <2>1
    <3>4. CASE i + 1 = j
      BY <1>5, <2>1, <3>1, <3>2, <3>4
    <3>5. CASE i + 1 # j
      <4>1. i + 1 < j
        BY <2>1, <2>2, <2>5, <3>5
      <4>2. PICK y \in q[i + 1].holds : y.k = FirstKey(q[i + 1].node)
        BY <1>5, <3>1
      <4>3. y.k < x.k
        BY <1>4, <2>1, <3>1, <4>1, <4>2
      <4> QED
        BY <3>1, <3>2, <3>3, <4>2, <4>3
    <3> QED
      BY <3>4, <3>5
  <2> QED
    BY <2>1, <2>2, <2>3, <2>4, <2>5
<1> QED
  BY <1>6, <1>7, <1>8, <1>9

\* What ReloadKid changes.
LEMMA ReloadFacts ==
  ASSUME NEW L \in Nat \ {0}, NEW it \in Iters(L), NEW l \in 1 .. L, NEW back \in BOOLEAN,
         l < L => /\ it.path[l].ents[it.pos[l]].p \in TreeNodes
                  /\ NKeys(it.path[l].ents[it.pos[l]].p) \in Nat
  PROVE  LET new == ReloadKid(it, l, back)
             kid == it.path[l].ents[it.pos[l]].p
         IN  /\ new \in Iters(L) /\ new.valid = it.valid
             /\ \A j \in 1 .. L : j # l + 1 => new.path[j] = it.path[j] /\ new.pos[j] = it.pos[j]
             /\ l < L => new.path[l + 1] = kid /\ new.pos[l + 1] = EntryEnd(kid, back)
<1> DEFINE new == ReloadKid(it, l, back)
           kid == it.path[l].ents[it.pos[l]].p
           e == EntryEnd(kid, back)
<1>1. it.path \in [1 .. L -> TreeNodes] /\ it.pos \in [1 .. L -> Nat] /\ it.valid \in BOOLEAN
  BY DEF Iters
<1>2. Len(it.path) = L
  BY <1>1, FunctionSeq
<1>3. CASE l = L
  <2>1. new = it
    BY <1>2, <1>3 DEF ReloadKid
  <2> QED
    BY <1>3, <2>1
<1>4. CASE l # L
  <2>1. l < L /\ l + 1 \in 1 .. L
    BY <1>4
  <2>2. new = [it EXCEPT !.path[l + 1] = kid, !.pos[l + 1] = e]
    BY <1>2, <1>4 DEF ReloadKid, EntryEnd
  <2>3. kid \in TreeNodes /\ e \in Nat
    BY <2>1 DEF EntryEnd
  <2> HIDE DEF kid, e, new
  <2>4. /\ new.path = [it.path EXCEPT ![l + 1] = kid]
        /\ new.pos = [it.pos EXCEPT ![l + 1] = e]
        /\ new.valid = it.valid
        /\ new \in [path : [1 .. L -> TreeNodes], pos : [1 .. L -> Nat], valid : BOOLEAN]
    BY <1>1, <2>1, <2>2, <2>3 DEF Iters
  <2> QED
    BY <1>1, <2>1, <2>4 DEF Iters, kid, e, new
<1> QED
  BY <1>3, <1>4

\* There is a kid below, unless the level is the last.
LEMMA GoodKid ==
  ASSUME NEW h \in 0 .. MaxHeight, NEW t \in Trees[h], NEW it, NEW l \in 1 .. h + 1,
         Good(t, h, it, l), l < h + 1
  PROVE  LET kid == it.path[l].ents[it.pos[l]].p IN
         /\ \E w \in Trees[(h + 1) - (l + 1)] : w.node = kid
         /\ kid \in TreeNodes /\ NKeys(kid) \in Nat \ {0}
<1> DEFINE L == h + 1
           kid == it.path[l].ents[it.pos[l]].p
<1>1. h \in Nat /\ h <= MaxHeight /\ MaxHeight \in Nat /\ l \in Nat /\ 1 <= l
  BY TreesStep
<1>2. \A j \in 1 .. l : /\ \E u \in Trees[L - j] : u.node = it.path[j]
                        /\ it.pos[j] \in 1 .. NKeys(it.path[j])
  BY DEF Good
<1>3. l \in 1 .. l /\ L - l \in 1 .. MaxHeight /\ (L - l) - 1 = L - (l + 1) /\ L - (l + 1) \in 0 .. MaxHeight
  BY <1>1
<1>4. PICK u \in Trees[L - l] : u.node = it.path[l]
  BY <1>2, <1>3
<1>5. it.pos[l] \in 1 .. NKeys(u.node)
  BY <1>2, <1>3, <1>4
<1>6. PICK w \in Trees[(L - l) - 1] : w.node = u.node.ents[it.pos[l]].p
  BY <1>3, <1>4, <1>5, KidFacts
<1>7. w \in Trees[L - (l + 1)] /\ w.node = kid
  BY <1>3, <1>4, <1>6
<1>8. w.node \in TreeNodes /\ NKeys(w.node) \in Nat \ {0}
  BY <1>3, <1>7, NodeFacts
<1> QED
  BY <1>7, <1>8

\* ReloadKid takes the path one level further.
LEMMA ReloadKeeps ==
  ASSUME NEW h \in 0 .. MaxHeight, NEW t \in Trees[h], NEW it, NEW l \in 1 .. h + 1,
         Good(t, h, it, l), NEW back \in BOOLEAN
  PROVE  \A m \in 1 .. h + 1 : m <= l + 1 => Good(t, h, ReloadKid(it, l, back), m)
<1> DEFINE L == h + 1
           new == ReloadKid(it, l, back)
           kid == it.path[l].ents[it.pos[l]].p
<1>1. h \in Nat /\ h <= MaxHeight /\ MaxHeight \in Nat /\ L \in Nat \ {0} /\ l \in Nat /\ 1 <= l /\ l <= L
  BY TreesStep
<1>2. /\ it \in Iters(L) /\ it.path[1] = t.node
      /\ \A j \in 1 .. l : /\ \E u \in Trees[L - j] : u.node = it.path[j]
                           /\ it.pos[j] \in 1 .. NKeys(it.path[j])
      /\ \A j \in 2 .. l : it.path[j] = it.path[j - 1].ents[it.pos[j - 1]].p
  BY DEF Good
<1>3. ASSUME l < L
      PROVE  /\ \E w \in Trees[L - (l + 1)] : w.node = kid
             /\ kid \in TreeNodes /\ NKeys(kid) \in Nat \ {0}
  BY <1>3, GoodKid
<1>4. /\ new \in Iters(L)
      /\ \A j \in 1 .. L : j # l + 1 => new.path[j] = it.path[j] /\ new.pos[j] = it.pos[j]
      /\ l < L => new.path[l + 1] = kid /\ new.pos[l + 1] = EntryEnd(kid, back)
  <2>1. l < L => kid \in TreeNodes /\ NKeys(kid) \in Nat
    BY <1>3
  <2>2. l < L => /\ it.path[l].ents[it.pos[l]].p \in TreeNodes
                 /\ NKeys(it.path[l].ents[it.pos[l]].p) \in Nat
    BY <2>1
  <2> HIDE DEF L
  <2> QED
    BY <1>1, <1>2, <2>2, ReloadFacts, SMTT(40)
<1> HIDE DEF new, kid
<1>5. ASSUME NEW m \in 1 .. L, m <= l + 1 PROVE Good(t, h, new, m)
  <2>1. new.path[1] = t.node
    BY <1>1, <1>2, <1>4
  <2>2. ASSUME NEW j \in 1 .. m
        PROVE  (\E u \in Trees[L - j] : u.node = new.path[j]) /\ new.pos[j] \in 1 .. NKeys(new.path[j])
    <3>1. CASE j <= l
      <4>1. j \in 1 .. l /\ j \in 1 .. L /\ j # l + 1
        BY <1>1, <3>1
      <4> QED
        BY <1>2, <1>4, <4>1
    <3>2. CASE ~(j <= l)
      <4>1. j = l + 1 /\ l < L
        BY <1>1, <1>5, <3>2
      <4>2. EntryEnd(kid, back) \in 1 .. NKeys(kid)
        BY <1>3, <4>1 DEF EntryEnd
      <4> QED
        BY <1>3, <1>4, <4>1, <4>2
    <3> QED
      BY <3>1, <3>2
  <2>3. ASSUME NEW j \in 2 .. m PROVE new.path[j] = new.path[j - 1].ents[new.pos[j - 1]].p
    <3>1. j - 1 \in 1 .. L /\ j - 1 # l + 1 /\ j \in 1 .. L
      BY <1>1, <1>5
    <3>2. new.path[j - 1] = it.path[j - 1] /\ new.pos[j - 1] = it.pos[j - 1]
      BY <1>4, <3>1
    <3>3. CASE j <= l
      <4>1. j \in 2 .. l /\ j # l + 1
        BY <1>1, <3>3
      <4> QED
        BY <1>2, <1>4, <3>1, <3>2, <4>1
    <3>4. CASE ~(j <= l)
      <4>1. j = l + 1 /\ l < L /\ j - 1 = l
        BY <1>1, <1>5, <3>4
      <4> QED
        BY <1>4, <3>2, <4>1 DEF kid
    <3> QED
      BY <3>3, <3>4
  <2> QED
    BY <1>4, <2>1, <2>2, <2>3 DEF Good
<1> QED
  BY <1>5 DEF new

\* A move within a node.
LEMMA MovedFacts ==
  ASSUME NEW L \in Nat \ {0}, NEW it \in Iters(L), NEW l \in 1 .. L, NEW back \in BOOLEAN,
         it.pos[l] \in 1 .. NKeys(it.path[l]), NKeys(it.path[l]) \in Nat, CanMove(it, l, back)
  PROVE  LET new == Moved(it, l, back) IN
         /\ new \in Iters(L) /\ new.path = it.path /\ new.valid = it.valid
         /\ \A j \in 1 .. L : j # l => new.pos[j] = it.pos[j]
         /\ new.pos[l] = IF back THEN it.pos[l] - 1 ELSE it.pos[l] + 1
         /\ new.pos[l] \in 1 .. NKeys(it.path[l])
<1> DEFINE new == Moved(it, l, back)
           p == IF back THEN it.pos[l] - 1 ELSE it.pos[l] + 1
<1>1. it.path \in [1 .. L -> TreeNodes] /\ it.pos \in [1 .. L -> Nat] /\ it.valid \in BOOLEAN
  BY DEF Iters
<1>2. p \in 1 .. NKeys(it.path[l]) /\ p \in Nat
  BY DEF CanMove
<1>3. new = [it EXCEPT !.pos[l] = p]
  BY DEF Moved
<1> HIDE DEF new, p
<1>4. /\ new.path = it.path /\ new.pos = [it.pos EXCEPT ![l] = p] /\ new.valid = it.valid
      /\ new \in [path : [1 .. L -> TreeNodes], pos : [1 .. L -> Nat], valid : BOOLEAN]
  BY <1>1, <1>2, <1>3 DEF Iters
<1> QED
  BY <1>1, <1>2, <1>4 DEF Iters, new, p

\* Only the mark changes.
LEMMA ValidFacts ==
  ASSUME NEW L, NEW it \in Iters(L), NEW b \in BOOLEAN
  PROVE  LET new == [it EXCEPT !.valid = b] IN
         new \in Iters(L) /\ new.path = it.path /\ new.pos = it.pos /\ new.valid = b
  BY DEF Iters

\* A move within a node keeps the path down to it.
LEMMA MovedGood ==
  ASSUME NEW h \in 0 .. MaxHeight, NEW t \in Trees[h], NEW it, Good(t, h, it, h + 1),
         NEW l \in 1 .. h + 1, NEW back \in BOOLEAN, CanMove(it, l, back)
  PROVE  LET x == Moved(it, l, back) IN
         /\ Good(t, h, x, l) /\ x \in Iters(h + 1) /\ x.path = it.path /\ x.valid = it.valid
         /\ \A j \in 1 .. h + 1 : j # l => x.pos[j] = it.pos[j]
         /\ x.pos[l] = IF back THEN it.pos[l] - 1 ELSE it.pos[l] + 1
<1> DEFINE L == h + 1
           x == Moved(it, l, back)
<1>1. h \in Nat /\ h <= MaxHeight /\ MaxHeight \in Nat /\ L \in Nat \ {0}
  BY TreesStep
<1>2. /\ it \in Iters(L) /\ it.path[1] = t.node
      /\ \A j \in 1 .. L : /\ \E u \in Trees[L - j] : u.node = it.path[j]
                           /\ it.pos[j] \in 1 .. NKeys(it.path[j])
      /\ \A j \in 2 .. L : it.path[j] = it.path[j - 1].ents[it.pos[j - 1]].p
  BY DEF Good
<1>3. NKeys(it.path[l]) \in Nat
  <2>1. L - l \in 0 .. MaxHeight
    BY <1>1
  <2> QED
    BY <1>2, <2>1, NodeFacts
<1>4. /\ x \in Iters(L) /\ x.path = it.path /\ x.valid = it.valid
      /\ \A j \in 1 .. L : j # l => x.pos[j] = it.pos[j]
      /\ x.pos[l] = IF back THEN it.pos[l] - 1 ELSE it.pos[l] + 1
      /\ x.pos[l] \in 1 .. NKeys(it.path[l])
  BY <1>1, <1>2, <1>3, MovedFacts, SMTT(30)
<1> HIDE DEF x
<1>5. ASSUME NEW j \in 1 .. l
      PROVE  (\E u \in Trees[L - j] : u.node = x.path[j]) /\ x.pos[j] \in 1 .. NKeys(x.path[j])
  <2>1. j \in 1 .. L
    BY <1>1
  <2> QED
    BY <1>2, <1>4, <2>1
<1>6. ASSUME NEW j \in 2 .. l PROVE x.path[j] = x.path[j - 1].ents[x.pos[j - 1]].p
  <2>1. j \in 2 .. L /\ j - 1 \in 1 .. L /\ j - 1 # l
    BY <1>1
  <2> QED
    BY <1>2, <1>4, <2>1
<1>7. Good(t, h, x, l)
  BY <1>2, <1>4, <1>5, <1>6 DEF Good
<1> QED
  BY <1>4, <1>7 DEF x

\* Next and Prev are on a path as far as they have come.
LEMMA TurnGood ==
  ASSUME NEW h \in 0 .. MaxHeight, NEW t \in Trees[h], NEW it, Good(t, h, it, h + 1),
         NEW back \in BOOLEAN,
         NEW f, \A l \in 1 .. h + 1 : f[l] = TurnStep(it, back, l, f[l - 1])
  PROVE  \A l, m \in 1 .. h + 1 : m <= l + 1 => Good(t, h, f[l], m)
<1> DEFINE L == h + 1
<1>1. h \in Nat /\ h <= MaxHeight /\ MaxHeight \in Nat /\ L \in Nat \ {0}
  BY TreesStep
<1>2. /\ it \in Iters(L) /\ it.path[1] = t.node
      /\ \A j \in 1 .. L : /\ \E u \in Trees[L - j] : u.node = it.path[j]
                           /\ it.pos[j] \in 1 .. NKeys(it.path[j])
      /\ \A j \in 2 .. L : it.path[j] = it.path[j - 1].ents[it.pos[j - 1]].p
  BY DEF Good
<1>4. \A l \in 1 .. L : f[l] = TurnStep(it, back, l, f[l - 1])
  OBVIOUS
<1> DEFINE Fine(l) == \A m \in 1 .. L : m <= l + 1 => Good(t, h, f[l], m)
           T == {l \in 1 .. L : ~Fine(l)}
<1>5. ASSUME NEW l \in 1 .. L, CanMove(it, l, back) PROVE Fine(l)
  <2>1. f[l] = ReloadKid(Moved(it, l, back), l, back)
    BY <1>4, <1>5 DEF TurnStep
  <2> DEFINE x == Moved(it, l, back)
  <2>4. Good(t, h, x, l)
    BY <1>5, MovedGood
  <2>5. \A m \in 1 .. h + 1 : m <= l + 1 => Good(t, h, ReloadKid(x, l, back), m)
    BY <2>4, ReloadKeeps
  <2> QED
    BY <2>1, <2>5 DEF x
<1>6. ASSUME NEW l \in 1 .. L, ~CanMove(it, l, back), l > 1, Fine(l - 1) PROVE Fine(l)
  <2>1. f[l] = ReloadKid(f[l - 1], l, back)
    BY <1>4, <1>6 DEF TurnStep
  <2>2. Good(t, h, f[l - 1], l)
    <3>1. l <= (l - 1) + 1
      BY <1>1
    <3> QED
      BY <1>6, <3>1
  <2>3. \A m \in 1 .. h + 1 : m <= l + 1 => Good(t, h, ReloadKid(f[l - 1], l, back), m)
    BY <2>2, ReloadKeeps
  <2> QED
    BY <2>1, <2>3
<1>7. ASSUME ~CanMove(it, 1, back) PROVE Fine(1)
  <2>1. 1 \in 1 .. L
    BY <1>1
  <2>2. f[1] = [it EXCEPT !.valid = FALSE]
    <3>1. f[1] = TurnStep(it, back, 1, f[1 - 1])
      BY <1>4, <2>1
    <3>2. ~(1 > 1)
      OBVIOUS
    <3> QED
      BY <1>7, <3>1, <3>2, Zenon DEF TurnStep
  <2>3. f[1] \in Iters(L) /\ f[1].path = it.path /\ f[1].pos = it.pos
    <3> DEFINE x == [it EXCEPT !.valid = FALSE]
    <3>1. x \in Iters(L) /\ x.path = it.path /\ x.pos = it.pos
      BY <1>2, ValidFacts
    <3> HIDE DEF x
    <3> QED
      BY <2>2, <3>1 DEF x
  <2>4. ASSUME NEW m \in 1 .. L PROVE Good(t, h, f[1], m)
    <3>1. 1 .. m \subseteq 1 .. L /\ 2 .. m \subseteq 2 .. L
      BY <1>1
    <3> QED
      BY <1>2, <2>3, <3>1 DEF Good
  <2> QED
    BY <2>4
<1> HIDE DEF Fine
<1>8. T = {}
  <2> SUFFICES ASSUME T # {} PROVE FALSE
    OBVIOUS
  <2>1. PICK l \in T : \A y \in T : l <= y
    <3>1. T \subseteq Nat /\ T # {}
      BY <1>1
    <3> HIDE DEF T
    <3> QED
      BY <3>1, LeastNat
  <2>2. l \in 1 .. L /\ ~Fine(l)
    OBVIOUS
  <2>3. l # 1
    BY <1>5, <1>7, <2>2
  <2>4. l - 1 \in 1 .. L /\ ~(l <= l - 1) /\ l > 1
    BY <1>1, <2>2, <2>3
  <2>5. Fine(l - 1)
    BY <2>1, <2>4
  <2> QED
    BY <1>5, <1>6, <2>2, <2>4, <2>5
<1> QED
  BY <1>8 DEF Fine

\* An iterator on a path of h + 1 nodes.
LEMMA PathLen ==
  ASSUME NEW h \in 0 .. MaxHeight, NEW it \in Iters(h + 1)
  PROVE  Len(it.path) = h + 1 /\ Len(it.path) \in Nat \ {0} /\ DOMAIN it.path = 1 .. h + 1
<1>1. it.path \in [1 .. h + 1 -> TreeNodes]
  BY DEF Iters
<1>2. h + 1 \in Nat \ {0}
  BY TreesStep
<1> QED
  BY <1>1, <1>2, FunctionSeq

\* Next and Prev stay on a path, wherever they start.
LEMMA TurnKeeps ==
  ASSUME NEW h \in 0 .. MaxHeight, NEW t \in Trees[h], NEW it, Good(t, h, it, h + 1),
         NEW back \in BOOLEAN
  PROVE  Good(t, h, Turned(it, back), h + 1)
<1>1. h + 1 \in 1 .. h + 1 /\ h + 1 <= (h + 1) + 1
  BY TreesStep
<1>2. it \in Iters(h + 1)
  BY DEF Good
<1>3. PICK f : /\ Turned(it, back) = f[h + 1]
               /\ \A l \in 1 .. h + 1 : f[l] = TurnStep(it, back, l, f[l - 1])
  <2>1. Len(it.path) = h + 1 /\ Len(it.path) \in Nat \ {0}
    BY <1>2, PathLen
  <2>2. \E f : /\ Turned(it, back) = f[Len(it.path)]
               /\ \A l \in 1 .. Len(it.path) : f[l] = TurnStep(it, back, l, f[l - 1])
    BY <2>1, TurnFollows, SMTT(30)
  <2> QED
    BY <2>1, <2>2
<1>4. \A l, m \in 1 .. h + 1 : m <= l + 1 => Good(t, h, f[l], m)
  BY <1>3, TurnGood
<1> QED
  BY <1>1, <1>3, <1>4

\* Iterators on a tree without root have no path, and Next leaves it so.
LEMMA NoPath ==
  /\ NoScan \in Iters(0)
  /\ \A it \in Iters(0) : it.path = << >> /\ DOMAIN it.path = {} /\ IterateNext(it) \in Iters(0)
<1>1. << >> \in [1 .. 0 -> TreeNodes] /\ << >> \in [1 .. 0 -> Nat]
  <2>1. \A S : << >> \in Seq(S) /\ Len(<< >>) = 0
    BY EmptySeq
  <2> QED
    BY <2>1, LenProperties
<1>2. NoScan \in Iters(0)
  BY <1>1 DEF NoScan, Iters
<1>3. ASSUME NEW it \in Iters(0)
      PROVE  it.path = << >> /\ DOMAIN it.path = {} /\ IterateNext(it) \in Iters(0)
  <2>1. it.path \in [1 .. 0 -> TreeNodes]
    BY DEF Iters
  <2>2. DOMAIN it.path = {}
    BY <2>1
  <2>3. it.path = << >>
    BY <2>1, FunctionSeq, EmptySeq
  <2>4. LastNode(it) /\ StartNode(it)
    BY <2>2 DEF LastNode, StartNode
  <2>5. [it EXCEPT !.valid = FALSE] \in Iters(0) /\ [it EXCEPT !.valid = TRUE] \in Iters(0)
    BY ValidFacts
  <2> QED
    BY <2>2, <2>3, <2>4, <2>5 DEF IterateNext
<1> QED
  BY <1>2, <1>3

\* BIter.Next and BIter.Prev stay on a path.
LEMMA IterateKeeps ==
  ASSUME NEW h \in 0 .. MaxHeight, NEW t \in Trees[h], NEW it, Good(t, h, it, h + 1)
  PROVE  Good(t, h, IterateNext(it), h + 1) /\ Good(t, h, IteratePrev(it), h + 1)
<1>1. ASSUME NEW b \in BOOLEAN PROVE Good(t, h, [it EXCEPT !.valid = b], h + 1)
  <2> DEFINE x == [it EXCEPT !.valid = b]
  <2>1. x \in Iters(h + 1) /\ x.path = it.path /\ x.pos = it.pos
    <3>1. it \in Iters(h + 1)
      BY DEF Good
    <3> QED
      BY <3>1, ValidFacts
  <2> HIDE DEF x
  <2>2. Good(t, h, x, h + 1)
    BY <2>1 DEF Good
  <2> QED
    BY <2>2 DEF x
<1>2. Good(t, h, IterNext(it), h + 1)
  <2>1. Turned(it, FALSE) = IterNext(it)
    BY DEF Turned
  <2> QED
    BY <2>1, TurnKeeps
<1>3. Good(t, h, IterPrev(it), h + 1)
  <2>1. Turned(it, TRUE) = IterPrev(it)
    BY DEF Turned
  <2> QED
    BY <2>1, TurnKeeps
<1> QED
  BY <1>1, <1>2, <1>3 DEF IterateNext, IteratePrev

\* SeekLE stands on the path of the key.
LEMMA Seeks ==
  ASSUME NEW h \in 0 .. MaxHeight, h < MaxHeight, NEW t \in Trees[h], NEW key \in Nat
  PROVE  LET it == SeekLE(t.node, key) IN
         /\ Good(t, h, it, h + 1) /\ it.valid = TRUE
         /\ \A l \in 1 .. h + 1 : /\ it.path[l] = Path(t.node, key)[l]
                                  /\ it.pos[l] = NodeLookupLE(it.path[l], key)
<1> DEFINE L == h + 1
           way == Path(t.node, key)
           it == SeekLE(t.node, key)
           IsLeafLevel(l) == ~HasKids(way[l]) /\ \A j \in 1 .. l - 1 : HasKids(way[j])
           leafLevel == CHOOSE l \in 1 .. MaxHeight : IsLeafLevel(l)
<1>1. h \in Nat /\ MaxHeight \in Nat /\ L \in Nat \ {0} /\ L <= MaxHeight /\ L \in 1 .. MaxHeight
  BY TreesStep
<1>2. ASSUME NEW l \in 1 .. L PROVE \E u \in Trees[L - l] : u.node = way[l]
  <2>1. l \in 1 .. MaxHeight /\ (IF l <= h THEN L - l ELSE 0) = L - l
    BY <1>1
  <2>2. PICK u : OnWay(t, h, key, l, u)
    BY <2>1, Ways
  <2> QED
    BY <2>1, <2>2 DEF OnWay
<1>3. ASSUME NEW l \in 1 .. L
      PROVE  /\ HasKids(way[l]) <=> l # L
             /\ way[l] \in TreeNodes /\ NodeLookupLE(way[l], key) \in 1 .. NKeys(way[l])
  <2>1. PICK u \in Trees[L - l] : u.node = way[l]
    BY <1>2
  <2>2. L - l \in 0 .. MaxHeight /\ (L - l = 0 <=> l = L)
    BY <1>1
  <2>3. HasKids(way[l]) <=> l # L
    BY <2>1, <2>2, TreeNode
  <2>4. IsEnts(way[l].ents) /\ Ascending(way[l].ents) /\ way[l].ents # << >> /\ way[l] \in TreeNodes
    BY <2>1, <2>2, NodeFacts
  <2> QED
    BY <2>3, <2>4, LookupIs
<1> HIDE DEF way
<1>4. leafLevel = L
  <2>1. IsLeafLevel(L)
    <3>1. L \in 1 .. L /\ \A j \in 1 .. L - 1 : j \in 1 .. L /\ j # L
      BY <1>1
    <3> QED
      BY <1>3, <3>1
  <2>2. ASSUME NEW l \in 1 .. MaxHeight, IsLeafLevel(l) PROVE l = L
    <3>1. CASE l < L
      <4>1. l \in 1 .. L /\ l # L
        BY <1>1, <3>1
      <4> QED
        BY <1>3, <2>2, <4>1
    <3>2. CASE l > L
      <4>1. L \in 1 .. l - 1 /\ L \in 1 .. L
        BY <1>1, <3>2
      <4> QED
        BY <1>3, <2>2, <4>1
    <3> QED
      BY <1>1, <3>1, <3>2
  <2> HIDE DEF IsLeafLevel
  <2>3. IsLeafLevel(leafLevel) /\ leafLevel \in 1 .. MaxHeight
    BY <1>1, <2>1
  <2> HIDE DEF leafLevel
  <2> QED
    BY <2>2, <2>3
<1>5. it = [path |-> [l \in 1 .. L |-> way[l]], pos |-> [l \in 1 .. L |-> NodeLookupLE(way[l], key)],
            valid |-> TRUE]
  <2>1. t.node # NoTree
    BY TreeNode
  <2>2. it = [path |-> [l \in 1 .. leafLevel |-> way[l]],
              pos |-> [l \in 1 .. leafLevel |-> NodeLookupLE(way[l], key)], valid |-> TRUE]
    BY <2>1, Zenon DEF SeekLE, way
  <2> HIDE DEF leafLevel, it
  <2> QED
    BY <1>4, <2>2
<1> HIDE DEF it
<1>6. it.valid = TRUE /\ \A l \in 1 .. L : it.path[l] = way[l] /\ it.pos[l] = NodeLookupLE(way[l], key)
  BY <1>5
<1>7. it \in Iters(L)
  <2>1. ASSUME NEW l \in 1 .. L PROVE way[l] \in TreeNodes /\ NodeLookupLE(way[l], key) \in Nat
    <3>1. PICK u \in Trees[L - l] : u.node = way[l]
      BY <1>2
    <3>2. L - l \in 0 .. MaxHeight
      BY <1>1
    <3>3. NKeys(way[l]) \in Nat
      BY <3>1, <3>2, NodeFacts
    <3> QED
      BY <1>3, <3>3
  <2> QED
    BY <1>5, <2>1 DEF Iters
<1>8. Path(t.node, key)[1] = t.node
      /\ \A l \in 1 .. MaxHeight - 1 : Path(t.node, key)[l + 1] = Onward(Path(t.node, key)[l], key)
  BY PathStep
<1>9. it.path[1] = t.node
  BY <1>1, <1>6, <1>8 DEF way
<1>10. ASSUME NEW l \in 2 .. L PROVE it.path[l] = it.path[l - 1].ents[it.pos[l - 1]].p
  <2>1. l - 1 \in 1 .. MaxHeight - 1 /\ l - 1 \in 1 .. L /\ (l - 1) + 1 = l /\ l \in 1 .. L /\ l - 1 # L
    BY <1>1
  <2>2. way[l] = Onward(way[l - 1], key)
    BY <1>8, <2>1 DEF way
  <2>3. HasKids(way[l - 1])
    BY <1>3, <2>1
  <2> QED
    BY <1>6, <2>1, <2>2, <2>3 DEF Onward
<1>11. Good(t, h, it, L)
  BY <1>2, <1>3, <1>6, <1>7, <1>9, <1>10 DEF Good
<1> QED
  BY <1>6, <1>11 DEF it, way

-----------------------------------------------------------------------------
(* The iterator over time.                                                  *)

\* Bounds are keys.
LEMMA BoundsFacts ==
  \A q \in Queries : Bounds(q).key1 \in Nat
<1> SUFFICES ASSUME NEW q \in Queries PROVE Bounds(q).key1 \in Nat
  OBVIOUS
<1>1. Width \in Nat /\ Width >= 1 /\ ColMin \in Nat /\ ColMax \in Nat
  BY ScanAssumption
<1>2. Len(q.conds) \in 0 .. 2 /\ \A i \in 1 .. Len(q.conds) : q.conds[i].c \in Nat
  BY ScanAssumption
<1>3. \A v \in Nat : Width * v \in Nat /\ Width * v + Width - 1 \in Nat
  BY <1>1
<1>4. MinValue(q.idx) \in Nat /\ MaxValue(q.idx) \in Nat
  BY <1>1, <1>3 DEF MinValue, MaxValue
<1>5. ScanArgs(q).key1 \in Nat /\ ScanArgs(q).key2 \in Nat
  <2>1. CASE Len(q.conds) = 0
    BY <1>4, <2>1 DEF ScanArgs, Args
  <2>2. CASE Len(q.conds) = 1
    <3>1. q.conds[1].c \in Nat
      BY <1>2, <2>2
    <3>2. ScanArgs(q) = OneCondition(q.conds[1], q.idx)
      BY <2>2 DEF ScanArgs
    <3> QED
      BY <1>4, <3>1, <3>2 DEF OneCondition, Args
  <2>3. CASE Len(q.conds) = 2
    <3>1. q.conds[1].c \in Nat /\ q.conds[2].c \in Nat
      BY <1>2, <2>3
    <3> QED
      BY <2>3, <3>1 DEF ScanArgs, Args
  <2> QED
    BY <1>2, <2>1, <2>2, <2>3
<1> DEFINE a == ScanArgs(q)
           s == IF a.key1 > a.key2 THEN Args(a.key2, a.key1, a.inc2, a.inc1) ELSE a
<1>6. s.key1 \in Nat
  BY <1>5 DEF Args
<1>7. Bounds(q).key1 = IF q.idx = 0 THEN s.key1 ELSE IF s.inc1 THEN Width * s.key1
                       ELSE Width * s.key1 + Width - 1
  BY DEF Bounds
<1> HIDE DEF s
<1> QED
  BY <1>3, <1>6, <1>7

\* The iterator has no path, or stands on one of the tree.
Stands(it) ==
  \/ it \in Iters(0)
  \/ /\ fate = "sound"
     /\ \E h \in 0 .. MaxHeight : \E t \in Trees[h] :
          h < MaxHeight /\ t.node = root /\ Good(t, h, it, h + 1)

ScanInv ==
  /\ IInv
  /\ stage \in Stages
  /\ stage = None => iter \in Iters(0)
  /\ Stands(iter)

\* Next keeps an iterator on the tree.
LEMMA StandsNext ==
  ASSUME NEW it, Stands(it)
  PROVE  Stands(IterateNext(it))
  BY NoPath, IterateKeeps DEF Stands

\* NewScanner puts the iterator on the tree.
LEMMA StandsFirst ==
  ASSUME IInv, fate = "sound", NEW q \in Queries, ~SeekFatal(root, Bounds(q).key1)
  PROVE  Stands(Positioned(q))
<1> DEFINE key == Bounds(q).key1
           it == SeekLE(root, key)
<1>1. key \in Nat
  BY BoundsFacts
<1>2. Stands(it)
  <2>1. PICK S : RootIs(S)
    BY DEF IInv, Harmed
  <2>2. CASE root = NoTree
    <3> DEFINE W == Path(root, key)
               f == [l \in 1 .. 0 |-> W[l]]
               g == [l \in 1 .. 0 |-> NodeLookupLE(W[l], key)]
    <3>1. it = [path |-> f, pos |-> g, valid |-> TRUE]
      BY <2>2, Zenon DEF SeekLE
    <3>2. f \in [1 .. 0 -> TreeNodes] /\ g \in [1 .. 0 -> Nat]
      OBVIOUS
    <3> HIDE DEF f, g, it
    <3>3. it \in Iters(0)
      BY <3>1, <3>2 DEF Iters
    <3> QED
      BY <3>3 DEF Stands
  <2>3. CASE root = Node(Leaf, << >>)
    <3>1. root # NoTree /\ root.ents = << >> /\ ~HasKids(root)
      BY <2>3 DEF Node, NoTree, Leaf, HasKids
    <3>2. Path(root, key)[MaxHeight] = root
      BY <3>1, LeafPath
    <3> QED
      BY <3>1, <3>2 DEF SeekFatal
  <2>4. ASSUME NEW h \in 0 .. MaxHeight, NEW t \in Trees[h], h < MaxHeight, t.node = root
        PROVE  Stands(it)
    <3>1. Good(t, h, SeekLE(t.node, key), h + 1)
      BY <1>1, <2>4, Seeks
    <3> QED
      BY <2>4, <3>1 DEF Stands
  <2> QED
    BY <2>1, <2>2, <2>3, <2>4 DEF RootIs
<1>3. Stands(IterateNext(it))
  BY <1>2, StandsNext
<1> QED
  BY <1>2, <1>3 DEF Positioned

(* The invariant of scans, for any keys, trees of any height and queries    *)
(* with any conditions, limits and offsets: while a statement runs the tree *)
(* stands still, and its iterator stays on a path of it from SeekLE through *)
(* all calls of Next (btree.go:508-620, db.go:180-212).                     *)
THEOREM ScanInvariant == ScanSpec => []ScanInv
<1>1. ScanInit => ScanInv
  <2> SUFFICES ASSUME ScanInit PROVE ScanInv
    OBVIOUS
  <2>1. IInv
    BY InitKeeps DEF ScanInit
  <2>2. stage = None /\ iter \in Iters(0)
    BY NoPath DEF ScanInit
  <2> QED
    BY <2>1, <2>2 DEF ScanInv, Stands, Stages
<1>2. ScanInv /\ [ScanNext]_allVars => ScanInv'
  <2> SUFFICES ASSUME ScanInv, [ScanNext]_allVars PROVE ScanInv'
    OBVIOUS
  <2>1. IInv /\ stage \in Stages /\ (stage = None => iter \in Iters(0)) /\ Stands(iter)
    BY DEF ScanInv
  <2>2. ASSUME UNCHANGED vars PROVE IInv' /\ \A it : Stands(it) => Stands(it)'
    <3>1. [Next]_vars
      BY <2>2
    <3>2. IInv'
      BY <2>1, <3>1, NextKeeps
    <3>3. root' = root /\ fate' = fate
      BY <2>2 DEF vars
    <3> QED
      BY <3>2, <3>3 DEF Stands
  <2>3. \A s \in {"skip", "offset", "search", "settle", "rows", "done", "fatal"} :
          s \in Stages /\ s # None
    BY DEF Stages, Running, None
  <2>4. None \in Stages
    BY DEF Stages
  <2>5. CASE Write
    <3>1. stage = None /\ Next /\ stage' = stage /\ iter' = iter
      BY <2>5 DEF Write, scanVars
    <3>2. IInv'
      BY <2>1, <3>1, NextKeeps
    <3>3. iter' \in Iters(0)
      BY <2>1, <3>1
    <3> QED
      BY <2>1, <3>1, <3>2, <3>3 DEF ScanInv, Stands
  <2>6. ASSUME NEW q \in Queries, Open(q) PROVE ScanInv'
    <3>1. fate = "sound" /\ UNCHANGED vars
      BY <2>6 DEF Open
    <3>2. CASE SeekFatal(root, Bounds(q).key1)
      <4>1. stage' = "fatal" /\ iter' = NoScan
        BY <2>6, <3>2 DEF Open
      <4>2. iter' \in Iters(0)
        BY <4>1, NoPath
      <4> QED
        BY <2>2, <2>3, <3>1, <4>1, <4>2 DEF ScanInv, Stands
    <3>3. CASE ~SeekFatal(root, Bounds(q).key1)
      <4>1. iter' = Positioned(q) /\ stage' \in {"offset", "skip"}
        BY <2>6, <3>3 DEF Open
      <4>2. Stands(Positioned(q))
        BY <2>1, <3>1, <3>3, StandsFirst
      <4>3. Stands(iter)'
        BY <3>1, <4>1, <4>2 DEF Stands, vars
      <4> QED
        BY <2>2, <2>3, <3>1, <4>1, <4>3 DEF ScanInv
    <3> QED
      BY <3>2, <3>3
  <2>7. ASSUME UNCHANGED vars, stage' \in Stages, stage # None, stage' # None,
               iter' = iter \/ iter' = IterateNext(iter)
        PROVE  ScanInv'
    <3>1. Stands(IterateNext(iter))
      BY <2>1, StandsNext
    <3>2. root' = root /\ fate' = fate
      BY <2>7 DEF vars
    <3>3. Stands(iter)'
      BY <2>1, <2>7, <3>1, <3>2 DEF Stands
    <3> QED
      BY <2>2, <2>7, <3>3 DEF ScanInv
  <2>8. CASE Step
    <3>1. UNCHANGED vars /\ (iter' = iter \/ iter' = IterateNext(iter))
      BY <2>8 DEF Step, Skip, SkipDone, Offset, OffsetDone, Search, SearchDone, Row, Done
    <3>2. /\ stage \in {"skip", "offset", "search", "settle", "rows"}
          /\ stage' \in {"skip", "offset", "search", "settle", "rows", "done"}
      BY <2>8 DEF Step, Skip, SkipDone, Offset, OffsetDone, Search, SearchDone, Row, Done
    <3> QED
      BY <2>3, <2>7, <3>1, <3>2
  <2>9. CASE Return
    <3>1. UNCHANGED vars /\ stage' = None /\ iter' = NoScan
      BY <2>9 DEF Return
    <3>2. iter' \in Iters(0)
      BY <3>1, NoPath
    <3> QED
      BY <2>2, <2>4, <3>1, <3>2 DEF ScanInv, Stands
  <2>10. CASE UNCHANGED allVars
    <3>1. UNCHANGED vars /\ stage' = stage /\ iter' = iter
      BY <2>10 DEF allVars, scanVars
    <3>2. root' = root /\ fate' = fate
      BY <3>1 DEF vars
    <3> QED
      BY <2>1, <2>2, <3>1, <3>2 DEF ScanInv, Stands
  <2> QED
    BY <2>5, <2>6, <2>8, <2>9, <2>10 DEF ScanNext
<1> QED
  BY <1>1, <1>2, PTL DEF ScanSpec

(* The iterator always stands on a path of the tree, whatever was called on *)
(* it: every node of the path is the kid its parent's index points to       *)
(* (btree.go:508-518, 586-620).                                             *)
THEOREM ScanOnPath == ScanSpec => []OnPath
<1>1. ScanInv => OnPath
  <2> SUFFICES ASSUME ScanInv PROVE OnPath
    OBVIOUS
  <2>1. stage \in Stages /\ Stands(iter)
    BY DEF ScanInv
  <2>2. CASE iter \in Iters(0)
    BY <2>1, <2>2, NoPath DEF OnPath
  <2>3. ASSUME NEW h \in 0 .. MaxHeight, NEW t \in Trees[h], t.node = root, Good(t, h, iter, h + 1)
        PROVE  OnPath
    <3>1. /\ iter \in Iters(h + 1) /\ iter.path[1] = root
          /\ \A l \in 1 .. h + 1 : iter.pos[l] \in 1 .. NKeys(iter.path[l])
          /\ \A l \in 2 .. h + 1 : iter.path[l] = iter.path[l - 1].ents[iter.pos[l - 1]].p
      BY <2>3 DEF Good
    <3>2. DOMAIN iter.path = 1 .. h + 1
      BY <3>1 DEF Iters
    <3>3. \A l \in 1 .. h + 1 : l > 1 => l \in 2 .. h + 1
      BY TreesStep
    <3> QED
      BY <2>1, <3>1, <3>2, <3>3 DEF OnPath
  <2> QED
    BY <2>1, <2>2, <2>3 DEF Stands
<1> QED
  BY <1>1, ScanInvariant, PTL

-----------------------------------------------------------------------------
(* Where Next and Prev go.                                                  *)

\* From it to x by a move at level d, the levels below it entered anew as far as
\* level m. L is the number of levels.
MovesTo(it, x, L, d, m, back) ==
  /\ x \in Iters(L) /\ x.valid = it.valid
  /\ \A j \in 1 .. d : x.path[j] = it.path[j]
  /\ \A j \in 1 .. d - 1 : x.pos[j] = it.pos[j]
  /\ x.pos[d] = IF back THEN it.pos[d] - 1 ELSE it.pos[d] + 1
  /\ \A j \in d + 1 .. m : /\ x.path[j] = x.path[j - 1].ents[x.pos[j - 1]].p
                           /\ x.pos[j] = EntryEnd(x.path[j], back)

\* Level d is the lowest that can move.
Lowest(it, L, d, back) ==
  d \in 1 .. L /\ CanMove(it, d, back) /\ \A j \in d + 1 .. L : ~CanMove(it, j, back)

\* ReloadKid takes the move one level further.
LEMMA ReloadMoves ==
  ASSUME NEW h \in 0 .. MaxHeight, NEW t \in Trees[h], NEW it, NEW x, NEW l \in 1 .. h + 1,
         NEW d \in 1 .. l, NEW back \in BOOLEAN, Good(t, h, x, l), MovesTo(it, x, h + 1, d, l, back)
  PROVE  \A m \in 1 .. h + 1 : m <= l + 1 => MovesTo(it, ReloadKid(x, l, back), h + 1, d, m, back)
<1> DEFINE L == h + 1
           new == ReloadKid(x, l, back)
           kid == x.path[l].ents[x.pos[l]].p
<1>1. h \in Nat /\ L \in Nat \ {0} /\ l \in Nat /\ 1 <= l /\ l <= L /\ d \in Nat /\ 1 <= d /\ d <= l
  BY TreesStep
<1>2. /\ x \in Iters(L) /\ x.valid = it.valid
      /\ \A j \in 1 .. d : x.path[j] = it.path[j]
      /\ \A j \in 1 .. d - 1 : x.pos[j] = it.pos[j]
      /\ x.pos[d] = IF back THEN it.pos[d] - 1 ELSE it.pos[d] + 1
      /\ \A j \in d + 1 .. l : /\ x.path[j] = x.path[j - 1].ents[x.pos[j - 1]].p
                               /\ x.pos[j] = EntryEnd(x.path[j], back)
  BY DEF MovesTo
<1>3. l < L => kid \in TreeNodes /\ NKeys(kid) \in Nat
  BY GoodKid
<1>4. /\ new \in Iters(L) /\ new.valid = x.valid
      /\ \A j \in 1 .. L : j # l + 1 => new.path[j] = x.path[j] /\ new.pos[j] = x.pos[j]
      /\ l < L => new.path[l + 1] = kid /\ new.pos[l + 1] = EntryEnd(kid, back)
  <2>1. l < L => /\ x.path[l].ents[x.pos[l]].p \in TreeNodes
                 /\ NKeys(x.path[l].ents[x.pos[l]].p) \in Nat
    BY <1>3
  <2> HIDE DEF L
  <2> QED
    BY <1>1, <1>2, <2>1, ReloadFacts, SMTT(40)
<1> HIDE DEF new, kid
<1>5. \A j \in 1 .. d : new.path[j] = it.path[j] /\ new.pos[j] = x.pos[j]
  <2> SUFFICES ASSUME NEW j \in 1 .. d PROVE new.path[j] = it.path[j] /\ new.pos[j] = x.pos[j]
    OBVIOUS
  <2>1. j \in 1 .. L /\ j # l + 1
    BY <1>1
  <2> QED
    BY <1>2, <1>4, <2>1
<1>6. d \in 1 .. d /\ \A j \in 1 .. d - 1 : j \in 1 .. d
  BY <1>1
<1>7. ASSUME NEW m \in 1 .. L, m <= l + 1, NEW j \in d + 1 .. m
      PROVE  new.path[j] = new.path[j - 1].ents[new.pos[j - 1]].p /\ new.pos[j] = EntryEnd(new.path[j], back)
  <2>1. j - 1 \in 1 .. L /\ j - 1 # l + 1 /\ j \in 1 .. L
    BY <1>1, <1>7
  <2>2. new.path[j - 1] = x.path[j - 1] /\ new.pos[j - 1] = x.pos[j - 1]
    BY <1>4, <2>1
  <2>3. CASE j <= l
    <3>1. j \in d + 1 .. l /\ j # l + 1
      BY <1>1, <2>3
    <3> QED
      BY <1>2, <1>4, <2>1, <2>2, <3>1
  <2>4. CASE ~(j <= l)
    <3>1. j = l + 1 /\ l < L /\ j - 1 = l
      BY <1>1, <1>7, <2>4
    <3> QED
      BY <1>4, <2>2, <3>1 DEF kid
  <2> QED
    BY <2>3, <2>4
<1>8. ASSUME NEW m \in 1 .. L, m <= l + 1 PROVE MovesTo(it, new, L, d, m, back)
  BY <1>2, <1>4, <1>5, <1>6, <1>7, <1>8 DEF MovesTo
<1> QED
  BY <1>8 DEF new

\* Next and Prev move the lowest level that can move, and enter the ones below
\* from the side they come from.
LEMMA TurnMoves ==
  ASSUME NEW h \in 0 .. MaxHeight, NEW t \in Trees[h], NEW it, Good(t, h, it, h + 1),
         NEW back \in BOOLEAN, NEW d, Lowest(it, h + 1, d, back)
  PROVE  MovesTo(it, Turned(it, back), h + 1, d, h + 1, back)
<1> DEFINE L == h + 1
<1>1. /\ h \in Nat /\ L \in Nat \ {0} /\ d \in 1 .. L /\ d \in Nat
      /\ CanMove(it, d, back) /\ \A j \in d + 1 .. L : ~CanMove(it, j, back)
  BY TreesStep DEF Lowest
<1>2. it \in Iters(L)
  BY DEF Good
<1>3. PICK f : /\ Turned(it, back) = f[h + 1]
               /\ \A l \in 1 .. h + 1 : f[l] = TurnStep(it, back, l, f[l - 1])
  <2>1. Len(it.path) = h + 1 /\ Len(it.path) \in Nat \ {0}
    BY <1>2, PathLen
  <2>2. \E f : /\ Turned(it, back) = f[Len(it.path)]
               /\ \A l \in 1 .. Len(it.path) : f[l] = TurnStep(it, back, l, f[l - 1])
    BY <2>1, TurnFollows
  <2> QED
    BY <2>1, <2>2
<1>4. \A l, m \in 1 .. L : m <= l + 1 => Good(t, h, f[l], m)
  BY <1>3, TurnGood
<1> DEFINE Fine(l) == \A m \in 1 .. L : m <= l + 1 => MovesTo(it, f[l], L, d, m, back)
           T == {l \in d .. L : ~Fine(l)}
<1>5. Fine(d)
  <2> DEFINE x == Moved(it, d, back)
  <2>1. f[d] = ReloadKid(x, d, back)
    BY <1>1, <1>3 DEF TurnStep
  <2>2. /\ Good(t, h, x, d) /\ x \in Iters(L) /\ x.path = it.path /\ x.valid = it.valid
        /\ \A j \in 1 .. L : j # d => x.pos[j] = it.pos[j]
        /\ x.pos[d] = IF back THEN it.pos[d] - 1 ELSE it.pos[d] + 1
    BY <1>1, MovedGood
  <2> HIDE DEF x
  <2>3. \A j \in 1 .. d - 1 : j \in 1 .. L /\ j # d
    BY <1>1
  <2>4. d + 1 .. d = {} /\ d \in 1 .. d
    BY <1>1
  <2>5. MovesTo(it, x, L, d, d, back)
    BY <2>2, <2>3, <2>4 DEF MovesTo
  <2>6. \A m \in 1 .. h + 1 : m <= d + 1 => MovesTo(it, ReloadKid(x, d, back), h + 1, d, m, back)
    BY <1>1, <2>2, <2>4, <2>5, ReloadMoves
  <2> QED
    BY <2>1, <2>6
<1>6. ASSUME NEW l \in d + 1 .. L, Fine(l - 1) PROVE Fine(l)
  <2>1. /\ l \in 1 .. L /\ l > 1 /\ l - 1 \in 1 .. L /\ l <= (l - 1) + 1 /\ d \in 1 .. l
    BY <1>1
  <2>2. f[l] = ReloadKid(f[l - 1], l, back)
    BY <1>1, <1>3, <2>1 DEF TurnStep
  <2>3. Good(t, h, f[l - 1], l) /\ MovesTo(it, f[l - 1], L, d, l, back)
    BY <1>4, <1>6, <2>1
  <2>4. \A m \in 1 .. h + 1 : m <= l + 1 => MovesTo(it, ReloadKid(f[l - 1], l, back), h + 1, d, m, back)
    BY <2>1, <2>3, ReloadMoves
  <2> QED
    BY <2>2, <2>4
<1> HIDE DEF Fine
<1>7. T = {}
  <2> SUFFICES ASSUME T # {} PROVE FALSE
    OBVIOUS
  <2>1. PICK l \in T : \A y \in T : l <= y
    <3>1. T \subseteq Nat /\ T # {}
      BY <1>1
    <3> HIDE DEF T
    <3> QED
      BY <3>1, LeastNat
  <2>2. l \in d .. L /\ ~Fine(l)
    OBVIOUS
  <2>3. l # d
    BY <1>5, <2>2
  <2>4. l - 1 \in d .. L /\ ~(l <= l - 1) /\ l \in d + 1 .. L
    BY <1>1, <2>2, <2>3
  <2>5. Fine(l - 1)
    BY <2>1, <2>4
  <2> QED
    BY <1>6, <2>2, <2>4, <2>5
<1>8. Fine(L) /\ L \in 1 .. L /\ L <= L + 1
  BY <1>1, <1>7
<1> QED
  BY <1>3, <1>8 DEF Fine

\* Iterators that agree on every level.
LEMMA SameIter ==
  ASSUME NEW L, NEW x \in Iters(L), NEW y \in Iters(L), x.valid = y.valid,
         \A j \in 1 .. L : x.path[j] = y.path[j] /\ x.pos[j] = y.pos[j]
  PROVE  x = y
<1>1. /\ x = [path |-> x.path, pos |-> x.pos, valid |-> x.valid]
      /\ y = [path |-> y.path, pos |-> y.pos, valid |-> y.valid]
  BY DEF Iters
<1>2. /\ x.path \in [1 .. L -> TreeNodes] /\ x.pos \in [1 .. L -> Nat]
      /\ y.path \in [1 .. L -> TreeNodes] /\ y.pos \in [1 .. L -> Nat]
  BY DEF Iters
<1>3. x.path = y.path
  <2>1. x.path = [j \in 1 .. L |-> x.path[j]] /\ y.path = [j \in 1 .. L |-> y.path[j]]
    BY <1>2
  <2>2. [j \in 1 .. L |-> x.path[j]] = [j \in 1 .. L |-> y.path[j]]
    OBVIOUS
  <2> QED
    BY <2>1, <2>2
<1>4. x.pos = y.pos
  <2>1. x.pos = [j \in 1 .. L |-> x.pos[j]] /\ y.pos = [j \in 1 .. L |-> y.pos[j]]
    BY <1>2
  <2>2. [j \in 1 .. L |-> x.pos[j]] = [j \in 1 .. L |-> y.pos[j]]
    OBVIOUS
  <2> QED
    BY <2>1, <2>2
<1> QED
  BY <1>1, <1>3, <1>4

\* A move one way and the other leads back.
LEMMA TurnBack ==
  ASSUME NEW h \in 0 .. MaxHeight, NEW t \in Trees[h], NEW it, Good(t, h, it, h + 1),
         NEW back \in BOOLEAN, NEW d, Lowest(it, h + 1, d, back)
  PROVE  LET x == Turned(it, back) IN
         /\ Good(t, h, x, h + 1) /\ x.valid = it.valid
         /\ Lowest(x, h + 1, d, ~back) /\ Turned(x, ~back) = it
<1> DEFINE L == h + 1
           x == Turned(it, back)
           z == Turned(x, ~back)
<1>1. /\ h \in Nat /\ MaxHeight \in Nat /\ h <= MaxHeight /\ L \in Nat \ {0} /\ d \in 1 .. L /\ d \in Nat
      /\ CanMove(it, d, back) /\ \A j \in d + 1 .. L : ~CanMove(it, j, back)
      /\ (~back) \in BOOLEAN
  BY TreesStep DEF Lowest
<1>2. Good(t, h, x, L)
  BY TurnKeeps
<1>3. MovesTo(it, x, L, d, L, back)
  BY TurnMoves
<1> HIDE DEF x
<1>4. \A y : Good(t, h, y, L) =>
        /\ y \in Iters(L)
        /\ \A j \in 1 .. L : y.pos[j] \in 1 .. NKeys(y.path[j]) /\ NKeys(y.path[j]) \in Nat
        /\ \A j \in 2 .. L : y.path[j] = y.path[j - 1].ents[y.pos[j - 1]].p
  <2> SUFFICES ASSUME NEW y, Good(t, h, y, L), NEW j \in 1 .. L
               PROVE  y.pos[j] \in 1 .. NKeys(y.path[j]) /\ NKeys(y.path[j]) \in Nat
    BY DEF Good
  <2>1. L - j \in 0 .. MaxHeight
    BY <1>1
  <2> QED
    BY <2>1, NodeFacts DEF Good
<1>5. /\ x.valid = it.valid
      /\ \A j \in 1 .. d : x.path[j] = it.path[j]
      /\ \A j \in 1 .. d - 1 : x.pos[j] = it.pos[j]
      /\ x.pos[d] = IF back THEN it.pos[d] - 1 ELSE it.pos[d] + 1
      /\ \A j \in d + 1 .. L : x.pos[j] = EntryEnd(x.path[j], back)
  BY <1>3 DEF MovesTo
<1>6. Lowest(x, L, d, ~back)
  <2>1. CanMove(x, d, ~back)
    <3>1. x.path[d] = it.path[d] /\ it.pos[d] \in 1 .. NKeys(it.path[d]) /\ NKeys(it.path[d]) \in Nat
      BY <1>1, <1>4, <1>5
    <3> QED
      BY <1>1, <1>5, <3>1 DEF CanMove
  <2>2. ASSUME NEW j \in d + 1 .. L PROVE ~CanMove(x, j, ~back)
    <3>1. j \in 1 .. L
      BY <1>1
    <3>2. x.pos[j] = EntryEnd(x.path[j], back) /\ NKeys(x.path[j]) \in Nat
      BY <1>2, <1>4, <1>5, <3>1
    <3> QED
      BY <3>2 DEF CanMove, EntryEnd
  <2> QED
    BY <1>1, <2>1, <2>2 DEF Lowest
<1>7. MovesTo(x, z, L, d, L, ~back)
  BY <1>1, <1>2, <1>6, TurnMoves
<1> HIDE DEF z
<1>8. /\ z \in Iters(L) /\ z.valid = it.valid
      /\ \A j \in 1 .. d : z.path[j] = it.path[j]
      /\ \A j \in 1 .. d - 1 : z.pos[j] = it.pos[j]
  <2>1. \A j \in 1 .. d - 1 : j \in 1 .. d
    BY <1>1
  <2> QED
    BY <1>5, <1>7, <2>1 DEF MovesTo
<1>9. z.pos[d] = it.pos[d]
  <2>1. z.pos[d] = IF ~back THEN x.pos[d] - 1 ELSE x.pos[d] + 1
    BY <1>7 DEF MovesTo
  <2>2. it.pos[d] \in Int
    BY <1>1, <1>4
  <2> QED
    BY <1>5, <2>1, <2>2
<1> DEFINE Same(j) == z.path[j] = it.path[j] /\ z.pos[j] = it.pos[j]
           T == {j \in d .. L : ~Same(j)}
<1>10. T = {}
  <2> SUFFICES ASSUME T # {} PROVE FALSE
    OBVIOUS
  <2>1. PICK l \in T : \A y \in T : l <= y
    <3>1. T \subseteq Nat /\ T # {}
      BY <1>1
    <3> HIDE DEF T
    <3> QED
      BY <3>1, LeastNat
  <2>2. l \in d .. L /\ ~Same(l)
    OBVIOUS
  <2>3. l # d
    <3>1. d \in 1 .. d
      BY <1>1
    <3> QED
      BY <1>8, <1>9, <2>2, <3>1
  <2>4. l - 1 \in d .. L /\ ~(l <= l - 1) /\ l \in d + 1 .. L /\ l \in 1 .. L /\ l \in 2 .. L
    BY <1>1, <2>2, <2>3
  <2>5. Same(l - 1)
    BY <2>1, <2>4
  <2>6. z.path[l] = z.path[l - 1].ents[z.pos[l - 1]].p /\ z.pos[l] = EntryEnd(z.path[l], ~back)
    BY <1>7, <2>4 DEF MovesTo
  <2>7. it.path[l] = it.path[l - 1].ents[it.pos[l - 1]].p
    BY <1>4, <2>4
  <2>8. z.path[l] = it.path[l]
    BY <2>5, <2>6, <2>7
  <2>9. it.pos[l] = EntryEnd(it.path[l], ~back)
    <3>1. ~CanMove(it, l, back) /\ it.pos[l] \in 1 .. NKeys(it.path[l]) /\ NKeys(it.path[l]) \in Nat
      BY <1>1, <1>4, <2>4
    <3> QED
      BY <1>1, <3>1 DEF CanMove, EntryEnd
  <2> QED
    BY <2>2, <2>6, <2>8, <2>9
<1>11. ASSUME NEW j \in 1 .. L PROVE z.path[j] = it.path[j] /\ z.pos[j] = it.pos[j]
  <2>1. (j \in 1 .. d - 1 /\ j \in 1 .. d) \/ j \in d .. L
    BY <1>1
  <2> QED
    BY <1>8, <1>10, <2>1
<1>12. z = it
  BY <1>4, <1>8, <1>11, SameIter
<1> QED
  BY <1>2, <1>5, <1>6, <1>12 DEF x, z

-----------------------------------------------------------------------------
(* The order of keys along a path.                                          *)

\* The key after that of level j.
After(it, j) == it.path[j].ents[it.pos[j] + 1].k

\* u is the tree at level l of the path: what t holds is in u, before it, or from
\* the next key of some level above on.
Placed(t, h, it, l, u) ==
  /\ u \in Trees[(h + 1) - l] /\ u.node = it.path[l] /\ u.holds \subseteq t.holds
  /\ \A j \in 1 .. l - 1 : CanMove(it, j, FALSE) => \A y \in u.holds : y.k < After(it, j)
  /\ \A x \in t.holds : \/ x \in u.holds
                        \/ \A y \in u.holds : x.k < y.k
                        \/ \E j \in 1 .. l - 1 : CanMove(it, j, FALSE) /\ After(it, j) <= x.k

\* There is such a tree at every level.
LEMMA PathPlaced ==
  ASSUME NEW h \in 0 .. MaxHeight, NEW t \in Trees[h], NEW it, Good(t, h, it, h + 1)
  PROVE  \A l \in 1 .. h + 1 : \E u : Placed(t, h, it, l, u)
<1> DEFINE L == h + 1
           T == {l \in 1 .. L : ~(\E u : Placed(t, h, it, l, u))}
<1>1. h \in Nat /\ MaxHeight \in Nat /\ h <= MaxHeight /\ L \in Nat \ {0}
  BY TreesStep
<1>2. /\ it.path[1] = t.node
      /\ \A j \in 1 .. L : it.pos[j] \in 1 .. NKeys(it.path[j])
      /\ \A j \in 2 .. L : it.path[j] = it.path[j - 1].ents[it.pos[j - 1]].p
  BY DEF Good
<1> SUFFICES ASSUME T # {} PROVE FALSE
  OBVIOUS
<1>3. PICK l \in T : \A y \in T : l <= y
  <2>1. T \subseteq Nat /\ T # {}
    BY <1>1
  <2> HIDE DEF T
  <2> QED
    BY <2>1, LeastNat
<1>4. l \in 1 .. L /\ ~(\E u : Placed(t, h, it, l, u))
  OBVIOUS
<1>5. l # 1
  <2> SUFFICES ASSUME l = 1 PROVE FALSE
    OBVIOUS
  <2>1. L - l = h /\ 1 .. l - 1 = {}
    BY <1>1
  <2>2. Placed(t, h, it, l, t)
    BY <1>2, <2>1 DEF Placed
  <2> QED
    BY <1>4, <2>2
<1> DEFINE m == l - 1
<1>6. /\ m \in 1 .. L /\ m + 1 = l /\ ~(l <= m) /\ l \in 2 .. L /\ m \in Nat
      /\ L - m \in 1 .. MaxHeight /\ (L - m) - 1 = L - l
  BY <1>1, <1>4, <1>5
<1>7. m \notin T
  BY <1>3, <1>6
<1>8. PICK w : Placed(t, h, it, m, w)
  BY <1>6, <1>7
<1>9. /\ w \in Trees[L - m] /\ w.node = it.path[m] /\ w.holds \subseteq t.holds
      /\ \A j \in 1 .. m - 1 : CanMove(it, j, FALSE) => \A y \in w.holds : y.k < After(it, j)
      /\ \A x \in t.holds : \/ x \in w.holds
                            \/ \A y \in w.holds : x.k < y.k
                            \/ \E j \in 1 .. m - 1 : CanMove(it, j, FALSE) /\ After(it, j) <= x.k
  BY <1>8 DEF Placed
<1> HIDE DEF m, T
<1> DEFINE i == it.pos[m]
<1>10. i \in 1 .. NKeys(w.node) /\ (CanMove(it, m, FALSE) <=> i < NKeys(w.node))
       /\ After(it, m) = w.node.ents[i + 1].k /\ it.path[l] = w.node.ents[i].p
  <2>1. it.path[l] = it.path[l - 1].ents[it.pos[l - 1]].p
    BY <1>2, <1>6
  <2> QED
    BY <1>2, <1>6, <1>9, <2>1 DEF CanMove, After, m
<1> HIDE DEF i
<1>11. PICK u \in Trees[(L - m) - 1] :
         /\ u.node = w.node.ents[i].p /\ u.holds \subseteq w.holds
         /\ i < NKeys(w.node) => \A y \in u.holds : y.k < w.node.ents[i + 1].k
         /\ \A x \in w.holds : \/ x \in u.holds
                               \/ \A y \in u.holds : x.k < y.k
                               \/ i < NKeys(w.node) /\ w.node.ents[i + 1].k <= x.k
  BY <1>6, <1>9, <1>10, KidFacts
<1>12. u \in Trees[L - l] /\ u.node = it.path[l] /\ u.holds \subseteq t.holds
  BY <1>6, <1>9, <1>10, <1>11
<1>13. ASSUME NEW j \in 1 .. l - 1, CanMove(it, j, FALSE), NEW y \in u.holds PROVE y.k < After(it, j)
  <2>1. j = m \/ j \in 1 .. m - 1
    BY <1>6
  <2> QED
    BY <1>9, <1>10, <1>11, <1>13, <2>1
<1>14. ASSUME NEW x \in t.holds
       PROVE  \/ x \in u.holds
              \/ \A y \in u.holds : x.k < y.k
              \/ \E j \in 1 .. l - 1 : CanMove(it, j, FALSE) /\ After(it, j) <= x.k
  <2>1. m \in 1 .. l - 1 /\ \A j \in 1 .. m - 1 : j \in 1 .. l - 1
    BY <1>6
  <2>2. CASE x \in w.holds
    BY <1>10, <1>11, <2>1, <2>2
  <2>3. CASE \A y \in w.holds : x.k < y.k
    BY <1>11, <2>3
  <2>4. CASE \E j \in 1 .. m - 1 : CanMove(it, j, FALSE) /\ After(it, j) <= x.k
    BY <2>1, <2>4
  <2> QED
    BY <1>9, <2>2, <2>3, <2>4
<1>15. Placed(t, h, it, l, u)
  BY <1>12, <1>13, <1>14 DEF Placed
<1> QED
  BY <1>4, <1>15

\* The key of every entry is one the tree holds.
LEMMA EntryKeys ==
  ASSUME NEW h \in 0 .. MaxHeight, NEW t \in Trees[h], NEW i \in 1 .. NKeys(t.node)
  PROVE  \E x \in t.holds : x.k = t.node.ents[i].k
<1>1. CASE h = 0
  BY <1>1, TreeNode DEF EntsIn, NKeys
<1>2. CASE h # 0
  <2>1. h \in 1 .. MaxHeight /\ h - 1 \in 0 .. MaxHeight
    BY <1>2, TreesStep
  <2>2. PICK u \in Trees[h - 1] : u.holds \subseteq t.holds /\ FirstKey(u.node) = t.node.ents[i].k
    BY <2>1, KidFacts
  <2>3. \E x \in u.holds : x.k = FirstKey(u.node)
    BY <2>1, <2>2, TreeNode DEF Sane
  <2> QED
    BY <2>2, <2>3
<1> QED
  BY <1>1, <1>2

\* The leaf of a path, and the key the iterator stands on.
LEMMA LeafKey ==
  ASSUME NEW h \in 0 .. MaxHeight, NEW t \in Trees[h], NEW it, Good(t, h, it, h + 1), NEW u,
         Placed(t, h, it, h + 1, u)
  PROVE  LET n == it.path[h + 1]
             i == it.pos[h + 1]
         IN  /\ u.holds = EntsIn(n.ents) /\ Ascending(n.ents) /\ NKeys(n) = Len(n.ents) /\ NKeys(n) \in Nat
             /\ i \in 1 .. NKeys(n) /\ DerefKey(it) = n.ents[i].k
             /\ \A j \in 1 .. NKeys(n) : n.ents[j].k \in Nat
             /\ n.ents[i] \in u.holds /\ u.holds \subseteq t.holds
<1> DEFINE n == it.path[h + 1]
           i == it.pos[h + 1]
<1>1. h \in Nat /\ 0 \in 0 .. MaxHeight /\ (h + 1) - (h + 1) = 0 /\ h + 1 \in 1 .. h + 1
  BY TreesStep
<1>2. u \in Trees[0] /\ u.node = n /\ u.holds \subseteq t.holds
  BY <1>1 DEF Placed
<1>3. it \in Iters(h + 1) /\ i \in 1 .. NKeys(n)
  BY <1>1 DEF Good
<1>4. DerefKey(it) = n.ents[i].k
  <2>1. Len(it.path) = h + 1 /\ it.path # << >>
    <3>1. Len(it.path) = h + 1 /\ DOMAIN it.path = 1 .. h + 1
      BY <1>3, PathLen
    <3>2. Len(<< >>) = 0
      OBVIOUS
    <3> QED
      BY <1>1, <3>1, <3>2
  <2> QED
    BY <2>1 DEF DerefKey
<1>5. /\ u.holds = EntsIn(n.ents) /\ Ascending(n.ents) /\ NKeys(n) = Len(n.ents) /\ NKeys(n) \in Nat
      /\ \A j \in 1 .. NKeys(n) : n.ents[j].k \in Nat
  BY <1>1, <1>2, TreeNode, NodeFacts
<1>6. n.ents[i] \in u.holds
  BY <1>3, <1>5 DEF EntsIn
<1> QED
  BY <1>2, <1>3, <1>4, <1>5, <1>6

\* Next goes to the smallest key above the one it stands on.
NextKey(t, it, new) ==
  /\ \E x \in t.holds : x.k = DerefKey(new)
  /\ DerefKey(it) < DerefKey(new)
  /\ \A x \in t.holds : DerefKey(it) < x.k => DerefKey(new) <= x.k

LEMMA NextIsNext ==
  ASSUME NEW h \in 0 .. MaxHeight, NEW t \in Trees[h], NEW it, Good(t, h, it, h + 1),
         NEW d, Lowest(it, h + 1, d, FALSE)
  PROVE  NextKey(t, it, Turned(it, FALSE))
<1> DEFINE L == h + 1
           new == Turned(it, FALSE)
           key == DerefKey(it)
           nx == After(it, d)
<1>1. /\ h \in Nat /\ MaxHeight \in Nat /\ h <= MaxHeight /\ L \in Nat \ {0} /\ d \in 1 .. L /\ d \in Nat
      /\ L \in 1 .. L /\ CanMove(it, d, FALSE) /\ \A j \in d + 1 .. L : ~CanMove(it, j, FALSE)
  <2>1. d \in 1 .. L /\ CanMove(it, d, FALSE) /\ \A j \in d + 1 .. L : ~CanMove(it, j, FALSE)
    BY Zenon DEF Lowest
  <2>2. /\ h \in Nat /\ MaxHeight \in Nat /\ h <= MaxHeight /\ L \in Nat \ {0} /\ L \in 1 .. L
        /\ \A k \in 1 .. L : k \in Nat
    BY TreesStep
  <2> QED
    BY <2>1, <2>2, Zenon
<1>2. /\ it.path[1] = t.node
      /\ \A j \in 1 .. L : it.pos[j] \in 1 .. NKeys(it.path[j])
  BY DEF Good
<1>3. PICK u : Placed(t, h, it, d, u)
  BY <1>1, PathPlaced
<1>4. /\ L - d \in 0 .. MaxHeight /\ u \in Trees[L - d] /\ u.node = it.path[d] /\ u.holds \subseteq t.holds
      /\ \A j \in 1 .. d - 1 : CanMove(it, j, FALSE) => \A y \in u.holds : y.k < After(it, j)
  <2>1. L - d \in 0 .. MaxHeight
    BY <1>1
  <2> QED
    BY <1>3, <2>1, Zenon DEF Placed
<1>5. it.pos[d] \in Nat /\ it.pos[d] + 1 \in 1 .. NKeys(u.node)
  <2>1. NKeys(u.node) \in Nat
    BY <1>4, NodeFacts
  <2>2. it.pos[d] \in 1 .. NKeys(u.node) /\ it.pos[d] < NKeys(u.node)
    BY <1>1, <1>2, <1>4 DEF CanMove
  <2> QED
    BY <2>1, <2>2
<1>6. PICK e \in u.holds : e.k = nx
  BY <1>4, <1>5, EntryKeys DEF After
<1>7. \A x \in t.holds : x.k \in Nat
  <2>1. Sane(t, h)
    BY TreeNode
  <2> QED
    BY <2>1, LeafEntries DEF Sane
<1>8. e \in t.holds /\ nx \in Nat
  BY <1>4, <1>6, <1>7
<1>9. PICK v : Placed(t, h, it, L, v)
  BY <1>1, PathPlaced
<1> DEFINE n == it.path[L]
           i == it.pos[L]
<1>10. /\ v.holds = EntsIn(n.ents) /\ Ascending(n.ents) /\ NKeys(n) = Len(n.ents) /\ NKeys(n) \in Nat
       /\ i \in 1 .. NKeys(n) /\ key = n.ents[i].k
       /\ \A j \in 1 .. NKeys(n) : n.ents[j].k \in Nat
       /\ n.ents[i] \in v.holds
  BY <1>9, LeafKey
<1>11. /\ \A j \in 1 .. L - 1 : CanMove(it, j, FALSE) => \A y \in v.holds : y.k < After(it, j)
       /\ \A x \in t.holds : \/ x \in v.holds
                             \/ \A y \in v.holds : x.k < y.k
                             \/ \E j \in 1 .. L - 1 : CanMove(it, j, FALSE) /\ After(it, j) <= x.k
  BY <1>9 DEF Placed
<1>12. d = L => nx = n.ents[i + 1].k /\ i + 1 \in 1 .. NKeys(n)
  BY <1>4, <1>5 DEF After
<1>13. CanMove(it, L, FALSE) <=> i < NKeys(n)
  BY DEF CanMove
<1> HIDE DEF n, i, key, nx
<1>14. key < nx
  <2>1. CASE d = L
    <3>1. i < i + 1
      BY <1>10
    <3> QED
      BY <1>10, <1>12, <2>1, <3>1 DEF Ascending
  <2>2. CASE d # L
    <3>1. d \in 1 .. L - 1
      BY <1>1, <2>2
    <3> QED
      BY <1>1, <1>10, <1>11, <3>1 DEF nx
  <2> QED
    BY <2>1, <2>2
<1>15. ASSUME NEW x \in t.holds, key < x.k PROVE nx <= x.k
  <2>1. x.k \in Nat /\ key \in Nat
    BY <1>7, <1>10
  <2>2. CASE x \in v.holds
    <3>1. PICK j \in 1 .. NKeys(n) : x = n.ents[j]
      BY <1>10, <2>2 DEF EntsIn
    <3>2. ~(j < i) /\ j # i
      BY <1>10, <1>15, <2>1, <3>1 DEF Ascending
    <3>3. i < j /\ i < NKeys(n)
      BY <1>10, <3>1, <3>2
    <3>4. d = L
      <4>1. d # L => L \in d + 1 .. L
        BY <1>1
      <4> QED
        BY <1>1, <1>13, <3>3, <4>1, Zenon
    <3>5. nx = n.ents[i + 1].k /\ i + 1 \in 1 .. NKeys(n)
      BY <1>12, <3>4
    <3>6. i + 1 = j \/ i + 1 < j
      BY <1>10, <3>1, <3>3
    <3>7. CASE i + 1 = j
      BY <2>1, <3>1, <3>5, <3>7
    <3>8. CASE i + 1 < j
      <4>1. n.ents[i + 1].k < n.ents[j].k
        BY <1>10, <3>1, <3>5, <3>8 DEF Ascending
      <4>2. n.ents[i + 1].k \in Nat
        BY <1>10, <3>5
      <4> QED
        BY <2>1, <3>1, <3>5, <4>1, <4>2
    <3> QED
      BY <3>6, <3>7, <3>8
  <2>3. CASE \A y \in v.holds : x.k < y.k
    BY <1>10, <1>15, <2>1, <2>3
  <2>4. ASSUME NEW j \in 1 .. L - 1, CanMove(it, j, FALSE), After(it, j) <= x.k PROVE nx <= x.k
    <3>1. ~(d < j)
      <4>1. d < j => j \in d + 1 .. L
        BY <1>1
      <4> QED
        BY <1>1, <2>4, <4>1, Zenon
    <3>2. CASE j = d
      BY <2>4, <3>2 DEF nx
    <3>3. CASE j # d
      <4>1. j \in 1 .. d - 1
        BY <1>1, <3>1, <3>3
      <4>2. nx < After(it, j)
        BY <1>4, <1>6, <2>4, <4>1
      <4>3. After(it, j) \in Nat
        <5> DEFINE p == it.path[j]
        <5>1. j \in 1 .. L /\ L - j \in 0 .. MaxHeight
          BY <1>1
        <5>2. PICK w \in Trees[L - j] : w.node = p
          BY <5>1 DEF Good
        <5>3. NKeys(p) \in Nat /\ \A k \in 1 .. NKeys(p) : p.ents[k].k \in Nat
          BY <5>1, <5>2, NodeFacts
        <5>4. it.pos[j] \in 1 .. NKeys(p) /\ it.pos[j] < NKeys(p)
          BY <1>2, <2>4, <5>1 DEF CanMove
        <5>5. it.pos[j] + 1 \in 1 .. NKeys(p)
          BY <5>3, <5>4
        <5> QED
          BY <5>3, <5>5 DEF After
      <4> QED
        BY <1>8, <2>1, <2>4, <4>2, <4>3
    <3> QED
      BY <3>2, <3>3
  <2> QED
    BY <1>11, <2>2, <2>3, <2>4
<1>16. Good(t, h, new, L) /\ MovesTo(it, new, L, d, L, FALSE)
  BY TurnKeeps, TurnMoves
<1>17. DerefKey(new) = nx
  <2>1. /\ new.path[d] = it.path[d] /\ new.pos[d] = it.pos[d] + 1
        /\ \A j \in d + 1 .. L : /\ new.path[j] = new.path[j - 1].ents[new.pos[j - 1]].p
                                 /\ new.pos[j] = 1
    <3>1. d \in 1 .. d
      BY <1>1
    <3> QED
      BY <1>16, <3>1 DEF MovesTo, EntryEnd
  <2>2. \A j \in 1 .. L : /\ \E w \in Trees[L - j] : w.node = new.path[j]
                          /\ new.pos[j] \in 1 .. NKeys(new.path[j])
    BY <1>16 DEF Good
  <2>3. PICK w : Placed(t, h, new, L, w)
    BY <1>1, <1>16, PathPlaced
  <2>4. DerefKey(new) = new.path[L].ents[new.pos[L]].k
    BY <1>16, <2>3, LeafKey
  <2> HIDE DEF new
  <2> DEFINE Same(j) == new.path[j].ents[new.pos[j]].k = nx
             T == {j \in d .. L : ~Same(j)}
  <2>5. Same(d)
    BY <2>1 DEF nx, After
  <2>6. ASSUME NEW j \in d + 1 .. L, Same(j - 1) PROVE Same(j)
    <3>1. /\ j - 1 \in 1 .. L /\ L - (j - 1) \in 1 .. MaxHeight /\ (L - (j - 1)) - 1 = L - j
          /\ L - j \in 0 .. MaxHeight
      BY <1>1
    <3>2. PICK a \in Trees[L - (j - 1)] : a.node = new.path[j - 1]
      BY <2>2, <3>1
    <3>3. new.pos[j - 1] \in 1 .. NKeys(a.node)
      BY <2>2, <3>1, <3>2
    <3>4. PICK b \in Trees[(L - (j - 1)) - 1] : /\ b.node = a.node.ents[new.pos[j - 1]].p
                                                /\ FirstKey(b.node) = a.node.ents[new.pos[j - 1]].k
      BY <3>1, <3>2, <3>3, KidFacts
    <3>5. b \in Trees[L - j] /\ b.node = new.path[j] /\ FirstKey(b.node) = nx /\ new.pos[j] = 1
      BY <2>1, <2>6, <3>1, <3>2, <3>4
    <3>6. b.node.ents # << >>
      BY <3>1, <3>5, TreeNode
    <3> QED
      BY <3>5, <3>6 DEF FirstKey
  <2> HIDE DEF Same
  <2>7. T = {}
    <3> SUFFICES ASSUME T # {} PROVE FALSE
      OBVIOUS
    <3>1. PICK l \in T : \A y \in T : l <= y
      <4>1. T \subseteq Nat /\ T # {}
        BY <1>1
      <4> HIDE DEF T
      <4> QED
        BY <4>1, LeastNat
    <3>2. l \in d .. L /\ ~Same(l)
      OBVIOUS
    <3>3. l # d
      BY <2>5, <3>2
    <3>4. l - 1 \in d .. L /\ ~(l <= l - 1) /\ l \in d + 1 .. L
      BY <1>1, <3>2, <3>3
    <3>5. Same(l - 1)
      BY <3>1, <3>4
    <3> QED
      BY <2>6, <3>2, <3>4, <3>5
  <2>8. Same(L)
    BY <1>1, <2>7
  <2> QED
    BY <2>4, <2>8 DEF Same
<1> QED
  BY <1>6, <1>8, <1>14, <1>15, <1>17 DEF NextKey, key, new

\* Where no level can move, there is no greater key.
LEMMA LastIsLast ==
  ASSUME NEW h \in 0 .. MaxHeight, NEW t \in Trees[h], NEW it, Good(t, h, it, h + 1),
         \A j \in 1 .. h + 1 : ~CanMove(it, j, FALSE)
  PROVE  \A x \in t.holds : ~(DerefKey(it) < x.k)
<1> DEFINE L == h + 1
           n == it.path[L]
           i == it.pos[L]
<1>1. h \in Nat /\ L \in 1 .. L
  BY TreesStep
<1>2. PICK v : Placed(t, h, it, L, v)
  BY <1>1, PathPlaced
<1>3. /\ v.holds = EntsIn(n.ents) /\ Ascending(n.ents) /\ NKeys(n) = Len(n.ents) /\ NKeys(n) \in Nat
      /\ i \in 1 .. NKeys(n) /\ DerefKey(it) = n.ents[i].k
      /\ \A j \in 1 .. NKeys(n) : n.ents[j].k \in Nat
      /\ n.ents[i] \in v.holds
  BY <1>2, LeafKey
<1>4. i = NKeys(n)
  <2>1. ~(i < NKeys(n))
    BY <1>1 DEF CanMove
  <2> QED
    BY <1>3, <2>1
<1>5. \A j \in 1 .. L - 1 : ~CanMove(it, j, FALSE)
  <2>1. \A j \in 1 .. L - 1 : j \in 1 .. h + 1
    BY <1>1
  <2> QED
    BY <2>1, Zenon
<1> SUFFICES ASSUME NEW x \in t.holds PROVE ~(n.ents[i].k < x.k)
  BY <1>3
<1>6. \/ x \in v.holds
      \/ \A y \in v.holds : x.k < y.k
  BY <1>2, <1>5 DEF Placed
<1>7. x.k \in Nat
  <2>1. Sane(t, h)
    BY TreeNode
  <2> QED
    BY <2>1, LeafEntries DEF Sane
<1> HIDE DEF n, i
<1>8. CASE x \in v.holds
  <2>1. PICK j \in 1 .. NKeys(n) : x = n.ents[j]
    BY <1>3, <1>8 DEF EntsIn
  <2>2. j = i \/ j < i
    BY <1>3, <1>4, <2>1
  <2> QED
    BY <1>3, <2>1, <2>2 DEF Ascending
<1>9. CASE \A y \in v.holds : x.k < y.k
  BY <1>3, <1>7, <1>9
<1> QED
  BY <1>6, <1>8, <1>9

-----------------------------------------------------------------------------
(* The keys of the tree.                                                    *)

\* What a node of the tree holds, the tree holds.
LEMMA LevelHolds ==
  ASSUME NEW h \in 0 .. MaxHeight, NEW t \in Trees[h]
  PROVE  \A l \in 1 .. MaxHeight : \A m \in Level(t.node)[l] :
           l <= h + 1 /\ \E u \in Trees[(h + 1) - l] : u.node = m /\ u.holds \subseteq t.holds
<1> DEFINE Q(l) == \A m \in Level(t.node)[l] :
                     l <= h + 1 /\ \E u \in Trees[(h + 1) - l] : u.node = m /\ u.holds \subseteq t.holds
           T == {l \in 1 .. MaxHeight : ~Q(l)}
<1> SUFFICES ASSUME T # {} PROVE FALSE
  OBVIOUS
<1>1. MaxHeight \in Nat /\ h \in Nat /\ h <= MaxHeight
  BY TreesStep
<1>2. PICK l \in T : \A y \in T : l <= y
  <2>1. T \subseteq Nat /\ T # {}
    BY <1>1
  <2> HIDE DEF T
  <2> QED
    BY <2>1, LeastNat
<1>3. l \in 1 .. MaxHeight /\ ~Q(l)
  OBVIOUS
<1>4. /\ Level(t.node)[1] = {t.node}
      /\ \A k \in 1 .. MaxHeight - 1 :
           Level(t.node)[k + 1] = UNION {Kids(m) : m \in Level(t.node)[k]}
  BY TreeNode, LevelStep
<1>5. l # 1
  <2> SUFFICES ASSUME l = 1 PROVE FALSE
    OBVIOUS
  <2>1. (h + 1) - l = h /\ l <= h + 1
    BY <1>1
  <2>2. Q(l)
    BY <1>4, <2>1
  <2> QED
    BY <1>3, <2>2
<1> DEFINE k == l - 1
<1>6. k \in 1 .. MaxHeight /\ k \in 1 .. MaxHeight - 1 /\ k + 1 = l /\ ~(l <= k)
  BY <1>1, <1>3, <1>5
<1>7. Q(k)
  BY <1>2, <1>6
<1>8. Level(t.node)[l] = UNION {Kids(m) : m \in Level(t.node)[k]}
  BY <1>4, <1>6
<1>9. ASSUME NEW m \in Level(t.node)[l]
      PROVE  l <= h + 1 /\ \E u \in Trees[(h + 1) - l] : u.node = m /\ u.holds \subseteq t.holds
  <2>1. PICK p \in Level(t.node)[k] : m \in Kids(p)
    BY <1>8, <1>9
  <2>2. k <= h + 1 /\ \E w \in Trees[(h + 1) - k] : w.node = p /\ w.holds \subseteq t.holds
    BY <1>7, <2>1
  <2>3. PICK w \in Trees[(h + 1) - k] : w.node = p /\ w.holds \subseteq t.holds
    BY <2>2
  <2>4. (h + 1) - k \in 0 .. MaxHeight
    BY <1>1, <1>6, <2>2
  <2>5. p.type = Inner /\ \E i \in 1 .. NKeys(p) : m = p.ents[i].p
    BY <2>1 DEF Kids
  <2>6. (h + 1) - k # 0
    <3>1. (h + 1) - k = 0 => w.node.type = Leaf
      BY <2>3, <2>4, TreeNode
    <3> QED
      BY <2>3, <2>5, <3>1 DEF Leaf, Inner
  <2>7. /\ (h + 1) - k \in 1 .. MaxHeight /\ ((h + 1) - k) - 1 = (h + 1) - l /\ l <= h + 1
    BY <1>1, <1>6, <2>2, <2>4, <2>6
  <2>8. PICK i \in 1 .. NKeys(w.node) : m = w.node.ents[i].p
    BY <2>3, <2>5
  <2>9. PICK u \in Trees[((h + 1) - k) - 1] : u.node = w.node.ents[i].p /\ u.holds \subseteq w.holds
    BY <2>3, <2>7, <2>8, KidFacts
  <2>10. u \in Trees[(h + 1) - l] /\ u.node = m /\ u.holds \subseteq t.holds
    BY <2>3, <2>7, <2>8, <2>9
  <2> QED
    BY <2>7, <2>10
<1> QED
  BY <1>3, <1>9

\* The nodes of a path are nodes of the tree.
LEMMA PathInLevels ==
  ASSUME NEW h \in 0 .. MaxHeight, h < MaxHeight, NEW t \in Trees[h], NEW it, Good(t, h, it, h + 1)
  PROVE  \A l \in 1 .. h + 1 : it.path[l] \in Level(t.node)[l]
<1> DEFINE L == h + 1
           V == Level(t.node)
           T == {l \in 1 .. L : it.path[l] \notin V[l]}
<1>1. h \in Nat /\ MaxHeight \in Nat /\ L \in Nat \ {0} /\ L <= MaxHeight
  BY TreesStep
<1>2. V[1] = {t.node} /\ \A l \in 1 .. MaxHeight - 1 : V[l + 1] = UNION {Kids(m) : m \in V[l]}
  BY TreeNode, LevelStep
<1>3. /\ it.path[1] = t.node
      /\ \A j \in 1 .. L : /\ \E u \in Trees[L - j] : u.node = it.path[j]
                           /\ it.pos[j] \in 1 .. NKeys(it.path[j])
      /\ \A j \in 2 .. L : it.path[j] = it.path[j - 1].ents[it.pos[j - 1]].p
  BY DEF Good
<1> HIDE DEF V
<1>4. T = {}
  <2> SUFFICES ASSUME T # {} PROVE FALSE
    OBVIOUS
  <2>1. PICK l \in T : \A y \in T : l <= y
    <3>1. T \subseteq Nat /\ T # {}
      BY <1>1
    <3> HIDE DEF T
    <3> QED
      BY <3>1, LeastNat
  <2>2. l \in 1 .. L /\ it.path[l] \notin V[l]
    OBVIOUS
  <2>3. l # 1
    BY <1>2, <1>3, <2>2
  <2> DEFINE k == l - 1
  <2>4. /\ k \in 1 .. L /\ k \in 1 .. MaxHeight - 1 /\ k + 1 = l /\ ~(l <= k) /\ l \in 2 .. L
        /\ L - k \in 0 .. MaxHeight /\ L - k # 0
    BY <1>1, <2>2, <2>3
  <2>5. it.path[k] \in V[k]
    BY <2>1, <2>4
  <2>6. it.path[l] = it.path[k].ents[it.pos[k]].p
    BY <1>3, <2>4
  <2>7. it.path[k].type = Inner /\ it.pos[k] \in 1 .. NKeys(it.path[k])
    <3>1. PICK u \in Trees[L - k] : u.node = it.path[k]
      BY <1>3, <2>4
    <3>2. u.node.type = Inner
      BY <2>4, <3>1, TreeNode
    <3> QED
      BY <1>3, <2>4, <3>1, <3>2
  <2>8. it.path[l] \in Kids(it.path[k])
    BY <2>6, <2>7 DEF Kids
  <2>9. V[l] = UNION {Kids(m) : m \in V[k]}
    BY <1>2, <2>4
  <2> QED
    BY <2>2, <2>5, <2>8, <2>9
<1> QED
  BY <1>4 DEF V

\* SeekLE finds every key the tree holds.
LEMMA SeekFinds ==
  ASSUME NEW h \in 0 .. MaxHeight, h < MaxHeight, NEW t \in Trees[h], NEW x \in t.holds
  PROVE  LET it == SeekLE(t.node, x.k) IN
         /\ x.k \in Nat /\ Good(t, h, it, h + 1) /\ it.valid = TRUE /\ DerefKey(it) = x.k
<1> DEFINE L == h + 1
           key == x.k
           it == SeekLE(t.node, key)
           n == it.path[L]
           i == it.pos[L]
<1>1. h \in Nat /\ L \in 1 .. L /\ L \in 1 .. MaxHeight /\ ~(L <= h) /\ MaxHeight \in Nat
  BY TreesStep
<1>2. key \in Nat
  <2>1. Sane(t, h)
    BY TreeNode
  <2> QED
    BY <2>1, LeafEntries DEF Sane
<1>3. /\ Good(t, h, it, L) /\ it.valid = TRUE
      /\ n = Path(t.node, key)[L] /\ i = NodeLookupLE(n, key)
  <2> HIDE DEF key
  <2>1. /\ Good(t, h, it, h + 1) /\ it.valid = TRUE
        /\ \A l \in 1 .. h + 1 : /\ it.path[l] = Path(t.node, key)[l]
                                 /\ it.pos[l] = NodeLookupLE(it.path[l], key)
    BY <1>2, Seeks
  <2> HIDE DEF it
  <2> QED
    BY <1>1, <2>1
<1> HIDE DEF it
<1>4. PICK u : OnWay(t, h, key, L, u)
  BY <1>1, <1>2, Ways
<1>5. u \in Trees[0] /\ u.node = n /\ x \in u.holds /\ 0 \in 0 .. MaxHeight
  BY <1>1, <1>3, <1>4 DEF OnWay
<1>6. /\ u.holds = EntsIn(n.ents) /\ IsEnts(n.ents) /\ Ascending(n.ents) /\ n.ents # << >>
      /\ NKeys(n) = Len(n.ents) /\ NKeys(n) \in Nat /\ \A j \in 1 .. NKeys(n) : n.ents[j].k \in Nat
  BY <1>5, TreeNode, NodeFacts
<1>7. /\ i \in 1 .. NKeys(n)
      /\ i # 1 => n.ents[i].k <= key
      /\ \A j \in 1 .. NKeys(n) : i < j => key < n.ents[j].k
  <2> HIDE DEF n, key, i
  <2> DEFINE a == NodeLookupLE(n, key)
  <2>1. /\ a \in 1 .. NKeys(n)
        /\ a # 1 => n.ents[a].k <= key
        /\ \A j \in 1 .. NKeys(n) : a < j => key < n.ents[j].k
    BY <1>2, <1>6, LookupIs
  <2> QED
    BY <1>3, <2>1
<1>8. DerefKey(it) = n.ents[i].k
  <2>1. PICK v : Placed(t, h, it, L, v)
    BY <1>1, <1>3, PathPlaced
  <2> QED
    BY <1>3, <2>1, LeafKey
<1> HIDE DEF n, i
<1>9. PICK j \in 1 .. NKeys(n) : x = n.ents[j]
  BY <1>5, <1>6 DEF EntsIn
<1>10. n.ents[i].k = key
  <2>1. ~(i < j)
    BY <1>2, <1>7, <1>9
  <2>2. CASE i = j
    BY <1>9, <2>2
  <2>3. CASE i # j
    <3>1. j < i /\ i # 1
      BY <1>6, <1>7, <1>9, <2>1, <2>3
    <3>2. n.ents[j].k < n.ents[i].k /\ n.ents[i].k \in Nat
      BY <1>6, <1>7, <1>9, <3>1 DEF Ascending
    <3> QED
      BY <1>2, <1>7, <1>9, <3>1, <3>2
  <2> QED
    BY <2>2, <2>3
<1> QED
  BY <1>2, <1>3, <1>8, <1>10 DEF it

\* The keys in the leaves are those the tree holds.
LEMMA StoredAre ==
  ASSUME NEW h \in 0 .. MaxHeight, h < MaxHeight, NEW t \in Trees[h], t.node = root
  PROVE  /\ \A k \in StoredKeys : \E x \in t.holds : x.k = k
         /\ \A x \in t.holds : x.k \in StoredKeys
<1>1. MaxHeight \in Nat /\ h \in Nat /\ 0 \in 0 .. MaxHeight
  BY TreesStep
<1>2. ASSUME NEW k \in StoredKeys PROVE \E x \in t.holds : x.k = k
  <2>1. PICK n \in AllNodes : n.type = Leaf /\ \E i \in 1 .. NKeys(n) : k = n.ents[i].k
    BY DEF StoredKeys, Leaves
  <2>2. PICK l \in 1 .. MaxHeight : n \in Level(t.node)[l]
    <3>1. n \in UNION {Level(root)[l] : l \in 1 .. MaxHeight}
      BY Zenon DEF AllNodes, Nodes
    <3> QED
      BY <3>1
  <2>3. l <= h + 1 /\ \E u \in Trees[(h + 1) - l] : u.node = n /\ u.holds \subseteq t.holds
    BY <2>2, LevelHolds, SMTT(30)
  <2>4. PICK u \in Trees[(h + 1) - l] : u.node = n /\ u.holds \subseteq t.holds
    BY <2>3
  <2>5. (h + 1) - l \in 0 .. MaxHeight
    BY <1>1, <2>3
  <2>6. \A i \in 1 .. NKeys(u.node) : \E x \in u.holds : x.k = u.node.ents[i].k
    BY <2>5, <2>4, EntryKeys
  <2> QED
    BY <2>1, <2>4, <2>6
<1>3. ASSUME NEW x \in t.holds PROVE x.k \in StoredKeys
  <2> DEFINE it == SeekLE(t.node, x.k)
             n == it.path[h + 1]
             i == it.pos[h + 1]
  <2>1. Good(t, h, it, h + 1) /\ DerefKey(it) = x.k
    BY SeekFinds
  <2> HIDE DEF it
  <2>2. h + 1 \in 1 .. h + 1 /\ h + 1 \in 1 .. MaxHeight /\ (h + 1) - (h + 1) = 0
    BY <1>1
  <2>3. PICK v : Placed(t, h, it, h + 1, v)
    BY <2>1, <2>2, PathPlaced
  <2>4. i \in 1 .. NKeys(n) /\ x.k = n.ents[i].k
    BY <2>1, <2>3, LeafKey
  <2>5. n \in Level(root)[h + 1]
    BY <2>1, <2>2, PathInLevels
  <2>6. n.type = Leaf
    <3>1. v \in Trees[0] /\ v.node = n
      BY <2>2, <2>3 DEF Placed
    <3> QED
      BY <1>1, <3>1, TreeNode
  <2>7. n \in Leaves
    BY <2>2, <2>5, <2>6 DEF Leaves, AllNodes, Nodes
  <2>8. x.k \in {n.ents[j].k : j \in 1 .. NKeys(n)}
    BY <2>4
  <2> HIDE DEF n, i
  <2> QED
    BY <2>7, <2>8, Zenon DEF StoredKeys
<1> QED
  BY <1>2, <1>3

-----------------------------------------------------------------------------
(* Next and Prev.                                                           *)

\* The ends are where no level can move.
LEMMA Ends ==
  ASSUME NEW h \in 0 .. MaxHeight, NEW t \in Trees[h], NEW it, Good(t, h, it, h + 1)
  PROVE  /\ LastNode(it) <=> \A j \in 1 .. h + 1 : ~CanMove(it, j, FALSE)
         /\ StartNode(it) <=> \A j \in 1 .. h + 1 : ~CanMove(it, j, TRUE)
<1>1. it \in Iters(h + 1)
  BY DEF Good
<1>2. DOMAIN it.path = 1 .. h + 1
  BY <1>1, PathLen
<1>3. ASSUME NEW j \in 1 .. h + 1
      PROVE  /\ it.pos[j] = NKeys(it.path[j]) <=> ~CanMove(it, j, FALSE)
             /\ it.pos[j] = 1 <=> ~CanMove(it, j, TRUE)
  <2>1. (h + 1) - j \in 0 .. MaxHeight
    BY TreesStep
  <2>2. NKeys(it.path[j]) \in Nat /\ it.pos[j] \in 1 .. NKeys(it.path[j])
    BY <2>1, NodeFacts DEF Good
  <2> QED
    BY <2>2 DEF CanMove
<1> QED
  BY <1>2, <1>3 DEF LastNode, StartNode

\* Elsewhere there is a lowest level that can.
LEMMA SomeLowest ==
  ASSUME NEW L \in Nat, NEW it, NEW back \in BOOLEAN, \E j \in 1 .. L : CanMove(it, j, back)
  PROVE  \E d : Lowest(it, L, d, back)
<1> DEFINE T == {j \in 1 .. L : CanMove(it, j, back)}
<1>1. T # {} /\ \A j \in T : j \in Int /\ j <= L
  OBVIOUS
<1>2. L \in Int
  OBVIOUS
<1>3. PICK d \in T : \A j \in T : j <= d
  <2> HIDE DEF T
  <2> QED
    BY <1>1, <1>2, GreatestNat
<1>4. d \in 1 .. L /\ CanMove(it, d, back)
  OBVIOUS
<1>5. ASSUME NEW j \in d + 1 .. L PROVE ~CanMove(it, j, back)
  <2>1. j \in 1 .. L /\ ~(j <= d)
    BY <1>4
  <2> QED
    BY <1>3, <2>1
<1> QED
  BY <1>4, <1>5 DEF Lowest

\* The mark is set and taken away again.
LEMMA Remark ==
  ASSUME NEW L, NEW it \in Iters(L), it.valid = TRUE
  PROVE  [[it EXCEPT !.valid = FALSE] EXCEPT !.valid = TRUE] = it
<1> DEFINE x == [it EXCEPT !.valid = FALSE]
           y == [x EXCEPT !.valid = TRUE]
<1>1. x \in Iters(L) /\ x.path = it.path /\ x.pos = it.pos
  BY ValidFacts
<1> HIDE DEF x
<1>2. y \in Iters(L) /\ y.path = it.path /\ y.pos = it.pos /\ y.valid = TRUE
  BY <1>1, ValidFacts
<1> HIDE DEF y
<1>3. y = it
  BY <1>2, SameIter
<1> QED
  BY <1>3 DEF x, y

\* Prev undoes Next, and Next undoes Prev, at the ends too.
LEMMA UndoEachOther ==
  ASSUME NEW h \in 0 .. MaxHeight, NEW t \in Trees[h], NEW it, Good(t, h, it, h + 1), it.valid = TRUE
  PROVE  IteratePrev(IterateNext(it)) = it /\ IterateNext(IteratePrev(it)) = it
<1> DEFINE L == h + 1
<1>1. L \in Nat /\ it \in Iters(L)
  BY TreesStep DEF Good
<1>2. /\ LastNode(it) <=> \A j \in 1 .. L : ~CanMove(it, j, FALSE)
      /\ StartNode(it) <=> \A j \in 1 .. L : ~CanMove(it, j, TRUE)
  BY Ends
<1> DEFINE off == [it EXCEPT !.valid = FALSE]
<1>3. /\ off \in Iters(L) /\ off.path = it.path /\ off.pos = it.pos /\ off.valid = FALSE
      /\ [off EXCEPT !.valid = TRUE] = it
  BY <1>1, ValidFacts, Remark
<1> HIDE DEF off
<1>4. (LastNode(off) <=> LastNode(it)) /\ (StartNode(off) <=> StartNode(it))
  BY <1>3 DEF LastNode, StartNode
<1>5. IteratePrev(IterateNext(it)) = it
  <2>1. CASE LastNode(it)
    <3>1. IterateNext(it) = off
      BY <2>1 DEF IterateNext, off
    <3>2. IteratePrev(off) = [off EXCEPT !.valid = TRUE]
      BY <1>3, <1>4, <2>1 DEF IteratePrev
    <3> QED
      BY <1>3, <3>1, <3>2
  <2>2. CASE ~LastNode(it)
    <3>1. PICK d : Lowest(it, L, d, FALSE)
      <4>1. \E j \in 1 .. L : CanMove(it, j, FALSE)
        BY <1>2, <2>2, Zenon
      <4> QED
        BY <1>1, <4>1, SomeLowest
    <3> DEFINE x == Turned(it, FALSE)
    <3>2. /\ Good(t, h, x, L) /\ x.valid = it.valid
          /\ Lowest(x, L, d, ~FALSE) /\ Turned(x, ~FALSE) = it
      BY <3>1, TurnBack
    <3>3. IterateNext(it) = x
      BY <2>2 DEF IterateNext, Turned
    <3> HIDE DEF x
    <3>4. ~StartNode(x)
      <4>1. d \in 1 .. L /\ CanMove(x, d, TRUE)
        BY <3>2 DEF Lowest
      <4>2. StartNode(x) <=> \A j \in 1 .. h + 1 : ~CanMove(x, j, TRUE)
        BY <3>2, Ends
      <4> QED
        BY <4>1, <4>2, Zenon
    <3>5. IteratePrev(x) = IterPrev(x)
      BY <3>2, <3>4 DEF IteratePrev
    <3>6. IterPrev(x) = it
      BY <3>2 DEF Turned
    <3> QED
      BY <3>3, <3>5, <3>6
  <2> QED
    BY <2>1, <2>2
<1>6. IterateNext(IteratePrev(it)) = it
  <2>1. CASE StartNode(it)
    <3>1. IteratePrev(it) = off
      BY <2>1 DEF IteratePrev, off
    <3>2. IterateNext(off) = [off EXCEPT !.valid = TRUE]
      BY <1>3, <1>4, <2>1 DEF IterateNext
    <3> QED
      BY <1>3, <3>1, <3>2
  <2>2. CASE ~StartNode(it)
    <3>1. PICK d : Lowest(it, L, d, TRUE)
      <4>1. \E j \in 1 .. L : CanMove(it, j, TRUE)
        BY <1>2, <2>2, Zenon
      <4> QED
        BY <1>1, <4>1, SomeLowest
    <3> DEFINE x == Turned(it, TRUE)
    <3>2. /\ Good(t, h, x, L) /\ x.valid = it.valid
          /\ Lowest(x, L, d, ~TRUE) /\ Turned(x, ~TRUE) = it
      BY <3>1, TurnBack
    <3>3. IteratePrev(it) = x
      BY <2>2 DEF IteratePrev, Turned
    <3> HIDE DEF x
    <3>4. ~LastNode(x)
      <4>1. d \in 1 .. L /\ CanMove(x, d, FALSE)
        BY <3>2 DEF Lowest
      <4>2. LastNode(x) <=> \A j \in 1 .. h + 1 : ~CanMove(x, j, FALSE)
        BY <3>2, Ends
      <4> QED
        BY <4>1, <4>2, Zenon
    <3>5. IterateNext(x) = IterNext(x)
      BY <3>2, <3>4 DEF IterateNext
    <3>6. IterNext(x) = it
      BY <3>2 DEF Turned
    <3> QED
      BY <3>3, <3>5, <3>6
  <2> QED
    BY <2>1, <2>2
<1> QED
  BY <1>5, <1>6

(* Next and Prev walk the stored keys in order and undo each other, across  *)
(* leaves, across inner nodes and at both ends, from every key of every     *)
(* tree that insertions and deletions build (btree.go:562-620).             *)
THEOREM ScanWalksInOrder == ScanSpec => []WalksInOrder
<1>1. IInv => WalksInOrder
  <2> SUFFICES ASSUME IInv, fate = "sound", root # NoTree, NEW k \in StoredKeys
               PROVE  LET it == SeekLE(root, k)
                          greater == {j \in StoredKeys : j > k}
                      IN  /\ DerefKey(it) = k
                          /\ IF greater = {} THEN ~IterateNext(it).valid
                             ELSE /\ DerefKey(IterateNext(it)) \in greater
                                  /\ \A j \in greater : DerefKey(IterateNext(it)) <= j
                          /\ IteratePrev(IterateNext(it)) = it
                          /\ IterateNext(IteratePrev(it)) = it
    BY DEF WalksInOrder
  <2> DEFINE it == SeekLE(root, k)
             greater == {j \in StoredKeys : j > k}
  <2>1. root # Node(Leaf, << >>)
    <3> SUFFICES ASSUME root = Node(Leaf, << >>) PROVE FALSE
      OBVIOUS
    <3>1. root.type = Leaf /\ root.ents = << >> /\ NKeys(root) = 0
      BY DEF Node, NKeys
    <3>2. Kids(root) = {}
      BY <3>1 DEF Kids, Leaf, Inner
    <3>3. \A n \in AllNodes : n = root
      BY <3>2, ShallowLevels DEF AllNodes, Nodes
    <3> QED
      BY <3>1, <3>3 DEF StoredKeys, Leaves
  <2>2. PICK h \in 0 .. MaxHeight : h < MaxHeight /\ \E t \in Trees[h] : t.node = root
    BY <2>1 DEF IInv, Harmed, RootIs
  <2>3. PICK t \in Trees[h] : t.node = root
    BY <2>2
  <2>4. /\ \A j \in StoredKeys : \E x \in t.holds : x.k = j
        /\ \A x \in t.holds : x.k \in StoredKeys
    BY <2>2, <2>3, StoredAre
  <2>5. PICK x \in t.holds : x.k = k
    BY <2>4
  <2>6. k \in Nat /\ Good(t, h, it, h + 1) /\ it.valid = TRUE /\ DerefKey(it) = k
    <3>1. /\ x.k \in Nat /\ Good(t, h, SeekLE(t.node, x.k), h + 1) /\ SeekLE(t.node, x.k).valid = TRUE
          /\ DerefKey(SeekLE(t.node, x.k)) = x.k
      BY <2>2, SeekFinds
    <3> QED
      BY <2>3, <2>5, <3>1
  <2> HIDE DEF it
  <2>7. IteratePrev(IterateNext(it)) = it /\ IterateNext(IteratePrev(it)) = it
    BY <2>6, UndoEachOther
  <2>8. LastNode(it) <=> \A j \in 1 .. h + 1 : ~CanMove(it, j, FALSE)
    BY <2>6, Ends
  <2>9. \A j \in StoredKeys : j \in Nat
    <3>1. Sane(t, h)
      BY TreeNode
    <3> QED
      BY <2>4, <3>1, LeafEntries DEF Sane
  <2>10. CASE LastNode(it)
    <3>1. \A y \in t.holds : ~(k < y.k)
      BY <2>6, <2>8, <2>10, LastIsLast
    <3>2. greater = {}
      BY <2>4, <2>6, <2>9, <3>1
    <3>3. IterateNext(it) = [it EXCEPT !.valid = FALSE]
      BY <2>6, <2>10 DEF IterateNext
    <3>4. [it EXCEPT !.valid = FALSE].valid = FALSE
      <4>1. it \in Iters(h + 1)
        BY <2>6 DEF Good
      <4> QED
        BY <4>1, ValidFacts
    <3> HIDE DEF greater
    <3> QED
      BY <2>6, <2>7, <3>2, <3>3, <3>4 DEF it, greater
  <2>11. CASE ~LastNode(it)
    <3>1. PICK d : Lowest(it, h + 1, d, FALSE)
      <4>1. \E j \in 1 .. h + 1 : CanMove(it, j, FALSE)
        BY <2>8, <2>11, Zenon
      <4>2. h + 1 \in Nat
        BY TreesStep
      <4> QED
        BY <4>1, <4>2, SomeLowest
    <3> DEFINE new == IterateNext(it)
    <3>2. new = Turned(it, FALSE)
      BY <2>6, <2>11 DEF IterateNext, Turned
    <3>3. NextKey(t, it, Turned(it, FALSE))
      BY <2>6, <3>1, NextIsNext
    <3>4. NextKey(t, it, new)
      BY <3>2, <3>3
    <3> HIDE DEF new
    <3>5. /\ \E y \in t.holds : y.k = DerefKey(new)
          /\ k < DerefKey(new)
          /\ \A y \in t.holds : k < y.k => DerefKey(new) <= y.k
      BY <2>6, <3>4 DEF NextKey
    <3>6. DerefKey(new) \in greater
      BY <2>4, <2>6, <2>9, <3>5
    <3>7. ASSUME NEW j \in greater PROVE DerefKey(new) <= j
      <4>1. j \in StoredKeys /\ k < j
        BY <2>6, <2>9
      <4> QED
        BY <2>4, <3>5, <4>1
    <3> HIDE DEF greater
    <3>8. greater # {}
      BY <3>6
    <3> QED
      BY <2>6, <2>7, <3>6, <3>7, <3>8 DEF it, greater, new
  <2> QED
    BY <2>10, <2>11
<1>2. ScanInv => IInv
  BY DEF ScanInv
<1> QED
  BY <1>1, <1>2, ScanInvariant, PTL
=============================================================================
