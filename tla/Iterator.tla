------------------------------ MODULE Iterator ------------------------------
(***************************************************************************)
(* BIter of storage/btree.go: a position in a tree as the path of nodes    *)
(* from the root to a leaf with an index in each, and the flag valid that  *)
(* tells the first and the last entry from the places before and after     *)
(* them. Trees are the values of BTree; positions count from 1.            *)
(***************************************************************************)
EXTENDS BTree

\* BTree.SeekLE, on a tree whose nodes have entries: the path to the last key
\* up to key, or to the first key of all.
SeekLE(n, key) ==
  LET way == Path(n, key)
      leafLevel == CHOOSE l \in 1 .. MaxHeight :
                     ~HasKids(way[l]) /\ \A j \in 1 .. l - 1 : HasKids(way[j])
      levels == IF n = NoTree THEN 0 ELSE leafLevel
  IN  [path |-> [l \in 1 .. levels |-> way[l]],
       pos |-> [l \in 1 .. levels |-> NodeLookupLE(way[l], key)],
       valid |-> TRUE]

\* getptr is fatal on a node without entries.
SeekFatal(n, key) == n # NoTree /\ Path(n, key)[MaxHeight].ents = << >>

\* BIter.Deref does not look at valid. Nil is the answer on a tree without root.
DerefKey(it) ==
  IF it.path = << >> THEN Nil
  ELSE LET l == Len(it.path) IN it.path[l].ents[it.pos[l]].k

\* BIter.Valid: the index is always within the leaf.
IterValid(it) == it.valid /\ it.path # << >>

LastNode(it) == \A l \in DOMAIN it.path : it.pos[l] = NKeys(it.path[l])
StartNode(it) == \A l \in DOMAIN it.path : it.pos[l] = 1

\* The kid that level points to takes the next place of the path, if there is
\* one, at its first or at its last entry.
ReloadKid(it, level, atEnd) ==
  IF level = Len(it.path) THEN it
  ELSE LET kid == it.path[level].ents[it.pos[level]].p
       IN  [it EXCEPT !.path[level + 1] = kid,
                      !.pos[level + 1] = IF atEnd THEN NKeys(kid) ELSE 1]

\* A plausible slip in iterNext: the kid is loaded and the index in it is kept.
IterNextKeepsPos(it) ==
  LET Move(l) == [it EXCEPT !.pos[l] = @ + 1]
      Load(l) == IF l = Len(it.path) THEN Move(l)
                 ELSE [Move(l) EXCEPT !.path[l + 1] = it.path[l].ents[it.pos[l] + 1].p]
      next[l \in 1 .. Len(it.path)] ==
        IF it.pos[l] < NKeys(it.path[l]) THEN Load(l)
        ELSE IF l > 1 THEN next[l - 1]
        ELSE [it EXCEPT !.valid = FALSE]
  IN  next[Len(it.path)]

\* iterNext, called with the last level: a level that is at its end moves the
\* level above, which loads this one anew. At the end of the root nothing moves,
\* but the levels below the second are still loaded anew.
IterNext(it) ==
  LET next[l \in 1 .. Len(it.path)] ==
        IF it.pos[l] < NKeys(it.path[l])
        THEN ReloadKid([it EXCEPT !.pos[l] = @ + 1], l, FALSE)
        ELSE IF l > 1 THEN ReloadKid(next[l - 1], l, FALSE)
        ELSE [it EXCEPT !.valid = FALSE]
  IN  next[Len(it.path)]

IterPrev(it) ==
  LET prev[l \in 1 .. Len(it.path)] ==
        IF it.pos[l] > 1
        THEN ReloadKid([it EXCEPT !.pos[l] = @ - 1], l, TRUE)
        ELSE IF l > 1 THEN ReloadKid(prev[l - 1], l, TRUE)
        ELSE [it EXCEPT !.valid = FALSE]
  IN  prev[Len(it.path)]

\* A plausible slip in Next: out of range is always taken for before the first.
IterateNextRevives(it) ==
  IF LastNode(it) /\ it.valid THEN [it EXCEPT !.valid = FALSE]
  ELSE IF ~it.valid THEN [it EXCEPT !.valid = TRUE]
  ELSE IterNext(it)

IterateNext(it) ==
  IF LastNode(it) /\ it.valid THEN [it EXCEPT !.valid = FALSE]
  ELSE IF StartNode(it) /\ ~it.valid THEN [it EXCEPT !.valid = TRUE]
  ELSE IterNext(it)

\* A plausible slip in Prev: the place after the last entry is not told apart.
IteratePrevPlain(it) ==
  IF StartNode(it) /\ it.valid THEN [it EXCEPT !.valid = FALSE]
  ELSE IterPrev(it)

IteratePrev(it) ==
  IF StartNode(it) /\ it.valid THEN [it EXCEPT !.valid = FALSE]
  ELSE IF LastNode(it) /\ ~it.valid THEN [it EXCEPT !.valid = TRUE]
  ELSE IterPrev(it)
=============================================================================
