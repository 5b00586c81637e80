------------------------------- MODULE BTree -------------------------------
(***************************************************************************)
(* The B+tree of storage/btree.go: Insert, Delete and GetVal along the     *)
(* path of a key, on trees as values. The recursion of the code goes down  *)
(* the path and rebuilds it on the way back: both ways are functions of    *)
(* the level, with the root at level 1.                                    *)
(*                                                                         *)
(* The first insertion makes a leaf whose first entry has the empty key,   *)
(* so that every key has an entry below it. When a root that is a leaf is  *)
(* split, that entry is taken out again; the code does not look whether it *)
(* is there.                                                               *)
(***************************************************************************)
EXTENDS BNode, FiniteSets

CONSTANTS Key,       \* keys of the caller: naturals from 1 on
          Value,     \* values of the caller
          MaxHeight  \* bound on the levels of a tree

Absent == "absent"
NoTree == Node("none", << >>)

ASSUME BTreeAssumption ==
  /\ Key \subseteq Nat \ {0}
  /\ KeyLen \in [Key \union {0} -> Nat] /\ KeyLen[0] = 0
  /\ \A k \in Key : KeyLen[k] > 0
  /\ ValLen \in [Value -> Nat]
  /\ Nil \notin Value /\ Absent \notin Value
  \* MAXKEYLEN and MAXVALLEN (4 + 14 + 14 + 1000 + 3000 bytes of 4096): an entry fits a
  \* page next to that of the empty key, and so do three keys.
  /\ \A k \in Key, v \in Value : Header + 2 * Slot + KeyLen[k] + ValLen[v] <= PageSize
  /\ \A k \in Key : Header + 3 * (Slot + KeyLen[k]) <= PageSize
  /\ MaxHeight \in Nat \ {0}

VARIABLES root,     \* the tree, or NoTree for root 0
          content,  \* what has been stored: Absent is no value
          small,    \* has a tree of several levels shrunk to a single leaf?
          fate      \* "sound", or how the tree came to harm

vars == <<root, content, small, fate>>

Fates == {"sound",
          "dropped",   \* a key was lost in the split of a root
          "kidless",   \* the root is an inner node without kids: getptr(0) is fatal
          "bounds",    \* log.Fatalf on an index out of bounds
          "overflow",  \* a node was written past the end of its page
          "assert"}    \* the assertion of nodeSplit3 failed

-----------------------------------------------------------------------------
(* The way down.                                                            *)

HasKids(n) == n.type = Inner /\ n.ents # << >>

\* The nodes from n on that key leads to, by level. A way that has come to its
\* end, a leaf, stays there.
Path(n, key) ==
  LET path[l \in 1 .. MaxHeight] ==
        IF l = 1 THEN n
        ELSE IF ~HasKids(path[l - 1]) THEN path[l - 1]
        ELSE path[l - 1].ents[NodeLookupLE(path[l - 1], key)].p
  IN  path

\* Trees of more levels are beyond the bound.
WithinHeight(n) == ~HasKids(Path(n, 0)[MaxHeight])

-----------------------------------------------------------------------------
(* Insertion.                                                               *)

\* nodeInsert, once the kid has become kid, not split yet.
NodeInsert(n, i, kid) ==
  LET kids == IF IsFatal(kid) THEN <<kid>> ELSE NodeSplit3(kid)
  IN  IF IsFatal(kids[1]) THEN kids[1] ELSE NodeReplaceKidN(n, i, kids)

\* treeInsert: the node, not split yet, that replaces n.
TreeInsert(n, key, val) ==
  LET path == Path(n, key)
      new[l \in 1 .. MaxHeight] ==
        IF path[l].type = Leaf THEN LeafPut(path[l], key, val)
        ELSE IF l = MaxHeight \/ path[l].ents = << >> THEN Fatal("bounds")
        ELSE NodeInsert(path[l], NodeLookupLE(path[l], key), new[l + 1])
  IN  new[1]

\* A plausible slip in Insert: the first leaf is made without the empty key.
FirstLeafPlain(key, val) == Node(Leaf, <<Entry(key, val, Nil)>>)

FirstLeaf(key, val) == Node(Leaf, <<Entry(0, Nil, Nil), Entry(key, val, Nil)>>)

\* The new root over the parts of the old one. The first part of a leaf loses
\* its first entry, whatever that is.
NewRoot(old, parts) ==
  LET trimmed == [parts EXCEPT ![1] = Node(parts[1].type, Tail(parts[1].ents))]
      kids == IF old.type = Leaf THEN trimmed ELSE parts
  IN  Node(Inner, [i \in 1 .. Len(kids) |-> KidEntry(kids[i])])

\* BTree.Insert.
Inserted(r, key, val) ==
  IF r = NoTree THEN FirstLeaf(key, val)
  ELSE LET n == TreeInsert(r, key, val)
           parts == IF IsFatal(n) THEN <<n>> ELSE NodeSplit3(n)
       IN  IF Len(parts) = 1 THEN parts[1] ELSE NewRoot(r, parts)

-----------------------------------------------------------------------------
(* Deletion.                                                                *)

NotFound == Node("notFound", << >>)

\* What nodeDelete does once the kid has become updated: merge it with a sibling, let the
\* node go empty with its only kid, or put the kid back.
WithUpdatedKid(n, i, updated) ==
  LET dir == ShouldMerge(n, i, updated) IN
  CASE dir = -1 -> NodeReplace2Kid(n, i - 1, NodeMerge(n.ents[i - 1].p, updated))
    [] dir = 1 -> NodeReplace2Kid(n, i, NodeMerge(updated, n.ents[i + 1].p))
    [] dir = 0 /\ updated.ents = << >> -> Node(Inner, << >>)
    [] OTHER -> NodeReplaceKidN(n, i, <<updated>>)

\* nodeDelete, with what treeDelete made of the kid.
NodeDelete(n, i, updated) ==
  IF updated = NotFound \/ IsFatal(updated) THEN updated
  ELSE InOnePage(WithUpdatedKid(n, i, updated))

\* treeDelete: the node that replaces n, or NotFound.
TreeDelete(n, key) ==
  LET path == Path(n, key)
      at(l) == NodeLookupLE(path[l], key)
      new[l \in 1 .. MaxHeight] ==
        IF path[l].type = Leaf
        THEN IF path[l].ents # << >> /\ path[l].ents[at(l)].k = key
             THEN LeafDelete(path[l], at(l)) ELSE NotFound
        ELSE IF l = MaxHeight \/ path[l].ents = << >> THEN Fatal("bounds")
        ELSE NodeDelete(path[l], at(l), new[l + 1])
  IN  new[1]

\* BTree.Delete on a tree that has the key: a root with one kid gives way to it.
Deleted(n) == IF n.type = Inner /\ NKeys(n) = 1 THEN n.ents[1].p ELSE n

-----------------------------------------------------------------------------
(* Pages: how many more were asked of BTree.new than given to BTree.del.    *)

\* A plausible slip in nodeInsert: the page of the old kid is not given back.
KidPagesKept(parts) == Len(parts)

\* nodeInsert: the kid's page goes, its parts come.
KidPages(parts) == Len(parts) - 1

\* The levels below which Path(n, key) goes on.
InnerLevels(n, key) == {l \in 1 .. MaxHeight - 1 : HasKids(Path(n, key)[l])}

TakenBelow(n, key, val) ==
  MapThenSumSet(LAMBDA l : KidPages(NodeSplit3(TreeInsert(Path(n, key)[l + 1], key, val))),
                InnerLevels(n, key))

\* Insert: a root that is a leaf is not given back.
TakenInserting(r, key, val) ==
  IF r = NoTree THEN 1
  ELSE LET parts == NodeSplit3(TreeInsert(r, key, val))
       IN  TakenBelow(r, key, val) - (IF r.type = Leaf THEN 0 ELSE 1)
             + Len(parts) + (IF Len(parts) > 1 THEN 1 ELSE 0)

\* nodeDelete: a merge gives back the sibling and takes a page; a kid that went
\* empty takes none; the page of the old kid is never given back.
TakenDeleting(n, key) ==
  LET path == Path(n, key)
      taken(l) ==
        LET updated == TreeDelete(path[l + 1], key)
            merges == ShouldMerge(path[l], NodeLookupLE(path[l], key), updated) # 0
        IN  IF merges \/ updated.ents = << >> THEN 0 ELSE 1
  IN  MapThenSumSet(taken, InnerLevels(n, key))

\* Delete: the root is given back; its only kid needs no page as the new one.
TakenByDelete(r, key) ==
  LET new == TreeDelete(r, key)
  IN  TakenDeleting(r, key) - (IF new.type = Inner /\ NKeys(new) = 1 THEN 1 ELSE 0)

-----------------------------------------------------------------------------
(* Lookup: BTree.GetVal with getVal, on a tree whose inner nodes have kids.  *)

GetVal(n, key) ==
  LET leaf == Path(n, key)[MaxHeight]
      i == NodeLookupLE(leaf, key)
  IN  IF n # NoTree /\ leaf.ents # << >> /\ leaf.ents[i].k = key THEN leaf.ents[i].v ELSE Absent

-----------------------------------------------------------------------------
(* The tree over time.                                                      *)

Init ==
  /\ root = NoTree
  /\ content = [k \in Key |-> Absent]
  /\ small = FALSE
  /\ fate = "sound"

\* A root that is a leaf without the empty key is split: an entry is lost.
DropsKey(old, new) ==
  old # NoTree /\ old.type = Leaf /\ FirstKey(old) # 0 /\ new.type = Inner

Insert(k, v) ==
  \E new \in {Inserted(root, k, v)} :
  /\ fate = "sound"
  /\ WithinHeight(new)
  /\ content' = [content EXCEPT ![k] = v]
  /\ UNCHANGED small
  /\ IF IsFatal(new) THEN fate' = new.type /\ UNCHANGED root
     ELSE /\ fate' = IF DropsKey(root, new) THEN "dropped" ELSE fate
          /\ root' = new

\* Delete panics on root 0: Commit's caller sees to that (Transactions).
Delete(k) ==
  LET new == TreeDelete(root, k) IN
  /\ fate = "sound"
  /\ root # NoTree
  /\ new # NotFound
  /\ content' = [content EXCEPT ![k] = Absent]
  /\ IF IsFatal(new) THEN fate' = new.type /\ UNCHANGED <<root, small>>
     ELSE /\ root' = Deleted(new)
          /\ small' = (small \/ (root.type = Inner /\ Deleted(new).type = Leaf))
          /\ fate' = IF Deleted(new) = Node(Inner, << >>) THEN "kidless" ELSE fate

Next ==
  \/ \E k \in Key, v \in Value : Insert(k, v)
  \/ \E k \in Key : Delete(k)

Spec == Init /\ [][Next]_vars

-----------------------------------------------------------------------------
(* Properties.                                                              *)

Kids(n) == IF n.type = Inner THEN {n.ents[i].p : i \in 1 .. NKeys(n)} ELSE {}

\* The nodes of a tree by level.
Level(n) ==
  LET level[l \in 1 .. MaxHeight] ==
        IF n = NoTree THEN {} ELSE IF l = 1 THEN {n} ELSE UNION {Kids(m) : m \in level[l - 1]}
  IN  level

Nodes(n) == UNION {Level(n)[l] : l \in 1 .. MaxHeight}

AllNodes == Nodes(root)

TypeOK ==
  /\ content \in [Key -> Value \union {Absent}]
  /\ fate \in Fates
  /\ \A n \in AllNodes : ~IsFatal(n) /\ NBytes(n) <= PageSize

(* What is in the tree is what was stored, for every key: through splits,   *)
(* merges, roots that grow and shrink and separators that move, lookups     *)
(* (btree.go:423-446) find exactly the last value of every key.             *)
HoldsContent ==
  fate = "sound" => \A k \in Key : GetVal(root, k) = content[k]

(* The shape lookups, iterators and merges rely on: keys ascend in every    *)
(* node, an inner node repeats the first key of each kid (btree.go:232,     *)
(* 240, 479), and all leaves are at one level.                              *)
Ordered ==
  fate = "sound" =>
    /\ \A l \in 1 .. MaxHeight : \A m, n \in Level(root)[l] : m.type = n.type
    /\ \A n \in AllNodes :
      /\ \A i \in 1 .. NKeys(n) - 1 : n.ents[i].k < n.ents[i + 1].k
      /\ n.type = Inner =>
           \A i \in 1 .. NKeys(n) :
             n.ents[i].k = FirstKey(n.ents[i].p)

(* The binary search finds the last key up to the one it looks for, on      *)
(* every node the operations build (btree.go:132-152).                      *)
LookupFindsLast ==
  \A n \in AllNodes, k \in Key : NodeLookupLE(n, k) = LastUpTo(n, k)

\* Is there an entry of more than half a page among those stored?
HoldsLarge ==
  \E k \in Key :
    content[k] # Absent /\ 2 * EntryBytes(Entry(k, content[k], Nil)) > PageSize

(* A tree that was never reduced to a single leaf, or to nothing, loses no  *)
(* key, and no index is out of bounds: both need a root that is a leaf and  *)
(* has lost its empty first key (btree.go:205-210, 471-476). What is left   *)
(* is a separator that grows in a full node when Delete moves it            *)
(* (btree.go:400, 418) and, as long as an entry of more than half a page is *)
(* stored, the assertion on a left part split again (btree.go:312).         *)
SoundUntilSmall ==
  /\ ~small => fate \in {"sound", "overflow", "kidless", "assert"}
  /\ fate = "assert" => HoldsLarge

\* The keys stored, the next greater one, and the bytes a node takes when the key
\* of one of its entries gives way to another.
Stored == {k \in Key : content[k] # Absent}
NextStored(k) == {j \in Stored : j > k /\ \A i \in Stored : i > k => j <= i}
BytesWith(n, old, new) == NBytes(n) - KeyLen[old] + KeyLen[new]
Separates(n, k) == n.type = Inner /\ \E i \in 1 .. NKeys(n) : n.ents[i].k = k

(* No insertion writes past a page, whatever it splits, and no deletion but *)
(* one of a key that is a separator in a node that has no room for the next *)
(* greater key in its place: that is the one way to the overflow of         *)
(* nodeDelete, which splits nothing (btree.go:397-421).                     *)
OverflowsBySeparator ==
  [][fate = "sound" /\ fate' = "overflow" =>
       \E k \in Stored : /\ content'[k] = Absent
                        /\ \E n \in AllNodes, j \in NextStored(k) :
                             Separates(n, k) /\ BytesWith(n, k, j) > PageSize]_vars

\* Every node has a page of its own: no two nodes of a tree are equal.
PagesOf(n) == Cardinality(Nodes(n))

Depth(n) == Cardinality({l \in 1 .. MaxHeight : Level(n)[l] # {}})

(* Pages that are neither in the tree nor given back are lost for good.     *)
(* Insert loses the old root when that is a leaf, and no page otherwise;    *)
(* Delete loses one page for every level below the root, whatever is merged *)
(* or goes empty on the way (btree.go:399, 462, 487-506).                   *)
LosesPages ==
  [][LET k == CHOOSE k \in Key : content'[k] # content[k]
         grown == PagesOf(root') - PagesOf(root)
     IN  content' # content /\ fate' = "sound" =>
           IF content'[k] = Absent
           THEN TakenByDelete(root, k) - grown = Depth(root) - 1
           ELSE TakenInserting(root, k, content'[k]) - grown
                  = IF root # NoTree /\ root.type = Leaf THEN 1 ELSE 0]_vars

(* README.md:10: "Native B+Tree implementation handling splits, merges, and *)
(* leaf updates". An insertion that splits the root loses no key.           *)
KeepsKeys ==
  fate \in {"sound", "dropped"} => \A k \in Key : GetVal(root, k) = content[k]
=============================================================================
