------------------------------- MODULE BNode -------------------------------
(***************************************************************************)
(* The nodes of storage/btree.go and the functions on one node: lookup,    *)
(* insertion, update and removal of an entry, replacing kids, splitting    *)
(* and merging.                                                            *)
(*                                                                         *)
(* A node is its type and its sequence of entries [k, v, p]; the byte      *)
(* layout (header, pointers, offsets, key and value lengths) is kept only  *)
(* as the number of bytes it takes, which is what splitting and merging    *)
(* decide on. Keys are naturals in the order of their bytes; 0 is the      *)
(* empty key. p is the kid of an inner node: trees are values here, and    *)
(* what BTree.new, get and del do with pages is Pager's subject.           *)
(*                                                                         *)
(* Positions count from 1; the code counts from 0.                         *)
(***************************************************************************)
EXTENDS Integers, Sequences, SequencesExt

CONSTANTS KeyLen,    \* KeyLen[k]: length of key k, 0 for the empty key
          ValLen,    \* ValLen[v]: length of value v
          PageSize,  \* PAGE_SIZE
          Header,    \* HEADER
          Slot,      \* POINTER + OFFSET + KVHEADER: bytes per entry besides k and v
          Nil        \* no value, no kid

\* HEADER is 4 bytes, an entry takes 14 besides its key and value, a page is 4096.
ASSUME BNodeAssumption ==
  /\ {PageSize, Header, Slot} \subseteq Nat
  /\ Header <= Slot /\ 0 < Slot /\ 4 * Header < PageSize
  /\ \A k \in DOMAIN KeyLen : k \in Nat /\ KeyLen[k] \in Nat
  /\ \A v \in DOMAIN ValLen : ValLen[v] \in Nat

Leaf == "leaf"
Inner == "inner"
Entry(k, v, p) == [k |-> k, v |-> v, p |-> p]
Node(type, ents) == [type |-> type, ents |-> ents]
NKeys(n) == Len(n.ents)

\* The process ended inside the operation: log.Fatalf on an index out of bounds,
\* a failed assert, or a node written past the end of its buffer.
Fatal(why) == Node(why, << >>)
IsFatal(n) == n.type \notin {Leaf, Inner}

EntryBytes(e) == Slot + KeyLen[e.k] + (IF e.v = Nil THEN 0 ELSE ValLen[e.v])
SumBytes(ents) ==
  LET sum[i \in 0 .. Len(ents)] == IF i = 0 THEN 0 ELSE sum[i - 1] + EntryBytes(ents[i])
  IN  sum[Len(ents)]
NBytes(n) == Header + SumBytes(n.ents)

\* The key of a node's first entry; an empty node reads as zeroes.
FirstKey(n) == IF n.ents = << >> THEN 0 ELSE n.ents[1].k

-----------------------------------------------------------------------------
(* nodeLookupLE.                                                            *)

\* The position nodeLookupLE is to find: the last entry with a key up to key,
\* or the first entry when there is none.
LastUpTo(n, key) ==
  LET le == {i \in 2 .. NKeys(n) : n.ents[i].k <= key}
  IN  IF le = {} THEN 1 ELSE CHOOSE i \in le : \A j \in le : j <= i

\* A plausible slip in the loop: a key that compares less is not remembered.
HalveForgets(n, key, s) ==
  LET mid == s.low + (s.high - s.low) \div 2
      k == n.ents[mid].k
  IN  IF s.low >= s.high THEN s
      ELSE IF k = key THEN [low |-> mid, high |-> mid, found |-> mid]
      ELSE IF k < key THEN [s EXCEPT !.low = mid + 1]
      ELSE [s EXCEPT !.high = mid]

\* A round of the binary search: entries from low up to but not including high
\* are open. Once none is, or the key was met, nothing changes any more.
Halve(n, key, s) ==
  LET mid == s.low + (s.high - s.low) \div 2
      k == n.ents[mid].k
  IN  IF s.low >= s.high THEN s
      ELSE IF k = key THEN [low |-> mid, high |-> mid, found |-> mid]
      ELSE IF k < key THEN [s EXCEPT !.low = mid + 1, !.found = mid]
      ELSE [s EXCEPT !.high = mid]

\* There are fewer rounds than entries.
NodeLookupLE(n, key) ==
  LET round[i \in 0 .. NKeys(n)] ==
        IF i = 0 THEN [low |-> 2, high |-> NKeys(n) + 1, found |-> 1]
        ELSE Halve(n, key, round[i - 1])
  IN  round[NKeys(n)].found

-----------------------------------------------------------------------------
(* One entry of a leaf.                                                     *)

\* A plausible slip in treeInsert: a key below the first is not put in front.
LeafPutAfter(n, key, val) ==
  LET i == NodeLookupLE(n, key)
      e == Entry(key, val, Nil)
  IN  IF n.ents = << >> THEN Fatal("bounds")
      ELSE IF n.ents[i].k = key THEN Node(Leaf, ReplaceAt(n.ents, i, e))
      ELSE Node(Leaf, InsertAt(n.ents, i + 1, e))

\* The leaf case of treeInsert, with leafUpdate and leafInsert. An empty leaf
\* has no entry to insert after: nodeAppendRange is out of bounds.
LeafPut(n, key, val) ==
  LET i == NodeLookupLE(n, key)
      e == Entry(key, val, Nil)
  IN  IF n.ents = << >> THEN Fatal("bounds")
      ELSE IF n.ents[i].k = key THEN Node(Leaf, ReplaceAt(n.ents, i, e))
      ELSE IF i = 1 /\ key < n.ents[1].k THEN Node(Leaf, <<e>> \o n.ents)
      ELSE Node(Leaf, InsertAt(n.ents, i + 1, e))

LeafDelete(n, i) == Node(Leaf, RemoveAt(n.ents, i))

-----------------------------------------------------------------------------
(* The kids of an inner node.                                               *)

KidEntry(kid) == Entry(FirstKey(kid), Nil, kid)

\* A plausible slip in nodeReplaceKidN: the first kid keeps the old separator.
ReplaceKeepsKey(n, i, kids) ==
  Node(Inner, SubSeq(n.ents, 1, i - 1)
                \o [j \in 1 .. Len(kids) |->
                      IF j = 1 THEN Entry(n.ents[i].k, Nil, kids[1]) ELSE KidEntry(kids[j])]
                \o SubSeq(n.ents, i + 1, NKeys(n)))

\* nodeReplaceKidN: kid i gives way to the given ones.
NodeReplaceKidN(n, i, kids) ==
  Node(Inner, SubSeq(n.ents, 1, i - 1)
                \o [j \in 1 .. Len(kids) |-> KidEntry(kids[j])]
                \o SubSeq(n.ents, i + 1, NKeys(n)))

\* A plausible slip in nodeReplace2Kid: the right one of the two kids stays.
Replace2KeepsRight(n, i, merged) ==
  Node(n.type, SubSeq(n.ents, 1, i - 1) \o <<KidEntry(merged)>>
                 \o SubSeq(n.ents, i + 1, NKeys(n)))

\* nodeReplace2Kid: kids i and i + 1 give way to the merged one.
NodeReplace2Kid(n, i, merged) ==
  Node(n.type, SubSeq(n.ents, 1, i - 1) \o <<KidEntry(merged)>>
                 \o SubSeq(n.ents, i + 2, NKeys(n)))

NodeMerge(left, right) == Node(left.type, left.ents \o right.ents)

\* A node made in a buffer of one page.
InOnePage(n) == IF NBytes(n) > PageSize THEN Fatal("overflow") ELSE n

-----------------------------------------------------------------------------
(* Splitting.                                                               *)

\* How many entries nodeSplit2 leaves on the left: up to twice a page, as many
\* as it takes to reach half the bytes; beyond, all but what fills a page from
\* the right.
SplitPoint(n) ==
  LET left[i \in 0 .. NKeys(n)] == Header + SumBytes(SubSeq(n.ents, 1, i))
      right[i \in 0 .. NKeys(n)] == Header + SumBytes(SubSeq(n.ents, i + 1, NKeys(n)))
  IN  IF NBytes(n) > 2 * PageSize
      THEN 1 + CHOOSE i \in 0 .. NKeys(n) :
             /\ right[i] >= PageSize \/ i = 0
             /\ \A j \in i + 1 .. NKeys(n) : right[j] < PageSize
      ELSE CHOOSE i \in 0 .. NKeys(n) :
             /\ left[i] >= NBytes(n) \div 2 \/ i = NKeys(n)
             /\ \A j \in 0 .. i - 1 : left[j] < NBytes(n) \div 2

LeftOf(n) == Node(n.type, SubSeq(n.ents, 1, SplitPoint(n)))
RightOf(n) == Node(n.type, SubSeq(n.ents, SplitPoint(n) + 1, NKeys(n)))

\* A plausible slip in nodeSplit3: the left part is taken to fit.
SplitOnce(n) == IF NBytes(n) <= PageSize THEN <<n>> ELSE <<LeftOf(n), RightOf(n)>>

\* nodeSplit3: the nodes of one page that n becomes. The left part of a split
\* may still be too large and is split once more; the assertion is about the
\* left part of that split.
NodeSplit3(n) ==
  IF NBytes(n) <= PageSize THEN <<n>>
  ELSE LET left == LeftOf(n) IN
       IF NBytes(left) <= PageSize THEN <<left, RightOf(n)>>
       ELSE IF NBytes(LeftOf(left)) > PageSize THEN <<Fatal("assert")>>
       ELSE <<LeftOf(left), RightOf(left), RightOf(n)>>

-----------------------------------------------------------------------------
(* Merging.                                                                 *)

\* shouldMerge: -1 and 1 for the left and the right sibling of kid i of node n,
\* 0 for neither, when kid i has become updated.
ShouldMerge(n, i, updated) ==
  LET fits(j) == NBytes(n.ents[j].p) + NBytes(updated) - Header <= PageSize
  IN  IF NBytes(updated) > PageSize \div 4 THEN 0
      ELSE IF i > 1 /\ fits(i - 1) THEN -1
      ELSE IF i < NKeys(n) /\ fits(i + 1) THEN 1
      ELSE 0
=============================================================================
