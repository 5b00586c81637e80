-------------------------- MODULE PageStoreProofs --------------------------
(***************************************************************************)
(* What the operators of PageStore do to the free list, for every capacity *)
(* of a list node, every store and every file.                             *)
(*                                                                         *)
(* The list of a store is described by two functions: N from the numbers   *)
(* of its nodes to their pages, and E from the sequence numbers of its     *)
(* entries to the free pages. Nodes are numbered by NodeNo, so taking an   *)
(* entry off the head or putting one at the tail renumbers nothing. Every  *)
(* call of the allocator is a sequence of a few steps (an entry taken off  *)
(* the head, a slot written, a node linked, a page appended...), and there *)
(* is one lemma for what each step does to N, E and the pages outside.     *)
(***************************************************************************)
EXTENDS PageStore, LeastElement, TLAPS

-----------------------------------------------------------------------------
(* Numbers.                                                                 *)

\* Where the entry with sequence number s stands.
LEMMA Positions ==
  ASSUME NEW s \in Nat
  PROVE  /\ NodeNo(s) \in Nat /\ SeqIdx(s) \in Slots /\ SeqIdx(s) \in Nat
         /\ SeqIdx(s + 1) = 0 => NodeNo(s + 1) = NodeNo(s) + 1
         /\ SeqIdx(s + 1) # 0 => NodeNo(s + 1) = NodeNo(s)
         /\ SeqIdx(s + 1) = 0 => SeqIdx(s + 2) # 0 /\ SeqIdx(s) # 0
BY PageStoreAssumption DEF NodeNo, SeqIdx, Slots

\* No two entries stand in the same place, and later ones stand no earlier.
LEMMA PositionsApart ==
  ASSUME NEW s \in Nat, NEW t \in Nat
  PROVE  /\ NodeNo(s) = NodeNo(t) /\ SeqIdx(s) = SeqIdx(t) => s = t
         /\ s <= t => NodeNo(s) <= NodeNo(t)
         /\ s < t /\ SeqIdx(t) = 0 => NodeNo(s) < NodeNo(t)
BY PageStoreAssumption DEF NodeNo, SeqIdx, Slots

\* The first entry stands in slot 0 of node 0, and the second beside it.
LEMMA PositionZero ==
  NodeNo(0) = 0 /\ SeqIdx(0) = 0 /\ NodeNo(1) = 0 /\ SeqIdx(1) # 0
BY PageStoreAssumption DEF NodeNo, SeqIdx

-----------------------------------------------------------------------------
(* Pages and stores.                                                        *)

Number == Nat \union {Junk}
ListNodeSet == [next : Number, slots : [Slots -> Number]]

\* A page that reads as a node of the free list has a link and Cap slots.
IsContent(c) == IsListNode(c) => c \in ListNodeSet
IsFile(disk) == \A p \in DOMAIN disk : IsContent(disk[p])

IsStore(d) ==
  /\ DOMAIN d = {"flushed", "nappend", "updates", "headPage", "headSeq",
                 "tailPage", "tailSeq", "maxSeq"}
  /\ d.flushed \in Nat \ {0} /\ d.nappend \in Nat
  /\ d.headPage \in Number /\ d.tailPage \in Nat
  /\ d.headSeq \in Nat /\ d.tailSeq \in Nat /\ d.maxSeq \in Nat
  /\ \A p \in DOMAIN d.updates : IsContent(d.updates[p])

\* Page p as the list reads it.
View(d, disk, p) == AsList(PageRead(d, disk, p))

\* Zeroes and bytes that mean nothing have the shape of a list node.
LEMMA NodeShapes ==
  /\ Blank \in ListNodeSet /\ JunkNode \in ListNodeSet
  /\ \A c : c \in ListNodeSet => IsListNode(c) /\ IsContent(c)
  /\ \A c : IsContent(c) => AsList(c) \in ListNodeSet
  /\ \A c \in ListNodeSet : AsList(c) = c
<1>1. Blank \in ListNodeSet /\ JunkNode \in ListNodeSet
  BY DEF Blank, JunkNode, ListNode, ListNodeSet, Number
<1>2. \A c : c \in ListNodeSet => IsListNode(c) /\ IsContent(c)
  BY DEF ListNodeSet, IsListNode, IsContent
<1> QED
  BY <1>1, <1>2 DEF AsList, IsContent

\* What a read returns has the shape of a page, and its view that of a node.
LEMMA ReadShape ==
  ASSUME NEW d, IsStore(d), NEW disk, IsFile(disk), NEW p
  PROVE  /\ IsContent(PageRead(d, disk, p))
         /\ View(d, disk, p) \in ListNodeSet
BY NodeShapes DEF PageRead, IsStore, IsFile, View

\* Setting a page changes what that page reads as, and nothing else.
LEMMA SetPageStep ==
  ASSUME NEW d, IsStore(d), NEW p, NEW c, IsContent(c), NEW disk
  PROVE  LET e == SetPage(d, p, c) IN
         /\ IsStore(e)
         /\ e.flushed = d.flushed /\ e.nappend = d.nappend
         /\ e.headPage = d.headPage /\ e.tailPage = d.tailPage
         /\ e.headSeq = d.headSeq /\ e.tailSeq = d.tailSeq /\ e.maxSeq = d.maxSeq
         /\ DOMAIN e.updates = DOMAIN d.updates \union {p}
         /\ View(e, disk, p) = AsList(c)
         /\ \A q : q # p => View(e, disk, q) = View(d, disk, q)
BY DEF IsStore, SetPage, PageRead, View

\* An appended page reads as it was written.
LEMMA PageAppendStep ==
  ASSUME NEW d, IsStore(d), NEW c, IsContent(c), NEW disk
  PROVE  LET e == PageAppend(d, c) IN
         /\ IsStore(e)
         /\ e.flushed = d.flushed /\ e.nappend = d.nappend + 1
         /\ e.headPage = d.headPage /\ e.tailPage = d.tailPage
         /\ e.headSeq = d.headSeq /\ e.tailSeq = d.tailSeq /\ e.maxSeq = d.maxSeq
         /\ DOMAIN e.updates = DOMAIN d.updates \union {AppendPtr(d)}
         /\ AppendPtr(e) = AppendPtr(d) + 1 /\ AppendPtr(d) \in Nat
         /\ View(e, disk, AppendPtr(d)) = AsList(c)
         /\ \A q : q # AppendPtr(d) => View(e, disk, q) = View(d, disk, q)
<1> DEFINE f == SetPage(d, AppendPtr(d), c)
<1>1. /\ IsStore(f)
      /\ f.flushed = d.flushed /\ f.nappend = d.nappend
      /\ f.headPage = d.headPage /\ f.tailPage = d.tailPage
      /\ f.headSeq = d.headSeq /\ f.tailSeq = d.tailSeq /\ f.maxSeq = d.maxSeq
      /\ DOMAIN f.updates = DOMAIN d.updates \union {AppendPtr(d)}
      /\ View(f, disk, AppendPtr(d)) = AsList(c)
      /\ \A q : q # AppendPtr(d) => View(f, disk, q) = View(d, disk, q)
  BY SetPageStep
<1>2. PageAppend(d, c) = [f EXCEPT !.nappend = d.nappend + 1]
  BY DEF PageAppend
<1> HIDE DEF f
<1>3. \A q : View([f EXCEPT !.nappend = d.nappend + 1], disk, q) = View(f, disk, q)
  BY <1>1 DEF View, PageRead, IsStore
<1> QED
  BY <1>1, <1>2, <1>3 DEF IsStore, AppendPtr

\* The steps freePushTail is made of: a slot written and counted, a node linked.
PutSlot(d, disk, ptr) ==
  [PageWriteSlot(d, disk, d.tailPage, SeqIdx(d.tailSeq), ptr) EXCEPT !.tailSeq = @ + 1]
LinkTail(d, disk, next) ==
  [PageWriteNext(d, disk, d.tailPage, next) EXCEPT !.tailPage = next]

\* pageWrite and a store into one slot: the other slots and the link stay.
LEMMA PutSlotStep ==
  ASSUME NEW d, IsStore(d), NEW disk, IsFile(disk), NEW ptr \in Nat
  PROVE  LET e == PutSlot(d, disk, ptr)
             p == d.tailPage IN
         /\ IsStore(e)
         /\ e.flushed = d.flushed /\ e.nappend = d.nappend /\ e.maxSeq = d.maxSeq
         /\ e.headPage = d.headPage /\ e.tailPage = p
         /\ e.headSeq = d.headSeq /\ e.tailSeq = d.tailSeq + 1
         /\ DOMAIN e.updates = DOMAIN d.updates \union {p}
         /\ View(e, disk, p).next = View(d, disk, p).next
         /\ View(e, disk, p).slots[SeqIdx(d.tailSeq)] = ptr
         /\ \A j \in Slots : j # SeqIdx(d.tailSeq) =>
              View(e, disk, p).slots[j] = View(d, disk, p).slots[j]
         /\ \A q : q # p => View(e, disk, q) = View(d, disk, q)
<1> DEFINE p == d.tailPage
           i == SeqIdx(d.tailSeq)
           node == View(d, disk, p)
           c == [node EXCEPT !.slots[i] = ptr]
           f == SetPage(d, p, c)
<1>1. node \in ListNodeSet
  BY ReadShape
<1>2. d.tailSeq \in Nat /\ i \in Slots
  BY Positions DEF IsStore
<1> HIDE DEF i, node
<1>3. /\ c \in ListNodeSet
      /\ c.next = node.next /\ c.slots[i] = ptr
      /\ \A j \in Slots : j # i => c.slots[j] = node.slots[j]
  BY <1>1, <1>2 DEF ListNodeSet, Number
<1> HIDE DEF c
<1>4. IsContent(c) /\ AsList(c) = c
  BY <1>3, NodeShapes
<1>5. /\ IsStore(f)
      /\ f.flushed = d.flushed /\ f.nappend = d.nappend
      /\ f.headPage = d.headPage /\ f.tailPage = d.tailPage
      /\ f.headSeq = d.headSeq /\ f.tailSeq = d.tailSeq /\ f.maxSeq = d.maxSeq
      /\ DOMAIN f.updates = DOMAIN d.updates \union {p}
      /\ View(f, disk, p) = c
      /\ \A q : q # p => View(f, disk, q) = View(d, disk, q)
  BY <1>4, SetPageStep, SMTT(30)
<1>6. PutSlot(d, disk, ptr) = [f EXCEPT !.tailSeq = @ + 1]
  BY DEF PutSlot, PageWriteSlot, View, c, node, i
<1> HIDE DEF f
<1>7. \A q : View([f EXCEPT !.tailSeq = @ + 1], disk, q) = View(f, disk, q)
  BY <1>5 DEF View, PageRead, IsStore
<1>8. View(d, disk, p) = node
  BY DEF node
<1> QED
  BY <1>3, <1>5, <1>6, <1>7, <1>8 DEF IsStore, i

\* pageWrite and a store into the link: the slots stay.
LEMMA LinkTailStep ==
  ASSUME NEW d, IsStore(d), NEW disk, IsFile(disk), NEW next \in Nat
  PROVE  LET e == LinkTail(d, disk, next)
             p == d.tailPage IN
         /\ IsStore(e)
         /\ e.flushed = d.flushed /\ e.nappend = d.nappend /\ e.maxSeq = d.maxSeq
         /\ e.headPage = d.headPage /\ e.tailPage = next
         /\ e.headSeq = d.headSeq /\ e.tailSeq = d.tailSeq
         /\ DOMAIN e.updates = DOMAIN d.updates \union {p}
         /\ View(e, disk, p).next = next
         /\ View(e, disk, p).slots = View(d, disk, p).slots
         /\ \A q : q # p => View(e, disk, q) = View(d, disk, q)
<1> DEFINE p == d.tailPage
           node == View(d, disk, p)
           c == [node EXCEPT !.next = next]
           f == SetPage(d, p, c)
<1>1. node \in ListNodeSet
  BY ReadShape
<1> HIDE DEF node
<1>2. c \in ListNodeSet /\ c.next = next /\ c.slots = node.slots
  BY <1>1 DEF ListNodeSet, Number
<1> HIDE DEF c
<1>3. IsContent(c) /\ AsList(c) = c
  BY <1>2, NodeShapes
<1>4. /\ IsStore(f)
      /\ f.flushed = d.flushed /\ f.nappend = d.nappend
      /\ f.headPage = d.headPage /\ f.tailPage = d.tailPage
      /\ f.headSeq = d.headSeq /\ f.tailSeq = d.tailSeq /\ f.maxSeq = d.maxSeq
      /\ DOMAIN f.updates = DOMAIN d.updates \union {p}
      /\ View(f, disk, p) = c
      /\ \A q : q # p => View(f, disk, q) = View(d, disk, q)
  BY <1>3, SetPageStep, SMTT(30)
<1>5. LinkTail(d, disk, next) = [f EXCEPT !.tailPage = next]
  BY DEF LinkTail, PageWriteNext, View, c, node
<1> HIDE DEF f
<1>6. \A q : View([f EXCEPT !.tailPage = next], disk, q) = View(f, disk, q)
  BY <1>4 DEF View, PageRead, IsStore
<1>7. View(d, disk, p) = node
  BY DEF node
<1> QED
  BY <1>2, <1>4, <1>5, <1>6, <1>7 DEF IsStore

-----------------------------------------------------------------------------
(* The list.                                                                *)

\* The list of store d: N are its nodes, from the one with the next entry to
\* take to node number last, and E its entries.
Linked(d, disk, N, E, last) ==
  /\ d.headSeq <= d.tailSeq
  /\ last \in Nat /\ NodeNo(d.headSeq) <= last
  /\ N \in [NodeNo(d.headSeq) .. last -> Nat]
  /\ E \in [d.headSeq .. d.tailSeq - 1 -> Nat]
  /\ N[NodeNo(d.headSeq)] = d.headPage
  /\ N[last] = d.tailPage
  /\ \A k \in NodeNo(d.headSeq) .. last - 1 : View(d, disk, N[k]).next = N[k + 1]
  /\ \A s \in d.headSeq .. d.tailSeq - 1 :
       NodeNo(s) <= last /\ View(d, disk, N[NodeNo(s)]).slots[SeqIdx(s)] = E[s]

\* The pages below end, but for the meta page, are in out, in N or in E, and in
\* one of them only, once.
Apart(out, N, E, end) ==
  /\ end \in Nat
  /\ out \subseteq 1 .. end - 1
  /\ \A k \in DOMAIN N : N[k] \in 1 .. end - 1 /\ N[k] \notin out
  /\ \A s \in DOMAIN E : E[s] \in 1 .. end - 1 /\ E[s] \notin out
  /\ \A k \in DOMAIN N, s \in DOMAIN E : N[k] # E[s]
  /\ \A j, k \in DOMAIN N : N[j] = N[k] => j = k
  /\ \A r, s \in DOMAIN E : E[r] = E[s] => r = s
  /\ \A p \in 1 .. end - 1 :
       p \in out \/ (\E k \in DOMAIN N : N[k] = p) \/ (\E s \in DOMAIN E : E[s] = p)

\* What a commit found when it began: the pages of the tree, the nodes and the
\* entries of the list, and the end of the file.
IsBegin(b) ==
  /\ b.headSeq \in Nat /\ b.tailSeq \in Nat /\ b.headSeq <= b.tailSeq
  /\ DOMAIN b.nodes = NodeNo(b.headSeq) .. NodeNo(b.tailSeq)
  /\ b.nodes[NodeNo(b.tailSeq)] = b.tailPage
  /\ DOMAIN b.entries = b.headSeq .. b.tailSeq - 1
  /\ Apart(b.tree, b.nodes, b.entries, b.end)

\* The pages such a commit may write while entries it found are left: the last
\* node of the list, free pages and pages it appends.
Mine(b) ==
  {b.tailPage} \union {b.entries[s] : s \in DOMAIN b.entries} \union {p \in Nat : p >= b.end}

\* What has become of that list, until the commit takes its last node: W is
\* what it may have written, and at most one page it freed itself is in it.
Since(b, d, disk, N, E, W) ==
  /\ b.headSeq <= d.headSeq /\ d.headSeq <= b.tailSeq + 1
  /\ b.tailSeq <= d.tailSeq /\ d.maxSeq <= b.tailSeq /\ b.end <= AppendPtr(d)
  /\ d.headSeq <= b.tailSeq => W = Mine(b)
  /\ \E x : W \subseteq Mine(b) \union {x}
  /\ Mine(b) \subseteq W
  /\ DOMAIN d.updates \subseteq W
  /\ \A k \in DOMAIN N : k <= NodeNo(b.tailSeq) => N[k] = b.nodes[k]
  /\ \A k \in DOMAIN N : k > NodeNo(b.tailSeq) => N[k] \in W
  /\ \A s \in DOMAIN E : s < b.tailSeq => E[s] = b.entries[s]
  /\ d.headSeq <= b.tailSeq =>
       \A s \in b.headSeq .. b.tailSeq - 1 :
         NodeNo(s) = NodeNo(b.tailSeq) =>
           View(d, disk, b.tailPage).slots[SeqIdx(s)] = b.entries[s]

\* The list of d is in order up to node number last, and the pages in out are
\* those that are not in it. With emptied, nothing is left of the list the
\* commit found.
Good(b, emptied, d, disk, out, last, W) ==
  /\ IsStore(d)
  /\ DOMAIN d.updates \subseteq 1 .. AppendPtr(d) - 1
  /\ \E N, E : /\ Linked(d, disk, N, E, last)
               /\ Apart(out, N, E, AppendPtr(d))
               /\ ~emptied => Since(b, d, disk, N, E, W)

\* freePopHead with an entry to take (disk.go:187-199): the page taken, and the
\* node that ran empty, leave the list.
LEMMA TakeEntry ==
  ASSUME NEW b, IsBegin(b), NEW emptied, NEW d, NEW disk, IsFile(disk),
         NEW out, NEW last, NEW W, Good(b, emptied, d, disk, out, last, W),
         d.headSeq < d.tailSeq, d.headSeq <= d.maxSeq,
         SeqIdx(d.headSeq + 1) = 0 => NodeNo(d.headSeq) < last
  PROVE  LET pop == FreePopHead(d, disk)
             e == pop.db IN
         /\ pop.ptr \in 1 .. AppendPtr(d) - 1 /\ pop.ptr \notin out
         /\ d.headPage \in 1 .. AppendPtr(d) - 1 /\ d.headPage \notin out
         /\ pop.ptr # d.headPage
         /\ pop.head = IF SeqIdx(d.headSeq + 1) = 0 THEN d.headPage ELSE 0
         /\ e.flushed = d.flushed /\ e.nappend = d.nappend /\ e.maxSeq = d.maxSeq
         /\ e.tailPage = d.tailPage /\ e.tailSeq = d.tailSeq
         /\ e.headSeq = d.headSeq + 1
         /\ e.updates = d.updates
         /\ Good(b, emptied, e, disk, out \union {pop.ptr} \union ({pop.head} \ {0}),
                 last, W \union {pop.ptr})
<1>1. IsStore(d)
  BY DEF Good
<1>2. PICK N, E : /\ Linked(d, disk, N, E, last)
                  /\ Apart(out, N, E, AppendPtr(d))
                  /\ ~emptied => Since(b, d, disk, N, E, W)
  BY DEF Good
<1> DEFINE h == d.headSeq
           node == View(d, disk, d.headPage)
           full == SeqIdx(h + 1) = 0
           hp == IF full THEN node.next ELSE d.headPage
           pop == FreePopHead(d, disk)
           e == pop.db
           N1 == [k \in NodeNo(h + 1) .. last |-> N[k]]
           E1 == [s \in h + 1 .. d.tailSeq - 1 |-> E[s]]
           out1 == out \union {pop.ptr} \union ({pop.head} \ {0})
<1>3. h \in Nat /\ d.tailSeq \in Nat /\ d.tailPage \in Nat /\ d.maxSeq \in Nat
  BY <1>1 DEF IsStore
<1>4. /\ NodeNo(h) \in Nat /\ NodeNo(h + 1) \in Nat
      /\ full => NodeNo(h + 1) = NodeNo(h) + 1
      /\ ~full => NodeNo(h + 1) = NodeNo(h)
      /\ NodeNo(h + 1) <= last
  <2>1. h + 1 \in Nat /\ last \in Nat /\ NodeNo(h) <= last
    BY <1>2, <1>3 DEF Linked
  <2>2. NodeNo(h) \in Nat /\ NodeNo(h + 1) \in Nat
    BY <1>3, <2>1, Positions
  <2>3. (full => NodeNo(h + 1) = NodeNo(h) + 1) /\ (~full => NodeNo(h + 1) = NodeNo(h))
    BY <1>3, Positions
  <2>4. full => NodeNo(h) < last
    OBVIOUS
  <2> HIDE DEF full
  <2> QED
    BY <2>1, <2>2, <2>3, <2>4
<1>5. E[h] = node.slots[SeqIdx(h)] /\ N[NodeNo(h)] = d.headPage
  BY <1>2, <1>3 DEF Linked
<1>6. full => node.next = N[NodeNo(h + 1)]
  BY <1>2, <1>3, <1>4, <1>5 DEF Linked
<1>7. hp \in Nat /\ hp = N[NodeNo(h + 1)]
  BY <1>1, <1>2, <1>4, <1>5, <1>6, SMTT(30) DEF Linked, IsStore
<1>8. /\ pop.ptr = E[h]
      /\ pop.head = IF full THEN d.headPage ELSE 0
      /\ e = IF full THEN [d EXCEPT !.headSeq = @ + 1, !.headPage = node.next]
             ELSE [d EXCEPT !.headSeq = @ + 1]
  <2>1. ~(h > d.maxSeq) /\ h # d.tailSeq
    BY <1>3
  <2>2. pop = IF full
              THEN Popped([d EXCEPT !.headSeq = @ + 1, !.headPage = node.next],
                          node.slots[SeqIdx(h)], d.headPage)
              ELSE Popped([d EXCEPT !.headSeq = @ + 1], node.slots[SeqIdx(h)], 0)
    BY <2>1 DEF FreePopHead, View
  <2> HIDE DEF pop, node, full
  <2> QED
    BY <1>5, <2>2 DEF Popped
<1> HIDE DEF pop, node, full
<1>9. /\ IsStore(e)
      /\ e.flushed = d.flushed /\ e.nappend = d.nappend /\ e.maxSeq = d.maxSeq
      /\ e.headPage = hp /\ e.headSeq = h + 1
      /\ e.tailPage = d.tailPage /\ e.tailSeq = d.tailSeq
      /\ e.updates = d.updates
      /\ \A q : View(e, disk, q) = View(d, disk, q)
  <2>1. CASE full
    BY <1>1, <1>7, <1>8, <2>1 DEF IsStore, Number, View, PageRead
  <2>2. CASE ~full
    BY <1>1, <1>7, <1>8, <2>2 DEF IsStore, View, PageRead
  <2> QED
    BY <2>1, <2>2
<1>10. AppendPtr(e) = AppendPtr(d)
  BY <1>9 DEF AppendPtr
<1>11. h \in DOMAIN E /\ NodeNo(h) \in DOMAIN N
  BY <1>2, <1>3, <1>4 DEF Linked
<1> HIDE DEF e, hp
<1>12. Linked(e, disk, N1, E1, last)
  <2>1. /\ last \in Nat
        /\ N \in [NodeNo(h) .. last -> Nat] /\ E \in [h .. d.tailSeq - 1 -> Nat]
        /\ N[last] = d.tailPage
        /\ \A k \in NodeNo(h) .. last - 1 : View(d, disk, N[k]).next = N[k + 1]
        /\ \A s \in h .. d.tailSeq - 1 :
             NodeNo(s) <= last /\ View(d, disk, N[NodeNo(s)]).slots[SeqIdx(s)] = E[s]
    BY <1>2 DEF Linked
  <2>2. NodeNo(h) <= NodeNo(h + 1)
    BY <1>3, PositionsApart
  <2>3. N1 \in [NodeNo(h + 1) .. last -> Nat] /\ E1 \in [h + 1 .. d.tailSeq - 1 -> Nat]
    BY <1>3, <1>4, <2>1, <2>2
  <2>4. N1[NodeNo(h + 1)] = e.headPage /\ N1[last] = e.tailPage
    BY <1>4, <1>7, <1>9, <2>1
  <2>5. \A k \in NodeNo(h + 1) .. last - 1 : View(e, disk, N1[k]).next = N1[k + 1]
    BY <1>4, <1>9, <2>1, <2>2
  <2>6. ASSUME NEW s \in h + 1 .. d.tailSeq - 1
        PROVE  NodeNo(s) <= last /\ View(e, disk, N1[NodeNo(s)]).slots[SeqIdx(s)] = E1[s]
    <3>1. s \in Nat /\ NodeNo(s) \in Nat /\ NodeNo(h + 1) <= NodeNo(s) /\ s \in h .. d.tailSeq - 1
      BY <1>3, Positions, PositionsApart, SMTT(30)
    <3>2. NodeNo(s) <= last /\ View(d, disk, N[NodeNo(s)]).slots[SeqIdx(s)] = E[s]
      BY <2>1, <3>1
    <3>3. N1[NodeNo(s)] = N[NodeNo(s)] /\ E1[s] = E[s]
      BY <1>4, <2>1, <3>1, <3>2
    <3> QED
      BY <1>9, <3>2, <3>3
  <2>7. e.headSeq <= e.tailSeq /\ NodeNo(e.headSeq) <= last
    BY <1>3, <1>4, <1>9
  <2> HIDE DEF N1, E1
  <2> QED
    BY <1>9, <2>1, <2>3, <2>4, <2>5, <2>6, <2>7 DEF Linked
<1>13. Apart(out1, N1, E1, AppendPtr(e))
  <2>1. DOMAIN N = NodeNo(h) .. last /\ DOMAIN E = h .. d.tailSeq - 1 /\ last \in Nat
    BY <1>2 DEF Linked
  <2>2. pop.head = 0 \/ (pop.head = N[NodeNo(h)] /\ full)
    BY <1>5, <1>8 DEF full
  <2>3. \A k \in DOMAIN N : k \in DOMAIN N1 \/ (full /\ k = NodeNo(h))
    BY <1>4, <2>1
  <2>4. \A s \in DOMAIN E : s \in DOMAIN E1 \/ s = h
    BY <1>3, <2>1
  <2>5. \A k \in DOMAIN N1 : k \in DOMAIN N /\ N1[k] = N[k] /\ (full => k # NodeNo(h))
    BY <1>4, <2>1
  <2>6. \A s \in DOMAIN E1 : s \in DOMAIN E /\ E1[s] = E[s] /\ s # h
    BY <1>3, <2>1
  <2>7. full => pop.head = N[NodeNo(h)] /\ pop.head # 0
    BY <1>2, <1>5, <1>8, <1>11 DEF Apart
  <2> HIDE DEF N1, E1
  <2> QED
    BY <1>2, <1>8, <1>10, <1>11, <2>2, <2>3, <2>4, <2>5, <2>6, <2>7 DEF Apart
<1>14. ASSUME ~emptied PROVE Since(b, e, disk, N1, E1, W \union {pop.ptr})
  <2>1. Since(b, d, disk, N, E, W)
    BY <1>2, <1>14
  <2>2. b.tailSeq \in Nat /\ b.headSeq \in Nat /\ h <= b.tailSeq
    BY <1>3, <2>1 DEF Since, IsBegin
  <2>3. \A k \in DOMAIN N1 : k \in DOMAIN N /\ N1[k] = N[k]
    BY <1>2, <1>3, <1>4 DEF Linked
  <2>4. \A s \in DOMAIN E1 : s \in DOMAIN E /\ E1[s] = E[s]
    BY <1>2, <1>3 DEF Linked
  <2>5. h < b.tailSeq => pop.ptr \in Mine(b)
    BY <1>3, <1>8, <1>11, <2>1, <2>2 DEF Since, IsBegin, Mine
  <2>6. W = Mine(b)
    BY <2>1, <2>2 DEF Since
  <2> HIDE DEF N1, E1
  <2> QED
    BY <1>3, <1>9, <1>10, <2>1, <2>2, <2>3, <2>4, <2>5, <2>6 DEF Since
<1>15. /\ pop.ptr \in 1 .. AppendPtr(d) - 1 /\ pop.ptr \notin out
       /\ d.headPage \in 1 .. AppendPtr(d) - 1 /\ d.headPage \notin out
       /\ pop.ptr # d.headPage
  BY <1>2, <1>5, <1>8, <1>11 DEF Apart
<1>16. Good(b, emptied, e, disk, out1, last, W \union {pop.ptr})
  <2>1. DOMAIN e.updates \subseteq 1 .. AppendPtr(e) - 1
    BY <1>9, <1>10 DEF Good
  <2> QED
    BY <1>9, <1>12, <1>13, <1>14, <2>1 DEF Good
<1> QED
  BY <1>8, <1>9, <1>15, <1>16 DEF pop, e, full

\* freePushTail writing the slot of the next entry (disk.go:215-219): a page
\* outside becomes the last entry.
LEMMA PutEntry ==
  ASSUME NEW b, IsBegin(b), NEW emptied, NEW d, NEW disk, IsFile(disk),
         NEW out, NEW last, NEW W, Good(b, emptied, d, disk, out, last, W),
         NodeNo(d.tailSeq) = last, NEW ptr \in out
  PROVE  LET e == PutSlot(d, disk, ptr) IN
         /\ e.flushed = d.flushed /\ e.nappend = d.nappend /\ e.maxSeq = d.maxSeq
         /\ e.headPage = d.headPage /\ e.headSeq = d.headSeq
         /\ e.tailPage = d.tailPage /\ e.tailSeq = d.tailSeq + 1
         /\ Good(b, emptied, e, disk, out \ {ptr}, last, W)
<1>1. IsStore(d)
  BY DEF Good
<1>2. PICK N, E : /\ Linked(d, disk, N, E, last)
                  /\ Apart(out, N, E, AppendPtr(d))
                  /\ ~emptied => Since(b, d, disk, N, E, W)
  BY DEF Good
<1> DEFINE h == d.headSeq
           t == d.tailSeq
           p == d.tailPage
           i == SeqIdx(t)
           e == PutSlot(d, disk, ptr)
           E1 == [s \in h .. t |-> IF s = t THEN ptr ELSE E[s]]
<1>3. /\ h \in Nat /\ t \in Nat /\ p \in Nat /\ t + 1 \in Nat
      /\ i \in Slots /\ ptr \in Nat /\ h <= t
      /\ ptr \in 1 .. AppendPtr(d) - 1 /\ AppendPtr(d) \in Nat
  <2>1. h \in Nat /\ t \in Nat /\ p \in Nat /\ t + 1 \in Nat
    BY <1>1 DEF IsStore
  <2>2. i \in Slots
    BY <2>1, Positions
  <2>3. h <= t
    BY <1>2 DEF Linked
  <2>4. AppendPtr(d) \in Nat /\ ptr \in 1 .. AppendPtr(d) - 1
    BY <1>2 DEF Apart
  <2> HIDE DEF h, t, p, i
  <2> QED
    BY <2>1, <2>2, <2>3, <2>4
<1>4. /\ IsStore(e)
      /\ e.flushed = d.flushed /\ e.nappend = d.nappend /\ e.maxSeq = d.maxSeq
      /\ e.headPage = d.headPage /\ e.tailPage = p
      /\ e.headSeq = h /\ e.tailSeq = t + 1
      /\ DOMAIN e.updates = DOMAIN d.updates \union {p}
      /\ View(e, disk, p).next = View(d, disk, p).next
      /\ View(e, disk, p).slots[i] = ptr
      /\ \A j \in Slots : j # i => View(e, disk, p).slots[j] = View(d, disk, p).slots[j]
      /\ \A q : q # p => View(e, disk, q) = View(d, disk, q)
  <2>1. ptr \in Nat
    BY <1>3
  <2> QED
    BY <1>1, <2>1, PutSlotStep
<1>5. AppendPtr(e) = AppendPtr(d)
  BY <1>4 DEF AppendPtr
<1>6. /\ last \in Nat /\ NodeNo(h) \in Nat /\ NodeNo(h) <= last
      /\ N \in [NodeNo(h) .. last -> Nat] /\ E \in [h .. t - 1 -> Nat]
      /\ N[NodeNo(h)] = d.headPage /\ N[last] = p
      /\ \A k \in NodeNo(h) .. last - 1 : View(d, disk, N[k]).next = N[k + 1]
      /\ \A s \in h .. t - 1 :
           NodeNo(s) <= last /\ View(d, disk, N[NodeNo(s)]).slots[SeqIdx(s)] = E[s]
  BY <1>2, <1>3, Positions DEF Linked
<1>7. \A k \in NodeNo(h) .. last : k # last => N[k] # p
  <2>1. last \in DOMAIN N /\ DOMAIN N = NodeNo(h) .. last
    BY <1>6
  <2>2. \A j, k \in DOMAIN N : N[j] = N[k] => j = k
    BY <1>2 DEF Apart
  <2> QED
    BY <1>6, <2>1, <2>2
<1>13. /\ E1 \in [h .. t -> Nat] /\ E1[t] = ptr
       /\ \A s \in h .. t - 1 : E1[s] = E[s] /\ s \in h .. t
       /\ \A s \in h .. t : s # t => s \in h .. t - 1
       /\ t + 1 - 1 = t
  <2>1. h \in Nat /\ t \in Nat /\ h <= t /\ ptr \in Nat
    BY <1>3, <1>6
  <2>2. E \in [h .. t - 1 -> Nat]
    BY <1>6
  <2> HIDE DEF h, t
  <2>3. \A s \in h .. t : s # t => s \in h .. t - 1
    BY <2>1
  <2>4. /\ t \in h .. t /\ t + 1 - 1 = t
        /\ \A s \in h .. t - 1 : s \in h .. t /\ s # t
    BY <2>1
  <2>5. E1 \in [h .. t -> Nat]
    BY <2>1, <2>2, <2>3
  <2> QED
    BY <2>3, <2>4, <2>5
<1> HIDE DEF e, i, p, E1
<1>8. Linked(e, disk, N, E1, last)
  <2>2. \A k \in NodeNo(h) .. last - 1 : View(e, disk, N[k]).next = N[k + 1]
    BY <1>4, <1>6
  <2>3. ASSUME NEW s \in h .. t
        PROVE  NodeNo(s) <= last /\ View(e, disk, N[NodeNo(s)]).slots[SeqIdx(s)] = E1[s]
    <3>1. s \in Nat /\ NodeNo(s) \in Nat /\ NodeNo(h) <= NodeNo(s) /\ SeqIdx(s) \in Slots
      BY <1>3, Positions, PositionsApart
    <3>2. CASE s = t
      BY <1>4, <1>6, <1>13, <3>2 DEF i
    <3>3. CASE s # t
      <4>1. s \in h .. t - 1 /\ E1[s] = E[s]
        BY <1>13, <3>3
      <4>2. NodeNo(s) = last => SeqIdx(s) # i
        BY <1>3, <3>1, <3>3, PositionsApart DEF i
      <4>3. NodeNo(s) <= last /\ View(d, disk, N[NodeNo(s)]).slots[SeqIdx(s)] = E[s]
        BY <1>6, <4>1
      <4>4. CASE NodeNo(s) = last
        <5>1. View(e, disk, p).slots[SeqIdx(s)] = View(d, disk, p).slots[SeqIdx(s)]
          BY <1>4, <3>1, <4>2, <4>4 DEF i
        <5> QED
          BY <1>6, <4>1, <4>3, <4>4, <5>1
      <4>5. CASE NodeNo(s) # last
        <5>1. N[NodeNo(s)] # p
          BY <1>6, <1>7, <3>1, <4>3, <4>5
        <5> QED
          BY <1>4, <4>1, <4>3, <5>1
      <4> QED
        BY <4>4, <4>5
    <3> QED
      BY <3>2, <3>3
  <2>4. e.headSeq <= e.tailSeq
    BY <1>3, <1>4
  <2> QED
    <3>1. e.headSeq = h /\ e.tailSeq - 1 = t /\ e.tailPage = p /\ e.headPage = d.headPage
      BY <1>3, <1>4
    <3> QED
      BY <1>6, <1>13, <2>2, <2>3, <2>4, <3>1 DEF Linked
<1>9. Apart(out \ {ptr}, N, E1, AppendPtr(e))
  <2>1. DOMAIN E1 = DOMAIN E \union {t} /\ t \notin DOMAIN E /\ E1[t] = ptr
    BY <1>3, <1>6, <1>13, SMTT(30)
  <2>2. \A s \in DOMAIN E : E1[s] = E[s]
    BY <1>6, <1>13
  <2>3. ptr \in out /\ t \in DOMAIN E1
    BY <2>1
  <2> QED
    BY <1>2, <1>3, <1>5, <2>1, <2>2, <2>3 DEF Apart
<1>10. ASSUME ~emptied PROVE Since(b, e, disk, N, E1, W) /\ p \in W
  <2>1. Since(b, d, disk, N, E, W)
    BY <1>2, <1>10
  <2>2. b.tailSeq \in Nat /\ b.headSeq \in Nat /\ b.tailSeq <= t
    BY <2>1 DEF Since, IsBegin
  <2>3. NodeNo(b.tailSeq) \in Nat /\ NodeNo(b.tailSeq) <= last
    BY <1>3, <2>2, Positions, PositionsApart
  <2>4. p \in W
    <3>1. CASE NodeNo(b.tailSeq) = last
      BY <1>6, <2>1, <3>1 DEF Since, IsBegin, Mine
    <3>2. CASE NodeNo(b.tailSeq) < last
      BY <1>6, <2>1, <3>2 DEF Since
    <3> QED
      BY <1>6, <2>3, <3>1, <3>2
  <2>5. \A s \in DOMAIN E1 : s < b.tailSeq => E1[s] = b.entries[s]
    <3>1. \A s \in DOMAIN E : s < b.tailSeq => E[s] = b.entries[s]
      BY <2>1 DEF Since
    <3> QED
      <4> SUFFICES ASSUME NEW s \in DOMAIN E1, s < b.tailSeq PROVE E1[s] = b.entries[s]
        OBVIOUS
      <4>1. s \in h .. t /\ s # t
        BY <1>3, <1>13, <2>2
      <4>2. s \in DOMAIN E /\ E1[s] = E[s]
        BY <1>6, <1>13, <4>1
      <4> QED
        BY <3>1, <4>2
  <2>6. ASSUME h <= b.tailSeq, NEW s \in b.headSeq .. b.tailSeq - 1,
               NodeNo(s) = NodeNo(b.tailSeq)
        PROVE  View(e, disk, b.tailPage).slots[SeqIdx(s)] = b.entries[s]
    <3>1. View(d, disk, b.tailPage).slots[SeqIdx(s)] = b.entries[s]
      BY <2>1, <2>6 DEF Since
    <3>2. s \in Nat /\ s # t /\ SeqIdx(s) \in Slots
      BY <1>3, <2>2, Positions
    <3>3. NodeNo(h) <= NodeNo(b.tailSeq)
      BY <1>3, <2>2, <2>6, PositionsApart
    <3>4. N[NodeNo(b.tailSeq)] = b.tailPage
      BY <1>6, <2>1, <2>3, <3>3 DEF Since, IsBegin
    <3>5. CASE b.tailPage = p
      <4>1. NodeNo(b.tailSeq) = last
        BY <1>6, <1>7, <2>3, <3>3, <3>4, <3>5
      <4>2. SeqIdx(s) # i
        BY <1>3, <2>6, <3>2, <4>1, PositionsApart DEF i
      <4> QED
        BY <1>4, <3>1, <3>2, <3>5, <4>2
    <3>6. CASE b.tailPage # p
      BY <1>4, <3>1, <3>6
    <3> QED
      BY <3>5, <3>6
  <2> QED
    BY <1>3, <1>4, <1>5, <2>1, <2>2, <2>4, <2>5, <2>6 DEF Since
<1>11. p \in 1 .. AppendPtr(d) - 1
  BY <1>2, <1>6 DEF Apart
<1>12. Good(b, emptied, e, disk, out \ {ptr}, last, W)
  <2>1. DOMAIN e.updates \subseteq 1 .. AppendPtr(e) - 1
    BY <1>4, <1>5, <1>11 DEF Good
  <2> QED
    BY <1>4, <1>8, <1>9, <1>10, <2>1 DEF Good
<1> QED
  BY <1>4, <1>12 DEF e, i, p

\* freePushTail linking a node behind a full one (disk.go:227-229): a page
\* outside becomes the last node.
LEMMA LinkNode ==
  ASSUME NEW b, IsBegin(b), NEW emptied, NEW d, NEW disk, IsFile(disk),
         NEW out, NEW last, NEW W, Good(b, emptied, d, disk, out, last, W),
         NodeNo(d.tailSeq) = last + 1, SeqIdx(d.tailSeq) = 0, NEW next \in out,
         ~emptied => next \in W /\ b.tailSeq < d.tailSeq
  PROVE  LET e == LinkTail(d, disk, next) IN
         /\ e.flushed = d.flushed /\ e.nappend = d.nappend /\ e.maxSeq = d.maxSeq
         /\ e.headPage = d.headPage /\ e.headSeq = d.headSeq
         /\ e.tailPage = next /\ e.tailSeq = d.tailSeq
         /\ Good(b, emptied, e, disk, out \ {next}, last + 1, W)
<1>1. IsStore(d)
  BY DEF Good
<1>2. PICK N, E : /\ Linked(d, disk, N, E, last)
                  /\ Apart(out, N, E, AppendPtr(d))
                  /\ ~emptied => Since(b, d, disk, N, E, W)
  BY DEF Good
<1> DEFINE h == d.headSeq
           t == d.tailSeq
           p == d.tailPage
           e == LinkTail(d, disk, next)
           N1 == [k \in NodeNo(h) .. last + 1 |-> IF k = last + 1 THEN next ELSE N[k]]
<1>3. /\ h \in Nat /\ t \in Nat /\ p \in Nat
      /\ AppendPtr(d) \in Nat /\ next \in 1 .. AppendPtr(d) - 1
  <2>1. h \in Nat /\ t \in Nat /\ p \in Nat
    BY <1>1 DEF IsStore
  <2>2. AppendPtr(d) \in Nat /\ next \in 1 .. AppendPtr(d) - 1
    BY <1>2 DEF Apart
  <2> QED
    BY <2>1, <2>2
<1>4. /\ IsStore(e)
      /\ e.flushed = d.flushed /\ e.nappend = d.nappend /\ e.maxSeq = d.maxSeq
      /\ e.headPage = d.headPage /\ e.tailPage = next
      /\ e.headSeq = h /\ e.tailSeq = t
      /\ DOMAIN e.updates = DOMAIN d.updates \union {p}
      /\ View(e, disk, p).next = next
      /\ View(e, disk, p).slots = View(d, disk, p).slots
      /\ \A q : q # p => View(e, disk, q) = View(d, disk, q)
  <2>1. next \in Nat
    BY <1>3
  <2> QED
    BY <1>1, <2>1, LinkTailStep
<1>5. AppendPtr(e) = AppendPtr(d)
  BY <1>4 DEF AppendPtr
<1>6. /\ last \in Nat /\ NodeNo(h) \in Nat /\ NodeNo(h) <= last /\ h <= t
      /\ N \in [NodeNo(h) .. last -> Nat] /\ E \in [h .. t - 1 -> Nat]
      /\ N[NodeNo(h)] = d.headPage /\ N[last] = p
      /\ \A k \in NodeNo(h) .. last - 1 : View(d, disk, N[k]).next = N[k + 1]
      /\ \A s \in h .. t - 1 :
           NodeNo(s) <= last /\ View(d, disk, N[NodeNo(s)]).slots[SeqIdx(s)] = E[s]
  BY <1>2, <1>3, Positions DEF Linked
<1>7. \A k \in NodeNo(h) .. last : k # last => N[k] # p
  <2>1. last \in DOMAIN N /\ DOMAIN N = NodeNo(h) .. last
    BY <1>6
  <2>2. \A j, k \in DOMAIN N : N[j] = N[k] => j = k
    BY <1>2 DEF Apart
  <2> QED
    BY <1>6, <2>1, <2>2
<1>8. /\ N1 \in [NodeNo(h) .. last + 1 -> Nat] /\ N1[last + 1] = next
      /\ \A k \in NodeNo(h) .. last : N1[k] = N[k] /\ k # last + 1
      /\ \A k \in NodeNo(h) .. last + 1 : k # last + 1 => k \in NodeNo(h) .. last
      /\ last + 1 \in NodeNo(h) .. last + 1 /\ last + 1 - 1 = last
  BY <1>3, <1>6
<1> HIDE DEF e, p, N1
<1>9. Linked(e, disk, N1, E, last + 1)
  <2>1. ASSUME NEW k \in NodeNo(h) .. last PROVE View(e, disk, N1[k]).next = N1[k + 1]
    <3>1. CASE k = last
      BY <1>4, <1>6, <1>8, <3>1
    <3>2. CASE k # last
      <4>1. k \in NodeNo(h) .. last - 1 /\ k + 1 \in NodeNo(h) .. last /\ N[k] # p
        BY <1>6, <1>7, <3>2
      <4>2. N1[k] = N[k] /\ N1[k + 1] = N[k + 1]
        BY <1>8, <4>1
      <4>3. View(d, disk, N[k]).next = N[k + 1]
        BY <1>6, <4>1
      <4> QED
        BY <1>4, <4>1, <4>2, <4>3
    <3> QED
      BY <3>1, <3>2
  <2>2. ASSUME NEW s \in h .. t - 1
        PROVE  /\ NodeNo(s) <= last + 1
               /\ View(e, disk, N1[NodeNo(s)]).slots[SeqIdx(s)] = E[s]
    <3>1. s \in Nat /\ NodeNo(s) \in Nat /\ NodeNo(h) <= NodeNo(s)
      BY <1>3, Positions, PositionsApart
    <3>2. NodeNo(s) <= last /\ View(d, disk, N[NodeNo(s)]).slots[SeqIdx(s)] = E[s]
      BY <1>6
    <3>3. NodeNo(s) \in NodeNo(h) .. last
      BY <1>6, <3>1, <3>2
    <3>4. N1[NodeNo(s)] = N[NodeNo(s)]
      BY <1>8, <3>3
    <3>5. View(e, disk, N[NodeNo(s)]).slots = View(d, disk, N[NodeNo(s)]).slots
      BY <1>4
    <3>6. NodeNo(s) <= last + 1
      BY <1>6, <3>1, <3>2
    <3> QED
      BY <3>2, <3>4, <3>5, <3>6
  <2>3. N1[NodeNo(h)] = e.headPage /\ N1[last + 1] = e.tailPage
    BY <1>4, <1>6, <1>8
  <2>4. last + 1 \in Nat /\ NodeNo(h) <= last + 1
    BY <1>6
  <2>5. E \in [h .. t - 1 -> Nat] /\ h <= t
    BY <1>6
  <2> QED
    BY <1>4, <1>8, <2>1, <2>2, <2>3, <2>4, <2>5 DEF Linked
<1>10. Apart(out \ {next}, N1, E, AppendPtr(e))
  <2>1. /\ DOMAIN N1 = DOMAIN N \union {last + 1} /\ last + 1 \notin DOMAIN N
        /\ N1[last + 1] = next
    BY <1>6, <1>8
  <2>2. \A k \in DOMAIN N : N1[k] = N[k]
    BY <1>6, <1>8
  <2> QED
    BY <1>2, <1>3, <1>5, <2>1, <2>2 DEF Apart
<1>11. ASSUME ~emptied PROVE Since(b, e, disk, N1, E, W)
  <2>1. Since(b, d, disk, N, E, W)
    BY <1>2, <1>11
  <2>2. b.tailSeq \in Nat /\ b.headSeq \in Nat /\ b.tailSeq < t /\ next \in W
    BY <1>11, <2>1 DEF Since, IsBegin
  <2>3. NodeNo(b.tailSeq) \in Nat /\ NodeNo(b.tailSeq) <= last
    <3>1. NodeNo(b.tailSeq) \in Nat
      BY <2>2, Positions
    <3>2. NodeNo(b.tailSeq) < NodeNo(t)
      BY <1>3, <2>2, PositionsApart
    <3> QED
      BY <1>6, <3>1, <3>2
  <2>4. p \in W
    <3>1. CASE NodeNo(b.tailSeq) = last
      BY <1>6, <2>1, <3>1 DEF Since, IsBegin, Mine
    <3>2. CASE NodeNo(b.tailSeq) < last
      BY <1>6, <2>1, <3>2 DEF Since
    <3> QED
      BY <1>6, <2>3, <3>1, <3>2
  <2>5. \A k \in DOMAIN N1 : k <= NodeNo(b.tailSeq) => N1[k] = b.nodes[k]
    <3>1. \A k \in DOMAIN N : k <= NodeNo(b.tailSeq) => N[k] = b.nodes[k]
      BY <2>1 DEF Since
    <3> QED
      BY <1>6, <1>8, <2>3, <3>1
  <2>6. \A k \in DOMAIN N1 : k > NodeNo(b.tailSeq) => N1[k] \in W
    <3>1. \A k \in DOMAIN N : k > NodeNo(b.tailSeq) => N[k] \in W
      BY <2>1 DEF Since
    <3> QED
      BY <1>6, <1>8, <2>2, <3>1
  <2>7. View(e, disk, b.tailPage).slots = View(d, disk, b.tailPage).slots
    BY <1>4
  <2> QED
    BY <1>4, <1>5, <2>1, <2>2, <2>4, <2>5, <2>6, <2>7 DEF Since
<1>12. p \in 1 .. AppendPtr(d) - 1
  BY <1>2, <1>6 DEF Apart
<1>13. Good(b, emptied, e, disk, out \ {next}, last + 1, W)
  <2>1. DOMAIN e.updates \subseteq 1 .. AppendPtr(e) - 1
    BY <1>4, <1>5, <1>12 DEF Good
  <2> QED
    BY <1>4, <1>9, <1>10, <1>11, <2>1 DEF Good
<1> QED
  BY <1>4, <1>13 DEF e, p

\* Whatever is written to a page outside the list, the list stays.
LEMMA WriteOutside ==
  ASSUME NEW b, IsBegin(b), NEW emptied, NEW d, NEW disk, IsFile(disk),
         NEW out, NEW last, NEW W, Good(b, emptied, d, disk, out, last, W),
         NodeNo(d.tailSeq) = last, NEW p \in out, NEW c, IsContent(c), ~emptied => p \in W
  PROVE  Good(b, emptied, SetPage(d, p, c), disk, out, last, W)
<1> DEFINE e == SetPage(d, p, c)
<1>1. IsStore(d)
  BY DEF Good
<1>2. PICK N, E : /\ Linked(d, disk, N, E, last)
                  /\ Apart(out, N, E, AppendPtr(d))
                  /\ ~emptied => Since(b, d, disk, N, E, W)
  BY DEF Good
<1>3. /\ IsStore(e)
      /\ e.flushed = d.flushed /\ e.nappend = d.nappend
      /\ e.headPage = d.headPage /\ e.tailPage = d.tailPage
      /\ e.headSeq = d.headSeq /\ e.tailSeq = d.tailSeq /\ e.maxSeq = d.maxSeq
      /\ DOMAIN e.updates = DOMAIN d.updates \union {p}
      /\ \A q : q # p => View(e, disk, q) = View(d, disk, q)
  BY <1>1, SetPageStep
<1>4. AppendPtr(e) = AppendPtr(d)
  BY <1>3 DEF AppendPtr
<1>5. \A k \in DOMAIN N : N[k] # p
  BY <1>2 DEF Apart
<1> HIDE DEF e
<1>6. d.headSeq \in Nat /\ d.tailSeq \in Nat /\ NodeNo(d.headSeq) \in Nat
  BY <1>1, Positions DEF IsStore
<1>7. Linked(e, disk, N, E, last)
  <2>1. /\ last \in Nat /\ N \in [NodeNo(d.headSeq) .. last -> Nat]
        /\ \A k \in NodeNo(d.headSeq) .. last - 1 : View(d, disk, N[k]).next = N[k + 1]
        /\ \A s \in d.headSeq .. d.tailSeq - 1 :
             NodeNo(s) <= last /\ View(d, disk, N[NodeNo(s)]).slots[SeqIdx(s)] = E[s]
    BY <1>2 DEF Linked
  <2>2. \A k \in NodeNo(d.headSeq) .. last - 1 : View(e, disk, N[k]).next = N[k + 1]
    BY <1>3, <1>5, <1>6, <2>1
  <2>3. ASSUME NEW s \in d.headSeq .. d.tailSeq - 1
        PROVE  View(e, disk, N[NodeNo(s)]).slots[SeqIdx(s)] = E[s]
    <3>1. s \in Nat /\ NodeNo(s) \in Nat /\ NodeNo(d.headSeq) <= NodeNo(s)
      BY <1>6, Positions, PositionsApart
    <3>2. NodeNo(s) \in DOMAIN N
      BY <1>6, <2>1, <3>1
    <3> QED
      BY <1>3, <1>5, <2>1, <3>2
  <2> QED
    BY <1>2, <1>3, <2>1, <2>2, <2>3 DEF Linked
<1>8. ASSUME ~emptied PROVE Since(b, e, disk, N, E, W)
  <2>1. Since(b, d, disk, N, E, W) /\ p \in W
    BY <1>2, <1>8
  <2>2. d.headSeq <= b.tailSeq => p # b.tailPage
    <3> SUFFICES ASSUME d.headSeq <= b.tailSeq PROVE p # b.tailPage
      OBVIOUS
    <3>1. b.tailSeq \in Nat /\ b.tailSeq <= d.tailSeq
      BY <2>1 DEF Since, IsBegin
    <3>2. /\ NodeNo(d.headSeq) <= NodeNo(b.tailSeq) /\ NodeNo(b.tailSeq) \in Nat
          /\ NodeNo(b.tailSeq) <= NodeNo(d.tailSeq)
      BY <1>6, <3>1, Positions, PositionsApart
    <3>3. NodeNo(b.tailSeq) \in DOMAIN N
      BY <1>2, <1>6, <3>2 DEF Linked
    <3>4. N[NodeNo(b.tailSeq)] = b.tailPage
      BY <2>1, <3>2, <3>3 DEF Since, IsBegin
    <3> QED
      BY <1>5, <3>3, <3>4
  <2> QED
    BY <1>3, <1>4, <2>1, <2>2 DEF Since
<1>9. DOMAIN e.updates \subseteq 1 .. AppendPtr(e) - 1
  BY <1>2, <1>3, <1>4 DEF Good, Apart
<1> QED
  BY <1>2, <1>3, <1>4, <1>7, <1>8, <1>9 DEF Good, e

\* pageAppend: the page at the end of the file is outside the list.
LEMMA AppendOutside ==
  ASSUME NEW b, IsBegin(b), NEW emptied, NEW d, NEW disk, IsFile(disk),
         NEW out, NEW last, NEW W, Good(b, emptied, d, disk, out, last, W),
         NEW c, IsContent(c)
  PROVE  LET e == PageAppend(d, c) IN
         /\ e.flushed = d.flushed /\ e.nappend = d.nappend + 1 /\ e.maxSeq = d.maxSeq
         /\ e.headPage = d.headPage /\ e.headSeq = d.headSeq
         /\ e.tailPage = d.tailPage /\ e.tailSeq = d.tailSeq
         /\ AppendPtr(d) \in Nat \ {0}
         /\ ~emptied => AppendPtr(d) \in W
         /\ Good(b, emptied, e, disk, out \union {AppendPtr(d)}, last, W)
<1> DEFINE e == PageAppend(d, c)
           p == AppendPtr(d)
<1>1. IsStore(d)
  BY DEF Good
<1>2. PICK N, E : /\ Linked(d, disk, N, E, last)
                  /\ Apart(out, N, E, p)
                  /\ ~emptied => Since(b, d, disk, N, E, W)
  BY DEF Good
<1>3. /\ IsStore(e)
      /\ e.flushed = d.flushed /\ e.nappend = d.nappend + 1
      /\ e.headPage = d.headPage /\ e.tailPage = d.tailPage
      /\ e.headSeq = d.headSeq /\ e.tailSeq = d.tailSeq /\ e.maxSeq = d.maxSeq
      /\ DOMAIN e.updates = DOMAIN d.updates \union {p}
      /\ AppendPtr(e) = p + 1 /\ p \in Nat
      /\ \A q : q # p => View(e, disk, q) = View(d, disk, q)
  BY <1>1, PageAppendStep
<1>4. \A k \in DOMAIN N : N[k] # p
  BY <1>2, <1>3 DEF Apart
<1> HIDE DEF e
<1>5. d.headSeq \in Nat /\ d.tailSeq \in Nat /\ NodeNo(d.headSeq) \in Nat /\ p # 0
  BY <1>1, Positions DEF IsStore, AppendPtr
<1> HIDE DEF p
<1>6. Linked(e, disk, N, E, last)
  <2>1. /\ last \in Nat /\ N \in [NodeNo(d.headSeq) .. last -> Nat]
        /\ \A k \in NodeNo(d.headSeq) .. last - 1 : View(d, disk, N[k]).next = N[k + 1]
        /\ \A s \in d.headSeq .. d.tailSeq - 1 :
             NodeNo(s) <= last /\ View(d, disk, N[NodeNo(s)]).slots[SeqIdx(s)] = E[s]
    BY <1>2 DEF Linked
  <2>2. \A k \in NodeNo(d.headSeq) .. last - 1 : View(e, disk, N[k]).next = N[k + 1]
    BY <1>3, <1>4, <1>5, <2>1
  <2>3. ASSUME NEW s \in d.headSeq .. d.tailSeq - 1
        PROVE  View(e, disk, N[NodeNo(s)]).slots[SeqIdx(s)] = E[s]
    <3>1. s \in Nat /\ NodeNo(s) \in Nat /\ NodeNo(d.headSeq) <= NodeNo(s)
      BY <1>5, Positions, PositionsApart
    <3>2. NodeNo(s) \in DOMAIN N
      BY <1>5, <2>1, <3>1
    <3> QED
      BY <1>3, <1>4, <2>1, <3>2
  <2> QED
    BY <1>2, <1>3, <2>1, <2>2, <2>3 DEF Linked
<1>7. Apart(out \union {p}, N, E, p + 1)
  <2>1. \A q \in 1 .. p + 1 - 1 : q \in 1 .. p - 1 \/ q = p
    BY <1>3
  <2>2. \A q \in 1 .. p - 1 : q \in 1 .. p + 1 - 1 /\ q # p
    BY <1>3
  <2>3. p \in 1 .. p + 1 - 1 /\ p + 1 \in Nat
    BY <1>3, <1>5
  <2> QED
    BY <1>2, <2>1, <2>2, <2>3 DEF Apart
<1>8. ASSUME ~emptied PROVE Since(b, e, disk, N, E, W) /\ p \in W
  <2>1. Since(b, d, disk, N, E, W)
    BY <1>2, <1>8
  <2>2. b.end \in Nat /\ b.end <= p
    BY <2>1 DEF Since, IsBegin, Apart, p
  <2>3. p \in Mine(b) /\ p \in W
    BY <1>3, <2>1, <2>2 DEF Mine, Since
  <2>4. b.tailPage \in 1 .. b.end - 1
    <3>1. NodeNo(b.tailSeq) \in DOMAIN b.nodes
      <4>1. b.headSeq \in Nat /\ b.tailSeq \in Nat /\ b.headSeq <= b.tailSeq
        BY DEF IsBegin
      <4>2. /\ NodeNo(b.headSeq) \in Nat /\ NodeNo(b.tailSeq) \in Nat
            /\ NodeNo(b.headSeq) <= NodeNo(b.tailSeq)
        BY <4>1, Positions, PositionsApart
      <4> QED
        BY <4>2 DEF IsBegin
    <3> QED
      BY <3>1 DEF IsBegin, Apart
  <2>5. b.tailPage # p /\ b.end <= p + 1
    BY <1>3, <2>2, <2>4
  <2> QED
    BY <1>3, <2>1, <2>3, <2>5 DEF Since
<1>9. DOMAIN e.updates \subseteq 1 .. p + 1 - 1
  <2>1. DOMAIN d.updates \subseteq 1 .. p - 1
    BY DEF Good, p
  <2> QED
    BY <1>3, <1>5, <2>1
<1>10. Good(b, emptied, e, disk, out \union {p}, last, W)
  BY <1>3, <1>6, <1>7, <1>8, <1>9 DEF Good
<1> QED
  BY <1>3, <1>5, <1>8, <1>10 DEF e, p

\* A store whose list has no node: every page is outside.
Bare(d, out) ==
  /\ IsStore(d)
  /\ d.headPage = 0 /\ d.tailPage = 0 /\ d.headSeq = 0 /\ d.tailSeq = 0
  /\ out = 1 .. AppendPtr(d) - 1
  /\ DOMAIN d.updates \subseteq 1 .. AppendPtr(d) - 1

\* freePopHead on a list without entries (disk.go:179-186): its one node is
\* handed out, and no list is left.
LEMMA TakeLastNode ==
  ASSUME NEW b, NEW emptied, NEW d, NEW disk, NEW out, NEW W,
         Good(b, emptied, d, disk, out, NodeNo(d.tailSeq), W),
         d.headSeq = d.tailSeq, d.headSeq <= d.maxSeq
  PROVE  LET pop == FreePopHead(d, disk)
             e == pop.db IN
         /\ pop.ptr = d.headPage /\ pop.ptr \in 1 .. AppendPtr(d) - 1 /\ pop.ptr \notin out
         /\ pop.head = 0
         /\ e.flushed = d.flushed /\ e.nappend = d.nappend /\ e.maxSeq = d.maxSeq
         /\ Bare(e, out \union {pop.ptr})
<1>1. IsStore(d)
  BY DEF Good
<1>2. PICK N, E : /\ Linked(d, disk, N, E, NodeNo(d.tailSeq))
                  /\ Apart(out, N, E, AppendPtr(d))
  BY DEF Good
<1> DEFINE pop == FreePopHead(d, disk)
           e == pop.db
<1>3. ~(d.headSeq > d.maxSeq)
  BY <1>1 DEF IsStore
<1>4. pop = Popped([d EXCEPT !.headPage = 0, !.tailPage = 0, !.tailSeq = 0, !.headSeq = 0],
                   d.headPage, 0)
  BY <1>3 DEF FreePopHead
<1>5. /\ e = [d EXCEPT !.headPage = 0, !.tailPage = 0, !.tailSeq = 0, !.headSeq = 0]
      /\ pop.ptr = d.headPage /\ pop.head = 0
  BY <1>4 DEF Popped
<1> HIDE DEF pop
<1>6. /\ IsStore(e)
      /\ e.headPage = 0 /\ e.tailPage = 0 /\ e.headSeq = 0 /\ e.tailSeq = 0
      /\ e.flushed = d.flushed /\ e.nappend = d.nappend /\ e.maxSeq = d.maxSeq
      /\ e.updates = d.updates
  BY <1>1, <1>5 DEF IsStore, Number
<1> HIDE DEF e
<1>7. AppendPtr(e) = AppendPtr(d)
  BY <1>6 DEF AppendPtr
<1>8. d.tailSeq \in Nat /\ NodeNo(d.tailSeq) \in Nat
  BY <1>1, Positions DEF IsStore
<1>9. DOMAIN N = {NodeNo(d.tailSeq)} /\ N[NodeNo(d.tailSeq)] = d.headPage /\ DOMAIN E = {}
  BY <1>2, <1>8 DEF Linked
<1>10. out \union {d.headPage} = 1 .. AppendPtr(d) - 1 /\ d.headPage \notin out
  <2>1. \A p \in 1 .. AppendPtr(d) - 1 : p \in out \/ p = d.headPage
    <3>1. \A p \in 1 .. AppendPtr(d) - 1 :
            p \in out \/ (\E k \in DOMAIN N : N[k] = p) \/ (\E s \in DOMAIN E : E[s] = p)
      BY <1>2 DEF Apart
    <3> QED
      BY <1>9, <3>1
  <2>2. out \subseteq 1 .. AppendPtr(d) - 1
    BY <1>2 DEF Apart
  <2>3. d.headPage \in 1 .. AppendPtr(d) - 1 /\ d.headPage \notin out
    <3>1. \A k \in DOMAIN N : N[k] \in 1 .. AppendPtr(d) - 1 /\ N[k] \notin out
      BY <1>2 DEF Apart
    <3> QED
      BY <1>9, <3>1
  <2> QED
    BY <2>1, <2>2, <2>3
<1> QED
  BY <1>5, <1>6, <1>7, <1>10 DEF Bare, Good, e, pop

\* freePushTail without a list (disk.go:202-213): a page appended for the list
\* holds the page given as its first entry.
LEMMA FirstNode ==
  ASSUME NEW b, NEW d, NEW disk, NEW out, Bare(d, out), NEW ptr \in out
  PROVE  LET e == FreePushFirst(d, ptr) IN
         /\ e.flushed = d.flushed /\ e.nappend = d.nappend + 1 /\ e.maxSeq = d.maxSeq
         /\ e.headSeq = 0 /\ e.tailSeq = 1 /\ e.tailPage = AppendPtr(d)
         /\ AppendPtr(d) \in Nat \ {0}
         /\ Good(b, TRUE, e, disk, out \ {ptr}, 0, {})
<1> DEFINE p == AppendPtr(d)
           c == [Blank EXCEPT !.slots[0] = ptr]
           f == PageAppend(d, c)
           e == FreePushFirst(d, ptr)
           N == [k \in 0 .. 0 |-> p]
           E == [s \in 0 .. 0 |-> ptr]
<1>1. IsStore(d) /\ p \in Nat \ {0} /\ ptr \in 1 .. p - 1 /\ out = 1 .. p - 1
  <2>1. IsStore(d) /\ out = 1 .. p - 1
    BY DEF Bare
  <2>2. p \in Nat \ {0}
    BY <2>1 DEF IsStore, AppendPtr
  <2> QED
    BY <2>1, <2>2
<1>2. c \in ListNodeSet /\ c.slots[0] = ptr
  <2>1. 0 \in Slots
    BY PageStoreAssumption DEF Slots
  <2>2. Blank \in ListNodeSet
    BY NodeShapes
  <2>3. ptr \in Number
    BY <1>1 DEF Number
  <2> QED
    BY <2>1, <2>2, <2>3 DEF ListNodeSet
<1> HIDE DEF c
<1>3. IsContent(c) /\ AsList(c) = c
  BY <1>2, NodeShapes
<1>4. /\ IsStore(f)
      /\ f.flushed = d.flushed /\ f.nappend = d.nappend + 1 /\ f.maxSeq = d.maxSeq
      /\ DOMAIN f.updates = DOMAIN d.updates \union {p}
      /\ AppendPtr(f) = p + 1
      /\ View(f, disk, p) = c
  BY <1>1, <1>3, PageAppendStep
<1>5. e = [f EXCEPT !.headPage = p, !.tailPage = p, !.headSeq = 0, !.tailSeq = 1]
  BY DEF FreePushFirst, c
<1> HIDE DEF f, p
<1>6. /\ IsStore(e)
      /\ e.flushed = d.flushed /\ e.nappend = d.nappend + 1 /\ e.maxSeq = d.maxSeq
      /\ e.headPage = p /\ e.tailPage = p /\ e.headSeq = 0 /\ e.tailSeq = 1
      /\ e.updates = f.updates
  BY <1>1, <1>4, <1>5 DEF IsStore, Number
<1>7. AppendPtr(e) = p + 1 /\ p \in Nat
  BY <1>1, <1>4, <1>6 DEF AppendPtr
<1>8. View(e, disk, p) = c
  BY <1>4, <1>6 DEF View, PageRead
<1> HIDE DEF e
<1>9. Linked(e, disk, N, E, 0)
  <2>1. NodeNo(0) = 0 /\ SeqIdx(0) = 0
    BY PositionZero
  <2>2. N[0] = p /\ E[0] = ptr /\ N \in [0 .. 0 -> Nat] /\ E \in [0 .. 0 -> Nat]
    BY <1>1
  <2>3. \A s \in 0 .. 0 : s = 0
    OBVIOUS
  <2> HIDE DEF N, E
  <2> QED
    BY <1>2, <1>6, <1>8, <2>1, <2>2, <2>3 DEF Linked
<1>10. Apart(out \ {ptr}, N, E, p + 1)
  <2>1. DOMAIN N = {0} /\ DOMAIN E = {0} /\ N[0] = p /\ E[0] = ptr
    OBVIOUS
  <2>2. \A q \in 1 .. p + 1 - 1 : q \in 1 .. p - 1 \/ q = p
    BY <1>1
  <2>3. \A q \in 1 .. p - 1 : q \in 1 .. p + 1 - 1 /\ q # p
    BY <1>1
  <2>4. p \in 1 .. p + 1 - 1 /\ p + 1 \in Nat
    BY <1>1
  <2> HIDE DEF N, E
  <2> QED
    BY <1>1, <2>1, <2>2, <2>3, <2>4 DEF Apart
<1>11. DOMAIN e.updates \subseteq 1 .. p + 1 - 1
  <2>1. DOMAIN d.updates \subseteq 1 .. p - 1
    BY DEF Bare, p
  <2> QED
    BY <1>1, <1>4, <1>6, <2>1
<1> HIDE DEF N, E
<1>12. Good(b, TRUE, e, disk, out \ {ptr}, 0, {})
  <2>1. Apart(out \ {ptr}, N, E, AppendPtr(e)) /\ DOMAIN e.updates \subseteq 1 .. AppendPtr(e) - 1
    BY <1>7, <1>10, <1>11
  <2>2. ~TRUE => Since(b, e, disk, N, E, {})
    OBVIOUS
  <2> QED
    BY <1>6, <1>9, <2>1, <2>2 DEF Good
<1> QED
  BY <1>1, <1>6, <1>12 DEF e, p

\* A page outside can be written, and one appended, without a list as well.
LEMMA BareSteps ==
  ASSUME NEW d, NEW out, Bare(d, out), NEW c, IsContent(c)
  PROVE  /\ \A p \in out : Bare(SetPage(d, p, c), out)
         /\ Bare(PageAppend(d, c), out \union {AppendPtr(d)})
         /\ AppendPtr(d) \in Nat \ {0}
<1>1. IsStore(d) /\ out = 1 .. AppendPtr(d) - 1 /\ DOMAIN d.updates \subseteq out
  BY DEF Bare
<1>2. AppendPtr(d) \in Nat \ {0}
  BY <1>1 DEF IsStore, AppendPtr
<1>3. ASSUME NEW p \in out PROVE Bare(SetPage(d, p, c), out)
  <2> DEFINE e == SetPage(d, p, c)
  <2>1. /\ IsStore(e)
        /\ e.flushed = d.flushed /\ e.nappend = d.nappend
        /\ e.headPage = d.headPage /\ e.tailPage = d.tailPage
        /\ e.headSeq = d.headSeq /\ e.tailSeq = d.tailSeq
        /\ DOMAIN e.updates = DOMAIN d.updates \union {p}
    BY <1>1, SetPageStep
  <2> HIDE DEF e
  <2> QED
    BY <1>1, <2>1 DEF Bare, AppendPtr, e
<1>4. Bare(PageAppend(d, c), out \union {AppendPtr(d)})
  <2> DEFINE e == PageAppend(d, c)
  <2>1. /\ IsStore(e)
        /\ e.headPage = d.headPage /\ e.tailPage = d.tailPage
        /\ e.headSeq = d.headSeq /\ e.tailSeq = d.tailSeq
        /\ DOMAIN e.updates = DOMAIN d.updates \union {AppendPtr(d)}
        /\ AppendPtr(e) = AppendPtr(d) + 1
    BY <1>1, PageAppendStep
  <2> HIDE DEF e
  <2>2. out \union {AppendPtr(d)} = 1 .. AppendPtr(d) + 1 - 1
    BY <1>1, <1>2
  <2> QED
    BY <1>1, <2>1, <2>2, SMTT(30) DEF Bare, e
<1> QED
  BY <1>2, <1>3, <1>4

-----------------------------------------------------------------------------
(* The calls of the allocator.                                              *)

\* What the lemmas below read off a store in order.
LEMMA GoodFacts ==
  ASSUME NEW b, IsBegin(b), NEW emptied, NEW d, NEW disk, NEW out, NEW last, NEW W,
         Good(b, emptied, d, disk, out, last, W)
  PROVE  /\ IsStore(d)
         /\ d.headSeq \in Nat /\ d.tailSeq \in Nat /\ d.maxSeq \in Nat
         /\ d.headSeq <= d.tailSeq /\ last \in Nat
         /\ AppendPtr(d) \in Nat /\ out \subseteq 1 .. AppendPtr(d) - 1
         /\ d.tailPage \in 1 .. AppendPtr(d) - 1 /\ d.tailPage # 0
         /\ ~emptied => b.tailSeq \in Nat /\ b.tailSeq <= d.tailSeq
<1>1. IsStore(d)
  BY DEF Good
<1>2. PICK N, E : /\ Linked(d, disk, N, E, last)
                  /\ Apart(out, N, E, AppendPtr(d))
                  /\ ~emptied => Since(b, d, disk, N, E, W)
  BY DEF Good
<1>3. /\ d.headSeq \in Nat /\ d.tailSeq \in Nat /\ d.maxSeq \in Nat
      /\ NodeNo(d.headSeq) \in Nat
  BY <1>1, Positions DEF IsStore
<1>4. d.headSeq <= d.tailSeq /\ last \in Nat /\ last \in DOMAIN N /\ N[last] = d.tailPage
  BY <1>2, <1>3 DEF Linked
<1>5. AppendPtr(d) \in Nat /\ out \subseteq 1 .. AppendPtr(d) - 1
  BY <1>2 DEF Apart
<1>6. d.tailPage \in 1 .. AppendPtr(d) - 1
  BY <1>2, <1>4 DEF Apart
<1>7. ~emptied => b.tailSeq \in Nat /\ b.tailSeq <= d.tailSeq
  BY <1>2 DEF Since, IsBegin
<1> QED
  BY <1>1, <1>3, <1>4, <1>5, <1>6, <1>7

\* The head of the list is a page of the file, and its tail too when the list
\* has no entry.
LEMMA HeadOfList ==
  ASSUME NEW b, NEW emptied, NEW d, NEW disk, NEW out, NEW W,
         Good(b, emptied, d, disk, out, NodeNo(d.tailSeq), W)
  PROVE  /\ d.headPage \in 1 .. AppendPtr(d) - 1
         /\ d.headSeq = d.tailSeq => d.headPage = d.tailPage
<1>1. PICK N, E : /\ Linked(d, disk, N, E, NodeNo(d.tailSeq))
                  /\ Apart(out, N, E, AppendPtr(d))
  BY DEF Good
<1>2. NodeNo(d.headSeq) \in Nat
  BY Positions DEF Good, IsStore
<1>3. /\ NodeNo(d.headSeq) \in DOMAIN N /\ N[NodeNo(d.headSeq)] = d.headPage
      /\ N[NodeNo(d.tailSeq)] = d.tailPage
  BY <1>1, <1>2 DEF Linked
<1>4. d.headPage \in 1 .. AppendPtr(d) - 1
  BY <1>1, <1>3 DEF Apart
<1> QED
  BY <1>3, <1>4

\* freePushTail when the tail node is full (disk.go:221-235).
LEMMA GrowTail ==
  ASSUME NEW b, IsBegin(b), NEW emptied, NEW d, NEW disk, IsFile(disk),
         NEW out, NEW last, NEW W, Good(b, emptied, d, disk, out, last, W),
         NodeNo(d.tailSeq) = last + 1, SeqIdx(d.tailSeq) = 0, d.headSeq < d.tailSeq,
         d.headSeq <= d.maxSeq /\ SeqIdx(d.headSeq + 1) = 0 => NodeNo(d.headSeq) < last,
         ~emptied => b.tailSeq < d.tailSeq
  PROVE  LET e == FreeGrowTail(d, disk) IN
         /\ e.flushed = d.flushed /\ e.maxSeq = d.maxSeq /\ d.nappend <= e.nappend
         /\ \E V : /\ W \subseteq V
                   /\ Good(b, emptied, e, disk, out, NodeNo(e.tailSeq), V)
<1> DEFINE pop == FreePopHead(d, disk)
           next == IF pop.ptr = 0 THEN AppendPtr(pop.db) ELSE pop.ptr
           d1 == IF pop.ptr = 0 THEN PageAppend(pop.db, Blank) ELSE pop.db
           d2 == LinkTail(d1, disk, next)
           e == FreeGrowTail(d, disk)
<1>1. /\ IsStore(d) /\ d.headSeq \in Nat /\ d.tailSeq \in Nat /\ d.maxSeq \in Nat
      /\ last \in Nat /\ AppendPtr(d) \in Nat /\ out \subseteq 1 .. AppendPtr(d) - 1
      /\ d.nappend \in Nat
  BY GoodFacts DEF IsStore
<1>2. e = IF pop.head = 0 THEN d2
          ELSE [PageWriteSlot(d2, disk, next, 0, pop.head) EXCEPT !.tailSeq = @ + 1]
  BY DEF FreeGrowTail, LinkTail
<1>3. CASE d.headSeq > d.maxSeq
  <2>1. pop.db = d /\ pop.ptr = 0 /\ pop.head = 0
    BY <1>3 DEF FreePopHead, Popped
  <2> HIDE DEF pop
  <2>2. d1 = PageAppend(d, Blank) /\ next = AppendPtr(d) /\ e = d2
    BY <1>2, <2>1
  <2> HIDE DEF e, d1, next
  <2>3. IsContent(Blank)
    BY NodeShapes
  <2>4. /\ d1.flushed = d.flushed /\ d1.nappend = d.nappend + 1 /\ d1.maxSeq = d.maxSeq
        /\ d1.headPage = d.headPage /\ d1.headSeq = d.headSeq
        /\ d1.tailPage = d.tailPage /\ d1.tailSeq = d.tailSeq
        /\ next \in Nat \ {0}
        /\ ~emptied => next \in W
        /\ Good(b, emptied, d1, disk, out \union {next}, last, W)
    <3>1. LET h == PageAppend(d, Blank) IN
          /\ h.flushed = d.flushed /\ h.nappend = d.nappend + 1 /\ h.maxSeq = d.maxSeq
          /\ h.headPage = d.headPage /\ h.headSeq = d.headSeq
          /\ h.tailPage = d.tailPage /\ h.tailSeq = d.tailSeq
          /\ AppendPtr(d) \in Nat \ {0}
          /\ ~emptied => AppendPtr(d) \in W
          /\ Good(b, emptied, h, disk, out \union {AppendPtr(d)}, last, W)
      BY <2>3, AppendOutside, Zenon
    <3> QED
      BY <2>2, <3>1
  <2>5. /\ d2.flushed = d1.flushed /\ d2.nappend = d1.nappend /\ d2.maxSeq = d1.maxSeq
        /\ d2.headPage = d1.headPage /\ d2.headSeq = d1.headSeq
        /\ d2.tailPage = next /\ d2.tailSeq = d1.tailSeq
        /\ Good(b, emptied, d2, disk, (out \union {next}) \ {next}, last + 1, W)
    <3>1. next \in out \union {next} /\ NodeNo(d1.tailSeq) = last + 1 /\ SeqIdx(d1.tailSeq) = 0
      BY <2>4
    <3>2. ~emptied => next \in W /\ b.tailSeq < d1.tailSeq
      BY <2>4
    <3>3. Good(b, emptied, d1, disk, out \union {next}, last, W)
      BY <2>4
    <3> QED
      BY <3>1, <3>2, <3>3, LinkNode, Zenon
  <2>6. (out \union {next}) \ {next} = out
    BY <1>1, <2>2
  <2> HIDE DEF d2
  <2>7. Good(b, emptied, e, disk, out, NodeNo(e.tailSeq), W)
    BY <2>2, <2>4, <2>5, <2>6
  <2> QED
    BY <1>1, <2>2, <2>4, <2>5, <2>7 DEF e
<1>4. CASE ~(d.headSeq > d.maxSeq)
  <2>1. d.headSeq <= d.maxSeq
    BY <1>1, <1>4
  <2> DEFINE f == pop.db
             Out == out \union {pop.ptr} \union ({pop.head} \ {0})
             V == W \union {pop.ptr}
  <2>2. /\ pop.ptr \in 1 .. AppendPtr(d) - 1 /\ pop.ptr \notin out
        /\ d.headPage \in 1 .. AppendPtr(d) - 1 /\ d.headPage \notin out
        /\ pop.ptr # d.headPage
        /\ pop.head = IF SeqIdx(d.headSeq + 1) = 0 THEN d.headPage ELSE 0
        /\ f.flushed = d.flushed /\ f.nappend = d.nappend /\ f.maxSeq = d.maxSeq
        /\ f.tailPage = d.tailPage /\ f.tailSeq = d.tailSeq
        /\ f.headSeq = d.headSeq + 1
        /\ f.updates = d.updates
        /\ Good(b, emptied, f, disk, Out, last, V)
    <3>1. SeqIdx(d.headSeq + 1) = 0 => NodeNo(d.headSeq) < last
      BY <2>1
    <3> QED
      BY <2>1, <3>1, TakeEntry, Zenon
  <2> HIDE DEF pop
  <2>3. pop.ptr # 0 /\ pop.ptr \in Nat
    BY <1>1, <2>2
  <2>4. next = pop.ptr /\ d1 = f
    BY <2>3
  <2> HIDE DEF next, d1
  <2>5. /\ d2.flushed = f.flushed /\ d2.nappend = f.nappend /\ d2.maxSeq = f.maxSeq
        /\ d2.headPage = f.headPage /\ d2.headSeq = f.headSeq
        /\ d2.tailPage = next /\ d2.tailSeq = f.tailSeq
        /\ Good(b, emptied, d2, disk, Out \ {next}, last + 1, V)
    <3>1. next \in Out /\ NodeNo(f.tailSeq) = last + 1 /\ SeqIdx(f.tailSeq) = 0
      BY <2>2, <2>4
    <3>2. ~emptied => next \in V /\ b.tailSeq < f.tailSeq
      BY <2>2, <2>4
    <3>3. Good(b, emptied, f, disk, Out, last, V)
      BY <2>2
    <3> HIDE DEF f, Out, V
    <3>4. LET h == LinkTail(f, disk, next) IN
          /\ h.flushed = f.flushed /\ h.nappend = f.nappend /\ h.maxSeq = f.maxSeq
          /\ h.headPage = f.headPage /\ h.headSeq = f.headSeq
          /\ h.tailPage = next /\ h.tailSeq = f.tailSeq
          /\ Good(b, emptied, h, disk, Out \ {next}, last + 1, V)
      BY <3>1, <3>2, <3>3, LinkNode, Zenon
    <3> QED
      BY <2>4, <3>4
  <2> HIDE DEF d2
  <2>6. CASE pop.head = 0
    <3>1. Out \ {next} = out
      BY <2>2, <2>4, <2>6
    <3>2. e = d2 /\ NodeNo(e.tailSeq) = last + 1
      BY <1>2, <2>2, <2>5, <2>6
    <3>3. Good(b, emptied, e, disk, out, NodeNo(e.tailSeq), V)
      BY <2>5, <3>1, <3>2
    <3> HIDE DEF e
    <3> QED
      BY <1>1, <2>2, <2>5, <3>2, <3>3 DEF e
  <2>7. CASE pop.head # 0
    <3>1. pop.head = d.headPage
      BY <2>2, <2>7
    <3>2. (Out \ {next}) \ {pop.head} = out /\ pop.head \in Out \ {next}
      BY <2>2, <2>4, <2>7, <3>1
    <3>3. e = PutSlot(d2, disk, pop.head)
      <4>1. SeqIdx(d2.tailSeq) = 0
        BY <2>2, <2>5
      <4> QED
        BY <1>2, <2>5, <2>7, <4>1 DEF PutSlot
    <3> HIDE DEF e, Out, V
    <3>4. /\ e.flushed = d2.flushed /\ e.nappend = d2.nappend /\ e.maxSeq = d2.maxSeq
          /\ e.headPage = d2.headPage /\ e.headSeq = d2.headSeq
          /\ e.tailPage = d2.tailPage /\ e.tailSeq = d2.tailSeq + 1
          /\ Good(b, emptied, e, disk, (Out \ {next}) \ {pop.head}, last + 1, V)
      <4>1. NodeNo(d2.tailSeq) = last + 1 /\ pop.head \in Out \ {next}
        BY <2>2, <2>5, <3>2
      <4>2. Good(b, emptied, d2, disk, Out \ {next}, last + 1, V)
        BY <2>5
      <4>3. LET h == PutSlot(d2, disk, pop.head) IN
            /\ h.flushed = d2.flushed /\ h.nappend = d2.nappend /\ h.maxSeq = d2.maxSeq
            /\ h.headPage = d2.headPage /\ h.headSeq = d2.headSeq
            /\ h.tailPage = d2.tailPage /\ h.tailSeq = d2.tailSeq + 1
            /\ Good(b, emptied, h, disk, (Out \ {next}) \ {pop.head}, last + 1, V)
        BY <4>1, <4>2, PutEntry, Zenon
      <4> QED
        BY <3>3, <4>3
    <3>5. NodeNo(e.tailSeq) = last + 1
      <4>1. e.tailSeq = d.tailSeq + 1
        BY <2>2, <2>5, <3>4
      <4>2. d.tailSeq - 1 \in Nat /\ (d.tailSeq - 1) + 1 = d.tailSeq
            /\ (d.tailSeq - 1) + 2 = d.tailSeq + 1
        BY <1>1
      <4>3. SeqIdx(d.tailSeq + 1) # 0
        BY <4>2, Positions
      <4> QED
        BY <1>1, <4>1, <4>3, Positions
    <3>6. Good(b, emptied, e, disk, out, NodeNo(e.tailSeq), V)
      BY <3>2, <3>4, <3>5
    <3>7. W \subseteq V
      BY DEF V
    <3> QED
      BY <1>1, <2>2, <2>5, <3>4, <3>6, <3>7 DEF e
  <2> QED
    BY <2>6, <2>7
<1> QED
  BY <1>3, <1>4

\* freePushTail on a list (disk.go:215-236), unless the list takes the page it
\* is being given.
LEMMA PushTail ==
  ASSUME NEW b, IsBegin(b), NEW emptied, NEW d, NEW disk, IsFile(disk),
         NEW out, NEW W, Good(b, emptied, d, disk, out, NodeNo(d.tailSeq), W),
         NEW ptr \in out,
         d.headSeq < d.tailSeq \/ d.headSeq > d.maxSeq \/ SeqIdx(d.tailSeq + 1) # 0
  PROVE  LET e == FreePushTail(d, disk, ptr) IN
         /\ e.flushed = d.flushed /\ e.maxSeq = d.maxSeq /\ d.nappend <= e.nappend
         /\ \E V : /\ W \subseteq V
                   /\ Good(b, emptied, e, disk, out \ {ptr}, NodeNo(e.tailSeq), V)
<1> DEFINE d1 == PutSlot(d, disk, ptr)
           last == NodeNo(d.tailSeq)
           e == FreePushTail(d, disk, ptr)
<1>1. /\ IsStore(d)
      /\ d.headSeq \in Nat /\ d.tailSeq \in Nat /\ d.maxSeq \in Nat
      /\ d.headSeq <= d.tailSeq /\ last \in Nat
      /\ AppendPtr(d) \in Nat /\ out \subseteq 1 .. AppendPtr(d) - 1
      /\ d.tailPage \in 1 .. AppendPtr(d) - 1 /\ d.tailPage # 0
      /\ ~emptied => b.tailSeq \in Nat /\ b.tailSeq <= d.tailSeq
  BY GoodFacts
<1>2. d.nappend \in Nat
  BY <1>1 DEF IsStore
<1>3. /\ d1.flushed = d.flushed /\ d1.nappend = d.nappend /\ d1.maxSeq = d.maxSeq
      /\ d1.headPage = d.headPage /\ d1.headSeq = d.headSeq
      /\ d1.tailPage = d.tailPage /\ d1.tailSeq = d.tailSeq + 1
      /\ Good(b, emptied, d1, disk, out \ {ptr}, last, W)
  BY PutEntry, Zenon
<1>4. e = IF SeqIdx(d1.tailSeq) = 0 THEN FreeGrowTail(d1, disk) ELSE d1
  BY <1>1 DEF FreePushTail, PutSlot
<1> HIDE DEF d1, e
<1>5. CASE SeqIdx(d1.tailSeq) # 0
  <2>1. e = d1 /\ NodeNo(e.tailSeq) = last
    BY <1>1, <1>3, <1>4, <1>5, Positions
  <2>2. Good(b, emptied, e, disk, out \ {ptr}, NodeNo(e.tailSeq), W)
    BY <1>3, <2>1
  <2> QED
    BY <1>2, <1>3, <2>1, <2>2 DEF e
<1>6. CASE SeqIdx(d1.tailSeq) = 0
  <2>1. NodeNo(d1.tailSeq) = last + 1
    BY <1>1, <1>3, <1>6, Positions
  <2>2. d1.headSeq < d1.tailSeq
    BY <1>1, <1>3
  <2>3. d1.headSeq <= d1.maxSeq /\ SeqIdx(d1.headSeq + 1) = 0 => NodeNo(d1.headSeq) < last
    <3> SUFFICES ASSUME d.headSeq <= d.maxSeq, SeqIdx(d.headSeq + 1) = 0
                 PROVE  NodeNo(d.headSeq) < last
      BY <1>3
    <3>1. d.headSeq + 1 <= d.tailSeq
      BY <1>1, <1>3, <1>6
    <3>2. NodeNo(d.headSeq + 1) <= NodeNo(d.tailSeq) /\ NodeNo(d.headSeq) \in Nat
      BY <1>1, <3>1, Positions, PositionsApart, SMTT(30)
    <3>3. NodeNo(d.headSeq + 1) = NodeNo(d.headSeq) + 1
      BY <1>1, Positions
    <3> QED
      BY <1>1, <3>2, <3>3
  <2>4. ~emptied => b.tailSeq < d1.tailSeq
    BY <1>1, <1>3
  <2>5. Good(b, emptied, d1, disk, out \ {ptr}, last, W)
    BY <1>3
  <2>6. LET h == FreeGrowTail(d1, disk) IN
        /\ h.flushed = d1.flushed /\ h.maxSeq = d1.maxSeq /\ d1.nappend <= h.nappend
        /\ \E V : /\ W \subseteq V
                  /\ Good(b, emptied, h, disk, out \ {ptr}, NodeNo(h.tailSeq), V)
    BY <1>6, <2>1, <2>2, <2>3, <2>4, <2>5, GrowTail, Zenon
  <2>7. e = FreeGrowTail(d1, disk)
    BY <1>4, <1>6
  <2> QED
    BY <1>3, <2>6, <2>7 DEF e
<1> QED
  BY <1>5, <1>6

\* The other case: the tail node, filled, is the head node and its only entry
\* the page given, so the list hands that page out as its next node. Only the
\* counters and the pages written are followed.
LEMMA DrainTail ==
  ASSUME NEW d, IsStore(d), NEW disk, IsFile(disk), NEW ptr \in Nat \ {0},
         d.tailPage # 0, d.headPage = d.tailPage,
         d.headSeq = d.tailSeq, d.headSeq <= d.maxSeq, SeqIdx(d.tailSeq + 1) = 0
  PROVE  LET e == FreePushTail(d, disk, ptr) IN
         /\ e.flushed = d.flushed /\ e.maxSeq = d.maxSeq /\ e.nappend = d.nappend
         /\ e.headSeq = d.headSeq + 1 /\ e.tailSeq = d.tailSeq + 2
         /\ DOMAIN e.updates = DOMAIN d.updates \union {d.tailPage, ptr}
<1> DEFINE d1 == PutSlot(d, disk, ptr)
           pop == FreePopHead(d1, disk)
           node == View(d1, disk, d.tailPage)
           d2 == [d1 EXCEPT !.headSeq = @ + 1, !.headPage = node.next]
           d3 == LinkTail(d2, disk, ptr)
           e == FreePushTail(d, disk, ptr)
<1>1. d.headSeq \in Nat /\ d.tailSeq \in Nat /\ d.maxSeq \in Nat
  BY DEF IsStore
<1>2. /\ IsStore(d1)
      /\ d1.flushed = d.flushed /\ d1.nappend = d.nappend /\ d1.maxSeq = d.maxSeq
      /\ d1.headPage = d.headPage /\ d1.tailPage = d.tailPage
      /\ d1.headSeq = d.headSeq /\ d1.tailSeq = d.tailSeq + 1
      /\ DOMAIN d1.updates = DOMAIN d.updates \union {d.tailPage}
      /\ node.slots[SeqIdx(d.tailSeq)] = ptr
  BY PutSlotStep
<1>3. node \in ListNodeSet
  BY <1>2, ReadShape
<1>4. e = FreeGrowTail(d1, disk)
  BY <1>2 DEF FreePushTail, PutSlot
<1> HIDE DEF d1, e, node
<1>5. ~(d1.headSeq > d1.maxSeq) /\ d1.headSeq # d1.tailSeq /\ SeqIdx(d1.headSeq + 1) = 0
  BY <1>1, <1>2
<1>6. node = AsList(PageRead(d1, disk, d1.headPage))
  BY <1>2 DEF View, node
<1>7. pop = Popped(d2, ptr, d.tailPage)
  BY <1>2, <1>5, <1>6 DEF FreePopHead
<1>8. pop.db = d2 /\ pop.ptr = ptr /\ pop.head = d.tailPage
  BY <1>7 DEF Popped
<1>9. e = [PageWriteSlot(d3, disk, ptr, 0, d.tailPage) EXCEPT !.tailSeq = @ + 1]
  BY <1>4, <1>8 DEF FreeGrowTail, LinkTail
<1> HIDE DEF pop
<1>10. /\ IsStore(d2)
       /\ d2.flushed = d.flushed /\ d2.nappend = d.nappend /\ d2.maxSeq = d.maxSeq
       /\ d2.tailPage = d.tailPage
       /\ d2.headSeq = d.headSeq + 1 /\ d2.tailSeq = d.tailSeq + 1
       /\ d2.updates = d1.updates
  BY <1>1, <1>2, <1>3 DEF IsStore, ListNodeSet
<1> HIDE DEF d2
<1>11. /\ IsStore(d3)
       /\ d3.flushed = d2.flushed /\ d3.nappend = d2.nappend /\ d3.maxSeq = d2.maxSeq
       /\ d3.tailPage = ptr
       /\ d3.headSeq = d2.headSeq /\ d3.tailSeq = d2.tailSeq
       /\ DOMAIN d3.updates = DOMAIN d2.updates \union {d2.tailPage}
  BY <1>10, LinkTailStep, SMTT(30)
<1> HIDE DEF d3
<1>12. SeqIdx(d3.tailSeq) = 0
  BY <1>10, <1>11
<1>13. e = PutSlot(d3, disk, d.tailPage)
  BY <1>9, <1>11, <1>12 DEF PutSlot
<1>14. d.tailPage \in Nat /\ IsStore(d3)
  BY <1>11 DEF IsStore
<1>15. LET h == PutSlot(d3, disk, d.tailPage) IN
       /\ h.flushed = d3.flushed /\ h.nappend = d3.nappend /\ h.maxSeq = d3.maxSeq
       /\ h.headSeq = d3.headSeq /\ h.tailSeq = d3.tailSeq + 1
       /\ DOMAIN h.updates = DOMAIN d3.updates \union {d3.tailPage}
  BY <1>14, PutSlotStep, SMTT(30)
<1>16. d3.tailSeq + 1 = d.tailSeq + 2
  BY <1>1, <1>10, <1>11
<1> QED
  BY <1>2, <1>10, <1>11, <1>13, <1>15, <1>16 DEF e

\* pageAlloc on a list (disk.go:146-156): the page it answers was outside the
\* tree, and the list is in order or, its last node taken, gone.
LEMMA AllocStep ==
  ASSUME NEW b, IsBegin(b), NEW emptied, NEW d, NEW disk, IsFile(disk),
         NEW out, NEW W, Good(b, emptied, d, disk, out, NodeNo(d.tailSeq), W),
         NEW c, IsContent(c)
  PROVE  LET a == PageAlloc(d, disk, c)
             e == a.db IN
         /\ e.flushed = d.flushed /\ e.maxSeq = d.maxSeq /\ d.nappend <= e.nappend
         /\ a.ptr \notin out
         /\ \/ Bare(e, out \union {a.ptr})
            \/ \E V : Good(b, emptied, e, disk, out \union {a.ptr}, NodeNo(e.tailSeq), V)
<1> DEFINE pop == FreePopHead(d, disk)
           d1 == IF pop.head = 0 THEN pop.db ELSE FreePushTail(pop.db, disk, pop.head)
           a == PageAlloc(d, disk, c)
           last == NodeNo(d.tailSeq)
<1>1. /\ IsStore(d)
      /\ d.headSeq \in Nat /\ d.tailSeq \in Nat /\ d.maxSeq \in Nat
      /\ d.headSeq <= d.tailSeq /\ last \in Nat
      /\ AppendPtr(d) \in Nat /\ out \subseteq 1 .. AppendPtr(d) - 1
  BY GoodFacts
<1>2. d.nappend \in Nat
  BY <1>1 DEF IsStore
<1>3. a = IF pop.ptr = 0 THEN [db |-> PageAppend(d1, c), ptr |-> AppendPtr(d1)]
          ELSE [db |-> SetPage(d1, pop.ptr, c), ptr |-> pop.ptr]
  BY DEF PageAlloc
<1>4. CASE d.headSeq > d.maxSeq
  <2>1. pop.db = d /\ pop.ptr = 0 /\ pop.head = 0
    BY <1>4 DEF FreePopHead, Popped
  <2> HIDE DEF pop
  <2>2. d1 = d
    BY <2>1
  <2> HIDE DEF d1, a
  <2>3. a.db = PageAppend(d, c) /\ a.ptr = AppendPtr(d)
    BY <1>3, <2>1, <2>2
  <2>4. LET h == PageAppend(d, c) IN
        /\ h.flushed = d.flushed /\ h.nappend = d.nappend + 1 /\ h.maxSeq = d.maxSeq
        /\ h.headPage = d.headPage /\ h.headSeq = d.headSeq
        /\ h.tailPage = d.tailPage /\ h.tailSeq = d.tailSeq
        /\ AppendPtr(d) \in Nat \ {0}
        /\ ~emptied => AppendPtr(d) \in W
        /\ Good(b, emptied, h, disk, out \union {AppendPtr(d)}, last, W)
    BY AppendOutside, Zenon
  <2>5. Good(b, emptied, a.db, disk, out \union {a.ptr}, NodeNo(a.db.tailSeq), W)
    BY <2>3, <2>4
  <2>6. a.ptr \notin out
    BY <1>1, <2>3
  <2> QED
    BY <1>2, <2>3, <2>4, <2>5, <2>6 DEF a
<1>5. CASE d.headSeq <= d.maxSeq /\ d.headSeq = d.tailSeq
  <2> DEFINE f == pop.db
  <2>0. d.headSeq = d.tailSeq /\ d.headSeq <= d.maxSeq
    BY <1>5
  <2>1. /\ pop.ptr = d.headPage /\ pop.ptr \in 1 .. AppendPtr(d) - 1 /\ pop.ptr \notin out
        /\ pop.head = 0
        /\ f.flushed = d.flushed /\ f.nappend = d.nappend /\ f.maxSeq = d.maxSeq
        /\ Bare(f, out \union {pop.ptr})
    BY <2>0, TakeLastNode, ZenonT(30)
  <2> HIDE DEF pop
  <2>2. pop.ptr # 0 /\ d1 = pop.db
    BY <1>1, <2>1
  <2> HIDE DEF d1, a
  <2>3. a.db = SetPage(pop.db, pop.ptr, c) /\ a.ptr = pop.ptr
    BY <1>3, <2>2
  <2>4. Bare(SetPage(pop.db, pop.ptr, c), out \union {pop.ptr})
    BY <2>1, BareSteps
  <2>5. /\ SetPage(pop.db, pop.ptr, c).flushed = pop.db.flushed
        /\ SetPage(pop.db, pop.ptr, c).nappend = pop.db.nappend
        /\ SetPage(pop.db, pop.ptr, c).maxSeq = pop.db.maxSeq
    <3>1. IsStore(pop.db)
      BY <2>1 DEF Bare
    <3> QED
      BY <3>1, SetPageStep
  <2> QED
    BY <1>2, <2>1, <2>3, <2>4, <2>5 DEF a
<1>6. CASE d.headSeq <= d.maxSeq /\ d.headSeq < d.tailSeq
  <2> DEFINE f == pop.db
             Out == out \union {pop.ptr} \union ({pop.head} \ {0})
             V == W \union {pop.ptr}
  <2>1. SeqIdx(d.headSeq + 1) = 0 => NodeNo(d.headSeq) < last
    <3>1. NodeNo(d.headSeq + 1) <= NodeNo(d.tailSeq) /\ NodeNo(d.headSeq) \in Nat
      BY <1>1, <1>6, Positions, PositionsApart
    <3>2. SeqIdx(d.headSeq + 1) = 0 => NodeNo(d.headSeq + 1) = NodeNo(d.headSeq) + 1
      BY <1>1, Positions
    <3> QED
      BY <1>1, <3>1, <3>2
  <2>2. /\ pop.ptr \in 1 .. AppendPtr(d) - 1 /\ pop.ptr \notin out
        /\ d.headPage \in 1 .. AppendPtr(d) - 1 /\ d.headPage \notin out
        /\ pop.ptr # d.headPage
        /\ pop.head = IF SeqIdx(d.headSeq + 1) = 0 THEN d.headPage ELSE 0
        /\ f.flushed = d.flushed /\ f.nappend = d.nappend /\ f.maxSeq = d.maxSeq
        /\ f.tailPage = d.tailPage /\ f.tailSeq = d.tailSeq
        /\ f.headSeq = d.headSeq + 1
        /\ f.updates = d.updates
        /\ Good(b, emptied, f, disk, Out, last, V)
    BY <1>6, <2>1, TakeEntry, Zenon
  <2> HIDE DEF pop
  <2>3. pop.ptr # 0
    BY <1>1, <2>2
  <2>4. a.db = SetPage(d1, pop.ptr, c) /\ a.ptr = pop.ptr
    BY <1>3, <2>3
  <2>5. /\ d1.flushed = d.flushed /\ d1.maxSeq = d.maxSeq /\ d.nappend <= d1.nappend
        /\ \E U : /\ V \subseteq U
                  /\ Good(b, emptied, d1, disk, out \union {pop.ptr}, NodeNo(d1.tailSeq), U)
    <3>1. CASE pop.head = 0
      <4>1. d1 = f /\ Out = out \union {pop.ptr} /\ NodeNo(f.tailSeq) = last
        BY <2>2, <3>1
      <4> HIDE DEF d1
      <4>2. Good(b, emptied, d1, disk, out \union {pop.ptr}, NodeNo(d1.tailSeq), V)
        BY <2>2, <4>1
      <4> QED
        BY <1>2, <2>2, <4>1, <4>2
    <3>2. CASE pop.head # 0
      <4>1. pop.head = d.headPage /\ SeqIdx(d.headSeq + 1) = 0
        BY <2>2, <3>2
      <4>2. pop.head \in Out /\ Out \ {pop.head} = out \union {pop.ptr}
        BY <2>2, <3>2, <4>1
      <4>3. d1 = FreePushTail(f, disk, pop.head)
        BY <3>2
      <4> HIDE DEF d1, V, Out, f
      <4>4. f.headSeq < f.tailSeq \/ f.headSeq > f.maxSeq \/ SeqIdx(f.tailSeq + 1) # 0
        <5>1. CASE f.headSeq < f.tailSeq
          BY <5>1
        <5>2. CASE ~(f.headSeq < f.tailSeq)
          <6>1. f.tailSeq = d.headSeq + 1
            BY <1>1, <1>6, <2>2, <5>2
          <6>2. SeqIdx(d.headSeq + 2) # 0
            BY <1>1, <4>1, Positions
          <6>3. f.tailSeq + 1 = d.headSeq + 2
            BY <1>1, <6>1
          <6> QED
            BY <6>2, <6>3
        <5> QED
          BY <5>1, <5>2
      <4>5. Good(b, emptied, f, disk, Out, NodeNo(f.tailSeq), V)
        BY <2>2
      <4>6. LET h == FreePushTail(f, disk, pop.head) IN
            /\ h.flushed = f.flushed /\ h.maxSeq = f.maxSeq /\ f.nappend <= h.nappend
            /\ \E U : /\ V \subseteq U
                      /\ Good(b, emptied, h, disk, Out \ {pop.head}, NodeNo(h.tailSeq), U)
        BY <4>2, <4>4, <4>5, PushTail, Zenon
      <4> QED
        BY <2>2, <4>2, <4>3, <4>6
    <3> QED
      BY <3>1, <3>2
  <2> HIDE DEF d1, a
  <2>6. PICK U : /\ V \subseteq U
                 /\ Good(b, emptied, d1, disk, out \union {pop.ptr}, NodeNo(d1.tailSeq), U)
    BY <2>5
  <2>7. pop.ptr \in U /\ pop.ptr \in out \union {pop.ptr}
    BY <2>6
  <2> DEFINE g == SetPage(d1, pop.ptr, c)
  <2>8. Good(b, emptied, g, disk, out \union {pop.ptr}, NodeNo(d1.tailSeq), U)
    <3>1. Good(b, emptied, d1, disk, out \union {pop.ptr}, NodeNo(d1.tailSeq), U)
      BY <2>6
    <3>2. ~emptied => pop.ptr \in U
      BY <2>7
    <3>3. pop.ptr \in out \union {pop.ptr} /\ NodeNo(d1.tailSeq) = NodeNo(d1.tailSeq)
      OBVIOUS
    <3> QED
      BY <3>1, <3>2, <3>3, WriteOutside, Zenon
  <2>9. /\ g.flushed = d1.flushed /\ g.nappend = d1.nappend
        /\ g.maxSeq = d1.maxSeq /\ g.tailSeq = d1.tailSeq
    <3>1. IsStore(d1)
      BY <2>6 DEF Good
    <3> QED
      BY <3>1, SetPageStep
  <2> HIDE DEF g
  <2>10. a.db = g
    BY <2>4 DEF g
  <2>11. Good(b, emptied, a.db, disk, out \union {a.ptr}, NodeNo(a.db.tailSeq), U)
    BY <2>4, <2>8, <2>9, <2>10
  <2> QED
    BY <1>2, <2>2, <2>4, <2>5, <2>9, <2>10, <2>11 DEF a
<1> QED
  BY <1>1, <1>4, <1>5, <1>6

\* pageAlloc without a list: a page is appended.
LEMMA BareAlloc ==
  ASSUME NEW d, NEW disk, NEW out, Bare(d, out), NEW c, IsContent(c)
  PROVE  LET a == PageAlloc(d, disk, c)
             e == a.db IN
         /\ e.flushed = d.flushed /\ e.maxSeq = d.maxSeq /\ e.nappend = d.nappend + 1
         /\ e.tailPage = 0
         /\ a.ptr \notin out
         /\ Bare(e, out \union {a.ptr})
<1> DEFINE pop == FreePopHead(d, disk)
           a == PageAlloc(d, disk, c)
<1>1. /\ IsStore(d)
      /\ d.headPage = 0 /\ d.tailPage = 0 /\ d.headSeq = 0 /\ d.tailSeq = 0
      /\ out = 1 .. AppendPtr(d) - 1
  BY DEF Bare
<1>2. ~(d.headSeq > d.maxSeq)
  BY <1>1 DEF IsStore
<1> DEFINE f == [d EXCEPT !.headPage = 0, !.tailPage = 0, !.tailSeq = 0, !.headSeq = 0]
<1>3. /\ IsStore(f)
      /\ f.headPage = 0 /\ f.tailPage = 0 /\ f.headSeq = 0 /\ f.tailSeq = 0
      /\ f.flushed = d.flushed /\ f.nappend = d.nappend /\ f.maxSeq = d.maxSeq
      /\ f.updates = d.updates
  BY <1>1 DEF IsStore, Number
<1>4. pop.db = f /\ pop.ptr = 0 /\ pop.head = 0
  BY <1>1, <1>2 DEF FreePopHead, Popped
<1>5. a.db = PageAppend(f, c) /\ a.ptr = AppendPtr(f)
  BY <1>4 DEF PageAlloc
<1> HIDE DEF pop, a, f
<1>6. AppendPtr(f) = AppendPtr(d)
  BY <1>3 DEF AppendPtr
<1>7. Bare(f, out)
  BY <1>1, <1>3, <1>6 DEF Bare
<1>8. Bare(PageAppend(f, c), out \union {AppendPtr(f)}) /\ AppendPtr(f) \in Nat \ {0}
  BY <1>7, BareSteps
<1>9. /\ PageAppend(f, c).flushed = f.flushed /\ PageAppend(f, c).nappend = f.nappend + 1
      /\ PageAppend(f, c).maxSeq = f.maxSeq /\ PageAppend(f, c).tailPage = f.tailPage
  BY <1>3, PageAppendStep
<1>10. AppendPtr(f) \notin out
  BY <1>1, <1>6, <1>8
<1> QED
  BY <1>3, <1>5, <1>8, <1>9, <1>10 DEF a

-----------------------------------------------------------------------------
(* The list as ListNodes and Entries give it.                               *)

\* ListNodes follows the links from headPage on, for as many nodes as the
\* sequence numbers say. Its definition is recursive: that there is such a
\* function is shown for the shortest list that would have none.
LEMMA NodesFollow ==
  ASSUME NEW d, NEW disk, d.tailPage # 0, ListLen(d) \in Nat
  PROVE  LET nd == ListNodes(d, disk) IN
         nd = [i \in 1 .. ListLen(d) |->
                 IF i = 1 THEN d.headPage ELSE View(d, disk, nd[i - 1]).next]
<1> DEFINE Walk(f, m) ==
             [i \in 1 .. m |-> IF i = 1 THEN d.headPage ELSE View(d, disk, f[i - 1]).next]
           T == {m \in Nat : ~(\E f : f = Walk(f, m))}
<1>1. T = {}
  <2> SUFFICES ASSUME T # {} PROVE FALSE
    OBVIOUS
  <2>1. PICK m \in T : \A y \in T : m <= y
    <3>1. T \subseteq Nat /\ T # {}
      OBVIOUS
    <3> HIDE DEF T
    <3> QED
      BY <3>1, LeastNat
  <2>2. m \in Nat /\ ~(\E f : f = Walk(f, m))
    OBVIOUS
  <2>3. m # 0
    <3> SUFFICES ASSUME m = 0 PROVE FALSE
      OBVIOUS
    <3> DEFINE f == [i \in 1 .. m |-> d.headPage]
    <3>1. f = Walk(f, m)
      OBVIOUS
    <3> QED
      BY <2>2, <3>1
  <2>4. PICK g : g = Walk(g, m - 1)
    <3>1. m - 1 \in Nat /\ ~(m <= m - 1)
      BY <2>2, <2>3
    <3>2. m - 1 \notin T
      BY <2>1, <3>1
    <3> QED
      BY <3>1, <3>2
  <2> DEFINE f == [i \in 1 .. m |->
                     IF i < m THEN g[i]
                     ELSE IF i = 1 THEN d.headPage ELSE View(d, disk, g[i - 1]).next]
  <2>5. ASSUME NEW i \in 1 .. m
        PROVE  f[i] = IF i = 1 THEN d.headPage ELSE View(d, disk, f[i - 1]).next
    <3>1. i \in Int /\ 1 <= i /\ i <= m
      BY <2>2
    <3>2. i # 1 => f[i - 1] = g[i - 1]
      BY <2>2, <3>1
    <3>3. CASE i < m
      <4>1. i \in 1 .. m - 1 /\ f[i] = g[i]
        BY <2>2, <3>1, <3>3
      <4>2. g[i] = IF i = 1 THEN d.headPage ELSE View(d, disk, g[i - 1]).next
        BY <2>4, <4>1
      <4> QED
        BY <3>2, <4>1, <4>2
    <3>4. CASE ~(i < m)
      <4>1. f[i] = IF i = 1 THEN d.headPage ELSE View(d, disk, g[i - 1]).next
        BY <3>4
      <4> QED
        BY <3>2, <4>1
    <3> QED
      BY <3>3, <3>4
  <2>6. f = Walk(f, m)
    BY <2>5
  <2> QED
    BY <2>2, <2>6
<1>2. \E f : f = Walk(f, ListLen(d))
  BY <1>1
<1>3. ListNodes(d, disk) = CHOOSE f : f = Walk(f, ListLen(d))
  BY DEF ListNodes, View
<1> QED
  BY <1>2, <1>3

\* The nodes under their numbers, from the sequence of them.
Numbered(d, nd) ==
  [k \in NodeNo(d.headSeq) .. NodeNo(d.tailSeq) |-> nd[k - NodeNo(d.headSeq) + 1]]

\* A list with its entries in order has a node, numbered in order.
LEMMA ListLength ==
  ASSUME NEW d, IsStore(d), d.headSeq <= d.tailSeq
  PROVE  /\ d.headSeq \in Nat /\ d.tailSeq \in Nat
         /\ NodeNo(d.headSeq) \in Nat /\ NodeNo(d.tailSeq) \in Nat
         /\ NodeNo(d.headSeq) <= NodeNo(d.tailSeq)
         /\ ListLen(d) \in Nat /\ ListLen(d) = NodeNo(d.tailSeq) - NodeNo(d.headSeq) + 1
         /\ \A s \in d.headSeq .. d.tailSeq - 1 :
              /\ s \in Nat /\ NodeNo(s) \in NodeNo(d.headSeq) .. NodeNo(d.tailSeq)
              /\ SeqIdx(s) \in Slots
<1>1. d.headSeq \in Nat /\ d.tailSeq \in Nat
  BY DEF IsStore
<1>2. /\ NodeNo(d.headSeq) \in Nat /\ NodeNo(d.tailSeq) \in Nat
      /\ NodeNo(d.headSeq) <= NodeNo(d.tailSeq)
  BY <1>1, Positions, PositionsApart
<1>3. ListLen(d) \in Nat /\ ListLen(d) = NodeNo(d.tailSeq) - NodeNo(d.headSeq) + 1
  BY <1>2 DEF ListLen
<1>4. ASSUME NEW s \in d.headSeq .. d.tailSeq - 1
      PROVE  /\ s \in Nat /\ NodeNo(s) \in NodeNo(d.headSeq) .. NodeNo(d.tailSeq)
             /\ SeqIdx(s) \in Slots
  <2>1. s \in Nat /\ d.headSeq <= s /\ s <= d.tailSeq
    BY <1>1
  <2>2. NodeNo(s) \in Nat /\ SeqIdx(s) \in Slots
    BY <2>1, Positions
  <2>3. NodeNo(d.headSeq) <= NodeNo(s) /\ NodeNo(s) <= NodeNo(d.tailSeq)
    BY <1>1, <2>1, PositionsApart
  <2> QED
    BY <1>2, <2>1, <2>2, <2>3
<1> QED
  BY <1>1, <1>2, <1>3, <1>4

\* A list in order is the one ListNodes and Entries give.
LEMMA ListOf ==
  ASSUME NEW d, IsStore(d), NEW disk, d.tailPage # 0,
         NEW N, NEW E, Linked(d, disk, N, E, NodeNo(d.tailSeq))
  PROVE  /\ ListNodes(d, disk) = [i \in 1 .. ListLen(d) |-> N[NodeNo(d.headSeq) + i - 1]]
         /\ Numbered(d, ListNodes(d, disk)) = N
         /\ Entries(d, disk) = E
<1> DEFINE h == NodeNo(d.headSeq)
           t == NodeNo(d.tailSeq)
           n == ListLen(d)
           nd == ListNodes(d, disk)
<1>1. d.headSeq <= d.tailSeq
  BY DEF Linked
<1>2. /\ d.headSeq \in Nat /\ d.tailSeq \in Nat /\ h \in Nat /\ t \in Nat /\ h <= t
      /\ n \in Nat /\ n = t - h + 1
      /\ \A s \in d.headSeq .. d.tailSeq - 1 :
           s \in Nat /\ NodeNo(s) \in h .. t /\ SeqIdx(s) \in Slots
  BY <1>1, ListLength
<1>3. /\ N \in [h .. t -> Nat] /\ E \in [d.headSeq .. d.tailSeq - 1 -> Nat]
      /\ N[h] = d.headPage
      /\ \A k \in h .. t - 1 : View(d, disk, N[k]).next = N[k + 1]
      /\ \A s \in d.headSeq .. d.tailSeq - 1 : View(d, disk, N[NodeNo(s)]).slots[SeqIdx(s)] = E[s]
  BY DEF Linked
<1>4. nd = [i \in 1 .. n |-> IF i = 1 THEN d.headPage ELSE View(d, disk, nd[i - 1]).next]
  BY <1>2, NodesFollow
<1> HIDE DEF nd, n, h, t
<1>5. \A i \in 1 .. n : nd[i] = N[h + i - 1]
  <2> DEFINE T == {i \in 1 .. n : nd[i] # N[h + i - 1]}
  <2> SUFFICES ASSUME T # {} PROVE FALSE
    OBVIOUS
  <2>1. PICK m \in T : \A y \in T : m <= y
    <3>1. T \subseteq Nat /\ T # {}
      BY <1>2
    <3> HIDE DEF T
    <3> QED
      BY <3>1, LeastNat
  <2>2. m \in 1 .. n /\ nd[m] # N[h + m - 1]
    OBVIOUS
  <2>3. nd[m] = IF m = 1 THEN d.headPage ELSE View(d, disk, nd[m - 1]).next
    BY <1>4, <2>2
  <2>4. m # 1
    BY <1>2, <1>3, <2>2, <2>3
  <2>5. m - 1 \in 1 .. n /\ ~(m <= m - 1)
    BY <1>2, <2>2, <2>4
  <2>6. nd[m - 1] = N[h + (m - 1) - 1]
    <3>1. m - 1 \notin T
      BY <2>1, <2>5
    <3> QED
      BY <2>5, <3>1
  <2>7. /\ h + (m - 1) - 1 \in h .. t - 1
        /\ (h + (m - 1) - 1) + 1 = h + m - 1
    BY <1>2, <2>2, <2>5
  <2>8. View(d, disk, nd[m - 1]).next = N[h + m - 1]
    BY <1>3, <2>6, <2>7
  <2> QED
    BY <2>2, <2>3, <2>4, <2>8
<1>6. nd = [i \in 1 .. n |-> N[h + i - 1]]
  BY <1>4, <1>5
<1>7. \A k \in h .. t : k - h + 1 \in 1 .. n /\ nd[k - h + 1] = N[k]
  <2>1. ASSUME NEW k \in h .. t
        PROVE  k - h + 1 \in 1 .. n /\ h + (k - h + 1) - 1 = k
    BY <1>2
  <2> QED
    BY <1>5, <2>1
<1>8. Numbered(d, nd) = N
  <2>1. Numbered(d, nd) = [k \in h .. t |-> nd[k - h + 1]]
    BY DEF Numbered, h, t
  <2>2. N = [k \in h .. t |-> N[k]]
    BY <1>3
  <2> QED
    BY <1>7, <2>1, <2>2
<1>9. Entries(d, disk) = E
  <2>1. Entries(d, disk) =
          [s \in d.headSeq .. d.tailSeq - 1 |->
             View(d, disk, nd[NodeNo(s) - h + 1]).slots[SeqIdx(s)]]
    BY DEF Entries, View, nd, h
  <2>2. \A s \in d.headSeq .. d.tailSeq - 1 : nd[NodeNo(s) - h + 1] = N[NodeNo(s)]
    BY <1>2, <1>7
  <2>3. \A s \in d.headSeq .. d.tailSeq - 1 :
          View(d, disk, nd[NodeNo(s) - h + 1]).slots[SeqIdx(s)] = E[s]
    BY <1>3, <2>2
  <2>4. E = [s \in d.headSeq .. d.tailSeq - 1 |-> E[s]]
    BY <1>3
  <2> QED
    BY <2>1, <2>3, <2>4
<1> QED
  BY <1>6, <1>8, <1>9 DEF nd, n, h

\* And the list ListNodes and Entries give is in order when it ends at tailPage.
LEMMA LinkedBack ==
  ASSUME NEW d, IsStore(d), NEW disk, d.tailPage # 0, d.headSeq <= d.tailSeq,
         NEW N, N = Numbered(d, ListNodes(d, disk)), NEW E, E = Entries(d, disk),
         N \in [NodeNo(d.headSeq) .. NodeNo(d.tailSeq) -> Nat],
         E \in [d.headSeq .. d.tailSeq - 1 -> Nat],
         N[NodeNo(d.tailSeq)] = d.tailPage
  PROVE  Linked(d, disk, N, E, NodeNo(d.tailSeq))
<1> DEFINE h == NodeNo(d.headSeq)
           t == NodeNo(d.tailSeq)
           n == ListLen(d)
           nd == ListNodes(d, disk)
<1>1. /\ d.headSeq \in Nat /\ d.tailSeq \in Nat /\ h \in Nat /\ t \in Nat /\ h <= t
      /\ n \in Nat /\ n = t - h + 1
      /\ \A s \in d.headSeq .. d.tailSeq - 1 :
           s \in Nat /\ NodeNo(s) \in h .. t /\ SeqIdx(s) \in Slots
  BY ListLength
<1>2. nd = [i \in 1 .. n |-> IF i = 1 THEN d.headPage ELSE View(d, disk, nd[i - 1]).next]
  BY <1>1, NodesFollow
<1>3. \A k \in h .. t : N[k] = nd[k - h + 1]
  BY DEF Numbered
<1>4. \A s \in d.headSeq .. d.tailSeq - 1 :
        View(d, disk, nd[NodeNo(s) - h + 1]).slots[SeqIdx(s)] = E[s]
  BY DEF Entries, View
<1>5. h \in Nat /\ t \in Nat /\ h <= t /\ n = t - h + 1
  BY <1>1
<1> HIDE DEF nd, n, h, t
<1>6. N[h] = d.headPage
  <2>1. h \in h .. t /\ h - h + 1 = 1 /\ 1 \in 1 .. n
    BY <1>5
  <2> QED
    BY <1>2, <1>3, <2>1
<1>7. ASSUME NEW k \in h .. t - 1 PROVE View(d, disk, N[k]).next = N[k + 1]
  <2> DEFINE i == (k + 1) - h + 1
  <2>1. k \in h .. t /\ k + 1 \in h .. t /\ i \in 1 .. n /\ i # 1 /\ i - 1 = k - h + 1
    BY <1>5
  <2>2. N[k + 1] = nd[i] /\ N[k] = nd[k - h + 1]
    BY <1>3, <2>1, Zenon
  <2> HIDE DEF i
  <2>3. nd[i] = View(d, disk, nd[i - 1]).next
    BY <1>2, <2>1
  <2> QED
    BY <2>1, <2>2, <2>3
<1>8. ASSUME NEW s \in d.headSeq .. d.tailSeq - 1
      PROVE  NodeNo(s) <= t /\ View(d, disk, N[NodeNo(s)]).slots[SeqIdx(s)] = E[s]
  <2>1. NodeNo(s) \in h .. t
    BY <1>1
  <2>2. N[NodeNo(s)] = nd[NodeNo(s) - h + 1]
    BY <1>3, <2>1
  <2> QED
    BY <1>4, <1>5, <2>1, <2>2
<1> QED
  BY <1>5, <1>6, <1>7, <1>8 DEF Linked, h, t

-----------------------------------------------------------------------------
(* From one store to another, and from one file to another.                 *)

\* The fields that say where the list is.
SameList(d, e) ==
  /\ e.headPage = d.headPage /\ e.headSeq = d.headSeq
  /\ e.tailPage = d.tailPage /\ e.tailSeq = d.tailSeq

\* What matters of the file is how its pages read.
LEMMA CarryDisk ==
  ASSUME NEW b, NEW emptied, NEW d, NEW disk, NEW disc, NEW out, NEW last, NEW W,
         Good(b, emptied, d, disk, out, last, W),
         \A q : View(d, disc, q) = View(d, disk, q)
  PROVE  Good(b, emptied, d, disc, out, last, W)
<1>1. PICK N, E : /\ Linked(d, disk, N, E, last)
                  /\ Apart(out, N, E, AppendPtr(d))
                  /\ ~emptied => Since(b, d, disk, N, E, W)
  BY DEF Good
<1>2. Linked(d, disc, N, E, last)
  BY <1>1 DEF Linked
<1>3. ASSUME ~emptied PROVE Since(b, d, disc, N, E, W)
  <2>1. Since(b, d, disk, N, E, W)
    BY <1>1, <1>3
  <2> QED
    BY <2>1 DEF Since
<1> QED
  BY <1>1, <1>2, <1>3 DEF Good

\* Another store over the same list and the same end of the file.
LEMMA CarryStore ==
  ASSUME NEW b, NEW emptied, NEW d, NEW disk, NEW out, NEW last, NEW W,
         Good(b, emptied, d, disk, out, last, W),
         NEW e, IsStore(e), SameList(d, e), AppendPtr(e) = AppendPtr(d),
         DOMAIN e.updates \subseteq 1 .. AppendPtr(d) - 1,
         NEW disc, \A q : View(e, disc, q) = View(d, disk, q)
  PROVE  Good(b, TRUE, e, disc, out, last, W)
<1>1. PICK N, E : Linked(d, disk, N, E, last) /\ Apart(out, N, E, AppendPtr(d))
  BY DEF Good
<1>2. Linked(e, disc, N, E, last)
  BY <1>1 DEF Linked, SameList
<1>3. Apart(out, N, E, AppendPtr(e)) /\ DOMAIN e.updates \subseteq 1 .. AppendPtr(e) - 1
  BY <1>1
<1> QED
  BY <1>2, <1>3 DEF Good

\* Another store without a list, over the same end of the file.
LEMMA CarryBare ==
  ASSUME NEW d, NEW out, Bare(d, out),
         NEW e, IsStore(e), SameList(d, e), AppendPtr(e) = AppendPtr(d),
         DOMAIN e.updates \subseteq 1 .. AppendPtr(d) - 1
  PROVE  Bare(e, out)
BY DEF Bare, SameList

\* A new file: page 1 is the one node of a list without entries.
LEMMA NewStoreGood ==
  ASSUME NEW b, NEW disk
  PROVE  /\ IsStore(NewStore)
         /\ Good(b, TRUE, NewStore, disk, {}, NodeNo(NewStore.tailSeq), {})
<1> DEFINE d == NewStore
           N == [k \in 0 .. 0 |-> 1]
           E == [s \in 0 .. -1 |-> 0]
<1>1. /\ DOMAIN d = {"flushed", "nappend", "updates", "headPage", "headSeq",
                     "tailPage", "tailSeq", "maxSeq"}
      /\ d.flushed = 2 /\ d.nappend = 0 /\ DOMAIN d.updates = {}
      /\ d.headPage = 1 /\ d.tailPage = 1
      /\ d.headSeq = 0 /\ d.tailSeq = 0 /\ d.maxSeq = 0
  BY DEF NewStore
<1> HIDE DEF d
<1>2. IsStore(d) /\ AppendPtr(d) = 2
  BY <1>1 DEF IsStore, AppendPtr, Number
<1>3. NodeNo(0) = 0
  BY PositionZero
<1>4. Linked(d, disk, N, E, 0)
  BY <1>1, <1>3 DEF Linked
<1>5. Apart({}, N, E, 2)
  BY DEF Apart
<1> QED
  BY <1>1, <1>2, <1>3, <1>4, <1>5 DEF Good, d

\* The pages a commit may write while entries it found are left are pages of
\* neither the tree nor, but for the last, a node of the list it found.
LEMMA NotMine ==
  ASSUME NEW b, IsBegin(b)
  PROVE  /\ b.tree \intersect Mine(b) = {}
         /\ \A k \in NodeNo(b.headSeq) .. NodeNo(b.tailSeq) - 1 : b.nodes[k] \notin Mine(b)
<1>1. /\ b.headSeq \in Nat /\ b.tailSeq \in Nat /\ b.headSeq <= b.tailSeq
      /\ DOMAIN b.nodes = NodeNo(b.headSeq) .. NodeNo(b.tailSeq)
      /\ b.nodes[NodeNo(b.tailSeq)] = b.tailPage
  BY DEF IsBegin
<1>2. /\ NodeNo(b.headSeq) \in Nat /\ NodeNo(b.tailSeq) \in Nat
      /\ NodeNo(b.headSeq) <= NodeNo(b.tailSeq)
  BY <1>1, Positions, PositionsApart
<1>3. NodeNo(b.tailSeq) \in DOMAIN b.nodes
  BY <1>1, <1>2
<1>4. /\ b.end \in Nat /\ b.tree \subseteq 1 .. b.end - 1
      /\ \A k \in DOMAIN b.nodes : b.nodes[k] \in 1 .. b.end - 1 /\ b.nodes[k] \notin b.tree
      /\ \A s \in DOMAIN b.entries : b.entries[s] \notin b.tree
      /\ \A k \in DOMAIN b.nodes, s \in DOMAIN b.entries : b.nodes[k] # b.entries[s]
      /\ \A j, k \in DOMAIN b.nodes : b.nodes[j] = b.nodes[k] => j = k
  BY DEF IsBegin, Apart
<1>5. ASSUME NEW p \in b.tree PROVE p \notin Mine(b)
  <2>1. p # b.tailPage
    BY <1>1, <1>3, <1>4
  <2>2. ~(p >= b.end)
    BY <1>4
  <2> QED
    BY <1>4, <2>1, <2>2 DEF Mine
<1>6. ASSUME NEW k \in NodeNo(b.headSeq) .. NodeNo(b.tailSeq) - 1
      PROVE  b.nodes[k] \notin Mine(b)
  <2>1. k \in DOMAIN b.nodes /\ k # NodeNo(b.tailSeq)
    BY <1>1, <1>2
  <2>2. b.nodes[k] # b.tailPage
    BY <1>1, <1>3, <1>4, <2>1
  <2>3. ~(b.nodes[k] >= b.end)
    BY <1>4, <2>1
  <2> QED
    BY <1>4, <2>1, <2>2, <2>3 DEF Mine
<1> QED
  BY <1>5, <1>6

\* What a commit finds that begins with store d.
BeginOf(d, disk, out) ==
  [headSeq |-> d.headSeq, tailSeq |-> d.tailSeq, tailPage |-> d.tailPage,
   nodes |-> Numbered(d, ListNodes(d, disk)), entries |-> Entries(d, disk),
   tree |-> out, end |-> d.flushed]

\* It finds a list in order, and has written nothing yet.
LEMMA ListBegins ==
  ASSUME NEW b, NEW d, NEW disk, NEW out, NEW W,
         Good(b, TRUE, d, disk, out, NodeNo(d.tailSeq), W), d.tailPage # 0,
         DOMAIN d.updates = {}, d.nappend = 0, d.maxSeq <= d.tailSeq
  PROVE  LET f == BeginOf(d, disk, out) IN
         /\ IsBegin(f)
         /\ f.nodes \in [NodeNo(d.headSeq) .. NodeNo(d.tailSeq) -> Nat]
         /\ f.entries \in [d.headSeq .. d.tailSeq - 1 -> Nat]
         /\ Good(f, FALSE, d, disk, out, NodeNo(d.tailSeq), Mine(f))
<1> DEFINE f == BeginOf(d, disk, out)
           last == NodeNo(d.tailSeq)
<1>1. IsStore(d)
  BY DEF Good
<1>2. PICK N, E : Linked(d, disk, N, E, last) /\ Apart(out, N, E, AppendPtr(d))
  BY DEF Good
<1>3. Numbered(d, ListNodes(d, disk)) = N /\ Entries(d, disk) = E
  BY <1>1, <1>2, ListOf
<1>4. /\ f.headSeq = d.headSeq /\ f.tailSeq = d.tailSeq /\ f.tailPage = d.tailPage
      /\ f.nodes = N /\ f.entries = E /\ f.tree = out /\ f.end = d.flushed
  BY <1>3 DEF BeginOf
<1>5. AppendPtr(d) = d.flushed
  BY <1>1 DEF AppendPtr, IsStore
<1> HIDE DEF f
<1>6. /\ d.headSeq \in Nat /\ d.tailSeq \in Nat /\ last \in Nat /\ NodeNo(d.headSeq) \in Nat
      /\ d.headSeq <= d.tailSeq
      /\ N \in [NodeNo(d.headSeq) .. last -> Nat] /\ E \in [d.headSeq .. d.tailSeq - 1 -> Nat]
      /\ N[last] = d.tailPage
  BY <1>1, <1>2, Positions DEF Linked, IsStore
<1>7. IsBegin(f)
  BY <1>2, <1>4, <1>5, <1>6 DEF IsBegin
<1>8. ASSUME NEW s \in d.headSeq .. d.tailSeq - 1, NodeNo(s) = last
      PROVE  View(d, disk, d.tailPage).slots[SeqIdx(s)] = E[s]
  BY <1>2, <1>6, <1>8 DEF Linked
<1>9. Since(f, d, disk, N, E, Mine(f))
  <2>1. f.headSeq <= d.headSeq /\ d.headSeq <= f.tailSeq + 1
    BY <1>4, <1>6
  <2>2. f.tailSeq <= d.tailSeq /\ d.maxSeq <= f.tailSeq /\ f.end <= AppendPtr(d)
    BY <1>1, <1>4, <1>5, <1>6 DEF IsStore
  <2>3. \A k \in DOMAIN N : ~(k > NodeNo(f.tailSeq))
    BY <1>4, <1>6
  <2>4. \E x : Mine(f) \subseteq Mine(f) \union {x}
    OBVIOUS
  <2>5. \A s \in f.headSeq .. f.tailSeq - 1 : NodeNo(s) = NodeNo(f.tailSeq) =>
          View(d, disk, f.tailPage).slots[SeqIdx(s)] = f.entries[s]
    BY <1>4, <1>8
  <2> QED
    BY <1>4, <2>1, <2>2, <2>3, <2>4, <2>5 DEF Since
<1>10. Good(f, FALSE, d, disk, out, last, Mine(f))
  BY <1>1, <1>2, <1>9 DEF Good
<1> QED
  BY <1>4, <1>6, <1>7, <1>10 DEF f

\* Whichever of the pages a commit has written reach the file, the store as it
\* was when the commit began still has its list there, as long as an entry of
\* it is left: e is that store, S the pages written.
LEMMA ListSurvives ==
  ASSUME NEW b, IsBegin(b), NEW d, NEW disk, NEW out, NEW last, NEW W,
         Good(b, FALSE, d, disk, out, last, W), d.headSeq <= b.tailSeq,
         NEW e, e.headSeq = b.headSeq, e.tailSeq = b.tailSeq,
         Linked(e, disk, b.nodes, b.entries, NodeNo(b.tailSeq)),
         NEW disc, NEW S, S \subseteq DOMAIN d.updates,
         \A q \in S : View(e, disc, q) = View(d, disk, q),
         \A q : q \notin S => View(e, disc, q) = View(e, disk, q)
  PROVE  Linked(e, disc, b.nodes, b.entries, NodeNo(b.tailSeq))
<1> DEFINE h == NodeNo(b.headSeq)
           t == NodeNo(b.tailSeq)
<1>1. /\ b.headSeq \in Nat /\ b.tailSeq \in Nat /\ b.headSeq <= b.tailSeq
      /\ b.nodes[t] = b.tailPage
  BY DEF IsBegin
<1>2. h \in Nat /\ t \in Nat
  BY <1>1, Positions
<1>3. PICK N, E : Since(b, d, disk, N, E, W)
  BY DEF Good
<1>4. /\ S \subseteq Mine(b)
      /\ \A s \in b.headSeq .. b.tailSeq - 1 : NodeNo(s) = t =>
           View(d, disk, b.tailPage).slots[SeqIdx(s)] = b.entries[s]
  BY <1>3 DEF Since
<1>5. \A k \in h .. t - 1 : b.nodes[k] \notin S
  BY <1>4, NotMine
<1>6. \A k \in h .. t - 1 : View(e, disc, b.nodes[k]) = View(e, disk, b.nodes[k])
  BY <1>5
<1>7. /\ \A k \in h .. t - 1 : View(e, disk, b.nodes[k]).next = b.nodes[k + 1]
      /\ \A s \in b.headSeq .. b.tailSeq - 1 :
           NodeNo(s) <= t /\ View(e, disk, b.nodes[NodeNo(s)]).slots[SeqIdx(s)] = b.entries[s]
  BY DEF Linked
<1>8. \A k \in h .. t - 1 : View(e, disc, b.nodes[k]).next = b.nodes[k + 1]
  BY <1>6, <1>7
<1>9. ASSUME NEW s \in b.headSeq .. b.tailSeq - 1
      PROVE  View(e, disc, b.nodes[NodeNo(s)]).slots[SeqIdx(s)] = b.entries[s]
  <2>1. s \in Nat /\ NodeNo(s) \in Nat /\ h <= NodeNo(s) /\ NodeNo(s) <= t
    BY <1>1, <1>7, Positions, PositionsApart
  <2>2. CASE NodeNo(s) # t
    <3>1. NodeNo(s) \in h .. t - 1
      BY <1>2, <2>1, <2>2
    <3> QED
      BY <1>6, <1>7, <3>1
  <2>3. CASE NodeNo(s) = t
    <3>1. CASE b.tailPage \in S
      BY <1>1, <1>4, <2>3, <3>1
    <3>2. CASE b.tailPage \notin S
      BY <1>1, <1>7, <2>3, <3>2
    <3> QED
      BY <3>1, <3>2
  <2> QED
    BY <2>2, <2>3
<1> QED
  BY <1>7, <1>8, <1>9 DEF Linked

\* What a commit has written of the tree it began with: nothing while entries
\* it found are left, and one page at most until it takes the last node.
LEMMA WritesLate ==
  ASSUME NEW b, IsBegin(b), NEW d, NEW disk, NEW out, NEW last, NEW W,
         Good(b, FALSE, d, disk, out, last, W)
  PROVE  /\ d.headSeq <= b.tailSeq => DOMAIN d.updates \intersect b.tree = {}
         /\ \E x : DOMAIN d.updates \intersect b.tree \subseteq {x}
<1>1. PICK N, E : Since(b, d, disk, N, E, W)
  BY DEF Good
<1>2. b.tree \intersect Mine(b) = {}
  BY NotMine
<1>3. d.headSeq <= b.tailSeq => DOMAIN d.updates \subseteq Mine(b)
  BY <1>1 DEF Since
<1>4. PICK x : W \subseteq Mine(b) \union {x}
  BY <1>1 DEF Since
<1>5. DOMAIN d.updates \subseteq Mine(b) \union {x}
  BY <1>1, <1>4 DEF Since
<1>6. DOMAIN d.updates \intersect b.tree \subseteq {x}
  BY <1>2, <1>5
<1> QED
  BY <1>2, <1>3, <1>6

\* There is a list to begin with.
LEMMA SomeBegin ==
  \E b : IsBegin(b)
<1> DEFINE N == [k \in 0 .. 0 |-> 1]
           E == [s \in 0 .. -1 |-> 0]
           b == [headSeq |-> 0, tailSeq |-> 0, tailPage |-> 1, nodes |-> N,
                 entries |-> E, tree |-> {}, end |-> 2]
<1>1. Apart({}, N, E, 2)
  BY DEF Apart
<1>2. NodeNo(0) = 0
  BY PositionZero
<1>3. /\ b.headSeq = 0 /\ b.tailSeq = 0 /\ b.tailPage = 1 /\ b.nodes = N
      /\ b.entries = E /\ b.tree = {} /\ b.end = 2
  OBVIOUS
<1>4. DOMAIN N = 0 .. 0 /\ DOMAIN E = 0 .. 0 - 1 /\ N[0] = 1
  OBVIOUS
<1> HIDE DEF b, N, E
<1>5. IsBegin(b)
  BY <1>1, <1>2, <1>3, <1>4 DEF IsBegin
<1> QED
  BY <1>5
=============================================================================
