----------------------------- MODULE PageStore -----------------------------
(***************************************************************************)
(* The page allocator of storage/disk.go as operators: pageRead, pageAlloc,*)
(* pageAppend, pageWrite and the free list, an unrolled linked list of     *)
(* pages that are themselves pages of the file (freePopHead, freePushTail).*)
(*                                                                         *)
(* A store d is the part of the Go struct KV these functions work on: the  *)
(* fields page.flushed, page.nappend, page.updates and free.*. The file is *)
(* a function disk from page numbers to contents; db.mmap maps it shared,  *)
(* so what is written to the file is what a read returns.                  *)
(*                                                                         *)
(* A page holds a node of the free list, a record [next, slots], or bytes  *)
(* of something else (a tree node, the meta page). Read as a list node,    *)
(* such bytes give page numbers that mean nothing: Junk.                   *)
(***************************************************************************)
EXTENDS Integers

CONSTANTS Cap,   \* page numbers in one node of the free list: 511 in the code
          Junk   \* a page number read from bytes that are no list node

ASSUME PageStoreAssumption == Cap \in Nat \ {0, 1} /\ Junk \notin Nat

ListNode(next, slots) == [next |-> next, slots |-> slots]
Slots == 0 .. Cap - 1

\* The entry with sequence number s stands in slot SeqIdx(s) of the list's node
\* number NodeNo(s), counted from the node that had the entry 0.
SeqIdx(s) == s % Cap
NodeNo(s) == s \div Cap

\* A page of zeroes, as make([]byte, PAGE_SIZE) gives it, is an empty list node.
Blank == ListNode(0, [i \in Slots |-> 0])
JunkNode == ListNode(Junk, [i \in Slots |-> Junk])
IsListNode(c) == DOMAIN c = {"next", "slots"}
AsList(c) == IF IsListNode(c) THEN c ELSE JunkNode

\* page.flushed, page.nappend, page.updates and free.* right after readRoot has
\* met an empty file.
NewStore ==
  [flushed |-> 2, nappend |-> 0, updates |-> [p \in {} |-> Blank],
   headPage |-> 1, headSeq |-> 0, tailPage |-> 1, tailSeq |-> 0, maxSeq |-> 0]

\* What saveMeta writes of a store and loadMeta reads back.
SaveMeta(d) ==
  [flushed |-> d.flushed, headPage |-> d.headPage, headSeq |-> d.headSeq,
   tailPage |-> d.tailPage, tailSeq |-> d.tailSeq, maxSeq |-> d.maxSeq]

\* A plausible slip in loadMeta: one field is left out.
LoadMetaForgetsHead(m) ==
  [flushed |-> m.flushed, nappend |-> 0, updates |-> [p \in {} |-> Blank],
   headPage |-> m.headPage, headSeq |-> 0,
   tailPage |-> m.tailPage, tailSeq |-> m.tailSeq, maxSeq |-> m.maxSeq]

\* loadMeta followed by forgetting the pages of the transaction, as Abort does
\* (Open starts with neither).
LoadMeta(m) ==
  [flushed |-> m.flushed, nappend |-> 0, updates |-> [p \in {} |-> Blank],
   headPage |-> m.headPage, headSeq |-> m.headSeq,
   tailPage |-> m.tailPage, tailSeq |-> m.tailSeq, maxSeq |-> m.maxSeq]

-----------------------------------------------------------------------------
(* Pages.                                                                   *)

\* A pointer that no chunk of the mmap covers panics in the code; the contents
\* are Junk here, and so is every page number read from them.
PageRead(d, disk, p) ==
  IF p \in DOMAIN d.updates THEN d.updates[p]
  ELSE IF p \in DOMAIN disk THEN disk[p]
  ELSE JunkNode

SetPage(d, p, c) ==
  [d EXCEPT !.updates = [q \in DOMAIN d.updates \union {p} |->
                           IF q = p THEN c ELSE d.updates[q]]]

\* A page to append: its number, then the store that has it.
AppendPtr(d) == d.flushed + d.nappend
PageAppend(d, c) == [SetPage(d, AppendPtr(d), c) EXCEPT !.nappend = d.nappend + 1]

\* pageWrite and the store into the node it returns, in one: the copy of page p
\* in updates is made if there is none, and one field of its list node is set.
PageWriteSlot(d, disk, p, i, ptr) ==
  LET node == AsList(PageRead(d, disk, p))
  IN  SetPage(d, p, [node EXCEPT !.slots[i] = ptr])
PageWriteNext(d, disk, p, ptr) ==
  LET node == AsList(PageRead(d, disk, p))
  IN  SetPage(d, p, [node EXCEPT !.next = ptr])

-----------------------------------------------------------------------------
(* The free list.                                                           *)

\* The answer of freePopHead: a page or 0, a list node that ran empty or 0.
Popped(d, ptr, head) == [db |-> d, ptr |-> ptr, head |-> head]

\* A plausible slip in freePopHead: pages freed by the running commit are not
\* held back.
FreePopAny(d, disk) ==
  LET node == AsList(PageRead(d, disk, d.headPage))
      ptr == node.slots[SeqIdx(d.headSeq)]
  IN  IF d.headSeq = d.tailSeq THEN Popped(d, 0, 0)
      ELSE IF SeqIdx(d.headSeq + 1) = 0
      THEN Popped([d EXCEPT !.headSeq = @ + 1, !.headPage = node.next], ptr, d.headPage)
      ELSE Popped([d EXCEPT !.headSeq = @ + 1], ptr, 0)

FreePopHead(d, disk) ==
  IF d.headSeq > d.maxSeq THEN Popped(d, 0, 0)
  ELSE IF d.headSeq = d.tailSeq
  THEN Popped([d EXCEPT !.headPage = 0, !.tailPage = 0, !.tailSeq = 0, !.headSeq = 0],
              d.headPage, 0)
  ELSE LET node == AsList(PageRead(d, disk, d.headPage))
           ptr == node.slots[SeqIdx(d.headSeq)]
       IN  IF SeqIdx(d.headSeq + 1) = 0
           THEN Popped([d EXCEPT !.headSeq = @ + 1, !.headPage = node.next], ptr, d.headPage)
           ELSE Popped([d EXCEPT !.headSeq = @ + 1], ptr, 0)

\* The list has no node: the page becomes the first entry of an appended one.
FreePushFirst(d, ptr) ==
  [PageAppend(d, [Blank EXCEPT !.slots[0] = ptr]) EXCEPT
     !.headPage = AppendPtr(d), !.tailPage = AppendPtr(d), !.headSeq = 0, !.tailSeq = 1]

\* Plausible slips in freePushTail: the full node is not linked to the next one,
\* or the head node that ran empty is forgotten.
GrowUnlinked(d, disk) ==
  LET pop == FreePopHead(d, disk)
      next == IF pop.ptr = 0 THEN AppendPtr(pop.db) ELSE pop.ptr
      d1 == IF pop.ptr = 0 THEN PageAppend(pop.db, Blank) ELSE pop.db
  IN  IF pop.head = 0 THEN [d1 EXCEPT !.tailPage = next]
      ELSE [PageWriteSlot(d1, disk, next, 0, pop.head) EXCEPT !.tailSeq = @ + 1, !.tailPage = next]

GrowLosesHead(d, disk) ==
  LET pop == FreePopHead(d, disk)
      next == IF pop.ptr = 0 THEN AppendPtr(pop.db) ELSE pop.ptr
      d1 == IF pop.ptr = 0 THEN PageAppend(pop.db, Blank) ELSE pop.db
  IN  [PageWriteNext(d1, disk, d1.tailPage, next) EXCEPT !.tailPage = next]

\* The tail node is full: a node for the next entries comes off the head of the
\* list, or is appended; a head node that ran empty becomes its first entry.
FreeGrowTail(d, disk) ==
  LET pop == FreePopHead(d, disk)
      next == IF pop.ptr = 0 THEN AppendPtr(pop.db) ELSE pop.ptr
      d1 == IF pop.ptr = 0 THEN PageAppend(pop.db, Blank) ELSE pop.db
      d2 == [PageWriteNext(d1, disk, d1.tailPage, next) EXCEPT !.tailPage = next]
  IN  IF pop.head = 0 THEN d2
      ELSE [PageWriteSlot(d2, disk, next, 0, pop.head) EXCEPT !.tailSeq = @ + 1]

FreePushTail(d, disk, ptr) ==
  IF d.tailPage = 0 THEN FreePushFirst(d, ptr)
  ELSE LET d1 == [PageWriteSlot(d, disk, d.tailPage, SeqIdx(d.tailSeq), ptr)
                    EXCEPT !.tailSeq = @ + 1]
       IN  IF SeqIdx(d1.tailSeq) = 0 THEN FreeGrowTail(d1, disk) ELSE d1

\* pageAlloc: the page for content c and the store that has it.
PageAlloc(d, disk, c) ==
  LET pop == FreePopHead(d, disk)
      d1 == IF pop.head = 0 THEN pop.db ELSE FreePushTail(pop.db, disk, pop.head)
  IN  IF pop.ptr = 0 THEN [db |-> PageAppend(d1, c), ptr |-> AppendPtr(d1)]
      ELSE [db |-> SetPage(d1, pop.ptr, c), ptr |-> pop.ptr]

-----------------------------------------------------------------------------
(* What the fields of a store stand for.                                    *)

\* The nodes of the free list, from the one with the entry headSeq to the one
\* for the entry tailSeq.
ListLen(d) == NodeNo(d.tailSeq) - NodeNo(d.headSeq) + 1
ListNodes(d, disk) ==
  IF d.tailPage = 0 THEN [i \in 1 .. 0 |-> 0]
  ELSE LET nd[i \in 1 .. ListLen(d)] ==
             IF i = 1 THEN d.headPage ELSE AsList(PageRead(d, disk, nd[i - 1])).next
       IN  nd

\* The entries: free[s] is the free page with sequence number s.
Entries(d, disk) ==
  LET nd == ListNodes(d, disk)
  IN  [s \in d.headSeq .. d.tailSeq - 1 |->
         AsList(PageRead(d, disk, nd[NodeNo(s) - NodeNo(d.headSeq) + 1])).slots[SeqIdx(s)]]
=============================================================================
