---------------------------- MODULE PagerProofs ----------------------------
(***************************************************************************)
(* What the runs check of Pager on a small file, proved for every capacity *)
(* of a list node, every size of the file, every length of a commit and    *)
(* every sequence of commits, faults and reopenings.                       *)
(*                                                                         *)
(* The invariant says of the store at every point of a commit that its     *)
(* list is in order and which pages are outside it (Good of                *)
(* PageStoreProofs), what the commit has kept of the list it found, and of *)
(* the meta page which tree and which list it leads to.                    *)
(***************************************************************************)
EXTENDS Pager, PageStoreProofs, FiniteSetTheorems, FunctionTheorems

-----------------------------------------------------------------------------
(* The inductive invariant.                                                 *)

\* What a meta page, or tx.meta, is.
IsMeta(m) ==
  /\ m.flushed \in 2 .. MaxPage + 1
  /\ m.headPage \in Page /\ m.tailPage \in Page
  /\ m.headSeq \in 0 .. MaxSeq /\ m.tailSeq \in 0 .. MaxSeq /\ m.maxSeq \in 0 .. MaxSeq

\* What holds whatever has befallen the store.
Shape ==
  /\ db.flushed \in Nat /\ db.nappend \in Nat
  /\ DOMAIN db.updates \subseteq Page
  /\ db.headSeq \in 0 .. MaxSeq /\ db.tailSeq \in 0 .. MaxSeq /\ db.maxSeq \in 0 .. MaxSeq
  /\ live \subseteq Page
  /\ kept.live \subseteq Page /\ kept.end \in 2 .. MaxPage + 1
  /\ phase \in Phases /\ fate \in Fates
  /\ ops \in 0 .. MaxOps /\ fails \in 0 .. MaxFails
  /\ DOMAIN disk = Page /\ IsFile(disk)
  /\ meta # NoMeta => IsMeta(meta)

\* The list the running commit found, when that list had a node.
Found(st) ==
  [headSeq |-> st.meta.headSeq, tailSeq |-> st.meta.tailSeq, tailPage |-> st.meta.tailPage,
   nodes |-> Numbered(st.meta, st.free.nodes), entries |-> st.free.pages,
   tree |-> st.live, end |-> st.meta.flushed]

\* Nothing need be known of a list found: there is no commit, or it took the
\* last node.
Lost == phase = "idle" \/ emptied

\* The pages of the store: those of the tree are outside the list, and there is
\* no other page outside.
InOrder ==
  /\ db.flushed \in 2 .. MaxPage + 1 /\ AppendPtr(db) <= MaxPage + 1
  /\ db.tailPage = 0 => Bare(db, live)
  /\ db.tailPage # 0 /\ Lost =>
       \E b, W : IsBegin(b) /\ Good(b, TRUE, db, disk, live, NodeNo(db.tailSeq), W)
  /\ db.tailPage # 0 /\ ~Lost =>
       \E W : Good(Found(start), FALSE, db, disk, live, NodeNo(db.tailSeq), W)

\* Between commits nothing waits to be written, and no freed page is held back
\* but by the commit that freed it.
AtRest ==
  phase = "idle" =>
    /\ DOMAIN db.updates = {} /\ db.nappend = 0
    /\ db.tailPage # 0 => db.maxSeq <= db.tailSeq

\* What Begin saved.
Saved ==
  phase # "idle" =>
    /\ IsMeta(start.meta)
    /\ start.meta.flushed = db.flushed /\ start.meta.maxSeq = db.maxSeq
    /\ start.meta.tailPage = 0 => emptied /\ Bare(LoadMeta(start.meta), start.live)
    /\ start.meta.tailPage # 0 =>
         LET f == Found(start) IN
         /\ IsBegin(f)
         /\ f.nodes \in [NodeNo(f.headSeq) .. NodeNo(f.tailSeq) -> Nat]
         /\ f.entries \in [f.headSeq .. f.tailSeq - 1 -> Nat]
         /\ start.meta.maxSeq <= start.meta.tailSeq
    /\ db.tailPage = 0 => emptied
    /\ emptied /\ db.tailPage # 0 => db.nappend > 0

\* What the commit has left of it in the file, and what it has written.
OnDisk ==
  phase # "idle" =>
    /\ phase = "tree" \/ WithinList => FreeList(LoadMeta(start.meta), disk) = start.free
    /\ phase \in {"synced", "metaWritten"} =>
         \A p \in DOMAIN db.updates : disk[p] = db.updates[p]

\* What the meta page leads to.
MetaLeads ==
  meta # NoMeta /\ ~ahead =>
    /\ phase = "idle" => /\ SameList(meta, db)
                         /\ kept.live = live /\ kept.end = db.flushed
    /\ phase \in {"tree", "stopped", "synced"} =>
         /\ SameList(meta, start.meta)
         /\ kept.live = start.live /\ kept.end = start.meta.flushed
    /\ phase = "metaWritten" => /\ SameList(meta, db) /\ meta.flushed = db.flushed
                                /\ kept.live = live /\ kept.end = AppendPtr(db)
    /\ kept.end = meta.flushed /\ meta.tailPage # 0 => meta.maxSeq <= meta.tailSeq

IInv == Shape /\ (Sound => InOrder /\ AtRest /\ Saved /\ OnDisk /\ MetaLeads)

-----------------------------------------------------------------------------
(* Meta pages.                                                              *)

\* loadMeta gives the store its fields back, and nothing waits to be written.
LEMMA Loaded ==
  ASSUME NEW m
  PROVE  LET d == LoadMeta(m) IN
         /\ d.flushed = m.flushed /\ d.nappend = 0 /\ d.maxSeq = m.maxSeq
         /\ SameList(m, d) /\ DOMAIN d.updates = {}
         /\ IsMeta(m) => IsStore(d) /\ AppendPtr(d) = m.flushed
<1> DEFINE d == LoadMeta(m)
<1>1. /\ DOMAIN d = {"flushed", "nappend", "updates", "headPage", "headSeq",
                     "tailPage", "tailSeq", "maxSeq"}
      /\ d.flushed = m.flushed /\ d.nappend = 0 /\ d.maxSeq = m.maxSeq
      /\ d.headPage = m.headPage /\ d.tailPage = m.tailPage
      /\ d.headSeq = m.headSeq /\ d.tailSeq = m.tailSeq
      /\ DOMAIN d.updates = {}
  BY DEF LoadMeta
<1> HIDE DEF d
<1>2. ASSUME IsMeta(m) PROVE IsStore(d) /\ AppendPtr(d) = m.flushed
  <2>1. /\ m.flushed \in Nat \ {0} /\ m.headPage \in Nat /\ m.tailPage \in Nat
        /\ m.headSeq \in Nat /\ m.tailSeq \in Nat /\ m.maxSeq \in Nat
    BY <1>2, PagerAssumption DEF IsMeta, Page
  <2> QED
    BY <1>1, <2>1 DEF IsStore, Number, AppendPtr
<1> QED
  BY <1>1, <1>2 DEF SameList, d

\* saveMeta keeps the fields loadMeta needs.
LEMMA SavedFields ==
  ASSUME NEW d
  PROVE  LET m == SaveMeta(d) IN
         m.flushed = d.flushed /\ m.maxSeq = d.maxSeq /\ SameList(d, m)
BY DEF SaveMeta, SameList

-----------------------------------------------------------------------------
(* The steps of a commit.                                                   *)

\* Pages of the tree are no list nodes, and zeroes are an empty one.
LEMMA Contents ==
  /\ IsContent(Data) /\ IsContent(NoFile) /\ IsContent(Blank)
  /\ ~IsListNode(Data) /\ ~IsListNode(NoFile)
<1>1. DOMAIN Data = {"data"}
  BY DEF Data
<1>2. "next" \notin DOMAIN Data
  BY <1>1
<1>3. IsContent(Data) /\ ~IsListNode(Data)
  BY <1>2 DEF IsContent, IsListNode
<1>4. IsContent(NoFile) /\ ~IsListNode(NoFile)
  <2>1. DOMAIN NoFile = {"data"}
    BY DEF NoFile
  <2>2. "next" \notin DOMAIN NoFile
    BY <2>1
  <2> QED
    BY <2>2 DEF IsContent, IsListNode
<1> QED
  BY <1>3, <1>4, NodeShapes

\* Open on a file that is not there (disk.go:44-57).
LEMMA InitKeeps ==
  ASSUME Init
  PROVE  IInv
<1>1. /\ db = NewStore /\ live = {} /\ meta = NoMeta /\ phase = "idle" /\ emptied = FALSE
      /\ fate = "sound" /\ kept = [live |-> {}, end |-> 2] /\ ops = 0 /\ fails = 0
      /\ disk = [p \in Page |-> IF p = 0 THEN NoFile ELSE Blank]
  BY DEF Init
<1>2. /\ NewStore.flushed = 2 /\ NewStore.nappend = 0 /\ DOMAIN NewStore.updates = {}
      /\ NewStore.headPage = 1 /\ NewStore.tailPage = 1
      /\ NewStore.headSeq = 0 /\ NewStore.tailSeq = 0 /\ NewStore.maxSeq = 0
  BY DEF NewStore
<1>3. MaxPage \in Nat \ {0} /\ MaxSeq \in Nat /\ MaxOps \in Nat /\ MaxFails \in Nat
  BY PagerAssumption
<1>4. DOMAIN disk = Page /\ IsFile(disk)
  BY <1>1, Contents DEF IsFile
<1>5. Shape
  <2>1. kept.live = {} /\ kept.end = 2 /\ 2 \in 2 .. MaxPage + 1
    BY <1>1, <1>3
  <2> QED
    BY <1>1, <1>2, <1>3, <1>4, <2>1 DEF Shape, Phases, Fates
<1>6. InOrder
  <2>1. PICK b : IsBegin(b)
    BY SomeBegin
  <2>2. Good(b, TRUE, NewStore, disk, {}, NodeNo(NewStore.tailSeq), {})
    BY NewStoreGood
  <2>3. db.flushed \in 2 .. MaxPage + 1 /\ AppendPtr(db) <= MaxPage + 1
    BY <1>1, <1>2, <1>3 DEF AppendPtr
  <2>4. db.tailPage # 0 /\ Lost
    BY <1>1, <1>2 DEF Lost
  <2>5. Good(b, TRUE, db, disk, live, NodeNo(db.tailSeq), {})
    BY <1>1, <2>2
  <2> QED
    BY <2>1, <2>3, <2>4, <2>5 DEF InOrder
<1>7. AtRest /\ Saved /\ OnDisk /\ MetaLeads
  BY <1>1, <1>2 DEF AtRest, Saved, OnDisk, MetaLeads
<1> QED
  BY <1>5, <1>6, <1>7 DEF IInv

\* Two stores, or two files, with the same list.
LEMMA SameFree ==
  ASSUME NEW d, IsStore(d), NEW disc, NEW e, IsStore(e), NEW disd, SameList(d, e),
         d.tailPage # 0, NEW N, NEW E, Linked(d, disc, N, E, NodeNo(d.tailSeq)),
         Linked(e, disd, N, E, NodeNo(e.tailSeq))
  PROVE  FreeList(e, disd) = FreeList(d, disc)
<1>1. /\ ListNodes(d, disc) = [i \in 1 .. ListLen(d) |-> N[NodeNo(d.headSeq) + i - 1]]
      /\ Numbered(d, ListNodes(d, disc)) = N
      /\ Entries(d, disc) = E
  BY ListOf, Zenon
<1>2. e.tailPage # 0
  BY DEF SameList
<1>3. /\ ListNodes(e, disd) = [i \in 1 .. ListLen(e) |-> N[NodeNo(e.headSeq) + i - 1]]
      /\ Numbered(e, ListNodes(e, disd)) = N
      /\ Entries(e, disd) = E
  BY <1>2, ListOf, Zenon
<1>4. ListLen(e) = ListLen(d) /\ e.headSeq = d.headSeq
  BY DEF SameList, ListLen
<1> QED
  BY <1>1, <1>3, <1>4 DEF FreeList

\* Two stores without a list have the same one.
LEMMA NoFree ==
  ASSUME NEW d, d.tailPage = 0, d.headSeq = 0, d.tailSeq = 0,
         NEW e, SameList(d, e), NEW disc, NEW disd
  PROVE  FreeList(e, disd) = FreeList(d, disc)
<1>1. e.tailPage = 0 /\ e.headSeq = 0 /\ e.tailSeq = 0
  BY DEF SameList
<1>2. ListNodes(e, disd) = ListNodes(d, disc)
  BY <1>1 DEF ListNodes
<1>3. 0 .. 0 - 1 = {}
  OBVIOUS
<1>4. Entries(e, disd) = Entries(d, disc)
  BY <1>1, <1>3 DEF Entries
<1> QED
  BY <1>2, <1>4 DEF FreeList

\* What saveMeta writes of a store in order is a meta page.
LEMMA MetaOfStore ==
  ASSUME Shape, InOrder, Saved
  PROVE  IsMeta(SaveMeta(db)) /\ IsStore(db)
<1> DEFINE m == SaveMeta(db)
<1>1. /\ m.flushed = db.flushed /\ m.maxSeq = db.maxSeq
      /\ m.headPage = db.headPage /\ m.tailPage = db.tailPage
      /\ m.headSeq = db.headSeq /\ m.tailSeq = db.tailSeq
  BY SavedFields DEF SameList
<1>2. db.headPage \in Page /\ db.tailPage \in Page /\ IsStore(db)
  <2>1. CASE db.tailPage = 0
    BY <2>1, PagerAssumption DEF InOrder, Bare, Page
  <2>2. CASE db.tailPage # 0
    <3>1. \E b, lost, W : /\ IsBegin(b)
                          /\ Good(b, lost, db, disk, live, NodeNo(db.tailSeq), W)
      BY <2>2 DEF InOrder, Lost, Saved
    <3>2. PICK b, lost, W : IsBegin(b) /\ Good(b, lost, db, disk, live, NodeNo(db.tailSeq), W)
      BY <3>1
    <3>3. db.headPage \in 1 .. AppendPtr(db) - 1
      BY <3>2, HeadOfList
    <3>4. db.tailPage \in 1 .. AppendPtr(db) - 1 /\ AppendPtr(db) \in Nat
      BY <3>2, GoodFacts
    <3>5. AppendPtr(db) <= MaxPage + 1
      BY DEF InOrder
    <3>6. IsStore(db)
      BY <3>2 DEF Good
    <3> QED
      BY <3>3, <3>4, <3>5, <3>6, PagerAssumption DEF Page
  <2> QED
    BY <2>1, <2>2
<1> HIDE DEF m
<1>3. IsMeta(m)
  BY <1>1, <1>2 DEF IsMeta, Shape, InOrder
<1> QED
  BY <1>2, <1>3 DEF m

\* KV.Begin (disk.go:285-312): the list it saves is the store's.
LEMMA BeginKeeps ==
  ASSUME IInv, Begin
  PROVE  IInv'
<1>1. /\ Sound /\ phase = "idle" /\ phase' = "tree" /\ emptied' = (db.tailPage = 0)
      /\ start' = [meta |-> SaveMeta(db), live |-> live, free |-> FreeList(db, disk)]
      /\ ops' = 0
      /\ UNCHANGED <<db, live, disk, meta, kept, fails, ahead, fate>>
  BY DEF Begin
<1>2. Shape /\ InOrder /\ AtRest /\ Saved /\ MetaLeads
  BY <1>1 DEF IInv
<1>3. Shape'
  <2>1. 0 \in 0 .. MaxOps
    BY PagerAssumption
  <2> QED
    BY <1>1, <1>2, <2>1 DEF Shape, Phases
<1>4. /\ start'.meta = SaveMeta(db) /\ start'.live = live
      /\ start'.free.nodes = ListNodes(db, disk) /\ start'.free.pages = Entries(db, disk)
      /\ start'.free = FreeList(db, disk)
  BY <1>1 DEF FreeList
<1> DEFINE m == SaveMeta(db)
<1>5. /\ m.flushed = db.flushed /\ m.maxSeq = db.maxSeq
      /\ m.headPage = db.headPage /\ m.tailPage = db.tailPage
      /\ m.headSeq = db.headSeq /\ m.tailSeq = db.tailSeq
  BY SavedFields DEF SameList
<1> HIDE DEF m
<1>6. DOMAIN db.updates = {} /\ db.nappend = 0 /\ (db.tailPage # 0 => db.maxSeq <= db.tailSeq)
  BY <1>1, <1>2 DEF AtRest
<1>7. db.flushed \in Nat /\ AppendPtr(db) = db.flushed /\ db.flushed \in 2 .. MaxPage + 1
  BY <1>2, <1>6 DEF Shape, AppendPtr, InOrder
<1>8. Found(start)' = BeginOf(db, disk, live)
  BY <1>4, <1>5 DEF Found, BeginOf, Numbered, m
<1>9. IsMeta(m)
  BY <1>2, MetaOfStore DEF m
<1> DEFINE e == LoadMeta(m)
<1>10. /\ IsStore(e) /\ AppendPtr(e) = db.flushed /\ SameList(db, e)
       /\ DOMAIN e.updates = {}
  BY <1>5, <1>9, Loaded DEF SameList
<1>11. start'.meta = m /\ LoadMeta(start.meta)' = e /\ start'.free = FreeList(db, disk)
  BY <1>4 DEF m
<1> HIDE DEF e
<1>12. ASSUME db.tailPage = 0 PROVE InOrder' /\ Saved' /\ OnDisk'
  <2>1. Bare(db, live)
    BY <1>2, <1>12 DEF InOrder
  <2>2. Bare(e, live)
    BY <1>7, <1>10, <2>1, CarryBare
  <2>3. FreeList(e, disk) = FreeList(db, disk)
    BY <1>10, <2>1, NoFree DEF Bare
  <2>4. InOrder'
    BY <1>1, <1>2, <1>12 DEF InOrder
  <2>5. Saved'
    BY <1>1, <1>4, <1>5, <1>9, <1>11, <1>12, <2>2 DEF Saved
  <2>6. OnDisk'
    BY <1>1, <1>11, <2>3 DEF OnDisk
  <2> QED
    BY <2>4, <2>5, <2>6
<1>13. ASSUME db.tailPage # 0 PROVE InOrder' /\ Saved' /\ OnDisk'
  <2>1. PICK b, W : IsBegin(b) /\ Good(b, TRUE, db, disk, live, NodeNo(db.tailSeq), W)
    BY <1>1, <1>2, <1>13 DEF InOrder, Lost
  <2> DEFINE f == BeginOf(db, disk, live)
  <2>2. /\ IsBegin(f)
        /\ f.nodes \in [NodeNo(db.headSeq) .. NodeNo(db.tailSeq) -> Nat]
        /\ f.entries \in [db.headSeq .. db.tailSeq - 1 -> Nat]
        /\ Good(f, FALSE, db, disk, live, NodeNo(db.tailSeq), Mine(f))
    BY <1>6, <1>13, <2>1, ListBegins
  <2>3. f.headSeq = db.headSeq /\ f.tailSeq = db.tailSeq
    BY DEF BeginOf
  <2> HIDE DEF f
  <2>4. Found(start)' = f
    BY <1>8 DEF f
  <2>5. FreeList(e, disk) = FreeList(db, disk)
    <3>1. PICK N, E : Linked(db, disk, N, E, NodeNo(db.tailSeq))
      BY <2>1 DEF Good
    <3>2. \A q : View(e, disk, q) = View(db, disk, q)
      <4>1. DOMAIN db.updates = {} /\ DOMAIN e.updates = {}
        BY <1>6, <1>10
      <4> QED
        BY <4>1 DEF View, PageRead
    <3>3. Linked(e, disk, N, E, NodeNo(e.tailSeq))
      BY <1>10, <3>1, <3>2 DEF Linked, SameList
    <3>4. IsStore(db)
      BY <2>1 DEF Good
    <3> QED
      BY <1>10, <1>13, <3>1, <3>3, <3>4, SameFree
  <2>6. ~emptied' /\ ~Lost'
    BY <1>1, <1>13 DEF Lost
  <2>7. InOrder'
    <3>1. Good(Found(start)', FALSE, db', disk', live', NodeNo(db'.tailSeq), Mine(f))
      BY <1>1, <2>2, <2>4
    <3>2. db'.tailPage # 0 /\ db'.flushed \in 2 .. MaxPage + 1 /\ AppendPtr(db') <= MaxPage + 1
      BY <1>1, <1>2, <1>13 DEF InOrder
    <3> QED
      BY <2>6, <3>1, <3>2 DEF InOrder
  <2>8. Saved'
    <3>1. /\ start'.meta.tailPage # 0 /\ db'.tailPage # 0
          /\ start'.meta.flushed = db'.flushed /\ start'.meta.maxSeq = db'.maxSeq
          /\ start'.meta.maxSeq <= start'.meta.tailSeq
      BY <1>1, <1>5, <1>6, <1>11, <1>13
    <3>2. IsMeta(start'.meta)
      BY <1>9, <1>11
    <3> QED
      BY <2>2, <2>3, <2>4, <2>6, <3>1, <3>2 DEF Saved
  <2>9. OnDisk'
    BY <1>1, <1>11, <2>5 DEF OnDisk
  <2> QED
    BY <2>7, <2>8, <2>9
<1>14. AtRest'
  BY <1>1 DEF AtRest
<1>15. MetaLeads'
  <2>1. SameList(meta, db) => SameList(meta, start'.meta)
    BY <1>5, <1>11 DEF SameList
  <2> QED
    BY <1>1, <1>2, <1>4, <1>5, <2>1, <1>11 DEF MetaLeads
<1> QED
  BY <1>3, <1>12, <1>13, <1>14, <1>15 DEF IInv

\* What a store in order is in a file within the bounds.
LEMMA StoreShape ==
  ASSUME NEW d, NEW disc, NEW out, InBounds(d), d.maxSeq \in 0 .. MaxSeq,
         Bare(d, out) \/ \E b, lost, last, W : IsBegin(b) /\ Good(b, lost, d, disc, out, last, W)
  PROVE  /\ d.flushed \in Nat /\ d.nappend \in Nat
         /\ DOMAIN d.updates \subseteq Page
         /\ d.headSeq \in 0 .. MaxSeq /\ d.tailSeq \in 0 .. MaxSeq
         /\ out \subseteq Page
         /\ AppendPtr(d) <= MaxPage + 1
<1>1. IsStore(d)
  BY DEF Bare, Good
<1>2. /\ d.flushed \in Nat /\ d.nappend \in Nat
      /\ d.headSeq \in Nat /\ d.tailSeq \in Nat
      /\ AppendPtr(d) \in Nat /\ AppendPtr(d) <= MaxPage + 1 /\ d.tailSeq <= MaxSeq
  BY <1>1 DEF IsStore, AppendPtr, InBounds
<1>3. DOMAIN d.updates \subseteq 1 .. AppendPtr(d) - 1
  BY DEF Bare, Good
<1>4. d.headSeq <= d.tailSeq /\ out \subseteq 1 .. AppendPtr(d) - 1
  <2>1. CASE Bare(d, out)
    BY <2>1 DEF Bare
  <2>2. CASE \E b, lost, last, W : IsBegin(b) /\ Good(b, lost, d, disc, out, last, W)
    <3>1. PICK b, lost, last, W : IsBegin(b) /\ Good(b, lost, d, disc, out, last, W)
      BY <2>2
    <3> QED
      BY <3>1, GoodFacts
  <2> QED
    BY <2>1, <2>2
<1>5. 1 .. AppendPtr(d) - 1 \subseteq Page
  BY <1>2, PagerAssumption DEF Page
<1>6. d.headSeq \in 0 .. MaxSeq /\ d.tailSeq \in 0 .. MaxSeq
  BY <1>2, <1>4, PagerAssumption
<1> QED
  BY <1>2, <1>3, <1>4, <1>5, <1>6

\* The two forms InOrder takes within a commit, as one.
LEMMA CommitList ==
  ASSUME InOrder, Saved, phase # "idle", db.tailPage # 0
  PROVE  \E b, lost, W :
           /\ \/ emptied /\ lost = TRUE
              \/ ~emptied /\ lost = FALSE /\ b = Found(start)
           /\ IsBegin(b)
           /\ Good(b, lost, db, disk, live, NodeNo(db.tailSeq), W)
<1>1. CASE emptied
  <2>1. PICK b, W : IsBegin(b) /\ Good(b, TRUE, db, disk, live, NodeNo(db.tailSeq), W)
    BY <1>1 DEF InOrder, Lost
  <2> QED
    BY <1>1, <2>1
<1>2. CASE ~emptied
  <2>1. PICK W : Good(Found(start), FALSE, db, disk, live, NodeNo(db.tailSeq), W)
    BY <1>2 DEF InOrder, Lost
  <2>2. IsBegin(Found(start))
    BY <1>2 DEF Saved
  <2> QED
    BY <1>2, <2>1, <2>2
<1> QED
  BY <1>1, <1>2

\* BTree.new.
LEMMA NewKeeps ==
  ASSUME IInv, New
  PROVE  IInv'
<1> DEFINE a == PageAlloc(db, disk, Data)
           e == a.db
<1>1. /\ Sound /\ phase = "tree" /\ ops < MaxOps /\ InBounds(e)
      /\ db' = e /\ live' = live \union {a.ptr}
      /\ emptied' = (emptied \/ e.tailPage = 0) /\ ops' = ops + 1
      /\ UNCHANGED <<disk, meta, kept, start, phase, fails, ahead, fate>>
  BY DEF New
<1> HIDE DEF a
<1>2. Shape /\ InOrder /\ Saved /\ OnDisk /\ MetaLeads
  BY <1>1 DEF IInv
<1>3. IsFile(disk) /\ db.maxSeq \in 0 .. MaxSeq /\ db.nappend \in Nat
  BY <1>2 DEF Shape
<1>4. /\ e.flushed = db.flushed /\ e.maxSeq = db.maxSeq /\ db.nappend <= e.nappend
      /\ \/ Bare(e, live')
         \/ /\ db.tailPage # 0
            /\ \E b, lost, V :
                 /\ \/ emptied /\ lost = TRUE
                    \/ ~emptied /\ lost = FALSE /\ b = Found(start)
                 /\ IsBegin(b)
                 /\ Good(b, lost, e, disk, live', NodeNo(e.tailSeq), V)
  <2>1. CASE db.tailPage = 0
    <3>1. Bare(db, live)
      BY <1>2, <2>1 DEF InOrder
    <3>2. /\ e.flushed = db.flushed /\ e.maxSeq = db.maxSeq /\ e.nappend = db.nappend + 1
          /\ e.tailPage = 0
          /\ a.ptr \notin live
          /\ Bare(e, live \union {a.ptr})
      BY <3>1, Contents, BareAlloc, Zenon DEF a
    <3> QED
      BY <1>1, <1>3, <3>2
  <2>2. CASE db.tailPage # 0
    <3>1. PICK b, lost, W :
            /\ \/ emptied /\ lost = TRUE
               \/ ~emptied /\ lost = FALSE /\ b = Found(start)
            /\ IsBegin(b)
            /\ Good(b, lost, db, disk, live, NodeNo(db.tailSeq), W)
      BY <1>1, <1>2, <2>2, CommitList
    <3>2. IsBegin(b) /\ Good(b, lost, db, disk, live, NodeNo(db.tailSeq), W)
      BY <3>1
    <3>3. /\ e.flushed = db.flushed /\ e.maxSeq = db.maxSeq /\ db.nappend <= e.nappend
          /\ a.ptr \notin live
          /\ \/ Bare(e, live \union {a.ptr})
             \/ \E V : Good(b, lost, e, disk, live \union {a.ptr}, NodeNo(e.tailSeq), V)
      BY <1>3, <3>2, Contents, AllocStep, Zenon DEF a
    <3>4. CASE Bare(e, live \union {a.ptr})
      BY <1>1, <3>3, <3>4
    <3>5. CASE \E V : Good(b, lost, e, disk, live \union {a.ptr}, NodeNo(e.tailSeq), V)
      <4>1. PICK V : Good(b, lost, e, disk, live \union {a.ptr}, NodeNo(e.tailSeq), V)
        BY <3>5
      <4>2. Good(b, lost, e, disk, live', NodeNo(e.tailSeq), V)
        BY <1>1, <4>1
      <4> QED
        BY <2>2, <3>1, <3>3, <4>2
    <3> QED
      BY <3>3, <3>4, <3>5
  <2> QED
    BY <2>1, <2>2
<1>5. /\ e.flushed \in Nat /\ e.nappend \in Nat
      /\ DOMAIN e.updates \subseteq Page
      /\ e.headSeq \in 0 .. MaxSeq /\ e.tailSeq \in 0 .. MaxSeq
      /\ live' \subseteq Page
      /\ AppendPtr(e) <= MaxPage + 1
  <2>1. Bare(e, live') \/ \E b, lost, last, W : IsBegin(b) /\ Good(b, lost, e, disk, live', last, W)
    BY <1>4
  <2>2. InBounds(e) /\ e.maxSeq \in 0 .. MaxSeq
    BY <1>1, <1>3, <1>4
  <2> HIDE DEF e
  <2> QED
    BY <2>1, <2>2, StoreShape, Zenon
<1>6. Shape'
  <2>1. ops + 1 \in 0 .. MaxOps
    BY <1>1, <1>2, PagerAssumption DEF Shape
  <2> HIDE DEF e
  <2> QED
    BY <1>1, <1>2, <1>4, <1>5, <2>1 DEF Shape
<1> HIDE DEF e
<1>7. InOrder' /\ Saved'
  <2>1. CASE Bare(e, live')
    <3>1. e.tailPage = 0 /\ emptied'
      BY <1>1, <2>1 DEF Bare
    <3>2. InOrder'
      BY <1>1, <1>2, <1>4, <1>5, <2>1, <3>1 DEF InOrder
    <3>3. Saved'
      BY <1>1, <1>2, <1>4, <3>1 DEF Saved
    <3> QED
      BY <3>2, <3>3
  <2>2. CASE ~Bare(e, live')
    <3>1. PICK b, lost, V :
            /\ db.tailPage # 0
            /\ \/ emptied /\ lost = TRUE
               \/ ~emptied /\ lost = FALSE /\ b = Found(start)
            /\ IsBegin(b)
            /\ Good(b, lost, e, disk, live', NodeNo(e.tailSeq), V)
      BY <1>4, <2>2
    <3>2. e.tailPage # 0
      BY <3>1, GoodFacts
    <3>3. emptied' <=> emptied
      BY <1>1, <3>2
    <3>4. /\ emptied => \E c, U : IsBegin(c) /\ Good(c, TRUE, e, disk, live', NodeNo(e.tailSeq), U)
          /\ ~emptied => \E U : Good(Found(start), FALSE, e, disk, live', NodeNo(e.tailSeq), U)
      <4>1. CASE emptied
        BY <3>1, <4>1
      <4>2. CASE ~emptied
        BY <3>1, <4>2
      <4> QED
        BY <4>1, <4>2
    <3>5. InOrder'
      BY <1>1, <1>2, <1>4, <1>5, <3>2, <3>3, <3>4 DEF InOrder, Lost
    <3>6. Saved'
      BY <1>1, <1>2, <1>3, <1>4, <1>5, <3>1, <3>2, <3>3 DEF Saved
    <3> QED
      BY <3>5, <3>6
  <2> QED
    BY <2>1, <2>2
<1>8. AtRest' /\ OnDisk' /\ MetaLeads'
  BY <1>1, <1>2 DEF AtRest, OnDisk, MetaLeads
<1> QED
  BY <1>6, <1>7, <1>8 DEF IInv

\* BTree.del.
LEMMA DelKeeps ==
  ASSUME IInv, NEW p, Del(p)
  PROVE  IInv'
<1> DEFINE e == FreePushTail(db, disk, p)
<1>1. /\ Sound /\ phase = "tree" /\ p \in live /\ ops < MaxOps /\ InBounds(e)
      /\ db' = e /\ live' = live \ {p} /\ ops' = ops + 1
      /\ fate' = IF DrainsItself(db) THEN "drained" ELSE fate
      /\ UNCHANGED <<disk, meta, kept, start, phase, emptied, fails, ahead>>
  BY DEF Del
<1>2. Shape /\ InOrder /\ Saved /\ OnDisk /\ MetaLeads
  BY <1>1 DEF IInv
<1>3. /\ IsFile(disk) /\ db.maxSeq \in 0 .. MaxSeq /\ db.nappend \in Nat /\ live \subseteq Page
      /\ db.flushed \in Nat /\ DOMAIN db.updates \subseteq Page
      /\ db.headSeq \in 0 .. MaxSeq /\ db.tailSeq \in 0 .. MaxSeq
  BY <1>2 DEF Shape
<1>4. ops + 1 \in 0 .. MaxOps /\ "drained" \in Fates
  BY <1>1, <1>2, PagerAssumption DEF Shape, Fates
<1> HIDE DEF e
<1>5. CASE DrainsItself(db)
  <2>1. /\ db.tailPage # 0 /\ db.headSeq = db.tailSeq
        /\ db.headSeq <= db.maxSeq /\ SeqIdx(db.tailSeq + 1) = 0
    BY <1>5 DEF DrainsItself
  <2>2. PICK b, lost, W : IsBegin(b) /\ Good(b, lost, db, disk, live, NodeNo(db.tailSeq), W)
    BY <1>1, <1>2, <2>1, CommitList
  <2>3. db.headPage = db.tailPage
    BY <2>1, <2>2, HeadOfList
  <2>4. /\ AppendPtr(db) \in Nat /\ live \subseteq 1 .. AppendPtr(db) - 1
        /\ db.tailPage \in 1 .. AppendPtr(db) - 1
    BY <2>2, GoodFacts
  <2>5. IsStore(db)
    BY <2>2 DEF Good
  <2>6. p \in Nat \ {0} /\ p \in Page /\ db.tailPage \in Page
    BY <1>1, <1>2, <1>3, <2>4, PagerAssumption DEF InOrder, Page
  <2>7. /\ e.flushed = db.flushed /\ e.maxSeq = db.maxSeq /\ e.nappend = db.nappend
        /\ e.headSeq = db.headSeq + 1 /\ e.tailSeq = db.tailSeq + 2
        /\ DOMAIN e.updates = DOMAIN db.updates \union {db.tailPage, p}
    BY <1>3, <2>1, <2>3, <2>5, <2>6, DrainTail DEF e
  <2>8. e.headSeq \in 0 .. MaxSeq /\ e.tailSeq \in 0 .. MaxSeq
    BY <1>1, <1>3, <2>1, <2>7, PagerAssumption DEF InBounds
  <2>9. DOMAIN e.updates \subseteq Page
    BY <1>3, <2>6, <2>7
  <2>10. Shape'
    BY <1>1, <1>2, <1>3, <1>4, <1>5, <2>7, <2>8, <2>9 DEF Shape
  <2>11. ~Sound'
    BY <1>1, <1>5 DEF Sound
  <2> QED
    BY <2>10, <2>11 DEF IInv
<1>6. CASE ~DrainsItself(db)
  <2>1. /\ e.flushed = db.flushed /\ e.maxSeq = db.maxSeq /\ db.nappend <= e.nappend
        /\ db.tailPage = 0 => db.nappend < e.nappend
        /\ \E b, lost, V :
             /\ \/ emptied /\ lost = TRUE
                \/ ~emptied /\ lost = FALSE /\ b = Found(start)
             /\ IsBegin(b)
             /\ Good(b, lost, e, disk, live', NodeNo(e.tailSeq), V)
    <3>1. CASE db.tailPage = 0
      <4>1. Bare(db, live) /\ emptied
        BY <1>1, <1>2, <3>1 DEF InOrder, Saved
      <4>2. PICK b : IsBegin(b)
        BY SomeBegin
      <4>3. e = FreePushFirst(db, p)
        BY <3>1 DEF FreePushTail, e
      <4>4. LET h == FreePushFirst(db, p) IN
            /\ h.flushed = db.flushed /\ h.nappend = db.nappend + 1 /\ h.maxSeq = db.maxSeq
            /\ h.headSeq = 0 /\ h.tailSeq = 1 /\ h.tailPage = AppendPtr(db)
            /\ AppendPtr(db) \in Nat \ {0}
            /\ Good(b, TRUE, h, disk, live \ {p}, 0, {})
        BY <1>1, <4>1, FirstNode, Zenon
      <4>5. Good(b, TRUE, e, disk, live', NodeNo(e.tailSeq), {})
        BY <1>1, <4>3, <4>4, PositionZero
      <4>6. /\ e.flushed = db.flushed /\ e.maxSeq = db.maxSeq
            /\ db.nappend <= e.nappend /\ db.nappend < e.nappend
        BY <1>3, <4>3, <4>4
      <4> QED
        BY <4>1, <4>2, <4>5, <4>6
    <3>2. CASE db.tailPage # 0
      <4>1. PICK b, lost, W :
              /\ \/ emptied /\ lost = TRUE
                 \/ ~emptied /\ lost = FALSE /\ b = Found(start)
              /\ IsBegin(b)
              /\ Good(b, lost, db, disk, live, NodeNo(db.tailSeq), W)
        BY <1>1, <1>2, <3>2, CommitList
      <4>2. db.headSeq <= db.tailSeq
        BY <4>1, GoodFacts
      <4>3. \/ db.headSeq < db.tailSeq \/ db.headSeq > db.maxSeq
            \/ SeqIdx(db.tailSeq + 1) # 0
        BY <1>3, <1>6, <3>2, <4>2 DEF DrainsItself
      <4>4. IsBegin(b) /\ Good(b, lost, db, disk, live, NodeNo(db.tailSeq), W)
        BY <4>1
      <4>5. LET h == FreePushTail(db, disk, p) IN
            /\ h.flushed = db.flushed /\ h.maxSeq = db.maxSeq /\ db.nappend <= h.nappend
            /\ \E V : /\ W \subseteq V
                      /\ Good(b, lost, h, disk, live \ {p}, NodeNo(h.tailSeq), V)
        BY <1>1, <1>3, <4>3, <4>4, PushTail, Zenon
      <4>6. PICK V : Good(b, lost, e, disk, live', NodeNo(e.tailSeq), V)
        BY <1>1, <4>5 DEF e
      <4>7. e.flushed = db.flushed /\ e.maxSeq = db.maxSeq /\ db.nappend <= e.nappend
        BY <4>5 DEF e
      <4> QED
        BY <3>2, <4>1, <4>6, <4>7
    <3> QED
      BY <3>1, <3>2
  <2>2. PICK b, lost, V :
          /\ \/ emptied /\ lost = TRUE
             \/ ~emptied /\ lost = FALSE /\ b = Found(start)
          /\ IsBegin(b)
          /\ Good(b, lost, e, disk, live', NodeNo(e.tailSeq), V)
    BY <2>1
  <2>3. /\ e.flushed \in Nat /\ e.nappend \in Nat
        /\ DOMAIN e.updates \subseteq Page
        /\ e.headSeq \in 0 .. MaxSeq /\ e.tailSeq \in 0 .. MaxSeq
        /\ live' \subseteq Page
        /\ AppendPtr(e) <= MaxPage + 1
    <3>1. \/ Bare(e, live')
          \/ \E c, l, last, W : IsBegin(c) /\ Good(c, l, e, disk, live', last, W)
      BY <2>2
    <3>2. InBounds(e) /\ e.maxSeq \in 0 .. MaxSeq
      BY <1>1, <1>3, <2>1
    <3> QED
      BY <3>1, <3>2, StoreShape, Zenon
  <2>4. Shape'
    BY <1>1, <1>2, <1>4, <1>6, <2>1, <2>3 DEF Shape
  <2>5. e.tailPage # 0
    BY <2>2, GoodFacts
  <2>6. /\ emptied => \E c, U : IsBegin(c) /\ Good(c, TRUE, e, disk, live', NodeNo(e.tailSeq), U)
        /\ ~emptied => \E U : Good(Found(start), FALSE, e, disk, live', NodeNo(e.tailSeq), U)
    <3>1. CASE emptied
      BY <2>2, <3>1
    <3>2. CASE ~emptied
      BY <2>2, <3>2
    <3> QED
      BY <3>1, <3>2
  <2>7. InOrder'
    BY <1>1, <1>2, <2>1, <2>3, <2>5, <2>6 DEF InOrder, Lost
  <2>8. Saved'
    BY <1>1, <1>2, <1>3, <2>1, <2>3, <2>5 DEF Saved
  <2>9. AtRest' /\ OnDisk' /\ MetaLeads'
    BY <1>1, <1>2 DEF AtRest, OnDisk, MetaLeads
  <2> QED
    BY <2>4, <2>7, <2>8, <2>9 DEF IInv
<1> QED
  BY <1>5, <1>6

-----------------------------------------------------------------------------
(* The steps of updateFile.                                                 *)

\* The list that a commit found is in order in every file in which it reads as
\* it did.
LEMMA FoundLinked ==
  ASSUME NEW st, NEW disc, IsMeta(st.meta), st.meta.tailPage # 0, IsBegin(Found(st)),
         Found(st).nodes \in [NodeNo(st.meta.headSeq) .. NodeNo(st.meta.tailSeq) -> Nat],
         Found(st).entries \in [st.meta.headSeq .. st.meta.tailSeq - 1 -> Nat],
         FreeList(LoadMeta(st.meta), disc) = st.free
  PROVE  Linked(LoadMeta(st.meta), disc, Found(st).nodes, Found(st).entries,
                NodeNo(st.meta.tailSeq))
<1> DEFINE e == LoadMeta(st.meta)
           b == Found(st)
<1>1. /\ IsStore(e) /\ e.tailPage = st.meta.tailPage
      /\ e.headSeq = st.meta.headSeq /\ e.tailSeq = st.meta.tailSeq
  BY Loaded DEF SameList
<1> HIDE DEF e
<1>2. ListNodes(e, disc) = st.free.nodes /\ Entries(e, disc) = st.free.pages
  BY DEF FreeList, e
<1>3. /\ b.nodes = Numbered(st.meta, st.free.nodes) /\ b.entries = st.free.pages
      /\ b.headSeq = st.meta.headSeq /\ b.tailSeq = st.meta.tailSeq
      /\ b.tailPage = st.meta.tailPage
  BY DEF Found
<1>4. b.nodes = Numbered(e, ListNodes(e, disc)) /\ b.entries = Entries(e, disc)
  BY <1>1, <1>2, <1>3 DEF Numbered
<1>5. b.nodes[NodeNo(e.tailSeq)] = e.tailPage /\ e.headSeq <= e.tailSeq
  BY <1>1, <1>3 DEF IsBegin
<1>6. /\ b.nodes \in [NodeNo(e.headSeq) .. NodeNo(e.tailSeq) -> Nat]
      /\ b.entries \in [e.headSeq .. e.tailSeq - 1 -> Nat] /\ e.tailPage # 0
  BY <1>1
<1> HIDE DEF b
<1>7. Linked(e, disc, b.nodes, b.entries, NodeNo(e.tailSeq))
  BY <1>1, <1>4, <1>5, <1>6, LinkedBack
<1> QED
  BY <1>1, <1>7 DEF e, b

\* The loop over page.updates and the fsync, wherever it stops (disk.go:337-352).
LEMMA WritePagesKeeps ==
  ASSUME IInv, NEW S, S \subseteq DOMAIN db.updates, WritePages(S)
  PROVE  IInv'
<1>1. /\ Sound /\ phase = "tree"
      /\ disk' = [p \in Page |-> AfterWriting(S, p)]
      /\ phase' = IF S = DOMAIN db.updates THEN "synced" ELSE "stopped"
      /\ UNCHANGED <<db, live, meta, kept, start, emptied, ops, fails, ahead, fate>>
  BY DEF WritePages
<1>2. Shape /\ InOrder /\ Saved /\ OnDisk /\ MetaLeads
  BY <1>1 DEF IInv
<1>3. DOMAIN disk = Page /\ DOMAIN disk' = Page /\ DOMAIN db.updates \subseteq Page
  BY <1>1, <1>2 DEF Shape
<1>4. IsStore(db)
  BY <1>2, MetaOfStore
<1>written. /\ \A p \in S : disk'[p] = db.updates[p]
            /\ \A p \in Page \ S : disk'[p] = disk[p] \/ (disk[p] = NoFile /\ disk'[p] = Data)
  BY <1>1, <1>3 DEF AfterWriting
<1>alike. \A p \in Page \ S : AsList(disk'[p]) = AsList(disk[p])
  BY <1>written, Contents DEF AsList
<1>5. IsFile(disk')
  BY <1>2, <1>3, <1>4, <1>written, Contents DEF IsFile, IsStore, Shape
<1>6. Shape'
  BY <1>1, <1>2, <1>3, <1>5 DEF Shape, Phases
<1>7. \A q : View(db, disk', q) = View(db, disk, q)
  BY <1>1, <1>3, <1>alike DEF View, PageRead
<1>8. InOrder'
  <2>1. ASSUME db.tailPage # 0, Lost
        PROVE  \E b, W : IsBegin(b) /\ Good(b, TRUE, db, disk', live, NodeNo(db.tailSeq), W)
    <3>1. PICK b, W : IsBegin(b) /\ Good(b, TRUE, db, disk, live, NodeNo(db.tailSeq), W)
      BY <1>2, <2>1 DEF InOrder
    <3>2. Good(b, TRUE, db, disk', live, NodeNo(db.tailSeq), W)
      BY <1>7, <3>1, CarryDisk
    <3> QED
      BY <3>1, <3>2
  <2>2. ASSUME db.tailPage # 0, ~Lost
        PROVE  \E W : Good(Found(start), FALSE, db, disk', live, NodeNo(db.tailSeq), W)
    <3>1. PICK W : Good(Found(start), FALSE, db, disk, live, NodeNo(db.tailSeq), W)
      BY <1>2, <2>2 DEF InOrder
    <3>2. Good(Found(start), FALSE, db, disk', live, NodeNo(db.tailSeq), W)
      BY <1>7, <3>1, CarryDisk
    <3> QED
      BY <3>2
  <2>3. Lost' <=> Lost
    BY <1>1 DEF Lost
  <2> QED
    BY <1>1, <1>2, <2>1, <2>2, <2>3 DEF InOrder
<1>9. Saved' /\ AtRest' /\ MetaLeads'
  BY <1>1, <1>2 DEF Saved, AtRest, MetaLeads
<1> DEFINE e == LoadMeta(start.meta)
           b == Found(start)
<1>10. ASSUME WithinList PROVE FreeList(e, disk') = start.free
  <2>1. ~emptied /\ db.headSeq <= start.meta.tailSeq
    BY <1>10 DEF WithinList
  <2>2. /\ IsMeta(start.meta) /\ start.meta.tailPage # 0 /\ db.tailPage # 0 /\ ~Lost
        /\ IsBegin(b)
        /\ b.nodes \in [NodeNo(b.headSeq) .. NodeNo(b.tailSeq) -> Nat]
        /\ b.entries \in [b.headSeq .. b.tailSeq - 1 -> Nat]
    BY <1>1, <1>2, <2>1 DEF Saved, Lost
  <2>3. b.headSeq = start.meta.headSeq /\ b.tailSeq = start.meta.tailSeq
    BY DEF Found
  <2>4. FreeList(e, disk) = start.free
    BY <1>1, <1>2 DEF OnDisk
  <2>5. Linked(e, disk, b.nodes, b.entries, NodeNo(start.meta.tailSeq))
    BY <2>2, <2>3, <2>4, FoundLinked
  <2>6. /\ IsStore(e) /\ DOMAIN e.updates = {} /\ e.tailPage # 0
        /\ e.headSeq = b.headSeq /\ e.tailSeq = b.tailSeq
    BY <2>2, <2>3, Loaded DEF SameList
  <2> HIDE DEF e, b
  <2>7. PICK W : Good(b, FALSE, db, disk, live, NodeNo(db.tailSeq), W)
    BY <1>2, <2>2 DEF InOrder, b
  <2>8. \A q \in S : View(e, disk', q) = View(db, disk, q)
    BY <1>1, <1>3, <1>written, <2>6 DEF View, PageRead
  <2>9. \A q : q \notin S => View(e, disk', q) = View(e, disk, q)
    BY <1>1, <1>3, <1>alike, <2>6 DEF View, PageRead
  <2>10. Linked(e, disk', b.nodes, b.entries, NodeNo(b.tailSeq))
    <3>1. db.headSeq <= b.tailSeq /\ Linked(e, disk, b.nodes, b.entries, NodeNo(b.tailSeq))
      BY <2>1, <2>3, <2>5
    <3>2. IsBegin(b) /\ e.headSeq = b.headSeq /\ e.tailSeq = b.tailSeq
      BY <2>2, <2>6
    <3> QED
      BY <2>7, <2>8, <2>9, <3>1, <3>2, ListSurvives, Zenon
  <2>11. FreeList(e, disk') = FreeList(e, disk)
    <3>1. /\ Linked(e, disk, b.nodes, b.entries, NodeNo(e.tailSeq))
          /\ Linked(e, disk', b.nodes, b.entries, NodeNo(e.tailSeq))
      BY <2>3, <2>5, <2>6, <2>10
    <3>2. SameList(e, e) /\ IsStore(e) /\ e.tailPage # 0
      BY <2>6 DEF SameList
    <3> QED
      BY <3>1, <3>2, SameFree
  <2> QED
    BY <2>4, <2>11
<1>11. OnDisk'
  <2>1. phase' = "synced" => \A p \in DOMAIN db.updates : disk'[p] = db.updates[p]
    BY <1>1, <1>3, <1>written
  <2>2. WithinList' <=> WithinList
    BY <1>1 DEF WithinList
  <2> QED
    BY <1>1, <1>10, <2>1, <2>2 DEF OnDisk
<1> QED
  BY <1>6, <1>8, <1>9, <1>11 DEF IInv

\* The meta page (disk.go:354-360).
LEMMA WriteMetaKeeps ==
  ASSUME IInv, WriteMeta
  PROVE  IInv'
<1> DEFINE m == SaveMeta(db)
<1>1. /\ Sound /\ phase = "synced" /\ phase' = "metaWritten" /\ meta' = m /\ ahead' = FALSE
      /\ kept' = [live |-> live, end |-> AppendPtr(db)]
      /\ UNCHANGED <<db, live, disk, start, emptied, ops, fails, fate>>
  BY DEF WriteMeta
<1>2. Shape /\ InOrder /\ Saved /\ OnDisk
  BY <1>1 DEF IInv
<1>3. IsMeta(m) /\ IsStore(db)
  BY <1>2, MetaOfStore
<1>4. /\ m.flushed = db.flushed /\ m.maxSeq = db.maxSeq /\ m.tailPage = db.tailPage
      /\ m.tailSeq = db.tailSeq /\ SameList(m, db)
  BY SavedFields DEF SameList
<1> HIDE DEF m
<1>5. kept'.live = live /\ kept'.end = AppendPtr(db)
  BY <1>1
<1>6. AppendPtr(db) \in 2 .. MaxPage + 1
  BY <1>2, <1>3 DEF InOrder, IsStore, AppendPtr
<1>7. Shape'
  BY <1>1, <1>2, <1>3, <1>5, <1>6 DEF Shape, Phases
<1>8. InOrder'
  BY <1>1, <1>2 DEF InOrder, Lost
<1>9. Saved' /\ AtRest'
  BY <1>1, <1>2 DEF Saved, AtRest
<1>10. OnDisk'
  BY <1>1, <1>2 DEF OnDisk, WithinList
<1>11. ASSUME AppendPtr(db) = db.flushed, db.tailPage # 0 PROVE db.maxSeq <= db.tailSeq
  <2>1. ~(db.nappend > 0)
    BY <1>3, <1>11 DEF IsStore, AppendPtr
  <2>2. ~emptied /\ ~Lost
    BY <1>1, <1>2, <1>11, <2>1 DEF Saved, Lost
  <2>3. PICK W : Good(Found(start), FALSE, db, disk, live, NodeNo(db.tailSeq), W)
    BY <1>2, <1>11, <2>2 DEF InOrder
  <2>4. PICK N, E : Since(Found(start), db, disk, N, E, W)
    BY <2>3 DEF Good
  <2>5. IsBegin(Found(start))
    BY <1>1, <1>2, <2>2 DEF Saved
  <2>6. /\ db.maxSeq <= Found(start).tailSeq /\ Found(start).tailSeq <= db.tailSeq
        /\ Found(start).tailSeq \in Nat
    BY <2>4, <2>5 DEF Since, IsBegin
  <2> QED
    BY <1>3, <2>6 DEF IsStore
<1>12. MetaLeads'
  BY <1>1, <1>4, <1>5, <1>11 DEF MetaLeads
<1> QED
  BY <1>7, <1>8, <1>9, <1>10, <1>12 DEF IInv

\* The end of updateFile (disk.go:362-367): the store goes on from what the
\* file holds.
LEMMA FinishKeeps ==
  ASSUME IInv, Finish
  PROVE  IInv'
<1> DEFINE e == [db EXCEPT !.flushed = @ + db.nappend, !.nappend = 0,
                           !.updates = [p \in {} |-> Blank], !.maxSeq = db.tailSeq]
<1>1. /\ Sound /\ phase = "metaWritten" /\ phase' = "idle" /\ emptied' = FALSE /\ ops' = 0
      /\ db' = e
      /\ UNCHANGED <<live, disk, meta, kept, fails, ahead, fate>>
  BY DEF Finish
<1>2. Shape /\ InOrder /\ Saved /\ OnDisk /\ MetaLeads
  BY <1>1 DEF IInv
<1>3. IsStore(db)
  BY <1>2, MetaOfStore
<1>4. /\ DOMAIN e = DOMAIN db
      /\ e.flushed = db.flushed + db.nappend /\ e.nappend = 0 /\ DOMAIN e.updates = {}
      /\ e.maxSeq = db.tailSeq
      /\ e.headPage = db.headPage /\ e.tailPage = db.tailPage
      /\ e.headSeq = db.headSeq /\ e.tailSeq = db.tailSeq
  BY <1>3 DEF IsStore
<1> HIDE DEF e
<1>5. IsStore(e) /\ AppendPtr(e) = AppendPtr(db) /\ e.flushed = AppendPtr(db) /\ SameList(db, e)
  BY <1>3, <1>4 DEF IsStore, AppendPtr, SameList
<1>6. AppendPtr(db) \in 2 .. MaxPage + 1
  BY <1>2, <1>3 DEF InOrder, IsStore, AppendPtr
<1>7. Shape'
  <2>1. 0 \in 0 .. MaxOps
    BY PagerAssumption
  <2>2. e.flushed \in Nat
    BY <1>5 DEF IsStore
  <2> QED
    BY <1>1, <1>2, <1>4, <2>1, <2>2 DEF Shape, Phases
<1>8. \A q : View(e, disk, q) = View(db, disk, q)
  <2>1. DOMAIN db.updates \subseteq DOMAIN disk
    BY <1>2 DEF Shape
  <2>2. \A p \in DOMAIN db.updates : disk[p] = db.updates[p]
    BY <1>1, <1>2 DEF OnDisk
  <2> QED
    BY <1>4, <2>1, <2>2 DEF View, PageRead
<1>9. DOMAIN e.updates \subseteq 1 .. AppendPtr(db) - 1
  BY <1>4
<1>10. db.tailPage = 0 => Bare(e, live)
  <2>1. db.tailPage = 0 => Bare(db, live)
    BY <1>2 DEF InOrder
  <2> QED
    BY <1>5, <1>9, <2>1, CarryBare
<1>11. ASSUME db.tailPage # 0
       PROVE  \E b, W : IsBegin(b) /\ Good(b, TRUE, e, disk, live, NodeNo(e.tailSeq), W)
  <2>1. PICK b, lost, W : IsBegin(b) /\ Good(b, lost, db, disk, live, NodeNo(db.tailSeq), W)
    BY <1>1, <1>2, <1>11, CommitList
  <2>2. Good(b, TRUE, e, disk, live, NodeNo(db.tailSeq), W)
    BY <1>5, <1>8, <1>9, <2>1, CarryStore
  <2> QED
    BY <1>4, <2>1, <2>2
<1>12. InOrder'
  <2>1. e.flushed \in 2 .. MaxPage + 1 /\ AppendPtr(e) <= MaxPage + 1
    BY <1>5, <1>6
  <2>2. Lost'
    BY <1>1 DEF Lost
  <2> QED
    BY <1>1, <1>4, <1>10, <1>11, <2>1, <2>2 DEF InOrder
<1>13. AtRest'
  BY <1>1, <1>3, <1>4 DEF AtRest, IsStore
<1>14. Saved' /\ OnDisk'
  BY <1>1 DEF Saved, OnDisk
<1>15. MetaLeads'
  <2>1. SameList(meta, db) => SameList(meta, e)
    BY <1>4 DEF SameList
  <2> QED
    BY <1>1, <1>2, <1>5, <2>1 DEF MetaLeads
<1> QED
  BY <1>7, <1>12, <1>13, <1>14, <1>15 DEF IInv

-----------------------------------------------------------------------------
(* Abort and Open.                                                          *)

\* A store loaded from the meta page of Begin is in order in a file in which
\* the list reads as it did.
LEMMA LoadedGood ==
  ASSUME Saved, phase # "idle", NEW disc, FreeList(LoadMeta(start.meta), disc) = start.free
  PROVE  LET e == LoadMeta(start.meta) IN
         /\ e.tailPage = 0 => Bare(e, start.live)
         /\ e.tailPage # 0 =>
              \E b, W : IsBegin(b) /\ Good(b, TRUE, e, disc, start.live, NodeNo(e.tailSeq), W)
<1> DEFINE e == LoadMeta(start.meta)
           b == Found(start)
<1>1. IsMeta(start.meta)
  BY DEF Saved
<1>2. /\ IsStore(e) /\ DOMAIN e.updates = {} /\ e.tailPage = start.meta.tailPage
      /\ e.headSeq = start.meta.headSeq /\ e.tailSeq = start.meta.tailSeq
      /\ AppendPtr(e) = start.meta.flushed
  BY <1>1, Loaded DEF SameList
<1>3. e.tailPage = 0 => Bare(e, start.live)
  BY <1>2 DEF Saved
<1>4. ASSUME e.tailPage # 0
      PROVE  \E c, W : IsBegin(c) /\ Good(c, TRUE, e, disc, start.live, NodeNo(e.tailSeq), W)
  <2>1. /\ start.meta.tailPage # 0 /\ IsBegin(b)
        /\ b.nodes \in [NodeNo(b.headSeq) .. NodeNo(b.tailSeq) -> Nat]
        /\ b.entries \in [b.headSeq .. b.tailSeq - 1 -> Nat]
    BY <1>2, <1>4 DEF Saved
  <2>2. /\ b.headSeq = start.meta.headSeq /\ b.tailSeq = start.meta.tailSeq
        /\ b.tree = start.live /\ b.end = start.meta.flushed
    BY DEF Found
  <2>3. Linked(e, disc, b.nodes, b.entries, NodeNo(start.meta.tailSeq))
    BY <1>1, <2>1, <2>2, FoundLinked
  <2>4. Apart(b.tree, b.nodes, b.entries, b.end)
    BY <2>1 DEF IsBegin
  <2> HIDE DEF b, e
  <2>5. /\ Apart(start.live, b.nodes, b.entries, AppendPtr(e))
        /\ Linked(e, disc, b.nodes, b.entries, NodeNo(e.tailSeq))
    BY <1>2, <2>2, <2>3, <2>4
  <2>6. Good(b, TRUE, e, disc, start.live, NodeNo(e.tailSeq), {})
    BY <1>2, <2>5 DEF Good
  <2> QED
    BY <2>1, <2>6
<1> QED
  BY <1>3, <1>4

\* What an abort counted as sound finds in the file.
LEMMA AbortFinds ==
  ASSUME IInv, Abort, fate' = "sound"
  PROVE  FreeList(LoadMeta(start.meta), disk) = start.free
<1>1. /\ Sound /\ phase \in {"tree", "stopped", "synced", "metaWritten"}
      /\ fate' = IF ListOverwritten THEN "harmed" ELSE fate
  BY DEF Abort
<1>2. ~ListOverwritten
  BY <1>1
<1>3. OnDisk
  BY <1>1 DEF IInv
<1> QED
  BY <1>1, <1>2, <1>3 DEF ListOverwritten, OnDisk

\* KV.Abort (disk.go:331-335).
LEMMA AbortKeeps ==
  ASSUME IInv, Abort
  PROVE  IInv'
<1> DEFINE e == LoadMeta(start.meta)
<1>1. /\ Sound /\ phase \in {"tree", "stopped", "synced", "metaWritten"}
      /\ fails < MaxFails /\ fails' = fails + 1
      /\ db' = e /\ live' = start.live /\ phase' = "idle" /\ emptied' = FALSE /\ ops' = 0
      /\ ahead' = (ahead \/ phase = "metaWritten")
      /\ fate' = IF ListOverwritten THEN "harmed" ELSE fate
      /\ UNCHANGED <<disk, meta, kept>>
  BY DEF Abort
<1>2. Shape /\ InOrder /\ Saved /\ OnDisk /\ MetaLeads /\ phase # "idle"
  BY <1>1 DEF IInv
<1>3. IsMeta(start.meta)
  BY <1>2 DEF Saved
<1>4. /\ IsStore(e) /\ DOMAIN e.updates = {} /\ e.tailPage = start.meta.tailPage
      /\ e.headSeq = start.meta.headSeq /\ e.tailSeq = start.meta.tailSeq
      /\ e.flushed = start.meta.flushed /\ e.nappend = 0 /\ e.maxSeq = start.meta.maxSeq
      /\ AppendPtr(e) = start.meta.flushed /\ SameList(start.meta, e)
  BY <1>3, Loaded DEF SameList
<1> HIDE DEF e
<1>5. Shape'
  <2>1. fails + 1 \in 0 .. MaxFails /\ 0 \in 0 .. MaxOps
    BY <1>1, <1>2, PagerAssumption DEF Shape
  <2>2. start.live \subseteq Page
    <3>1. start.live \subseteq 1 .. start.meta.flushed - 1
      <4>1. CASE start.meta.tailPage = 0
        <5>1. Bare(e, start.live)
          BY <1>2, <4>1 DEF Saved, e
        <5> QED
          BY <1>4, <5>1 DEF Bare
      <4>2. CASE start.meta.tailPage # 0
        <5>1. IsBegin(Found(start))
          BY <1>2, <4>2 DEF Saved
        <5>2. Found(start).tree = start.live /\ Found(start).end = start.meta.flushed
          BY DEF Found
        <5> QED
          BY <5>1, <5>2 DEF IsBegin, Apart
      <4> QED
        BY <4>1, <4>2
    <3>2. start.meta.flushed \in 2 .. MaxPage + 1
      BY <1>3 DEF IsMeta
    <3> QED
      BY <3>1, <3>2, PagerAssumption DEF Page
  <2>3. e.flushed \in Nat
    BY <1>4 DEF IsStore
  <2>4. fate' \in Fates
    BY <1>1, <1>2 DEF Shape, Fates
  <2> QED
    BY <1>1, <1>2, <1>3, <1>4, <2>1, <2>2, <2>3, <2>4 DEF Shape, Phases, IsMeta
<1>6. ASSUME Sound' PROVE InOrder' /\ AtRest' /\ Saved' /\ OnDisk' /\ MetaLeads'
  <2>1. FreeList(LoadMeta(start.meta), disk) = start.free
    BY <1>6, AbortFinds DEF Sound
  <2>2. /\ e.tailPage = 0 => Bare(e, start.live)
        /\ e.tailPage # 0 =>
             \E b, W : IsBegin(b) /\ Good(b, TRUE, e, disk, start.live, NodeNo(e.tailSeq), W)
    BY <1>2, <2>1, LoadedGood DEF e
  <2>3. InOrder'
    <3>1. Lost' /\ e.flushed \in 2 .. MaxPage + 1 /\ AppendPtr(e) <= MaxPage + 1
      BY <1>1, <1>3, <1>4 DEF Lost, IsMeta
    <3> QED
      BY <1>1, <2>2, <3>1 DEF InOrder
  <2>4. AtRest'
    BY <1>1, <1>2, <1>4 DEF AtRest, Saved
  <2>5. Saved' /\ OnDisk'
    BY <1>1 DEF Saved, OnDisk
  <2>6. MetaLeads'
    <3>1. SameList(meta, start.meta) => SameList(meta, e)
      BY <1>4 DEF SameList
    <3> QED
      BY <1>1, <1>2, <1>4, <3>1 DEF MetaLeads
  <2> QED
    BY <2>3, <2>4, <2>5, <2>6
<1> QED
  BY <1>5, <1>6 DEF IInv

\* Close, or the end of the process, and Open (disk.go:44-127).
LEMMA ReopenKeeps ==
  ASSUME IInv, Reopen
  PROVE  IInv'
<1>1. /\ Sound /\ fails < MaxFails /\ fails' = fails + 1
      /\ emptied' = FALSE /\ ops' = 0
      /\ UNCHANGED <<disk, meta, kept, ahead>>
  BY DEF Reopen
<1>2. Shape /\ InOrder /\ AtRest /\ Saved /\ OnDisk /\ MetaLeads
  BY <1>1 DEF IInv
<1>3. fails + 1 \in 0 .. MaxFails /\ 0 \in 0 .. MaxOps
  BY <1>1, <1>2, PagerAssumption DEF Shape
<1>4. CASE FileEmpty /\ db' = NewStore /\ live' = {} /\ phase' = "idle" /\ UNCHANGED fate
  <2>1. /\ NewStore.flushed = 2 /\ NewStore.nappend = 0 /\ DOMAIN NewStore.updates = {}
        /\ NewStore.tailPage = 1
        /\ NewStore.headSeq = 0 /\ NewStore.tailSeq = 0 /\ NewStore.maxSeq = 0
    BY DEF NewStore
  <2>2. meta = NoMeta
    BY <1>4 DEF FileEmpty
  <2>3. Shape'
    <3>1. 0 \in 0 .. MaxSeq
      BY PagerAssumption
    <3> QED
      BY <1>1, <1>2, <1>3, <1>4, <2>1, <3>1 DEF Shape, Phases
  <2>4. InOrder'
    <3>1. PICK b : IsBegin(b)
      BY SomeBegin
    <3>2. Good(b, TRUE, NewStore, disk, {}, NodeNo(NewStore.tailSeq), {})
      BY NewStoreGood
    <3>3. db'.flushed \in 2 .. MaxPage + 1 /\ AppendPtr(db') <= MaxPage + 1
      BY <1>4, <2>1, PagerAssumption DEF AppendPtr
    <3>4. db'.tailPage # 0 /\ Lost'
      BY <1>4, <2>1 DEF Lost
    <3>5. Good(b, TRUE, db', disk', live', NodeNo(db'.tailSeq), {})
      BY <1>1, <1>4, <3>2
    <3> QED
      BY <3>1, <3>3, <3>4, <3>5 DEF InOrder
  <2>5. AtRest' /\ Saved' /\ OnDisk' /\ MetaLeads'
    BY <1>1, <1>4, <2>1, <2>2 DEF AtRest, Saved, OnDisk, MetaLeads
  <2> QED
    BY <2>3, <2>4, <2>5 DEF IInv
<1>5. CASE /\ ~FileEmpty /\ meta = NoMeta /\ fate' = "unreadable"
           /\ UNCHANGED <<db, live, phase>>
  <2>1. Shape'
    BY <1>1, <1>2, <1>3, <1>5 DEF Shape, Fates
  <2>2. ~Sound'
    BY <1>5 DEF Sound
  <2> QED
    BY <2>1, <2>2 DEF IInv
<1>6. CASE /\ meta # NoMeta /\ db' = LoadMeta(meta) /\ live' = kept.live
           /\ phase' = "idle" /\ fate' = FateOfOpen
  <2> DEFINE e == LoadMeta(meta)
  <2>1. IsMeta(meta)
    BY <1>2, <1>6 DEF Shape
  <2>2. /\ IsStore(e) /\ DOMAIN e.updates = {} /\ e.tailPage = meta.tailPage
        /\ e.headSeq = meta.headSeq /\ e.tailSeq = meta.tailSeq
        /\ e.flushed = meta.flushed /\ e.nappend = 0 /\ e.maxSeq = meta.maxSeq
        /\ AppendPtr(e) = meta.flushed /\ SameList(meta, e)
    BY <2>1, Loaded DEF SameList
  <2>3. db' = e
    BY <1>6
  <2> HIDE DEF e
  <2>4. /\ FateOfOpen \in Fates
        /\ FateOfOpen = "sound" =>
             /\ ~ahead /\ kept.end = meta.flushed
             /\ phase = "metaWritten" \/ ~ListOverwritten
    BY <1>2 DEF FateOfOpen, Shape, Fates
  <2>5. Shape'
    <3>1. e.flushed \in Nat
      BY <2>2 DEF IsStore
    <3> QED
      BY <1>1, <1>2, <1>3, <1>6, <2>1, <2>2, <2>3, <2>4, <3>1 DEF Shape, Phases, IsMeta
  <2>6. ASSUME Sound' PROVE InOrder' /\ AtRest' /\ Saved' /\ OnDisk' /\ MetaLeads'
    <3>1. ~ahead /\ kept.end = meta.flushed /\ (phase = "metaWritten" \/ ~ListOverwritten)
      BY <1>6, <2>4, <2>6 DEF Sound
    <3>2. /\ phase = "idle" => SameList(meta, db) /\ kept.live = live /\ kept.end = db.flushed
          /\ phase \in {"tree", "stopped", "synced"} =>
               /\ SameList(meta, start.meta)
               /\ kept.live = start.live /\ kept.end = start.meta.flushed
          /\ phase = "metaWritten" => /\ SameList(meta, db) /\ meta.flushed = db.flushed
                                      /\ kept.live = live /\ kept.end = AppendPtr(db)
          /\ meta.tailPage # 0 => meta.maxSeq <= meta.tailSeq
      BY <1>2, <1>6, <3>1 DEF MetaLeads
    <3>3. /\ e.tailPage = 0 => Bare(e, kept.live)
          /\ e.tailPage # 0 =>
               \E b, W : IsBegin(b) /\ Good(b, TRUE, e, disk, kept.live, NodeNo(e.tailSeq), W)
      <4>1. CASE phase \in {"idle", "metaWritten"}
        <5>1. IsStore(db) /\ SameList(meta, db) /\ kept.live = live
          BY <1>2, <3>2, <4>1, MetaOfStore
        <5>2. AppendPtr(e) = AppendPtr(db)
          <6>1. CASE phase = "idle"
            BY <1>2, <2>2, <3>1, <3>2, <5>1, <6>1 DEF AtRest, AppendPtr, IsStore
          <6>2. CASE phase = "metaWritten"
            BY <2>2, <3>1, <3>2, <6>2
          <6> QED
            BY <4>1, <6>1, <6>2
        <5>3. SameList(db, e) /\ e.tailSeq = db.tailSeq
          BY <2>2, <5>1 DEF SameList
        <5>4. \A q : View(e, disk, q) = View(db, disk, q)
          <6>1. DOMAIN db.updates \subseteq DOMAIN disk
            BY <1>2 DEF Shape
          <6>2. \A p \in DOMAIN db.updates : disk[p] = db.updates[p]
            BY <1>2, <4>1 DEF OnDisk, AtRest
          <6> QED
            BY <2>2, <6>1, <6>2 DEF View, PageRead
        <5>5. DOMAIN e.updates \subseteq 1 .. AppendPtr(db) - 1
          BY <2>2
        <5>6. e.tailPage = db.tailPage
          BY <5>3 DEF SameList
        <5>7. ASSUME e.tailPage = 0 PROVE Bare(e, kept.live)
          <6>1. Bare(db, live)
            BY <1>2, <5>6, <5>7 DEF InOrder
          <6>2. Bare(e, live)
            BY <2>2, <5>2, <5>3, <5>5, <6>1, CarryBare
          <6> QED
            BY <5>1, <6>2
        <5>8. ASSUME e.tailPage # 0
              PROVE  \E b, W : /\ IsBegin(b)
                               /\ Good(b, TRUE, e, disk, kept.live, NodeNo(e.tailSeq), W)
          <6>1. PICK b, lost, W :
                  IsBegin(b) /\ Good(b, lost, db, disk, live, NodeNo(db.tailSeq), W)
            <7>1. CASE phase = "idle"
              BY <1>2, <5>6, <5>8, <7>1 DEF InOrder, Lost
            <7>2. CASE phase # "idle"
              BY <1>2, <5>6, <5>8, <7>2, CommitList
            <7> QED
              BY <7>1, <7>2
          <6>2. Good(b, TRUE, e, disk, live, NodeNo(db.tailSeq), W)
            BY <2>2, <5>2, <5>3, <5>4, <5>5, <6>1, CarryStore
          <6> QED
            BY <5>1, <5>3, <6>1, <6>2
        <5> QED
          BY <5>7, <5>8
      <4>2. CASE phase \in {"tree", "stopped", "synced"}
        <5> DEFINE f == LoadMeta(start.meta)
        <5>1. /\ SameList(meta, start.meta) /\ kept.live = start.live
              /\ kept.end = start.meta.flushed
          BY <3>2, <4>2
        <5>2. IsMeta(start.meta)
          BY <1>2, <4>2 DEF Saved
        <5>3. FreeList(f, disk) = start.free
          BY <1>2, <3>1, <4>2 DEF OnDisk, ListOverwritten
        <5>4. /\ f.tailPage = 0 => Bare(f, start.live)
              /\ f.tailPage # 0 =>
                   \E b, W : /\ IsBegin(b)
                             /\ Good(b, TRUE, f, disk, start.live, NodeNo(f.tailSeq), W)
          BY <1>2, <4>2, <5>3, LoadedGood
        <5>5. /\ IsStore(f) /\ SameList(start.meta, f) /\ DOMAIN f.updates = {}
              /\ AppendPtr(f) = start.meta.flushed
          BY <5>2, Loaded
        <5> HIDE DEF f
        <5>6. /\ SameList(f, e) /\ AppendPtr(e) = AppendPtr(f)
              /\ e.tailPage = f.tailPage /\ e.tailSeq = f.tailSeq
          BY <2>2, <3>1, <5>1, <5>5 DEF SameList
        <5>7. \A q : View(e, disk, q) = View(f, disk, q)
          BY <2>2, <5>5 DEF View, PageRead
        <5>8. DOMAIN e.updates \subseteq 1 .. AppendPtr(f) - 1
          BY <2>2
        <5>9. ASSUME e.tailPage = 0 PROVE Bare(e, kept.live)
          <6>1. Bare(e, start.live)
            BY <2>2, <5>4, <5>6, <5>8, <5>9, CarryBare
          <6> QED
            BY <5>1, <6>1
        <5>10. ASSUME e.tailPage # 0
               PROVE  \E b, W : /\ IsBegin(b)
                                /\ Good(b, TRUE, e, disk, kept.live, NodeNo(e.tailSeq), W)
          <6>1. PICK b, W : /\ IsBegin(b)
                            /\ Good(b, TRUE, f, disk, start.live, NodeNo(f.tailSeq), W)
            BY <5>4, <5>6, <5>10
          <6>2. Good(b, TRUE, e, disk, start.live, NodeNo(f.tailSeq), W)
            BY <2>2, <5>6, <5>7, <5>8, <6>1, CarryStore
          <6> QED
            BY <5>1, <5>6, <6>1, <6>2
        <5> QED
          BY <5>9, <5>10
      <4> QED
        BY <1>2, <4>1, <4>2 DEF Shape, Phases
    <3>4. InOrder'
      <4>1. Lost' /\ e.flushed \in 2 .. MaxPage + 1 /\ AppendPtr(e) <= MaxPage + 1
        BY <1>6, <2>1, <2>2 DEF Lost, IsMeta
      <4> QED
        BY <1>1, <1>6, <2>3, <3>3, <4>1 DEF InOrder
    <3>5. AtRest'
      BY <1>6, <2>2, <2>3, <3>2 DEF AtRest
    <3>6. Saved' /\ OnDisk'
      BY <1>6 DEF Saved, OnDisk
    <3>7. MetaLeads'
      BY <1>1, <1>6, <2>2, <2>3, <3>1, <3>2 DEF MetaLeads
    <3> QED
      BY <3>4, <3>5, <3>6, <3>7
  <2> QED
    BY <2>5, <2>6 DEF IInv
<1> QED
  BY <1>4, <1>5, <1>6 DEF Reopen

-----------------------------------------------------------------------------
(* The theorems.                                                            *)

\* Every step keeps the invariant.
LEMMA NextKeeps ==
  ASSUME IInv, [Next]_vars
  PROVE  IInv'
<1>1. CASE Begin
  BY <1>1, BeginKeeps
<1>2. CASE New
  BY <1>2, NewKeeps
<1>3. ASSUME NEW p \in live, Del(p) PROVE IInv'
  BY <1>3, DelKeeps
<1>4. ASSUME NEW S \in SUBSET DOMAIN db.updates, WritePages(S) PROVE IInv'
  <2>1. S \subseteq DOMAIN db.updates
    OBVIOUS
  <2> QED
    BY <1>4, <2>1, WritePagesKeeps
<1>5. CASE WriteMeta
  BY <1>5, WriteMetaKeeps
<1>6. CASE Finish
  BY <1>6, FinishKeeps
<1>7. CASE Abort
  BY <1>7, AbortKeeps
<1>8. CASE Reopen
  BY <1>8, ReopenKeeps
<1>9. CASE UNCHANGED vars
  <2>1. /\ UNCHANGED <<db, live, disk, meta, kept, start>>
        /\ UNCHANGED <<phase, emptied, ops, fails, ahead, fate>>
    BY <1>9 DEF vars
  <2>2. Shape' = Shape /\ Sound' = Sound
    BY <2>1 DEF Shape, Sound
  <2>3. InOrder' = InOrder
    BY <2>1 DEF InOrder, Lost
  <2>4. AtRest' = AtRest /\ Saved' = Saved
    BY <2>1 DEF AtRest, Saved
  <2>5. OnDisk' = OnDisk /\ MetaLeads' = MetaLeads
    BY <2>1 DEF OnDisk, MetaLeads, WithinList
  <2> QED
    BY <2>2, <2>3, <2>4, <2>5 DEF IInv
<1> QED
  BY <1>1, <1>2, <1>3, <1>4, <1>5, <1>6, <1>7, <1>8, <1>9 DEF Next

\* The inductive invariant holds throughout: at every point of every commit the
\* free list of disk.go is linked and apart from the tree, and what Begin saved
\* and the meta page lead to are what they were.
THEOREM PagerInvariant == Spec => []IInv
<1>1. Init => IInv
  BY InitKeeps
<1>2. IInv /\ [Next]_vars => IInv'
  BY NextKeeps
<1> QED
  BY <1>1, <1>2, PTL DEF Spec

\* The fields of KV.page and KV.free (disk.go:19-42) stay within the file and
\* the list's sequence numbers, and while the store is sound the list's ends
\* are pages.
THEOREM PagerTypeOK == Spec => []TypeOK
<1>1. IInv => TypeOK
  <2> SUFFICES ASSUME IInv PROVE TypeOK
    OBVIOUS
  <2>1. Shape
    BY DEF IInv
  <2>2. Sound => {db.headPage, db.tailPage} \subseteq Page
    <3> SUFFICES ASSUME Sound PROVE db.headPage \in Page /\ db.tailPage \in Page
      OBVIOUS
    <3>1. IsMeta(SaveMeta(db))
      BY <2>1, MetaOfStore DEF IInv
    <3> QED
      BY <3>1 DEF IsMeta, SaveMeta
  <2> QED
    BY <2>1, <2>2 DEF TypeOK, Shape
<1> QED
  BY <1>1, PagerInvariant, PTL

\* The list of a sound store that has one, as functions.
LEMMA SoundList ==
  ASSUME IInv, Sound, db.tailPage # 0
  PROVE  /\ IsStore(db)
         /\ \E N, E : /\ Linked(db, disk, N, E, NodeNo(db.tailSeq))
                      /\ Apart(live, N, E, AppendPtr(db))
<1>1. Shape /\ InOrder /\ Saved
  BY DEF IInv
<1>2. IsStore(db)
  BY <1>1, MetaOfStore
<1>3. \E b, lost, W : Good(b, lost, db, disk, live, NodeNo(db.tailSeq), W)
  BY <1>1 DEF InOrder, Lost
<1> QED
  BY <1>2, <1>3 DEF Good

\* Following the links of the list's nodes from its head leads to its tail, as
\* freePopHead and freePushTail rely on (disk.go:175-236).
THEOREM PagerListLinked == Spec => []ListLinked
<1>1. IInv => ListLinked
  <2> SUFFICES ASSUME IInv, Sound PROVE ListLinked
    BY DEF ListLinked
  <2> DEFINE n == ListNodes(db, disk)
  <2>1. ASSUME db.tailPage = 0
        PROVE  db.headPage = 0 /\ db.headSeq = 0 /\ db.tailSeq = 0
    BY <2>1 DEF IInv, InOrder, Bare
  <2>2. ASSUME db.tailPage # 0
        PROVE  n[ListLen(db)] = db.tailPage
    <3>1. IsStore(db)
      BY <2>2, SoundList
    <3>2. PICK N, E : /\ Linked(db, disk, N, E, NodeNo(db.tailSeq))
                      /\ Apart(live, N, E, AppendPtr(db))
      BY <2>2, SoundList
    <3>3. /\ ListNodes(db, disk)
               = [i \in 1 .. ListLen(db) |-> N[NodeNo(db.headSeq) + i - 1]]
          /\ Numbered(db, ListNodes(db, disk)) = N
          /\ Entries(db, disk) = E
      BY <2>2, <3>1, <3>2, ListOf, Zenon
    <3>4. /\ NodeNo(db.headSeq) \in Nat /\ NodeNo(db.tailSeq) \in Nat
          /\ NodeNo(db.headSeq) <= NodeNo(db.tailSeq)
          /\ ListLen(db) = NodeNo(db.tailSeq) - NodeNo(db.headSeq) + 1
      BY <3>1, <3>2, ListLength DEF Linked
    <3>5. N[NodeNo(db.tailSeq)] = db.tailPage
      BY <3>2 DEF Linked
    <3>6. /\ ListLen(db) \in 1 .. ListLen(db)
          /\ NodeNo(db.headSeq) + ListLen(db) - 1 = NodeNo(db.tailSeq)
      BY <3>4
    <3> QED
      BY <3>3, <3>5, <3>6
  <2> QED
    BY <2>1, <2>2 DEF ListLinked
<1> QED
  BY <1>1, PagerInvariant, PTL

\* An injective function has as many values as arguments.
LEMMA ImageSize ==
  ASSUME NEW f, IsFiniteSet(DOMAIN f), f \in [DOMAIN f -> Nat],
         \A x, y \in DOMAIN f : f[x] = f[y] => x = y
  PROVE  LET T == {f[x] : x \in DOMAIN f} IN
         IsFiniteSet(T) /\ Cardinality(T) = Cardinality(DOMAIN f)
<1> DEFINE D == DOMAIN f
           T == {f[x] : x \in D}
<1>1. f \in [D -> T] /\ \A x, y \in D : f[x] = f[y] => x = y
  OBVIOUS
<1>2. \A t \in T : \E s \in D : f[s] = t
  OBVIOUS
<1>3. IsFiniteSet(D)
  OBVIOUS
<1> HIDE DEF D, T
<1>4. f \in Bijection(D, T)
  BY <1>1, <1>2, Fun_IsBij
<1>5. ExistsBijection(D, T)
  BY <1>4, Fun_ExistsBij
<1>6. IsFiniteSet(T) /\ Cardinality(T) = Cardinality(D)
  BY <1>3, <1>5, FS_Bijection
<1> QED
  BY <1>6 DEF D, T

\* Pages that are in one of three places only, and once, are as many as the
\* places hold together.
LEMMA ThreePlaces ==
  ASSUME NEW N, NEW E, NEW out, NEW end, Apart(out, N, E, end), end \in Nat \ {0},
         IsFiniteSet(DOMAIN N), IsFiniteSet(DOMAIN E),
         N \in [DOMAIN N -> Nat], E \in [DOMAIN E -> Nat]
  PROVE  LET Ns == {N[k] : k \in DOMAIN N}
             Es == {E[s] : s \in DOMAIN E}
         IN  /\ out \union Es \union Ns = 1 .. end - 1
             /\ Cardinality(out) + Cardinality(DOMAIN E) + Cardinality(DOMAIN N) = end - 1
<1> DEFINE Ns == {N[k] : k \in DOMAIN N}
           Es == {E[s] : s \in DOMAIN E}
<1>1. IsFiniteSet(1 .. end - 1) /\ Cardinality(1 .. end - 1) = end - 1
  BY FS_Interval
<1>2. out \subseteq 1 .. end - 1
  BY DEF Apart
<1>3. IsFiniteSet(out) /\ Cardinality(out) \in Nat
  <2>1. out \in SUBSET (1 .. end - 1)
    BY <1>2
  <2>2. IsFiniteSet(out)
    BY <1>1, <2>1, FS_Subset, Zenon
  <2> QED
    BY <2>2, FS_CardinalityType, Zenon
<1>4. IsFiniteSet(Ns) /\ Cardinality(Ns) = Cardinality(DOMAIN N)
  <2>1. \A j, k \in DOMAIN N : N[j] = N[k] => j = k
    BY DEF Apart
  <2> QED
    BY <2>1, ImageSize, Zenon
<1>5. IsFiniteSet(Es) /\ Cardinality(Es) = Cardinality(DOMAIN E)
  <2>1. \A r, s \in DOMAIN E : E[r] = E[s] => r = s
    BY DEF Apart
  <2> QED
    BY <2>1, ImageSize, Zenon
<1>6. out \intersect Es = {} /\ (out \union Es) \intersect Ns = {}
  BY DEF Apart
<1>7. out \union Es \union Ns = 1 .. end - 1
  <2>1. out \union Es \union Ns \subseteq 1 .. end - 1
    BY DEF Apart
  <2>2. 1 .. end - 1 \subseteq out \union Es \union Ns
    BY DEF Apart
  <2> QED
    BY <2>1, <2>2
<1> HIDE DEF Ns, Es
<1>8. /\ IsFiniteSet(out \union Es)
      /\ Cardinality(out \union Es)
           = Cardinality(out) + Cardinality(Es) - Cardinality(out \intersect Es)
  BY <1>3, <1>5, FS_Union, Zenon
<1>9. /\ IsFiniteSet((out \union Es) \union Ns)
      /\ Cardinality((out \union Es) \union Ns)
           = Cardinality(out \union Es) + Cardinality(Ns)
               - Cardinality((out \union Es) \intersect Ns)
  BY <1>4, <1>8, FS_Union, Zenon
<1>10. Cardinality({}) = 0
  BY FS_EmptySet
<1>11. Cardinality(Es) \in Nat /\ Cardinality(Ns) \in Nat
  BY <1>4, <1>5, FS_CardinalityType
<1>12. Cardinality(out) + Cardinality(Es) + Cardinality(Ns) = end - 1
  <2>1. Cardinality(out \intersect Es) = 0 /\ Cardinality((out \union Es) \intersect Ns) = 0
    BY <1>6, <1>10, Zenon
  <2>2. Cardinality((out \union Es) \union Ns) = end - 1
    BY <1>1, <1>7, Zenon
  <2> QED
    BY <1>3, <1>8, <1>9, <1>11, <2>1, <2>2
<1>13. Cardinality(out) + Cardinality(DOMAIN E) + Cardinality(DOMAIN N) = end - 1
  BY <1>4, <1>5, <1>12
<1> QED
  BY <1>7, <1>13 DEF Ns, Es

\* No page is lost, handed out twice or freed twice: pageAlloc, freePopHead and
\* freePushTail (disk.go:146-236) keep every page but the meta page in the tree,
\* in the free list once or among the list's own nodes, through every sequence
\* of allocations and frees, failed commits and restarts that leaves the store
\* sound.
THEOREM PagerConservation == Spec => []Conservation
<1>1. IInv => Conservation
  <2> SUFFICES ASSUME IInv, Sound
               PROVE  /\ live \union FreePages \union NodePages = 1 .. AppendPtr(db) - 1
                      /\ Cardinality(live) + Cardinality(DOMAIN Entries(db, disk))
                           + Cardinality(DOMAIN ListNodes(db, disk)) = AppendPtr(db) - 1
    BY DEF Conservation
  <2>1. IsStore(db) /\ AppendPtr(db) \in Nat \ {0}
    <3>1. IsStore(db)
      BY MetaOfStore DEF IInv
    <3> QED
      BY <3>1 DEF IsStore, AppendPtr
  <2>2. CASE db.tailPage = 0
    <3>1. live = 1 .. AppendPtr(db) - 1 /\ db.headSeq = 0 /\ db.tailSeq = 0
      BY <2>2 DEF IInv, InOrder, Bare
    <3>2. 1 .. 0 = {} /\ 0 .. 0 - 1 = {}
      OBVIOUS
    <3>3. DOMAIN ListNodes(db, disk) = {}
      BY <2>2, <3>2 DEF ListNodes
    <3>4. DOMAIN Entries(db, disk) = {}
      BY <3>1, <3>2 DEF Entries
    <3>5. FreePages = {} /\ NodePages = {}
      BY <3>3, <3>4 DEF FreePages, NodePages
    <3>6. Cardinality({}) = 0
      BY FS_EmptySet
    <3>7. Cardinality(1 .. AppendPtr(db) - 1) = AppendPtr(db) - 1
      <4> DEFINE e == AppendPtr(db) - 1
      <4>1. e \in Nat /\ 1 \in Int /\ e \in Int
        BY <2>1
      <4> HIDE DEF e
      <4>2. Cardinality(1 .. e) = e
        BY <4>1, FS_Interval
      <4> QED
        BY <4>2 DEF e
    <3> QED
      BY <2>1, <3>1, <3>3, <3>4, <3>5, <3>6, <3>7
  <2>3. CASE db.tailPage # 0
    <3>1. PICK N, E : /\ Linked(db, disk, N, E, NodeNo(db.tailSeq))
                      /\ Apart(live, N, E, AppendPtr(db))
      BY <2>3, SoundList
    <3> DEFINE n == ListNodes(db, disk)
    <3>2. /\ ListNodes(db, disk)
               = [i \in 1 .. ListLen(db) |-> N[NodeNo(db.headSeq) + i - 1]]
          /\ Numbered(db, ListNodes(db, disk)) = N
          /\ Entries(db, disk) = E
      BY <2>1, <2>3, <3>1, ListOf, Zenon
    <3>3. /\ db.headSeq \in Nat /\ db.tailSeq \in Nat
          /\ NodeNo(db.headSeq) \in Nat /\ NodeNo(db.tailSeq) \in Nat
          /\ NodeNo(db.headSeq) <= NodeNo(db.tailSeq)
          /\ ListLen(db) = NodeNo(db.tailSeq) - NodeNo(db.headSeq) + 1
      BY <2>1, <3>1, ListLength DEF Linked
    <3>4. /\ N \in [NodeNo(db.headSeq) .. NodeNo(db.tailSeq) -> Nat]
          /\ E \in [db.headSeq .. db.tailSeq - 1 -> Nat]
      BY <3>1 DEF Linked
    <3>5. /\ N \in [DOMAIN N -> Nat] /\ E \in [DOMAIN E -> Nat]
          /\ DOMAIN N = NodeNo(db.headSeq) .. NodeNo(db.tailSeq)
          /\ DOMAIN E = db.headSeq .. db.tailSeq - 1
      BY <3>4
    <3>6. IsFiniteSet(DOMAIN N) /\ Cardinality(DOMAIN N) = ListLen(db)
      BY <3>3, <3>5, FS_Interval
    <3>7. IsFiniteSet(DOMAIN E)
      BY <3>3, <3>5, FS_Interval
    <3>8. /\ live \union {E[s] : s \in DOMAIN E} \union {N[k] : k \in DOMAIN N}
               = 1 .. AppendPtr(db) - 1
          /\ Cardinality(live) + Cardinality(DOMAIN E) + Cardinality(DOMAIN N)
               = AppendPtr(db) - 1
      BY <2>1, <3>1, <3>5, <3>6, <3>7, ThreePlaces, ZenonT(30)
    <3>9. DOMAIN n = 1 .. ListLen(db) /\ Cardinality(DOMAIN n) = ListLen(db)
      BY <3>2, <3>3, FS_Interval
    <3>10. {n[i] : i \in DOMAIN n} = {N[k] : k \in DOMAIN N}
      <4>1. \A i \in DOMAIN n : /\ NodeNo(db.headSeq) + i - 1 \in DOMAIN N
                                /\ n[i] = N[NodeNo(db.headSeq) + i - 1]
        BY <3>2, <3>3, <3>5, <3>9
      <4>2. \A k \in DOMAIN N : /\ k - NodeNo(db.headSeq) + 1 \in DOMAIN n
                                /\ n[k - NodeNo(db.headSeq) + 1] = N[k]
        <5> SUFFICES ASSUME NEW k \in DOMAIN N
                     PROVE  /\ k - NodeNo(db.headSeq) + 1 \in DOMAIN n
                            /\ n[k - NodeNo(db.headSeq) + 1] = N[k]
          OBVIOUS
        <5>1. k \in Nat /\ k - NodeNo(db.headSeq) + 1 \in 1 .. ListLen(db)
          BY <3>3, <3>5
        <5>2. NodeNo(db.headSeq) + (k - NodeNo(db.headSeq) + 1) - 1 = k
          BY <3>3, <5>1
        <5> QED
          BY <3>2, <3>9, <5>1, <5>2
      <4> HIDE DEF n
      <4> QED
        BY <4>1, <4>2
    <3>11. FreePages = {E[s] : s \in DOMAIN E} /\ NodePages = {N[k] : k \in DOMAIN N}
      BY <3>2, <3>10 DEF FreePages, NodePages
    <3> QED
      BY <3>2, <3>6, <3>8, <3>9, <3>11
  <2> QED
    BY <2>2, <2>3
<1> QED
  BY <1>1, PagerInvariant, PTL

\* What Commit has put into page.updates is no page of the tree it began with,
\* as long as it takes entries of the list it found; one page at most when it
\* goes on to entries of its own, because maxSeq (disk.go:175-177) holds back
\* all but the first of them.
THEOREM PagerOverwritesLate == Spec => []OverwritesLate
<1>1. IInv => OverwritesLate
  <2> DEFINE over == DOMAIN db.updates \intersect start.live
  <2> SUFFICES ASSUME IInv, phase = "tree", Sound, ~emptied
               PROVE  /\ over # {} => ~WithinList
                      /\ ~(Cardinality(over) > 1)
    BY DEF OverwritesLate, WithinList
  <2>1. db.tailPage # 0 /\ start.meta.tailPage # 0 /\ IsBegin(Found(start))
    BY DEF IInv, Saved
  <2>2. PICK W : Good(Found(start), FALSE, db, disk, live, NodeNo(db.tailSeq), W)
    BY <2>1 DEF IInv, InOrder, Lost
  <2>3. Found(start).tree = start.live /\ Found(start).tailSeq = start.meta.tailSeq
    BY DEF Found
  <2>4. /\ db.headSeq <= Found(start).tailSeq =>
             DOMAIN db.updates \intersect Found(start).tree = {}
        /\ \E x : DOMAIN db.updates \intersect Found(start).tree \subseteq {x}
    BY <2>1, <2>2, WritesLate, Zenon
  <2>5. over # {} => ~WithinList
    BY <2>3, <2>4 DEF WithinList
  <2>6. PICK x : over \subseteq {x}
    BY <2>3, <2>4
  <2> HIDE DEF over
  <2>7. over = {} \/ over = {x}
    BY <2>6
  <2>8. Cardinality(over) = 0 \/ Cardinality(over) = 1
    BY <2>7, FS_EmptySet, FS_Singleton
  <2>9. ~(Cardinality(over) > 1)
    BY <2>8
  <2> QED
    BY <2>5, <2>9
<1> QED
  BY <1>1, PagerInvariant, PTL

\* KV.Abort (disk.go:331-335) gives back the free list that KV.Begin found,
\* whatever updateFile had already written over the file, unless the commit had
\* gone past the entries it found.
THEOREM PagerAbortRestores == Spec => AbortRestores
<1>1. IInv /\ [Next]_vars =>
        [Abort /\ (WithinList \/ fate' = "sound") => FreeList(db', disk') = start.free]_vars
  <2> SUFFICES ASSUME IInv, Abort, WithinList \/ fate' = "sound"
               PROVE  FreeList(db', disk') = start.free
    OBVIOUS
  <2>1. /\ db' = LoadMeta(start.meta) /\ disk' = disk /\ Sound
        /\ phase \in {"tree", "stopped", "synced", "metaWritten"}
    BY DEF Abort
  <2>2. FreeList(LoadMeta(start.meta), disk) = start.free
    <3>1. CASE WithinList
      BY <2>1, <3>1 DEF IInv, OnDisk
    <3>2. CASE fate' = "sound"
      BY <3>2, AbortFinds
    <3> QED
      BY <3>1, <3>2
  <2> QED
    BY <2>1, <2>2
<1> QED
  BY <1>1, PagerInvariant, PTL DEF Spec, AbortRestores
=============================================================================
