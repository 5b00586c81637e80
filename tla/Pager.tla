------------------------------- MODULE Pager -------------------------------
(***************************************************************************)
(* The page store of storage/disk.go over time: a transaction's commit     *)
(* allocates and frees pages (BTree.new, BTree.del), updateFile writes     *)
(* them and the meta page, an error on the way ends in Abort, and the file *)
(* is closed, or the process dies, and opened again.                       *)
(*                                                                         *)
(* The tree is what its client sees of the store: the set live of pages    *)
(* that hold it. Commit runs the whole tree work and then updateFile, so   *)
(* one transaction at a time is between Begin and its end here; KVTX keeps *)
(* the changes of the others in memory until then.                         *)
(***************************************************************************)
EXTENDS PageStore, FiniteSets

CONSTANTS MaxPage,  \* bound: pages 0..MaxPage of the file
          MaxSeq,   \* bound: the free list's sequence numbers
          MaxOps,   \* bound: pages allocated and freed by one commit
          MaxFails, \* bound: commits that fail, and reopenings
          Faults    \* what may go wrong: a subset of FaultKinds

FaultKinds == {"mmap",    \* extendMmap fails: nothing was written
               "write",   \* a pwrite or the first fsync fails
               "meta",    \* the fsync of the meta page fails
               "reopen"}  \* the process ends, at any point, and opens the file

ASSUME PagerAssumption ==
  /\ MaxPage \in Nat \ {0} /\ MaxSeq \in Nat /\ MaxOps \in Nat /\ MaxFails \in Nat
  /\ Faults \subseteq FaultKinds

VARIABLES db,      \* KV.page and KV.free
          live,    \* the pages of the tree db.tree.Root leads to
          disk,    \* the pages of the file
          meta,    \* the meta page: what SaveMeta wrote last, or NoMeta
          kept,    \* the tree the meta page leads to, and the end of the file then
          start,   \* tx.meta, and the tree and the free list at that time
          phase,   \* where Commit is
          emptied, \* has the list been without a node since this commit began?
          ops,     \* pages allocated and freed by this commit
          fails,   \* commits that have failed, and reopenings
          ahead,   \* does the meta page belong to a commit that was undone?
          fate     \* "sound", or how the store came to lose track of its pages

vars == <<db, live, disk, meta, kept, start, phase, emptied, ops, fails, ahead,
          fate>>

Page == 0 .. MaxPage
Data == [data |-> "node"]
NoFile == [data |-> "none"]  \* in place of the meta page: nothing was ever written
NoMeta == [flushed |-> 0]
NoTx == [meta |-> SaveMeta(NewStore)]
Phases == {"idle", "tree", "stopped", "synced", "metaWritten"}
Fates == {"sound",
          "drained",     \* the free list took a page it was being given
          "harmed",      \* a commit that failed wrote over entries of the list
          "ahead",       \* Open read the meta page of a commit that was undone
          "stale",       \* Open read a meta page that leaves pages out
          "unreadable"}  \* Open found pages and no meta page

\* Open on a file that is not there: readRoot finds size 0.
Init ==
  /\ db = NewStore
  /\ live = {}
  /\ disk = [p \in Page |-> IF p = 0 THEN NoFile ELSE Blank]
  /\ meta = NoMeta
  /\ kept = [live |-> {}, end |-> 2]
  /\ start = NoTx
  /\ phase = "idle"
  /\ emptied = FALSE
  /\ ops = 0
  /\ fails = 0
  /\ ahead = FALSE
  /\ fate = "sound"

FreeList(d, disc) == [nodes |-> ListNodes(d, disc), pages |-> Entries(d, disc)]
FreePages == LET f == Entries(db, disk) IN {f[s] : s \in DOMAIN f}
NodePages == LET n == ListNodes(db, disk) IN {n[i] : i \in DOMAIN n}

\* Once the store has lost track of its pages, what it does next is not followed.
Sound == fate = "sound"

-----------------------------------------------------------------------------
(* The tree work of a commit.                                               *)

\* KV.Begin, and KV.Commit as far as its loops over writes and deletes.
Begin ==
  /\ Sound
  /\ phase = "idle"
  /\ start' = [meta |-> SaveMeta(db), live |-> live, free |-> FreeList(db, disk)]
  /\ phase' = "tree"
  /\ emptied' = (db.tailPage = 0)
  /\ ops' = 0
  /\ UNCHANGED <<db, live, disk, meta, kept, fails, ahead, fate>>

\* The bounds, as far as a store d reaches.
InBounds(d) ==
  /\ d.flushed + d.nappend <= MaxPage + 1
  /\ d.tailSeq <= MaxSeq

\* BTree.new: a page for a node of the tree.
New ==
  LET a == PageAlloc(db, disk, Data) IN
  /\ Sound
  /\ phase = "tree"
  /\ ops < MaxOps
  /\ InBounds(a.db)
  /\ db' = a.db
  /\ live' = live \union {a.ptr}
  /\ emptied' = (emptied \/ a.db.tailPage = 0)
  /\ ops' = ops + 1
  /\ UNCHANGED <<disk, meta, kept, start, phase, fails, ahead, fate>>

\* freePushTail fills the tail node and takes the next one off the head; when
\* the list was empty and maxSeq allows it, that is the page being freed, and
\* headPage follows a link that is not set yet.
DrainsItself(d) ==
  /\ d.tailPage # 0
  /\ d.headSeq = d.tailSeq
  /\ d.headSeq <= d.maxSeq
  /\ SeqIdx(d.tailSeq + 1) = 0

\* BTree.del: a page of the tree is given back.
Del(p) ==
  LET d == FreePushTail(db, disk, p) IN
  /\ Sound
  /\ phase = "tree"
  /\ p \in live
  /\ ops < MaxOps
  /\ InBounds(d)
  /\ db' = d
  /\ live' = live \ {p}
  /\ ops' = ops + 1
  /\ fate' = IF DrainsItself(db) THEN "drained" ELSE fate
  /\ UNCHANGED <<disk, meta, kept, start, phase, emptied, fails, ahead>>

-----------------------------------------------------------------------------
(* updateFile.                                                              *)

\* The loop over page.updates, in whatever order the map gives, and the fsync:
\* S is what was written when the loop ended, or when it stopped. Any page that
\* is written makes the file as long as to reach past the meta page.
AfterWriting(S, p) ==
  IF p \in S THEN db.updates[p]
  ELSE IF disk[p] = NoFile /\ S # {} THEN Data
  ELSE disk[p]
WritePages(S) ==
  /\ Sound
  /\ phase = "tree"
  /\ S # DOMAIN db.updates => fails < MaxFails /\ Faults \intersect {"write", "reopen"} # {}
  /\ disk' = [p \in Page |-> AfterWriting(S, p)]
  /\ phase' = IF S = DOMAIN db.updates THEN "synced" ELSE "stopped"
  /\ UNCHANGED <<db, live, meta, kept, start, emptied, ops, fails, ahead, fate>>

\* The meta page is written from the fields as they are: flushed and maxSeq are
\* brought up to date only after it is on disk.
WriteMeta ==
  /\ Sound
  /\ phase = "synced"
  /\ meta' = SaveMeta(db)
  /\ kept' = [live |-> live, end |-> AppendPtr(db)]
  /\ ahead' = FALSE
  /\ phase' = "metaWritten"
  /\ UNCHANGED <<db, live, disk, start, emptied, ops, fails, fate>>

Finish ==
  /\ Sound
  /\ phase = "metaWritten"
  /\ db' = [db EXCEPT !.flushed = @ + db.nappend, !.nappend = 0,
                      !.updates = [p \in {} |-> Blank], !.maxSeq = db.tailSeq]
  /\ phase' = "idle"
  /\ emptied' = FALSE
  /\ ops' = 0
  /\ start' = NoTx
  /\ UNCHANGED <<live, disk, meta, kept, fails, ahead, fate>>

\* Which fault may end a commit in a phase.
FaultIn(ph) ==
  CASE ph = "tree" -> "mmap"
    [] ph \in {"stopped", "synced"} -> "write"
    [] OTHER -> "meta"

\* The list that was there when the commit began is not there any more: one of
\* its nodes was handed out and written over, for the tree or for the list.
ListOverwritten ==
  /\ phase \in {"stopped", "synced", "metaWritten"}
  /\ FreeList(LoadMeta(start.meta), disk) # start.free

\* updateFile returned an error and Commit called Abort; or, with nothing
\* written, the caller's own Abort.
Abort ==
  /\ Sound
  /\ phase \in {"tree", "stopped", "synced", "metaWritten"}
  /\ FaultIn(phase) \in Faults
  /\ fails < MaxFails
  /\ fails' = fails + 1
  /\ db' = LoadMeta(start.meta)
  /\ live' = start.live
  /\ phase' = "idle"
  /\ emptied' = FALSE
  /\ ops' = 0
  /\ ahead' = (ahead \/ phase = "metaWritten")
  /\ fate' = IF ListOverwritten THEN "harmed" ELSE fate
  /\ start' = NoTx
  /\ UNCHANGED <<disk, meta, kept>>

-----------------------------------------------------------------------------
(* Close, or the end of the process, and Open.                              *)

FileEmpty == meta = NoMeta /\ disk[0] = NoFile

\* What is wrong with the store that Open reads from the file. The meta page
\* was written before flushed was brought up to date, so it leaves out the
\* pages its own commit appended.
FateOfOpen ==
  IF ahead THEN "ahead"
  ELSE IF phase # "metaWritten" /\ ListOverwritten THEN "harmed"
  ELSE IF kept.end # meta.flushed THEN "stale"
  ELSE fate

\* loadMeta panics on a file that has pages and no signature.
Reopen ==
  /\ Sound
  /\ "reopen" \in Faults
  /\ fails < MaxFails
  /\ fails' = fails + 1
  /\ \/ /\ FileEmpty
        /\ db' = NewStore /\ live' = {} /\ phase' = "idle"
        /\ UNCHANGED fate
     \/ /\ meta # NoMeta
        /\ db' = LoadMeta(meta) /\ live' = kept.live /\ phase' = "idle"
        /\ fate' = FateOfOpen
     \/ /\ ~FileEmpty /\ meta = NoMeta
        /\ fate' = "unreadable"
        /\ UNCHANGED <<db, live, phase>>
  /\ emptied' = FALSE
  /\ ops' = 0
  /\ start' = NoTx
  /\ UNCHANGED <<disk, meta, kept, ahead>>

Next ==
  \/ Begin \/ New
  \/ \E p \in live : Del(p)
  \/ \E S \in SUBSET DOMAIN db.updates : WritePages(S)
  \/ WriteMeta \/ Finish \/ Abort \/ Reopen

Spec == Init /\ [][Next]_vars

-----------------------------------------------------------------------------
(* Properties.                                                              *)

TypeOK ==
  /\ db.flushed \in Nat /\ db.nappend \in Nat
  /\ DOMAIN db.updates \subseteq Page
  /\ Sound => {db.headPage, db.tailPage} \subseteq Page
  /\ {db.headSeq, db.tailSeq, db.maxSeq} \subseteq 0 .. MaxSeq
  /\ live \subseteq Page
  /\ kept.live \subseteq Page /\ kept.end \in 2 .. MaxPage + 1
  /\ phase \in Phases
  /\ fate \in Fates
  /\ ops \in 0 .. MaxOps /\ fails \in 0 .. MaxFails

(* Every page but the meta page is in exactly one place: in the tree, in    *)
(* the free list once, or a node of the list (disk.go:146-236). No page is  *)
(* handed out twice, freed twice or lost, whatever the order of allocations *)
(* and frees, however commits end and wherever the process dies, until one  *)
(* of the named fates befalls the store.                                    *)
Conservation ==
  Sound =>
    /\ live \union FreePages \union NodePages = 1 .. AppendPtr(db) - 1
    /\ Cardinality(live) + Cardinality(DOMAIN Entries(db, disk))
         + Cardinality(DOMAIN ListNodes(db, disk)) = AppendPtr(db) - 1

(* The list is linked from its head to its tail, or has no node at all      *)
(* (disk.go:175-236).                                                       *)
ListLinked ==
  Sound =>
    LET n == ListNodes(db, disk) IN
    IF db.tailPage = 0 THEN db.headPage = 0 /\ db.headSeq = 0 /\ db.tailSeq = 0
    ELSE n[ListLen(db)] = db.tailPage

\* The running commit has taken no page off the list but entries it found
\* there: sequence numbers go on from the ones it found until it takes the last
\* node of the list.
WithinList == ~emptied /\ db.headSeq <= start.meta.tailSeq

(* However a commit ends that does not succeed, Abort (disk.go:331) puts    *)
(* the free list back as Begin found it, node by node, those that           *)
(* updateFile had already written in place included, unless the commit had  *)
(* used up the list and gone on to its last node or to the pages it had     *)
(* itself given back. No rollback that is counted as sound leaves another   *)
(* list than Begin found.                                                   *)
AbortRestores ==
  [][Abort /\ (WithinList \/ fate' = "sound") => FreeList(db', disk') = start.free]_vars

(* A commit writes over a page of the tree it began with only when it has   *)
(* used up the list it found, and then over one such page, the first it     *)
(* freed, unless it has also taken the last node of the list for the tree   *)
(* (disk.go:175-186). Up to that point a rollback finds every page as it    *)
(* was.                                                                     *)
OverwritesLate ==
  phase = "tree" /\ Sound =>
    LET over == DOMAIN db.updates \intersect start.live
    IN  /\ over # {} => ~WithinList
        /\ Cardinality(over) > 1 => emptied

(* README.md:10-11: "completely disk-backed", "ACID Transactions". The      *)
(* page the store would append next is not a page of the committed tree,    *)
(* after the file was closed and opened again too (disk.go:158, 354-362).   *)
AppendIsFresh == phase \in {"idle", "tree"} => AppendPtr(db) \notin live
=============================================================================
