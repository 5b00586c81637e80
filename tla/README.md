# TLA+ models of AuroraDB

AuroraDB (`src/`) is an embedded relational database in Go: a copy-on-write
B+tree in a memory-mapped file, a free list of pages, transactions over it,
tables and secondary indexes, and a small query language. These modules model
it from the pages of the file to the text of a statement and check it with TLC on
small instances. With TLAPS they prove, for every instance, the transaction
layer, the page store with its free list and its commits, the B+tree and the
walks of its iterator, and the encoding of keys.

## The system

| part | state it keeps | operations | talks to |
|---|---|---|---|
| transactions, `storage/disk.go` `KV`, `KVTX` | `snapshot`, `pending`, `meta`, `delSet`, `writeSet`, `readSet`, `writes`, `deletes` | `Begin`, `Get`, `Set`, `Del`, `Seek`, `Commit`, `Abort` | B+tree (one committed, one pending), page store |
| page store and free list, `storage/disk.go` | `page.flushed`, `page.nappend`, `page.updates`, `free.{head,tail}{Page,Seq}`, `free.maxSeq` | `pageRead`, `pageAlloc`, `pageAppend`, `pageWrite`, `freePopHead`, `freePushTail` | called by the tree as `get`, `new`, `del` |
| file, `storage/disk.go` | the pages, the meta page | `updateFile`, `saveMeta`, `loadMeta`, `readRoot`, `Open`, `Close` | called by `Commit` and `Abort` |
| B+tree, `storage/btree.go` | `Root` and the nodes behind it | `Insert`, `Delete`, `GetVal` | page store through callbacks |
| iterator, `storage/btree.go` `BIter` | `path`, `pos`, `valid` | `SeekLE`, `Deref`, `Valid`, `Next`, `Prev` | reads a tree |
| scanner, `db/db.go` `Scanner` | bounds, inclusions, a `BIter` | `NewScanner`, `Valid`, `Next`, `Deref` | iterator over `tx.snapshot` |
| planner, `engine/planner.go` | `idx`, `limit`, `offset` of a scan | `qlScanInit`, `newQlScanFilter`, `Next`, `Valid` | scanner |
| tables, `db/db.go` | rows and index entries as keys | `TableNew`, `Insert`, `Update`, `Upsert`, `Delete`, `Get` | transactions |
| executor, `engine/executor.go` | none of its own | `ExecuteQuery`, `qlStmt`, `qlEval` | everything above |
| encodings, `types/`, `index/` | none | `EncodeKey`, `DecodeKey`, index keys | tables, scanner |
| parser, lexer, `parser/` | `Input`, `Idx`, `Err` | `PStmt` and its productions | executor |
| command line, `cmd/`, `db/cli.go`; `util/` | the open database | `getQueryInput`, `execQuery`, `OpenDB` | executor |

What makes it correct, part by part: a transaction sees its own writes, a commit
installs exactly its changes, and a rollback none of them; every page of the file
is in the tree, free, or part of the free list, and only one of these, whatever
fails; a lookup finds what was last stored, whatever was split or merged; a scan
returns the rows its conditions ask for, in order, and ends; every row has
its entry in every index and no index has others; a statement that ends well has done what it
says and one that fails has done nothing; what runs is what was written, and an
expression has the value arithmetic gives it.

What is hard to test: transactions that overlap (the exported API allows it, the
command line does not); a commit that fails, or a process that ends, between two
page writes; the free list at its limits (empty, one entry, a node full, a node
empty), where it takes its own pages; splits and merges that depend on byte
counts; a tree that grows, shrinks and grows again; iterators and scanners at the
ends of the tree; values whose encoding meets delimiters, signs or the bounds of
a range; statements that change the rows they scan, or fail half way; texts
that are almost statements. `PROJECT.json` lists each of these at its line, under
"hazards".

## Modules

| module | what it models |
|---|---|
| `TxStore` | abstract: what the transactional store promises |
| `Transactions`, `MCTransactions` | `KV.Begin/Commit/Abort` and `KVTX`; trees by what they hold |
| `TransactionsProofs` | the theorems about `Transactions` |
| `PageStore` | the page allocator and the free list as operators |
| `Pager`, `MCPager` | allocations, frees, `updateFile` step by step, faults, reopening |
| `PageStoreProofs`, `PagerProofs` | lemmas on the free list; the theorems about `Pager` |
| `BNode` | one node: lookup, insertion, split, merge, byte counts |
| `BNodeProofs` | the theorems about one node |
| `BTree`, `MCBTree` | `Insert`, `Delete`, `GetVal` along the path of a key, over trees as values |
| `BTreeProofs` | the theorems about `BTree` |
| `Iterator` | `BIter` on these trees |
| `Scan`, `MCScan` | `qlScanInit`, `NewScanner`, `qlScanFilter`, on the trees `BTree` builds |
| `ScanProofs` | the theorems about `Iterator` as `Scan` uses it |
| `Keys` | values as bytes: `EncodeKey`, `DecodeKey`, escaping, signs |
| `KeysProofs` | the theorems about keys |
| `LeastElement` | two lemmas on sets of numbers, for the proofs about recursive functions |
| `Expr` | records, expressions; `qlEval` and its callers |
| `Encoding` | the keys of a table and of its secondary indexes |
| `Rows` | abstract: what tables promise the one who asks |
| `Tables`, `MCTables` | `DBTX`, `qlScanInit`, `qlStmt`, `ExecuteQuery` over encoded keys |
| `Parser` | the recursive-descent parser over tokens |
| `Query`, `MCQuery` | a session of texts: `Parser` composed with `Tables` |

**Transactions.** One variable per field of `KVTX`, one action per method.
`tree` is what `db.tree` holds, `base[t]` what the root captured by `Begin` held.
The captured root denotes that content as long as nobody moves `db.tree.Root`
(`t \in intact`); after that its pages may have been reused, and a rollback to
it may leave anything (`RestoreStale`). `Commit` has four endings: success, the
panic of `BTree.Delete` on a tree without root, an error before any page was
written, and one after (`WriteFaults`). Because trees are maps here, what harms a
tree (below) does not show in this module.

**PageStore and Pager.** A store is the record of the Go fields; a page is a
node of the free list or other bytes, and such bytes read as a list node give
page numbers that mean nothing (`Junk`). The client of the store is arbitrary: it
allocates and frees any live page in any order, which includes what the B+tree
does. `WritePages(S)` is the write loop ended, or stopped, after the pages in
`S`, in any order. `fate` names the ways the code loses track of pages; the
invariants hold until one of them happens and the model does not go on after it:

- `drained`: `freePushTail` takes the page it is being given as its own next node (disk.go:221-229);
- `harmed`: a commit that failed had written over the list that was there when it began (179);
- `ahead`: the second fsync failed, memory was rolled back, and the file was opened with the newer meta page (358);
- `stale`: the meta page leaves out the pages its own commit appended (354, 362);
- `unreadable`: the process ended inside the first commit, after any page of it had made the file longer (65).

`harmed` is meant literally: the list the durable meta page describes, read from
the pages as they are now, is not the list `Begin` found. A page of the list
that becomes a node of the list again does such harm as well as one that goes
to the tree. `emptied` remembers that a commit has had a list without nodes:
the sequence numbers start again at zero there, and can no longer be compared
with those of the meta page. Up to that point, a head that is not past the tail
`Begin` found (`WithinList`) means that only entries of the list found have been
taken.

**BNode and BTree.** A node is its type and its entries; lengths are kept only as
byte counts, with `PAGE_SIZE`, `HEADER` and the bytes per entry as constants. The
empty key is 0. Ways to come to harm are fates again: `dropped` (a key lost in
the split of a root, btree.go:471), `bounds` (insertion into an empty leaf),
`kidless`, `overflow` (a separator grows in a full node), `assert` (312).
The recursion of `treeInsert` and `treeDelete` follows one path and rebuilds its
nodes on the way back. `Path` gives the nodes of that path by level, and what
becomes of them is a function of the level that takes its value at the one
below; a tree has at most `MaxHeight` levels, and `NoTree` stands for root 0.
An iterator is a path of nodes with an index in each, and a call of `Next` or
`Prev` a function of the level it has gone up to.
`TakenInserting` and `TakenByDelete` count the calls of `new` and `del` an
operation makes; together with the size of the tree they tell the pages that
are in neither the tree nor the free list.

**Scan.** Query conditions become bounds, bounds a position, and then the
loops run as steps: `Skip` (NewScanner), `Offset` (newQlScanFilter), `Search`
(past rows the filter rejects) and `Row` (qlStmt). Keys outside the table's range
stand for other tables in the same tree. A secondary index groups the keys of one
column value; its bounds stand beside the group, as the byte the code appends
puts them.

**Keys, Expr and Encoding.** Pure operators. A value carries its type and both
payloads, as in Go, since the planner takes the payload of a column's type
whatever the type of the literal. Integers wrap at `Half`, a divisor of zero is a
panic, and the evaluator's quirks are kept: a negation leaves the operand's
result beside the error, and a filter looks at the result and not at the error. A
byte is a digit below `Base`, an integer `IntWidth` digits; the four bytes of a
prefix are one symbol, since they are as long in every key.

**Rows and Tables.** `Tables` is the store as a function from encoded keys to what
is kept as JSON, and the one transaction of the running statement. `CreateTable`
and `InsertRow` are single steps; select, update and delete are `Open`, then
`Row` or `SkipRow` for each key the scanner visits, then `Finish`. `Succeed` may
end in an abort, as `Commit` may. A panic takes the process `down`, a loop that
does not end leaves it `hung`, and it may be started again from either. An
insert whose columns stand in another order or have other types than the table's
is stored and spoils the table: it is checked up to the commit (`spoilt`), and no
statement follows, since the bytes of its key are then read as another type.
Offset and limit are in `Scan` only. `Rows` has no keys, indexes or transactions:
tables are sets of rows, and a statement is answered `ok` with its effect or
`error` with none. It says, in terms of rows, where the code does less than one
would ask for: which rows a scan does not see (`NoStart`, `Late`, `Lost`,
`AboveMin`, `BelowMax`) or may see twice or not at all (`Doubtful`), in which order
an update takes its rows (`RowsAfter`), which tells when it sets primary keys, and
when a statement dies (`DiesCreating`, `DiesInserting`,
`DiesScanning`) and when it may hang (`MayHang`).

**Parser and Query.** A text is a sequence of tokens that ends in a semicolon, as
`getQueryInput` sees to. Keywords, marks, numbers, words, words after `@` and an `@`
before a keyword are kinds of token; what the lexer does between bytes and tokens is left out, and so
are the texts for which it matters (a word that begins with a keyword, `==` where
the parser looks for `=`). `PStmt` ends with a statement, with none, with a nil
pointer of a statement's type, which is not nil to its caller and panics, or not
at all. `Query` asks any of `Texts` at any time and any of `Probes`, the many
texts that are there for the parser and the evaluator, while the store has
`ProbeKeys` keys.

## Runs

| run | instance | result |
|---|---|---|
| `tx_serial` | 3 keys, 2 values, one transaction at a time | holds, 28,084 states |
| `tx_overlap` | 2 keys, 2 transactions interleaved, write faults; keys and transactions symmetric | holds, 61,719 states |
| `tx_conflict` | 2 keys, 2 values, 2 transactions | `ConflictsAbort` violated |
| `pager_session` | 6 pages, list nodes of 2, 4 operations a commit | holds, 498,243 states |
| `pager_faults` | 4 pages, up to 2 faults or reopenings of every kind | holds, 666,077 states |
| `pager_reopen` | 4 pages, one reopening | `AppendIsFresh` violated |
| `btree_ops` | 6 keys, 2 values, one of over half a page, pages of 1 to 5 entries, 3 levels | holds, 11,964 states |
| `btree_resplit` | the same | `KeepsKeys` violated |
| `scan_range` | 5 keys, one or two to a leaf, trees of up to 3 levels, all forms of conditions, offsets up to 2 | holds, 514,785 states |
| `tables` | any 2 of 3 tables and a third, up to 3 rows in all, indexes of 1 and 2 columns | holds, 123,340 states |
| `query` | 13 texts, each of them without any one token, with another in its place or with an `@` before it, 2,752 expressions | holds, 63,825 states |
| `query_filter` | the README's texts | `BareFilterFinds` violated |

The bounds are the smallest with the cases in them. List nodes of two entries make
the list fill, link, empty and reset within six pages. A page of 16 bytes with
keys of 1 and 4 makes nodes split in two and in three, merge to both sides and
grow a root of roots; the larger value makes an entry of more than half a page,
with which the assertion on the second split can fail. In `scan_range` a leaf holds up to two entries and an inner node
three, so five keys give three levels with two entries in the last leaf, and a key
of another table at each end.
No tree of either run has more than three levels, so that `MaxHeight = 4` leaves
out nothing.
Sequence numbers, pages, operations of a commit, faults and the keys of the store
are bounded in the guards (`MaxSeq`, `MaxPage`, `MaxOps`, `MaxFails`, `MaxKeys`: rows
are inserted while there are fewer keys, which leaves room for two rows with their
entries beside two tables, and for a third). Six bytes (`Base`) hold the
delimiter, the two bytes it is escaped with, two letters and ff; two of them
(`IntWidth`) make integers from -18 to 17 (`Half`), so that there are negative
ones, ones that begin with ff, products that wrap and both ends. The ids -1, 0
and 12 and the strings of no, one and two bytes stand on both sides of each of
these. Any two of `users`, `pairs` and `words` can be made, in any order, and the third
reaches the panic of `DecodeVal`; a fourth definition has two primary keys and
panics before that. The keys of `pairs` and `words` include the empty string and
ff, in an index over the primary key and in one of a single column that takes
conditions. The statements include inserts with too few, too many, unnamed and
misplaced values, updates of an indexed column and of a primary key through
either kind of index, and updates and deletes that fail or panic at a later row after
they have changed earlier ones. Expressions have up to
three operators, which is enough for each pair of adjacent levels in both orders.
Deadlock is not checked: at the bounds, and after a panic, a fate or a spoilt
table, nothing more happens.

What the runs show to hold:

- `SetsAgree`, `ReadsOwnWrites`, `ImplementsTxStore`, `AtomicSerially`: the
  bookkeeping of a transaction is consistent after any sequence of calls; used as
  `ExecuteQuery` uses it, the store is atomic.
- `Conservation`, `ListLinked`, `AbortRestores`: no page is lost, freed twice or
  handed out twice, and a failed commit gives the free list back node by node and
  entry by entry, until one of the fates.
- `OverwritesLate`: a commit writes over no page of the tree it began with while
  it takes entries of the list it found, over at most one when it has gone on to
  the pages it freed itself, and over more only when it has taken the last node
  of the list as well.
- `HoldsContent`, `Ordered`, `LookupFindsLast`, `SoundUntilSmall`: lookups return
  what was stored, a key is lost or an index out of bounds only after a tree
  of several levels has shrunk to a single leaf, and the assertion on the second
  split (btree.go:312) fails only while an entry of more than half a page is
  stored.
- `OverflowsBySeparator`: a node is written past its page only by a deletion, of a
  key that is a separator in a node that has no room for the next greater one.
- `LosesPages`: the pages that get lost are the old root of an insertion into a
  tree of one leaf, and one page for each level below the root in a deletion.
- `WalksInOrder`, `StaysOutside`, `ScanExact`, `ScanEnds`: iterators walk every tree
  in order and back, and once past an end stay out of range however often they are
  moved on, though in a tree of three levels they lose their place in the leaf; scans return exactly the rows asked for when the lower bound of a primary
  range is excluded or stored, the conditions bound a range from both sides
  without crossing, and the row an offset starts from passes the filter; a
  primary range whose start is no row's key returns nothing. Offsets beyond
  the only key of a tree are excepted too (below).
- `IndexesAgree`, `PrefixesApart`: every secondary index has one entry for every
  row and no other, but that an index over the primary key may lack those of the rows
  with the keys "" and ff; and no two indexes share a range of keys.
- `SelectExact`, `ImplementsRows`: statements do what they say, all of it or
  nothing, and selects return rows in the order of their values though keys are
  compared as bytes, but for the cases `Rows` names.
- `RunsAsWritten`, `ParserReturns`, `EvaluatesSoundly`: a statement that runs is the
  beginning of its text written out with its parentheses, and all of it if no
  error was set; the parser comes back from every text but a `create table` in which
  the columns end at anything but `index` or `primary` in lower case, such as a
  keyword for a name, or a token that no expression has comes between the columns
  and `primary`, and from none of those (`Endless`); expressions are typed
  and have the values of arithmetic modulo the width of integers.

What they show to fail, against what the documentation says (under "findings"):
no conflict is ever detected; pages of the committed tree are overwritten in
place; after reopening, pages of the tree are appended over; a tree that shrank
and splits again loses its smallest key; a value of more than half a page, which
`MAXVALLEN` allows, can fail the assertion of the second split; deletions lose
pages; scanning an empty
last table never returns; a primary range whose start is no row's key returns
nothing; a filter on a bare column name, as the README writes it, rejects every
row; the third table cannot be created; primary keys of several columns and
conditions on an index of several columns panic.

Also visible, with no document to compare with: two upper bounds are accepted and
give the range between them, crossing bounds are swapped, `limit` counts from
before the offset; a delete or update whose `filter` is misspelt runs on every
row, since what follows the last clause is dropped; an update of the primary key
fails, or replaces the row that has the new key and leaves the old one in place; the empty string sorts as ff in a secondary index;
an index over the primary key has the rows "" and ff in one place, which leads to
ff, so that it may come twice, and both are left out once either was changed; full and
one-sided scans leave out rows at the very ends of the type; rows whose primary
key begins with ff fall on the other side of a bound of a secondary index. In a
tree with a single key the first entry is also the last: `Next` called past the
end comes back to it, and an offset of two or more returns the row again
(`BeyondOnlyKey`; with the internal tables in the same tree there are more keys
than one).

**Fairness.** Only `Scan` has any: weak fairness of the steps of a running
statement. `ExecuteQuery` is one goroutine without locks or waiting, so its loops
run for as long as their conditions hold. A step of `Skip` that changes nothing
is a loop that repeats for ever; TLC shows it as stuttering. The other modules
state safety only: nothing in the code promises that a caller goes on.

## Proofs

`TransactionsProofs` proves, for any keys, values and number of transactions, from
`ConstantsAssumption` (`Absent` and `Nil` are no values, the set of transactions
is finite):

- `InvHolds`: `Inv`, the conjunction of `TypeOK`, `SetsAgree` and `RootsAgree`,
  is inductive. None of the three is alone: the tree keeps its type after `Commit`
  only because a written key whose pending entry is gone is in `deletes`
  (`SetsAgree`), and a rollback agrees with the tree only for a captured root that
  is current (`RootsAgree`). `TypeCorrect`, `BookkeepingAgrees` and
  `CapturedRootsAgree` are its parts.
- `GetReadsOwnWrites`: from `Inv`, what `Get` answers is what the abstract store
  would answer.
- `RefinesTxStore`: under the mapping of `Store` (touched keys are `writeSet`
  with `delSet`, local content is `pending`), every step is a step of `TxStore`
  or a stutter; the central lemma `AppliedContent` says what both loops of
  `Commit` leave in the tree.
- `SerialTransactionsAreAtomic`: with `MaxOpen = 1` and no write faults, the open
  transaction is always intact (`OneOpen`), so only `Commit` changes the tree.

`PagerProofs`, with the lemmas of `PageStoreProofs`, proves for every capacity of
a list node from two entries on, every size of the file, every length of a commit
and every sequence of commits, faults and reopenings, from `PageStoreAssumption`
(`Cap` is at least 2 and `Junk` is no page number) and `PagerAssumption` (the bounds
are numbers):

- `PagerInvariant`: `IInv` is inductive. `Shape`, the part on types, holds
  whatever befell the store; the rest holds while it is sound. `InOrder` says of
  the store's list that there are functions from sequence numbers to the pages
  that are its entries, and from node numbers to the pages that are its nodes
  (`Linked`), and that these and the pages of the tree are all pages, each once
  (`Apart`). Neither `ListLinked` nor `Conservation` would do alone: which page is
  handed out next depends on the links, and that a write to the node of the tail
  changes no other node depends on the pages being apart. `Since` relates the list
  to the one the running commit found: what is written is its last node, its
  entries, appended pages and at most one page more, and the nodes and entries
  still to be taken are those it found. `Saved`, `OnDisk` and `MetaLeads` say what
  `tx.meta`, the file and the meta page hold at each phase of a commit; `Abort`
  and `Reopen` need them. The proof goes through the micro-steps of the code
  (an entry taken, an entry put, a node linked, a page appended, the last node
  taken), a lemma each, since `PageAlloc` and `FreePushTail` are made of the same
  ones in several orders.
- `PagerTypeOK`, `PagerListLinked`, `PagerConservation`, `PagerOverwritesLate`:
  the invariants of `pager_session` and `pager_faults`, from `IInv`.
- `PagerAbortRestores`: the action property. A rollback loads the saved meta page
  and finds the list as it was because a commit within its list has written none
  of the nodes before the last one, and has only added to that one.

`BNodeProofs` proves, for nodes of any number of entries and keys and values of any
lengths, from `BNodeAssumption` (the bytes of a header are at most those of an
entry, and four headers are less than a page):

- `LookupFinds`: the binary search of `nodeLookupLE` is the linear one
  (`LastUpTo`). `LookupFindsLast`, which `btree_ops` checks of the nodes it
  reaches, says the same.
- `LeafPutStores`, `LeafDeleteKeeps`: what the leaf cases of `treeInsert` and
  `treeDelete` leave: keys ascending, all other entries, and no more bytes than
  the new entry's.
- `SplitFits`, under the hypothesis `Splittable` (no entry over half a page, and no
  more bytes than two pages without two headers): `nodeSplit3` gives one to
  three nodes of a page each, none empty, with the same entries, and its
  assertion holds. `LeafInsertFits` and `InnerInsertFits` show that what
  `treeInsert` hands to it is such a node: a leaf of one page with an entry more,
  and an inner node with three kids for one, where it is enough that three of the
  longest keys go in a page, as with `MAXKEYLEN`. The hypothesis is needed:
  `btree_ops` reaches the failing assertion with an entry over half a page.
- `SplitOrAssert`: without the hypothesis, a leaf of one page that takes in any
  entry that fits a page splits into such parts or fails the assertion, so that
  nothing else can go wrong.
- `MergeFits`: what `shouldMerge` approves of fits a page.

`BTreeProofs` proves, for any keys and values, pages of any size and trees of any
height up to any `MaxHeight`, from `BTreeAssumption` (an entry fits a page beside
that of the empty key, and so do three keys, as `MAXKEYLEN` and `MAXVALLEN` have
it: 4 + 14 + 14 + 1000 + 3000 bytes of 4096; keys of the caller are not empty) and
`BNodeAssumption`:

- `BTreeInvariant`: `IInv` is inductive. `Trees[h]` are the trees with `h` levels
  above their leaves, each as its node together with the set of entries it
  holds: leaves are ascending entries of at most a page, and an inner tree is a
  row of trees of one height, all keys of one before all keys of the next, under
  a node with the first key of each, of at most a page. `IInv` says that until
  the root has come to harm it is that of such a tree, or missing, or a leaf that
  has gone empty in a tree that shrank, that the entries it holds
  are those of `content`, and that a root that is a leaf has the empty key as
  long as no tree has shrunk to one. None of the invariants of the run is
  inductive: `HoldsContent` needs that keys to the left of a separator are
  smaller in the whole subtree, which `Ordered` says only of neighbouring
  levels, and `SoundUntilSmall` that the split of a root drops nothing but the
  empty key. `IInv` speaks of sets of all trees, which TLC cannot enumerate; what
  TLC checks is the five invariants that follow from it.
- The argument follows the code. A step down goes to the one subtree that can
  hold the key (`Descend`). On the way up an insertion turns a tree that holds `H` into
  one to three that side by side hold `H` with the new entry, or fails its
  assertion (`Grown`: `LeafGrows`, `InnerGrows`); a deletion turns it into one that
  holds `H` without the key, or goes empty, or overflows (`Shrunk`: `LeafShrinks`,
  `KidShrinks`, `InnerShrinks`, with `MergeTrees` for both directions of a merge). Splits cut a
  row and merges join two (`PartTrees`, `JoinTrees`); the byte counts are those of
  `BNodeProofs`. At the root there are the first leaf, the trimmed split of a
  leaf, the split of an inner node, and the only kid that becomes the root
  (`InsertedTree`, `InsertKeeps`, `DeleteKeeps`).
- `BTreeHoldsContent`, `BTreeOrdered`, `BTreeLookupFindsLast`,
  `BTreeSoundUntilSmall`, `BTreeTypeOK`: the invariants of `btree_ops`, from `IInv`.
  The second part of `BTreeSoundUntilSmall` is that the assertion (btree.go:312)
  fails only while a large entry is stored; that is `SplitFits` for a node without one.

`ScanProofs` proves, for the same keys, pages and trees and for any queries of up to
two conditions (`ScanAssumption`):

- `ScanInvariant`: `ScanInv` is inductive: beside `IInv`, the iterator has no path
  or is on a path of the tree (`Stands`, `Good`). It is proved level by level: a
  call of `Next` or `Prev` that has come back to level `m` leaves a path that is good as
  far as the level it loaded, and the last call loads the leaf. That holds also
  past the ends, where the levels below the second are loaded anew.
  `ScanOnPath` follows.
- `ScanWalksInOrder`: `Next` and `Prev` differ in direction only, so most lemmas
  take it as an argument. A call moves at the lowest level that can move, and
  enters all below at the near end (`TurnMoves`); a move and a move back give
  the iterator it started from (`TurnBack`), and with the cases of the two ends
  so do `Next` and `Prev` (`UndoEachOther`). That `Next` leads to the next greater
  key is a fact about the order of keys along a path: the entries a path
  leaves to its left are smaller and those to its right are greater at every
  level (`Placed`, `PathPlaced`), so nothing lies between a position and the next one
  (`NextIsNext`), and nothing above the last (`LastIsLast`). `SeekFinds` says that
  `SeekLE` of a stored key stands on it, and `StoredAre` that the keys in the leaves
  are those of `IInv`.

`KeysProofs` proves, for strings of any bytes, integers of any width and any number
of columns, from `WidthAssumption` (a byte has more than three values, and an
integer `IntWidth` bytes):

- `KeysSortAsValues`: the bytes of two keys of the same columns compare as the
  values do, column by column. Encoded values are told apart at a first mismatch
  that lies inside both of them: for strings since the delimiter is below every
  byte an escaped string has, for integers since they are all as long and the
  first shift on which two numbers agree is followed by the digit on which they
  differ. What comes after the mismatch then does not matter. `KeysTellApart`
  follows.
- `KeysDecode`: `DecodeKey` finds the end of every value and gives back what
  `EncodeKey` was given. Both theorems hold also for the smallest integer.
- `PrefixesSortFirst`: keys of different prefixes are in ranges of their own, which
  is what `PrefixesApart` needs of the encoding.

Recursive functions (the nodes of a list, the sum of bytes, the rounds of a
search, joined strings, shifts, the levels of a tree) have no induction principle
the provers can use. The proofs take the least number at which a claim fails
(`LeastElement`) and show that it would not fail there.

Only model-checked:

- `ScanEnds`: the prover has no liveness under fairness;
- `StaysOutside`: it says what happens where `WalksInOrder` ends, and depends on the
  shape of the tree as `ScanExact` does (below);
- `OverflowsBySeparator`: `BTreeInvariant` keeps no record of why a node overflows;
- `LosesPages`: it counts nodes and pages, and a sum over a set is a fold, whose
  steps the provers cannot unfold for an unknown set;
- `ScanExact`: it gives rows by their rank, and what an iterator does when it is
  moved on past the end depends on the shape of the tree (an inner node with a
  single kid at the root makes first and last positions coincide);
- `Rows`, `Tables`, `Encoding`, `Expr`, `Parser` and `Query`: expressions and texts are
  evaluated by recursive operators over their structure, which are out of the
  prover's reach, and all of these modules use `Expr`. Of what `Tables` rests on, the
  theorems on keys (`KeysProofs`), on the tree as a map (`BTreeHoldsContent`),
  on the order of its walks (`ScanWalksInOrder`) and on transactions
  (`TransactionsProofs`) are proved.

## Not modelled

Bytes to tokens in the lexer; terminal input and output, `open` and `exit` of the
command line; mapping the file in chunks, creating and stating it, which are
operating system calls; the JSON of rows and definitions, of which only what is
kept is modelled; the `Prev` methods of the scan types, which nothing calls, and
the parts of `util` that are not used.

## Plan

1. Done: `TxStore`, `Transactions` with its proofs; `PageStore`, `Pager`;
   `BNode`, `BTree`; `Iterator`, `Scan`; `Expr`, `Encoding`, `Rows`, `Tables`;
   `Parser`, `Query`.
2. Done: the proofs about `PageStore`, `Pager`, `BNode` and `Keys`.
3. Done: `BTree` and `Iterator` as functions of the level, and the proofs of
   `BTree`'s invariants and of the iterator's, `WalksInOrder` among them, from the
   theorems about nodes.
4. Left: `ScanExact` from `WalksInOrder`, beginning with scans without an offset;
   the values of `Expr` as functions of the height of an expression, so that
   `IndexesAgree` and `PrefixesApart` can be proved of `Tables`.
