-------------------------------- MODULE Scan --------------------------------
(***************************************************************************)
(* Range scans, from a query's conditions to its rows: qlScanInit and      *)
(* qlScanFilter of engine/planner.go over Scanner of db/db.go over BIter,  *)
(* on the trees BTree builds. A scan reads tx.snapshot, so the tree stands *)
(* still while it runs.                                                    *)
(*                                                                         *)
(* One tree holds every table and index, told apart by a prefix of the key.*)
(* A query ranges over one of them, whose keys lie between the encodings   *)
(* of MinValue and MaxValue; keys outside belong to others. The value of   *)
(* the column is the key itself for the primary index (idx 0), and for a   *)
(* secondary index the group of keys Width * v + 1 .. Width * v + Width - 2*)
(* whose rows have the value v: the primary key of the row comes after the *)
(* value and tells them apart. Width * v and Width * v + Width - 1 are the *)
(* encoded value with a byte 00 and a byte ff after it.                    *)
(*                                                                         *)
(* A filter is the set of rows it rejects. kvToRecord and QLEvalOutput     *)
(* change no position and are left out; a secondary entry has its row.     *)
(***************************************************************************)
EXTENDS Iterator

CONSTANTS Width,
          ColMin, ColMax,  \* MinValue and MaxValue of a secondary index
          Queries          \* what may be asked, a set of records as below

\* qlScanInit takes two conditions at most.
ASSUME ScanAssumption ==
  /\ Width \in Nat \ {0} /\ {ColMin, ColMax} \subseteq Nat
  /\ \A q \in Queries : /\ Len(q.conds) \in 0 .. 2
                        /\ \A i \in 1 .. Len(q.conds) : q.conds[i].c \in Nat

VARIABLES query,  \* [conds, idx, rejects, offset, limit]
          sc,     \* Scanner: [key1, key2, key1Include, key2Include]
          iter,   \* BIter
          count,  \* qlScanFilter.idx
          out,    \* resArr
          stage   \* where the statement is

scanVars == <<query, sc, iter, count, out, stage>>
allVars == <<vars, scanVars>>

None == "none"
Running == {"skip", "offset", "search", "settle", "rows"}
Stages == {None, "done", "fatal"} \union Running

-----------------------------------------------------------------------------
(* qlScanInit: conditions [op, c] on one column to the arguments of         *)
(* NewScanner.                                                              *)

MinValue(idx) == IF idx = 0 THEN Width * ColMin + Width - 1 ELSE ColMin
MaxValue(idx) == IF idx = 0 THEN Width * ColMax ELSE ColMax

Args(key1, key2, inc1, inc2) == [key1 |-> key1, key2 |-> key2, inc1 |-> inc1, inc2 |-> inc2]

OrEqual == {"GE", "LE"}
Below == {"LE", "LT"}
Above == {"GE", "GT"}

\* A first condition that bounds one side needs a second for the other side; two
\* upper bounds pass, and == counts as neither.
InvalidRange(c1, c2) ==
  \/ c1.op \in Above /\ c2.op \notin Below
  \/ c2.op \in Above /\ c1.op \notin Below

OneCondition(c, idx) ==
  CASE c.op \in Above -> Args(c.c, MaxValue(idx), c.op \in OrEqual, FALSE)
    [] c.op \in Below -> Args(c.c, MinValue(idx), c.op \in OrEqual, FALSE)
    [] OTHER -> Args(c.c, c.c, TRUE, TRUE)

ScanArgs(q) ==
  CASE Len(q.conds) = 0 -> Args(MinValue(q.idx), MaxValue(q.idx), FALSE, FALSE)
    [] Len(q.conds) = 1 -> OneCondition(q.conds[1], q.idx)
    [] OTHER -> Args(q.conds[1].c, q.conds[2].c,
                     q.conds[1].op \in OrEqual, q.conds[2].op \in OrEqual)

-----------------------------------------------------------------------------
(* Scanner.                                                                 *)

\* The encoded bounds, the smaller first. The bounds of a secondary index stand
\* beside the group of their value, on the side the inclusion asks for.
Bounds(q) ==
  LET a == ScanArgs(q)
      s == IF a.key1 > a.key2 THEN Args(a.key2, a.key1, a.inc2, a.inc1) ELSE a
      Before(v) == Width * v
      After(v) == Width * v + Width - 1
      lo == IF q.idx = 0 THEN s.key1 ELSE IF s.inc1 THEN Before(s.key1) ELSE After(s.key1)
      hi == IF q.idx = 0 THEN s.key2 ELSE IF s.inc2 THEN After(s.key2) ELSE Before(s.key2)
  IN  [key1 |-> lo, key2 |-> hi, key1Include |-> s.inc1, key2Include |-> s.inc2]

\* A plausible slip in Scanner.Valid: the upper bound always belongs to the range.
ValidIncludesEnd(it) ==
  /\ IterValid(it)
  /\ LET key == DerefKey(it) IN
     /\ key > sc.key1 \/ (key = sc.key1 /\ sc.key1Include)
     /\ key <= sc.key2

ScannerValid(it) ==
  /\ IterValid(it)
  /\ LET key == DerefKey(it) IN
     /\ key > sc.key1 \/ (key = sc.key1 /\ sc.key1Include)
     /\ key < sc.key2 \/ (key = sc.key2 /\ sc.key2Include)

\* NewScanner as far as its loop: a secondary index steps over the entry below.
\* Compared with a bound, the nil key of a tree without root is the empty key.
Positioned(q) ==
  LET b == Bounds(q)
      it == SeekLE(root, b.key1)
  IN  IF q.idx # 0 /\ (it.path = << >> \/ DerefKey(it) < b.key1) THEN IterateNext(it) ELSE it

\* Plausible slips in the loop of NewScanner: either condition keeps it going.
SkipsEither(it) == DerefKey(it) <= sc.key1 \/ ~sc.key1Include

\* The loop goes on while the entry is not above a lower bound that is excluded.
Skips(it) == DerefKey(it) <= sc.key1 /\ ~sc.key1Include

-----------------------------------------------------------------------------
(* qlScanFilter.                                                            *)

\* Deref fails, and not because the scanner is out of range: the row is skipped.
Rejected(it) == ScannerValid(it) /\ DerefKey(it) \in query.rejects

FilterValid == count < query.limit /\ ScannerValid(iter)

-----------------------------------------------------------------------------
(* A statement.                                                             *)

NoScan == [path |-> << >>, pos |-> << >>, valid |-> TRUE]
NoQuery == [conds |-> << >>, idx |-> 0, rejects |-> {}, offset |-> 0, limit |-> 0]

ScanInit ==
  /\ Init
  /\ query = NoQuery
  /\ sc = Bounds(NoQuery)
  /\ iter = NoScan
  /\ count = 0
  /\ out = << >>
  /\ stage = None

\* The tree changes between statements.
Write ==
  /\ stage = None
  /\ Next
  /\ UNCHANGED scanVars

\* qlScanInit with NewScanner up to its loop; conditions it refuses end there.
Open(q) ==
  /\ stage = None
  /\ fate = "sound"
  /\ ~(Len(q.conds) = 2 /\ InvalidRange(q.conds[1], q.conds[2]))
  /\ query' = q
  /\ sc' = Bounds(q)
  /\ count' = 0
  /\ out' = << >>
  /\ IF SeekFatal(root, Bounds(q).key1)
     THEN stage' = "fatal" /\ iter' = NoScan
     ELSE /\ iter' = Positioned(q)
          /\ stage' = IF root = NoTree THEN "offset" ELSE "skip"
  /\ UNCHANGED vars

Skip ==
  /\ stage = "skip"
  /\ Skips(iter)
  /\ iter' = IterateNext(iter)
  /\ UNCHANGED <<vars, query, sc, count, out, stage>>

SkipDone ==
  /\ stage = "skip"
  /\ ~Skips(iter)
  /\ stage' = "offset"
  /\ UNCHANGED <<vars, query, sc, iter, count, out>>

\* newQlScanFilter: as many times Next as the offset says, whether or not the
\* row it starts from passes the filter.
Offset ==
  /\ stage = "offset"
  /\ count # query.offset
  /\ count' = count + 1
  /\ iter' = IterateNext(iter)
  /\ stage' = "search"
  /\ UNCHANGED <<vars, query, sc, out>>

OffsetDone ==
  /\ stage = "offset"
  /\ count = query.offset
  /\ stage' = "settle"
  /\ UNCHANGED <<vars, query, sc, iter, count, out>>

\* On to the next row the filter passes, or out of range: the loop at the end of
\* qlScanFilter.Next and of newQlScanFilter.
Search ==
  /\ stage \in {"search", "settle"}
  /\ Rejected(iter)
  /\ iter' = IterateNext(iter)
  /\ UNCHANGED <<vars, query, sc, count, out, stage>>

SearchDone ==
  /\ stage \in {"search", "settle"}
  /\ ~Rejected(iter)
  /\ stage' = IF stage = "search" THEN "offset" ELSE "rows"
  /\ UNCHANGED <<vars, query, sc, iter, count, out>>

\* The loop of qlStmt.
Row ==
  /\ stage = "rows"
  /\ FilterValid
  /\ out' = Append(out, DerefKey(iter))
  /\ count' = count + 1
  /\ iter' = IterateNext(iter)
  /\ stage' = "settle"
  /\ UNCHANGED <<vars, query, sc>>

Done ==
  /\ stage = "rows"
  /\ ~FilterValid
  /\ stage' = "done"
  /\ UNCHANGED <<vars, query, sc, iter, count, out>>

\* The caller has the rows.
Return ==
  /\ stage = "done"
  /\ stage' = None
  /\ query' = NoQuery
  /\ sc' = Bounds(NoQuery)
  /\ iter' = NoScan
  /\ count' = 0
  /\ out' = << >>
  /\ UNCHANGED vars

Step == Skip \/ SkipDone \/ Offset \/ OffsetDone \/ Search \/ SearchDone \/ Row \/ Done

ScanNext == Write \/ (\E q \in Queries : Open(q)) \/ Step \/ Return

\* Once called, ExecuteQuery runs: its loops are taken for as long as they last.
\* A step of a loop that leaves every variable as it is repeats for ever.
ScanSpec == ScanInit /\ [][ScanNext]_allVars /\ WF_allVars(Step)

-----------------------------------------------------------------------------
(* Properties.                                                              *)

Leaves == {n \in AllNodes : n.type = Leaf}
StoredKeys == UNION {{n.ents[i].k : i \in 1 .. NKeys(n)} : n \in Leaves}

(* The iterator always stands on a path of the tree, whatever was called    *)
(* on it: every node of the path is the kid its parent's index points to    *)
(* (btree.go:508-518, 586-620).                                             *)
OnPath ==
  /\ stage \in Stages
  /\ iter.path # << >> => iter.path[1] = root
  /\ \A l \in DOMAIN iter.path :
       /\ iter.pos[l] \in 1 .. NKeys(iter.path[l])
       /\ l > 1 => iter.path[l] = iter.path[l - 1].ents[iter.pos[l - 1]].p

(* Next and Prev walk the stored keys in order and undo each other, across  *)
(* leaves, across inner nodes and at both ends, from every position of      *)
(* every tree (btree.go:562-620).                                           *)
WalksInOrder ==
  stage = None /\ fate = "sound" /\ root # NoTree =>
    \A k \in StoredKeys :
      LET it == SeekLE(root, k)
          greater == {j \in StoredKeys : j > k}
      IN  /\ DerefKey(it) = k
          /\ IF greater = {} THEN ~IterateNext(it).valid
             ELSE /\ DerefKey(IterateNext(it)) \in greater
                  /\ \A j \in greater : DerefKey(IterateNext(it)) <= j
          /\ IteratePrev(IterateNext(it)) = it
          /\ IterateNext(IteratePrev(it)) = it

\* Next or Prev called n times.
NextTimes(it, n) == FoldSeq(LAMBDA x, i : IterateNext(i), it, [x \in 1 .. n |-> x])
PrevTimes(it, n) == FoldSeq(LAMBDA x, i : IteratePrev(i), it, [x \in 1 .. n |-> x])
Calls == 1 .. 4

(* Whoever calls Next again past the last entry, or Prev before the first,  *)
(* stays out of range in a tree of several keys, and in its last or first   *)
(* leaf: that ends the loops over an offset and a filter. The path does not *)
(* stay: from the third level on the nodes are loaded anew (btree.go:596,   *)
(* 615), so that one call the other way leads back to where it came from    *)
(* only in trees of two levels.                                             *)
StaysOutside ==
  stage = None /\ fate = "sound" /\ root # NoTree /\ Cardinality(StoredKeys) > 1 =>
    LET last == SeekLE(root, CHOOSE k \in StoredKeys : \A j \in StoredKeys : j <= k)
        first == SeekLE(root, CHOOSE k \in StoredKeys : \A j \in StoredKeys : k <= j)
        levels == Len(last.path)
    IN  \A n \in Calls :
          LET after == NextTimes(last, n)
              before == PrevTimes(first, n)
          IN  /\ ~after.valid /\ ~before.valid
              /\ levels <= 3 => /\ after.path[levels] = last.path[levels]
                                /\ before.path[levels] = first.path[levels]
              /\ levels <= 2 => IteratePrev(after) = last /\ IterateNext(before) = first

Column(k) == IF query.idx = 0 THEN k ELSE k \div Width

Satisfies(k, c) ==
  CASE c.op = "GE" -> Column(k) >= c.c
    [] c.op = "GT" -> Column(k) > c.c
    [] c.op = "LE" -> Column(k) <= c.c
    [] c.op = "LT" -> Column(k) < c.c
    [] OTHER -> Column(k) = c.c

\* The rows of the table, those the conditions ask for, and those the filter
\* leaves, in the order of the index.
InTable(k) == Column(k) > MinValue(query.idx) /\ Column(k) < MaxValue(query.idx)
Asked == {k \in StoredKeys : InTable(k) /\ \A i \in DOMAIN query.conds : Satisfies(k, query.conds[i])}
InOrder(S) == [i \in 1 .. Cardinality(S) |-> CHOOSE k \in S : Cardinality({j \in S : j < k}) = i - 1]
Expected ==
  LET rows == InOrder(Asked \ query.rejects)
  IN  SubSeq(rows, query.offset + 1, IF query.limit < Len(rows) THEN query.limit ELSE Len(rows))

\* Conditions that bound a range from below and from above, not crossing.
Sensible ==
  Len(query.conds) = 2 =>
    \E i \in 1 .. 2 :
      /\ query.conds[i].op \in Above
      /\ query.conds[3 - i].op \in Below
      /\ query.conds[i].c <= query.conds[3 - i].c

\* The scanner of the primary index stays on the entry below an inclusive lower
\* bound that no row has.
StartMissing ==
  /\ query.idx = 0 /\ sc.key1Include /\ sc.key1 \notin StoredKeys
  /\ \E k \in StoredKeys : k < sc.key1

\* The row an offset starts from counts, though the filter rejects it.
FirstRejected == query.offset > 0 /\ Asked # {} /\ InOrder(Asked)[1] \in query.rejects

\* With a single key Next comes back to it: the place after the last entry is
\* also the one before the first.
BeyondOnlyKey == query.offset > 1 /\ Cardinality(StoredKeys) = 1

(* A scan returns the rows its conditions and its filter ask for, each once *)
(* and in order, from the offset up to the limit, over keys of other tables *)
(* on both sides and leaves that end in between (planner.go:71-108,         *)
(* db.go:34-57, 193-212), unless the row the offset starts from is          *)
(* rejected, or the offset is beyond the only key of a tree. A scan of the  *)
(* primary index from a key that no row has returns nothing at all, or      *)
(* starts with its offset.                                                  *)
ScanExact ==
  stage = "done" /\ Sensible =>
    IF StartMissing THEN query.offset = 0 => out = << >>
    ELSE FirstRejected \/ BeyondOnlyKey \/ out = Expected

\* Between statements, or the process has ended inside one.
Returned == stage \notin Running

\* The loop of NewScanner goes on, and no key of the tree lies above the bound.
NowhereToGo == stage = "skip" /\ ~sc.key1Include /\ \A k \in StoredKeys : k <= sc.key1

(* A statement does not run forever, as long as its lower bound is included *)
(* or some key of the tree lies above it: then the loop of NewScanner       *)
(* (db.go:205-212), the search for a row the filter passes and the loop     *)
(* over the rows all come to an end.                                        *)
ScanEnds == []<>(Returned \/ NowhereToGo)
=============================================================================
