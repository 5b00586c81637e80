------------------------------- MODULE Tables -------------------------------
(***************************************************************************)
(* Tables, rows and statements over the key-value store: DBTX of db/db.go, *)
(* qlScanInit and the loop over its rows of engine/planner.go, and qlStmt, *)
(* the functions it calls and ExecuteQuery of engine/executor.go.          *)
(*                                                                         *)
(* The committed store is a function from keys to what the code keeps as   *)
(* JSON: the values of a row after its primary key, and nothing for an     *)
(* entry of a secondary index. Statements run one at a time, so the        *)
(* snapshot of the running one is the committed store; a scan reads the    *)
(* snapshot, everything else the transaction (module Transactions). How a  *)
(* scanner moves from row to row, with offset and limit, is module Scan;   *)
(* here it is the keys it visits. Names are sequences of bytes like every  *)
(* string, but for those of the two internal tables. Indexes count from 1, *)
(* and 1 is the primary index.                                             *)
(***************************************************************************)
EXTENDS Encoding, FiniteSets

CONSTANTS Statements,  \* what may be asked: statements as Parser makes them
          MaxKeys      \* a bound of the model: rows are inserted below it

ASSUME TablesAssumption == MaxKeys \in Nat

VARIABLES kv,     \* the committed store
          tx,     \* KVTX: [pend, del]
          stmt,   \* the statement that runs or has run
          todo,   \* the keys the scan has before it
          out,    \* resArr
          stage,  \* what the process is doing
          res     \* how the statement ended

vars == <<kv, tx, stmt, todo, out, stage, res>>

Stages == {"idle", "rows", "done", "hung", "down", "spoilt"}
Results == {"none", "ok", "error"}

-----------------------------------------------------------------------------
(* KVTX.                                                                    *)

NoTx == [pend |-> [k \in {} |-> << >>], del |-> {}]
KvHas(t, k) == k \notin t.del /\ k \in DOMAIN t.pend \union DOMAIN kv
KvGet(t, k) == IF k \in DOMAIN t.pend THEN t.pend[k] ELSE kv[k]
KvSet(t, k, v) == [pend |-> (k :> v) @@ t.pend, del |-> t.del \ {k}]
KvDel(t, k) == [pend |-> Restrict(t.pend, DOMAIN t.pend \ {k}), del |-> t.del \union {k}]

\* What Commit leaves in the tree.
Applied(t) ==
  [k \in (DOMAIN kv \union DOMAIN t.pend) \ t.del |-> KvGet(t, k)]

-----------------------------------------------------------------------------
(* Rows. A result is how the call ended ("ok", "no" for false or an error,  *)
(* "panic"), the transaction after it and, for dbGet, the record.           *)

Result(st, t, rec) == [st |-> st, tx |-> t, rec |-> rec]
Ok(t) == Result("ok", t, << >>)
No(t) == Result("no", t, << >>)
Dies(t) == Result("panic", t, << >>)

GetPKs(rec, tdef) == SubSeq(rec, 1, tdef.pkeys)
PrimaryKey(tdef, rec) == EncodeKey(tdef.prefixes[1], Vals(GetPKs(rec, tdef)))

\* DecodeVal: the values take the columns after the primary key.
Decoded(tdef, vals) == [i \in DOMAIN vals |-> Field(tdef.cols[i + tdef.pkeys], vals[i])]
Overlong(tdef, vals) == Len(vals) + tdef.pkeys > Len(tdef.cols)

DbGetAt(t, tdef, rec, key) ==
  IF ~KvHas(t, key) THEN No(t)
  ELSE IF Overlong(tdef, KvGet(t, key)) THEN Dies(t)
  ELSE Result("ok", t, rec \o Decoded(tdef, KvGet(t, key)))

DbGet(t, tdef, rec) ==
  IF Len(rec) < tdef.pkeys THEN No(t)
  ELSE IF ~Encodable(Vals(GetPKs(rec, tdef))) THEN Dies(t)
  ELSE DbGetAt(t, tdef, rec, PrimaryKey(tdef, rec))

DbSet(t, tdef, rec) ==
  LET row == KvSet(t, PrimaryKey(tdef, rec), SubSeq(Vals(rec), tdef.pkeys + 1, Len(rec)))
      Entry(acc, k) == KvSet(acc, k, << >>)
  IN  IF Len(rec) < tdef.pkeys THEN No(t)
      ELSE IF ~Encodable(Vals(GetPKs(rec, tdef))) \/ ~Indexable(tdef, rec) THEN Dies(t)
      ELSE Ok(FoldLeft(Entry, row, GetSecondaryIndexesKeys(tdef, rec)))

\* A plausible slip in dbDel: the keys of the entries are made from the record
\* the caller has, not from the row that is stored.
DbDelUnread(t, tdef, rec) ==
  LET g == DbGet(t, tdef, rec) IN
  IF g.st # "ok" \/ Len(rec) = tdef.pkeys THEN [g EXCEPT !.tx = KvDel(t, PrimaryKey(tdef, rec))]
  ELSE Ok(FoldLeft(KvDel, KvDel(t, PrimaryKey(tdef, rec)), GetSecondaryIndexesKeys(tdef, rec)))

\* The columns the record came with are the first of their names in the one
\* dbGet completes. Deleting a key twice in a transaction fails.
DelKeys(t, keys) ==
  IF \E i \in DOMAIN keys : keys[i] \in t.del THEN No(t) ELSE Ok(FoldLeft(KvDel, t, keys))
DelFound(t, tdef, key, g) ==
  IF g.st # "ok" THEN g
  ELSE IF ~Indexable(tdef, g.rec) THEN Dies(t)
  ELSE DelKeys(t, Append(GetSecondaryIndexesKeys(tdef, g.rec), key))

DbDel(t, tdef, rec) == DelFound(t, tdef, PrimaryKey(tdef, rec), DbGet(t, tdef, rec))

-----------------------------------------------------------------------------
(* Table definitions, kept as rows of two tables of their own.              *)

Internal(name, cols, prefix) ==
  [name |-> name, cols |-> cols, types |-> <<"bytes", "bytes">>, pkeys |-> 1,
   prefixes |-> <<prefix>>, indexes |-> <<<<cols[1]>>>>]
TDEF_TABLE == Internal("@table", <<"name", "def">>, 2)
TDEF_META == Internal("@meta", <<"key", "value">>, 1)

FirstPrefix == 3
PrefixKey == Field("key", Str(<<FF>>))  \* the bytes of "prefix"

\* GetTableDef: DbGet on @table; the column def of the answer is the definition.
TableRow(t, name) == DbGet(t, TDEF_TABLE, <<Field("name", Str(name))>>)
HasTable(t, name) == TableRow(t, name).st = "ok"
GetTableDef(t, name) == Get(TableRow(t, name).rec, "def").s

\* A plausible slip in TableNew: the next prefix is stored before it is counted up.
NextPrefixStays(cur, def) == cur

NextPrefix(cur, def) == cur + Len(def.indexes)

\* The next free prefix is read from the column "value" and stored as one more
\* column. A primary key of several columns is looked for in a record of one.
PutTable(t, def, cur, known) ==
  LET tdef == [def EXCEPT !.prefixes = [i \in DOMAIN def.indexes |-> cur + i - 1]]
      meta == DbSet(t, TDEF_META, Append(known, Field("data", I64(NextPrefix(cur, def)))))
  IN  DbSet(meta.tx, TDEF_TABLE, <<Field("name", Str(def.name)), Field("def", Str(tdef))>>)

TableFound(t, def, found) ==
  CASE found.st = "panic" -> Dies(t)
    [] found.st = "ok" -> PutTable(t, def, Get(found.rec, "value").n, found.rec)
    [] OTHER -> PutTable(t, def, FirstPrefix, <<PrefixKey>>)

TableNew(t, def) ==
  IF def.pkeys > 1 THEN Dies(t)
  ELSE IF HasTable(t, def.name) THEN No(t)
  ELSE TableFound(t, def, DbGet(t, TDEF_META, <<PrefixKey>>))

\* A plausible slip in Insert: the key is not looked up first.
InsertOver(t, table, rec) ==
  IF ~HasTable(t, table) THEN No(t)
  ELSE IF rec = << >> THEN Dies(t)
  ELSE DbSet(t, GetTableDef(t, table), rec)

\* DBTX.Insert: slicing a record without values panics.
InsertNew(t, tdef, rec, g) ==
  CASE Len(rec) < tdef.pkeys \/ g.st = "panic" -> Dies(t)
    [] g.st = "ok" -> No(t)
    [] OTHER -> DbSet(t, tdef, rec)
InsertIn(t, tdef, rec) == InsertNew(t, tdef, rec, DbGet(t, tdef, GetPKs(rec, tdef)))

Insert(t, table, rec) ==
  IF ~HasTable(t, table) THEN No(t) ELSE InsertIn(t, GetTableDef(t, table), rec)

\* DBTX.Update: the row that has the primary key of rec makes way for rec.
Replace(gone, tdef, rec) == IF gone.st # "ok" THEN gone ELSE DbSet(gone.tx, tdef, rec)
UpdateIn(t, tdef, rec) ==
  IF Len(rec) < tdef.pkeys THEN Dies(t) ELSE Replace(DbDel(t, tdef, GetPKs(rec, tdef)), tdef, rec)

UpdateRow(t, table, rec) ==
  IF ~HasTable(t, table) THEN No(t) ELSE UpdateIn(t, GetTableDef(t, table), rec)

UpsertIn(t, table, tdef, rec) ==
  IF Len(rec) < tdef.pkeys THEN Dies(t)
  ELSE CASE DbGet(t, tdef, GetPKs(rec, tdef)).st = "panic" -> Dies(t)
         [] DbGet(t, tdef, GetPKs(rec, tdef)).st = "ok" -> UpdateRow(t, table, rec)
         [] OTHER -> Insert(t, table, rec)

Upsert(t, table, rec) ==
  IF ~HasTable(t, table) THEN No(t) ELSE UpsertIn(t, table, GetTableDef(t, table), rec)

Delete(t, table, rec) ==
  IF ~HasTable(t, table) THEN No(t) ELSE DbDel(t, GetTableDef(t, table), rec)

-----------------------------------------------------------------------------
(* qlScanInit: from the conditions of a scan to the keys it visits.         *)

\* getColsIndex, 0 for none. One column: the first index it begins. Several: the
\* first index they begin, tried up to the first index that is too short; then
\* the first that has them all in some order.
First(S) == IF S = {} THEN 0 ELSE CHOOSE i \in S : \A j \in S : i <= j
GetColsIndex(tdef, cols) ==
  LET idx == tdef.indexes
      Begins(i) == Len(cols) <= Len(idx[i]) /\ \A j \in DOMAIN cols : idx[i][j] = cols[j]
      short == {i \in DOMAIN idx : Len(idx[i]) < Len(cols)}
      begun == {i \in DOMAIN idx : Begins(i) /\ \A s \in short : i < s}
      Hits(i) == {p \in (DOMAIN cols) \X (DOMAIN idx[i]) : cols[p[1]] = idx[i][p[2]]}
  IN  IF Len(cols) = 1 THEN First({i \in DOMAIN idx : idx[i][1] = cols[1]})
      ELSE IF begun # {} THEN First(begun)
      ELSE First({i \in DOMAIN idx : Cardinality(Hits(i)) = Len(cols)})

MinValue == Value("none", MinInt + 1, <<0, 0, 0, 0>>)
MaxValue == Value("none", MaxInt, <<FF, FF, FF, FF>>)

\* addValToRecord: the payload of the column's type.
Typed(type, v) == IF type = "int" THEN I64(v.n) ELSE Str(v.s)

\* The outcome of qlScanInit: "ok" with an index and bounds, or how it ended.
Scanner(idx, key1, key2, inc1, inc2) ==
  [st |-> "ok", idx |-> idx, key1 |-> key1, key2 |-> key2, inc1 |-> inc1, inc2 |-> inc2]
Refused == [Scanner(1, << >>, << >>, FALSE, FALSE) EXCEPT !.st = "no"]
Crashed == [Refused EXCEPT !.st = "panic"]

InKeyOrder(s) ==
  IF Before(s.key2, s.key1) THEN Scanner(s.idx, s.key2, s.key1, s.inc2, s.inc1) ELSE s
Beside(s) ==
  IF s.idx = 1 THEN s
  ELSE [s EXCEPT !.key1 = Append(@, IF s.inc1 THEN 0 ELSE FF),
                 !.key2 = Append(@, IF s.inc2 THEN FF ELSE 0)]

\* NewScanner up to Seek: the smaller bound first, and beside the entries of a
\* value for a secondary index. The values are those of the columns of the
\* index, of which a condition has only one.
NewScanner(tdef, idx, vals1, vals2, inc1, inc2) ==
  IF Len(vals1) < Len(tdef.indexes[idx]) \/ ~Encodable(vals1 \o vals2) THEN Crashed
  ELSE Beside(InKeyOrder(Scanner(idx, EncodeKey(tdef.prefixes[idx], vals1),
                                 EncodeKey(tdef.prefixes[idx], vals2), inc1, inc2)))

FullRangeIndexScanner(tdef, idx) ==
  LET types == [i \in DOMAIN tdef.indexes[idx] |-> TypeOf(tdef, tdef.indexes[idx][i])]
  IN  IF \E i \in DOMAIN types : types[i] = "none" THEN Refused
      ELSE NewScanner(tdef, idx, [i \in DOMAIN types |-> Typed(types[i], MinValue)],
                      [i \in DOMAIN types |-> Typed(types[i], MaxValue)], FALSE, FALSE)

FullRange(tdef, idx) == IF idx = 0 THEN Refused ELSE FullRangeIndexScanner(tdef, idx)
ByCols(tdef, cols) == FullRange(tdef, GetColsIndex(tdef, cols))

Below == {"<=", "<"}
Above == {">=", ">"}
OrEqual == {"<=", ">="}

\* The value a condition compares with; the other bound of one condition.
Bound(type, cond) == Typed(type, Payload(cond.kids[2]))
OtherEnd(type, cond) ==
  CASE cond.op \in Above -> Typed(type, MaxValue)
    [] cond.op \in Below -> Typed(type, MinValue)
    [] OTHER -> Bound(type, cond)

InvalidRange(c1, c2) ==
  \/ c1.op \in Above /\ c2.op \notin Below
  \/ c2.op \in Above /\ c1.op \notin Below

\* One condition on a column of an index and a type, and two.
OneCondition(tdef, c, idx, type) ==
  IF Len(c.kids) < 2 THEN Crashed
  ELSE IF type = "none" THEN Refused
  ELSE IF c.op \notin CmpOps THEN Crashed
  ELSE NewScanner(tdef, idx, <<Bound(type, c)>>, <<OtherEnd(type, c)>>,
                  c.op \in OrEqual \union {"=="}, c.op = "==")

TwoConditions(tdef, c1, c2, idx, type) ==
  IF c2.kids = << >> THEN Crashed
  ELSE IF InvalidRange(c1, c2) \/ Payload(c2.kids[1]).s # Payload(c1.kids[1]).s \/ type = "none" THEN Refused
  ELSE IF Len(c1.kids) < 2 \/ Len(c2.kids) < 2 THEN Crashed
  ELSE NewScanner(tdef, idx, <<Bound(type, c1)>>, <<Bound(type, c2)>>, c1.op \in OrEqual, c2.op \in OrEqual)

\* A condition on a column that no index begins with, or no column at all, has
\* no index; one that is no comparison has no second bound or no second kid.
Conditions(tdef, c1, c2, idx, type) ==
  IF idx = 0 THEN Refused
  ELSE IF c2 = Nil THEN OneCondition(tdef, c1, idx, type) ELSE TwoConditions(tdef, c1, c2, idx, type)
OnColumn(tdef, c1, c2, col) == Conditions(tdef, c1, c2, GetColsIndex(tdef, <<col>>), TypeOf(tdef, col))

ScanOf(tdef, k1, k2) ==
  IF k1 = Nil THEN FullRangeIndexScanner(tdef, 1)
  ELSE IF k1.kids = << >> THEN IF k2 = Nil THEN ByCols(tdef, <<Payload(k1).s>>) ELSE Crashed
  ELSE IF k1.op # "tuple" THEN OnColumn(tdef, k1, k2, Payload(k1.kids[1]).s)
  ELSE IF \E i \in DOMAIN k1.kids : k1.kids[i].op # "sym" THEN Refused
  ELSE ByCols(tdef, [i \in DOMAIN k1.kids |-> k1.kids[i].val])

QlScanInit(t, req) ==
  IF ~HasTable(t, req.table) THEN Refused ELSE ScanOf(GetTableDef(t, req.table), req.key1, req.key2)

\* Where the scanner goes: from the first key of the range to the last. Seek
\* finds the last key up to the bound; the scanner of the primary index stays
\* there if the bound is included, and is out of range unless the key is there.
InRange(s, k) ==
  /\ Before(s.key1, k) \/ (k = s.key1 /\ s.inc1)
  /\ Before(k, s.key2) \/ (k = s.key2 /\ s.inc2)
StartMissing(s) == s.idx = 1 /\ s.inc1 /\ s.key1 \notin DOMAIN kv
Visited(s) ==
  IF StartMissing(s) THEN << >> ELSE SetToSortSeq({k \in DOMAIN kv : InRange(s, k)}, Before)

\* The loop over the keys up to an excluded bound, when no other key follows.
SkipsForever(s) == ~s.inc1 /\ \A k \in DOMAIN kv : ~Before(s.key1, k)

-----------------------------------------------------------------------------
(* A row of the scan: what the statement does with it.                      *)

Tdef == GetTableDef(tx, stmt.scan.table)
Index == QlScanInit(NoTx, stmt.scan).idx

\* kvToRecord: a row as it is in the snapshot; through a secondary index, as it
\* is in the transaction, and "no" when it is not there.
FromKey(tdef, pk, vals) == [i \in DOMAIN pk |-> Field(tdef.cols[i], pk[i])] \o Decoded(tdef, vals)
KvToRecord(tdef, idx, key) ==
  IF idx # 1 THEN DbGet(tx, tdef, GetPKFromSecKey(tdef, key, idx))
  ELSE IF Overlong(tdef, kv[key]) THEN Dies(tx)
  ELSE Result("ok", tx, FromKey(tdef, DecodeKey(key, tdef), kv[key]))
Current == KvToRecord(Tdef, Index, Head(todo))

Passes(rec) == IF stmt.scan.filter = Nil THEN "pass" ELSE QLEvalRecordBool(rec, stmt.scan.filter)

\* QLEvalOutput: the first expression that fails ends it.
Outcome(names, c, bad) ==
  IF bad = 0 THEN Result("ok", tx, [i \in DOMAIN c |-> Field(names[i], c[i].out)])
  ELSE IF c[bad].st = "panic" THEN Dies(tx) ELSE No(tx)
Outputs(names, c) == Outcome(names, c, First({i \in DOMAIN c : c[i].st # "ok"}))
QLEvalOutput(rec, exprs, names) ==
  IF names[1] = Star THEN Result("ok", tx, rec)
  ELSE Outputs(names, [i \in DOMAIN exprs |-> QLEvalColumn(rec, exprs[i])])

\* qlUpdate: the columns the statement does not name keep their values, and
\* every column takes the payload of its type.
Named(names, col) == \E i \in DOMAIN names : names[i] = col
WithRest(rec, rest) ==
  QLEvalOutput(rec, stmt.exprs \o [i \in DOMAIN rest |-> Sym(rest[i])], stmt.names \o rest)
Reordered(tdef, rec) ==
  [i \in DOMAIN tdef.cols |-> Field(tdef.cols[i], Typed(tdef.types[i], Get(rec, tdef.cols[i])))]
UpdateTo(tdef, new) ==
  IF new.st # "ok" THEN new
  ELSE IF \E i \in DOMAIN tdef.types : tdef.types[i] = "none" THEN No(tx)
  ELSE UpdateRow(tx, stmt.scan.table, Reordered(tdef, new.rec))
QlUpdate(tdef, rec) ==
  UpdateTo(tdef, WithRest(rec, SelectSeq(tdef.cols, LAMBDA c : ~Named(stmt.names, c))))

\* What the body of the loop does with a row.
Body(rec) ==
  CASE stmt.kind = "select" -> QLEvalOutput(rec, stmt.exprs, stmt.names)
    [] stmt.kind = "delete" -> Delete(tx, stmt.scan.table, rec)
    [] stmt.kind = "update" -> QlUpdate(Tdef, rec)

\* populateRecord: only literals; a value without a name is out of range.
Populated(s) == [i \in DOMAIN s.exprs |-> Field(s.names[i], s.exprs[i].val)]
BadValue(s) == First({i \in DOMAIN s.exprs : s.exprs[i].op # "lit" \/ i > Len(s.names)})
QlInsert(s) ==
  CASE BadValue(s) # 0 -> IF s.exprs[BadValue(s)].op = "lit" THEN Dies(NoTx) ELSE No(NoTx)
    [] BadValue(s) = 0 /\ s.upsert -> Upsert(NoTx, s.table, Populated(s))
    [] OTHER -> Insert(NoTx, s.table, Populated(s))

-----------------------------------------------------------------------------
(* ExecuteQuery.                                                            *)

NoStmt == [kind |-> "none"]

Init ==
  /\ kv = NoTx.pend
  /\ tx = NoTx
  /\ stmt = NoStmt
  /\ todo = << >>
  /\ out = << >>
  /\ stage = "idle"
  /\ res = "none"

\* A plausible slip: the transaction of one statement is used for the next.
EndKeepsTx(how) ==
  /\ stage' = IF how = "panic" THEN "down" ELSE "done"
  /\ res' = CASE how = "ok" -> "ok" [] how = "no" -> "error" [] OTHER -> "none"
  /\ todo' = << >>
  /\ UNCHANGED tx

\* The statement is over and its transaction with it.
End(how) ==
  /\ stage' = IF how = "panic" THEN "down" ELSE "done"
  /\ res' = CASE how = "ok" -> "ok" [] how = "no" -> "error" [] OTHER -> "none"
  /\ tx' = NoTx
  /\ todo' = << >>

Fail(st) == End(st) /\ UNCHANGED kv

\* Commit: a failure to write ends in Abort.
Succeed(t) ==
  \/ kv' = Applied(t) /\ End("ok")
  \/ Fail("no")

CreateTable(s) ==
  /\ stage = "idle"
  /\ s.kind = "create"
  /\ stmt' = s
  /\ out' = << >>
  /\ \E r \in {TableNew(NoTx, s.def)} : IF r.st = "ok" THEN Succeed(r.tx) ELSE Fail(r.st)

\* An observer, not a step of the code, which holds neither the columns nor the
\* types of an insert against those of the table: the first value is the primary
\* key, and keys are read back as bytes of the types of the table.
Misplaced(s) ==
  LET tdef == GetTableDef(NoTx, s.table)
  IN  \E i \in DOMAIN s.exprs \intersect DOMAIN tdef.cols :
        s.names[i] # tdef.cols[i] \/ s.exprs[i].val.t # tdef.types[i]

\* insert and upsert. A misplaced row is stored, and reading its table may
\* return anything or panic: no statement of the model follows it.
InsertRow(s) ==
  /\ stage = "idle"
  /\ Cardinality(DOMAIN kv) < MaxKeys
  /\ s.kind = "insert"
  /\ stmt' = s
  /\ out' = << >>
  /\ \E r \in {QlInsert(s)} :
       CASE r.st # "ok" -> Fail(r.st)
         [] r.st = "ok" /\ ~Misplaced(s) -> Succeed(r.tx)
         [] OTHER -> \/ Fail("no")
                     \/ /\ kv' = Applied(r.tx)
                        /\ stage' = "spoilt"
                        /\ UNCHANGED <<tx, todo, res>>

\* select, update and delete as far as the first row.
Open(s) ==
  /\ stage = "idle"
  /\ s.kind \in {"select", "update", "delete"}
  /\ stmt' = s
  /\ out' = << >>
  /\ \E sc \in {QlScanInit(NoTx, s.scan)} :
       IF sc.st # "ok" THEN Fail(sc.st)
       ELSE /\ stage' = IF SkipsForever(sc) THEN "hung" ELSE "rows"
            /\ todo' = IF SkipsForever(sc) THEN << >> ELSE Visited(sc)
            /\ res' = "none"
            /\ tx' = NoTx
            /\ UNCHANGED kv

\* A row that is not there any more, or that the filter does not pass.
SkipRow ==
  /\ stage = "rows"
  /\ todo # << >>
  /\ \E r \in {Current} : r.st = "no" \/ (r.st = "ok" /\ Passes(r.rec) = "reject")
  /\ todo' = Tail(todo)
  /\ UNCHANGED <<kv, tx, stmt, out, stage, res>>

Row ==
  /\ stage = "rows"
  /\ todo # << >>
  /\ \E r \in {Current} :
       /\ r.st # "no"
       /\ \E verdict \in {IF r.st = "ok" THEN Passes(r.rec) ELSE "panic"} :
            /\ verdict # "reject"
            /\ \E b \in {IF verdict = "pass" THEN Body(r.rec) ELSE Dies(tx)} :
                 IF b.st = "ok"
                 THEN /\ tx' = b.tx
                      /\ todo' = Tail(todo)
                      /\ out' = IF stmt.kind = "select" THEN Append(out, b.rec) ELSE out
                      /\ UNCHANGED <<kv, stage, res>>
                 ELSE Fail(b.st) /\ UNCHANGED out
  /\ UNCHANGED stmt

Finish ==
  /\ stage = "rows"
  /\ todo = << >>
  /\ Succeed(tx)
  /\ UNCHANGED <<stmt, out>>

\* The caller has the answer; or the process is started again, after a panic or
\* by whoever waits for it.
Return ==
  /\ stage \in {"done", "down", "hung"}
  /\ stage' = "idle"
  /\ stmt' = NoStmt
  /\ out' = << >>
  /\ res' = "none"
  /\ UNCHANGED <<kv, tx, todo>>

Next == (\E s \in Statements : CreateTable(s) \/ InsertRow(s) \/ Open(s)) \/ SkipRow \/ Row \/ Finish \/ Return

Spec == Init /\ [][Next]_vars

-----------------------------------------------------------------------------
(* Properties.                                                              *)

KeysOf(prefix) == {k \in DOMAIN kv : k[1] = prefix}
Defs == {kv[k][1].s : k \in KeysOf(TDEF_TABLE.prefixes[1])}

RowAt(tdef, k) ==
  LET pk == DecodeKey(k, tdef)
      vals == kv[k]
      col(i) == IF i <= Len(tdef.cols) THEN tdef.cols[i] ELSE << >>
  IN  [i \in 1 .. Len(pk) + Len(vals) |->
         Field(col(i), IF i <= Len(pk) THEN pk[i] ELSE vals[i - Len(pk)])]
RowsOf(tdef) == {RowAt(tdef, k) : k \in KeysOf(tdef.prefixes[1])}

TypeOK ==
  /\ stage \in Stages
  /\ res \in Results
  /\ stage # "rows" => tx = NoTx /\ todo = << >>
  /\ \A i \in DOMAIN todo : todo[i] \in DOMAIN kv

(* No two indexes of any tables share a prefix, and none has one of the     *)
(* internal tables: what is stored for one is never found in the range of   *)
(* another (db.go:227-248).                                                 *)
PrefixesApart ==
  \A d1, d2 \in Defs : \A i \in DOMAIN d1.prefixes, j \in DOMAIN d2.prefixes :
    /\ d1.prefixes[i] \notin {TDEF_META.prefixes[1], TDEF_TABLE.prefixes[1]}
    /\ d1.prefixes[i] = d2.prefixes[j] => d1 = d2 /\ i = j

(* The tables as their reader knows them.                                   *)
View(name) ==
  CHOOSE t \in {[def |-> [d EXCEPT !.prefixes = << >>], rows |-> RowsOf(d)] :
                  d \in {d \in Defs : d.name = name}} : TRUE
R == INSTANCE Rows WITH
  tables <- IF stage = "spoilt" THEN NoTx.pend ELSE [n \in {d.name : d \in Defs} |-> View(n)]

(* Every secondary index has one entry for every row and no others, and the *)
(* entry reads back as the values of that row and its primary key: whatever *)
(* statements have run, with values that are escaped or replaced in the key *)
(* and rows that were updated or deleted in between (db.go:297-391,         *)
(* index/secondary.go:7-84). Only an index over the primary key may lack    *)
(* entries, and only of rows whose primary key is the empty string or ff:   *)
(* it files both as ff, so that the two may share one entry and either      *)
(* takes it along when it goes (secondary.go:13-18).                        *)
IndexesAgree == stage # "spoilt" =>
  \A tdef \in Defs : \A i \in 2 .. Len(tdef.indexes) :
    LET types == [j \in DOMAIN tdef.indexes[i] |-> TypeOf(tdef, tdef.indexes[i][j])] \o PkTypes(tdef)
        entries == {Decode(k, types) : k \in KeysOf(tdef.prefixes[i])}
        rows == RowsOf(tdef)
        own == {r \in rows : ~R!Lost(tdef, i, r) /\ ~R!Doubtful(tdef, i, r)}
    IN  /\ entries \subseteq {R!Entry(tdef, i, r) : r \in rows}
        /\ {R!Entry(tdef, i, r) : r \in own} \subseteq entries
        /\ Cardinality(KeysOf(tdef.prefixes[i])) = Cardinality(entries)

(* Statements keep the promise of Rows: one that ends well changes the rows *)
(* of its table as it says and all at once, one that fails changes none,    *)
(* and the process only ends or hangs where Rows says so (executor.go,      *)
(* db.go:217-391).                                                          *)
ImplementsRows == R!Spec

\* Of a row, the columns or expressions a select names.
Shown(r) ==
  IF stmt.names = <<Star>> THEN r
  ELSE [i \in DOMAIN stmt.exprs |-> Field(stmt.names[i], QLEvalColumn(r, stmt.exprs[i]).out)]

(* A select that ends well returns the rows its conditions and its filter   *)
(* ask for, each once, in the order of the values of the index it goes by,  *)
(* though it compares bytes, and of each the columns or expressions it      *)
(* names (planner.go:164-315, db.go:137-215, schema.go:95-208). Through an  *)
(* index over the primary key the row ff may come twice or be left out.     *)
SelectExact ==
  stage = "done" /\ res = "ok" /\ stmt.kind = "select" =>
    LET t == View(stmt.scan.table)
        more == {Shown(r) : r \in R!Perhaps(t, stmt.scan)}
        Shows(rows) == [i \in DOMAIN rows |-> Shown(rows[i])]
        Sure(shown) == SelectSeq(shown, LAMBDA x : x \notin more)
    IN  Sure(out) = Sure(Shows(R!InIndexOrder(t.def, stmt.scan, R!Selected(t, stmt.scan))))
=============================================================================
