-------------------------------- MODULE Rows --------------------------------
(***************************************************************************)
(* What tables promise the one who asks: every table is a set of rows, and *)
(* a statement that ends well changes the rows of its table as it says,    *)
(* all at once; one that does not changes none. There are no keys, indexes *)
(* or transactions here. Rows are compared by the values of their columns. *)
(*                                                                         *)
(* The promise is the one the code can keep. It says where it is less than *)
(* one would ask for: rows a scan does not see, statements that end the    *)
(* process or never end, and values stored in the wrong place.             *)
(***************************************************************************)
EXTENDS Encoding

CONSTANTS Statements

VARIABLES tables,  \* tables[name]: [def, rows]
          stmt,    \* the statement that runs or ran last
          stage,   \* idle, rows, done, hung, down or spoilt
          res      \* the answer: none, ok or error

vars == <<tables, stmt, stage, res>>

Known(name) == name \in DOMAIN tables

-----------------------------------------------------------------------------
(* The rows a scan is about.                                                *)

Less(a, b) == IF a.t = "int" THEN a.n < b.n ELSE Before(a.s, b.s)

AboveMin(v) == IF v.t = "int" THEN v.n > MinInt + 1 ELSE Before(<<0, 0, 0, 0>>, v.s)
BelowMax(v) == IF v.t = "int" THEN v.n < MaxInt ELSE Before(v.s, <<FF, FF, FF, FF>>)

\* A primary key whose first byte is ff sorts after every bound of its value.
Late(pk) == IF pk.t = "int" THEN pk.n + Half >= FF * Power[IntWidth - 1] ELSE pk.s # << >> /\ pk.s[1] = FF

Conds(req) == {c \in {req.key1, req.key2} : c # Nil /\ c.op \in CmpOps}
Lower(req) == {c \in Conds(req) : c.op \in {">=", ">", "=="}}
Upper(req) == {c \in Conds(req) : c.op \in {"<=", "<", "=="}}

\* The columns a scan goes by: none are named, those of its conditions, or a list.
ScanCols(req) ==
  CASE req.key1 = Nil -> << >>
    [] req.key1.op = "tuple" -> [i \in DOMAIN req.key1.kids |-> Payload(req.key1.kids[i]).s]
    [] req.key1.kids = << >> -> <<Payload(req.key1).s>>
    [] OTHER -> <<Payload(req.key1.kids[1]).s>>

Begun(def, cols) == {i \in DOMAIN def.indexes : IsPrefix(cols, def.indexes[i])}
IndexOf(def, req) ==
  IF req.key1 = Nil THEN 1
  ELSE CHOOSE i \in Begun(def, ScanCols(req)) : \A j \in Begun(def, ScanCols(req)) : i <= j
Refusable(def, req) == req.key1 # Nil /\ Begun(def, ScanCols(req)) = {}

Const(def, c) ==
  LET v == Payload(c.kids[2])
  IN  IF TypeOf(def, Payload(c.kids[1]).s) = "int" THEN I64(v.n) ELSE Str(v.s)

Meets(def, v, late, c) ==
  LET b == Const(def, c) IN
  CASE c.op = ">=" -> ~Less(v, b)
    [] c.op = ">" -> Less(b, v) \/ (v = b /\ late)
    [] c.op = "<=" -> Less(v, b) \/ (v = b /\ ~late)
    [] c.op = "<" -> Less(v, b)
    [] c.op = "==" -> v = b /\ ~late

\* A scan of the primary index from a key that no row has sees nothing.
NoStart(def, req, rows) ==
  /\ IndexOf(def, req) = 1
  /\ \E c \in Conds(req) : c.op \in {">=", "=="} /\ \A r \in rows : r[1].v # Const(def, c)

\* A secondary index has the empty string under the byte ff.
Filing(v) == IF v = Str(<< >>) THEN Str(<<FF>>) ELSE v

\* The values an index has a row under: its columns, and the primary key.
Entry(def, i, r) ==
  IF i = 1 THEN <<r[1].v>>
  ELSE Append([j \in DOMAIN def.indexes[i] |-> Filing(Get(r, def.indexes[i][j]))],
              IF FilesPk(def, i) THEN Filing(r[1].v) ELSE r[1].v)
KeyOf(def, i, r) == Entry(def, i, r)[1]

\* An index over the primary key has the rows "" and ff in the same place: what
\* is there leads to ff, twice or, once either row was changed, not at all.
Lost(def, i, r) == FilesPk(def, i) /\ r[1].v = Str(<< >>)
Doubtful(def, i, r) == FilesPk(def, i) /\ r[1].v = Str(<<FF>>)

Seen(def, req, rows) ==
  LET i == IndexOf(def, req)
  IN  {r \in rows :
         /\ ~NoStart(def, req, rows) /\ ~Lost(def, i, r) /\ ~Doubtful(def, i, r)
         /\ \A c \in Conds(req) : Meets(def, KeyOf(def, i, r), i # 1 /\ Late(r[1].v), c)
         /\ Lower(req) = {} => AboveMin(KeyOf(def, i, r))
         /\ Upper(req) = {} => BelowMax(KeyOf(def, i, r))}

PassesFilter(req, r) == req.filter = Nil \/ QLEvalRecordBool(r, req.filter) = "pass"
Passing(req, rows) == {r \in rows : PassesFilter(req, r)}

\* The rows a statement is about, and those it may reach besides.
Selected(t, req) == Passing(req, Seen(t.def, req, t.rows))
Perhaps(t, req) == Passing(req, {r \in t.rows : Doubtful(t.def, IndexOf(t.def, req), r)})

\* In the order of the values of the index the scan goes by.
InIndexOrder(def, req, rows) ==
  LET key(r) == Entry(def, IndexOf(def, req), r)
      Earlier(a, b) == \E j \in DOMAIN key(a) :
                         /\ Less(key(a)[j], key(b)[j])
                         /\ \A h \in 1 .. j - 1 : key(a)[h] = key(b)[h]
  IN  SetToSortSeq(rows, Earlier)

-----------------------------------------------------------------------------
(* What a statement does.                                                   *)

InOrder(def, s) == \A i \in DOMAIN s.names : i <= Len(def.cols) => s.names[i] = def.cols[i]
OfType(def, s) == \A i \in DOMAIN s.exprs : i <= Len(def.cols) => s.exprs[i].val.t = def.types[i]

NewRec(def, s) ==
  [i \in DOMAIN s.exprs |->
     Field(IF i <= Len(def.cols) THEN def.cols[i] ELSE << >>, s.exprs[i].val)]
SamePk(rows, rec) == {r \in rows : r[1].v = rec[1].v}

Create(s) ==
  /\ ~Known(s.def.name)
  /\ tables' = (s.def.name :> [def |-> s.def, rows |-> {}]) @@ tables

Insert(s) ==
  /\ Known(s.table)
  /\ LET t == tables[s.table]
         rec == NewRec(t.def, s)
     IN  /\ s.upsert \/ SamePk(t.rows, rec) = {}
         /\ tables' = [tables EXCEPT ![s.table].rows = (@ \ SamePk(@, rec)) \union {rec}]

Sets(s, c) == \E i \in DOMAIN s.names : s.names[i] = c
SetTo(s, c) == s.exprs[CHOOSE i \in DOMAIN s.names : s.names[i] = c /\ \A j \in 1 .. i - 1 : s.names[j] # c]

\* A column takes what its expression gives for the old row, in its own type.
Updated(def, s, r) ==
  [i \in DOMAIN r |->
     IF ~Sets(s, r[i].c) THEN r[i]
     ELSE LET v == QLEvalColumn(r, SetTo(s, r[i].c)).out
          IN  Field(r[i].c, IF def.types[i] = "int" THEN I64(v.n) ELSE Str(v.s))]

\* The rows of the scan one after the other: the new row takes the place of the
\* one that has its primary key. A row met through a secondary index is as those
\* before it have left it.
Now(i, rows, r) == IF i = 1 THEN r ELSE CHOOSE q \in rows : q[1].v = r[1].v
UpdateOne(def, s, rows, r) ==
  IF ~PassesFilter(s.scan, r) THEN rows
  ELSE LET new == Updated(def, s, r) IN (rows \ SamePk(rows, new)) \union {new}
RowsAfter(t, s) ==
  LET One(rows, r) == UpdateOne(t.def, s, rows, Now(IndexOf(t.def, s.scan), rows, r))
  IN  FoldLeft(One, t.rows, InIndexOrder(t.def, s.scan, Seen(t.def, s.scan, t.rows)))

\* Which primary keys there are does not change: a row that is given a new one
\* stays, and overwrites the row that has it, which must be there.
Pks(rows) == {r[1].v : r \in rows}
Update(s) ==
  LET t == tables[s.scan.table]
      new == tables'[s.scan.table].rows
      Sure(rows) == {r \in rows : ~Doubtful(t.def, IndexOf(t.def, s.scan), r)}
  IN  /\ tables' = [tables EXCEPT ![s.scan.table].rows = new]
      /\ Pks(new) = Pks(t.rows)
      /\ IF Perhaps(t, s.scan) = {} THEN new = RowsAfter(t, s)
         ELSE Sets(s, t.def.cols[1]) \/ Sure(new) = Sure(RowsAfter(t, s))

Delete(s) ==
  LET t == tables[s.scan.table] IN
  \E more \in SUBSET Perhaps(t, s.scan) :
    tables' = [tables EXCEPT ![s.scan.table].rows = @ \ (Selected(t, s.scan) \union more)]

Effect(s) ==
  CASE s.kind = "create" -> Create(s)
    [] s.kind = "insert" -> Insert(s)
    [] s.kind = "select" -> UNCHANGED tables
    [] s.kind = "update" -> Update(s)
    [] s.kind = "delete" -> Delete(s)

-----------------------------------------------------------------------------
(* How it may end otherwise.                                                *)

\* A row with more values than columns ends the process that reads it.
Unreadable(t) == \E r \in t.rows : Len(r) > Len(t.def.cols)

Divides(s, rows) ==
  \E r \in rows :
    \/ s.scan.filter # Nil /\ QLEvalRecordBool(r, s.scan.filter) = "panic"
    \/ s.kind # "delete" /\ \E i \in DOMAIN s.exprs : QLEvalColumn(r, s.exprs[i]).st = "panic"

\* A column of a secondary index that an insert does not name.
LeavesOut(def, s) ==
  \E i \in 2 .. Len(def.indexes) : \E j \in DOMAIN def.indexes[i] : ~Sets(s, def.indexes[i][j])

\* The third table; a primary key of several columns; an insert without values,
\* with more values than names or without an indexed column; a condition on an
\* index of several columns; a division by zero.
DiesCreating(s) == s.def.pkeys > 1 \/ Cardinality(DOMAIN tables) >= 2
DiesInserting(s) ==
  \/ s.exprs = << >>
  \/ Len(s.exprs) > Len(s.names)
  \/ Known(s.table) /\ (Unreadable(tables[s.table]) \/ LeavesOut(tables[s.table].def, s))
DiesScanning(s) ==
  /\ Known(s.scan.table)
  /\ LET t == tables[s.scan.table]
     IN  \/ Unreadable(t)
         \/ Divides(s, t.rows)
         \/ Conds(s.scan) # {} /\ Len(t.def.indexes[IndexOf(t.def, s.scan)]) > 1

\* A scan for which there is nothing, from a lower bound that is excluded.
MayHang(s) ==
  /\ Known(s.scan.table)
  /\ LET t == tables[s.scan.table] IN Seen(t.def, s.scan, t.rows) = {}
  /\ \A c \in Conds(s.scan) : c.op \notin {">=", "=="}

-----------------------------------------------------------------------------
(* A statement begins, ends ("done") and is answered.                       *)

NoTables == [n \in {} |-> {}]
NoStmt == [kind |-> "none"]
Scans(s) == s.kind \in {"select", "update", "delete"}

Init ==
  /\ tables = NoTables
  /\ stmt = NoStmt
  /\ stage = "idle"
  /\ res = "none"

\* "ok" and the effect, or "error" and none.
Answers(s) == (res' = "ok" /\ Effect(s)) \/ (res' = "error" /\ UNCHANGED tables)

\* A statement without a scan ends at once; one with a scan may be refused.
Do(s) ==
  /\ stage = "idle" /\ stage' = "done" /\ stmt' = s
  /\ Answers(s)
  /\ Scans(s) => res' = "error"

\* An insert whose columns are not those of the table in order, or whose values
\* are of other types, stores what cannot be read back: no more is said.
Spoil(s) ==
  /\ stage = "idle" /\ stage' = "spoilt" /\ stmt' = s
  /\ s.kind = "insert"
  /\ LET def == tables[s.table].def IN ~InOrder(def, s) \/ ~OfType(def, s)
  /\ tables' = NoTables
  /\ UNCHANGED res

Start(s) ==
  /\ stage = "idle" /\ stmt' = s
  /\ Scans(s)
  /\ stage' = "rows" \/ (stage' = "hung" /\ MayHang(s))
  /\ UNCHANGED <<tables, res>>

Stop ==
  /\ stage = "rows" /\ stage' = "done"
  /\ Answers(stmt)
  /\ UNCHANGED stmt

DieAtOnce(s) ==
  /\ stage = "idle" /\ stage' = "down" /\ stmt' = s
  /\ CASE s.kind = "create" -> DiesCreating(s)
       [] s.kind = "insert" -> DiesInserting(s)
       [] OTHER -> DiesScanning(s)
  /\ UNCHANGED <<tables, res>>

DieScanning ==
  /\ stage = "rows" /\ stage' = "down"
  /\ DiesScanning(stmt)
  /\ UNCHANGED <<tables, stmt, res>>

\* The answer is taken, or the process is started again.
Return ==
  /\ stage \in {"done", "down", "hung"} /\ stage' = "idle" /\ stmt' = NoStmt
  /\ res' = "none"
  /\ UNCHANGED tables

Next ==
  \/ \E s \in Statements : Do(s) \/ Spoil(s) \/ Start(s) \/ DieAtOnce(s)
  \/ Stop \/ DieScanning \/ Return

Spec == Init /\ [][Next]_vars
=============================================================================
