------------------------------- MODULE Parser -------------------------------
(***************************************************************************)
(* The recursive-descent parser: parser/parser.go and what it asks of      *)
(* parser/lexer.go.                                                        *)
(*                                                                         *)
(* A text is a sequence of tokens that ends in a semicolon, as             *)
(* getQueryInput of cmd/auroradb.go hands it over. The lexer looks at the  *)
(* bytes; here a token is a keyword or a mark, a number, a word, a word    *)
(* after @, or an @ that has a keyword after it. Words that only begin     *)
(* with a keyword do not occur, nor does == where the parser looks for =.  *)
(* The state of the parser is what is left of the text and whether p.Err   *)
(* is set. The bytes of a keyword, of the digits of a number, of "int" and *)
(* of "bytes" are stand-ins.                                               *)
(***************************************************************************)
EXTENDS Expr, SequencesExt

Token(k, w, n, s) == [k |-> k, w |-> w, n |-> n, s |-> s]
Marks == {",", "(", ")", "-", "+", "*", "/", "%", ";", ">=", "<=", "==", "=", ">", "<"}
Keyword(w) == Token("kw", w, 0, IF w \in Marks THEN << >> ELSE <<3, 3, 3, 3>>)
Number(n) == Token("num", "", n, <<3, 4, 3>>)
Word(s) == Token("word", "", 0, s)
At(s) == Token("sym", "", 0, s)
AtKeyword == Token("at", "", 0, << >>)  \* the @ before a keyword

WordInt == <<3, 3, 3>>
WordBytes == <<4, 4, 4>>

\* pkeyword folds case; peekNextToken does not.
Fold(w) == IF w = "PRIMARY" THEN "primary" ELSE w

IsMark(tok) == tok.k = "kw" /\ tok.w \in Marks
IsKeyword(tok) == tok.k = "kw" /\ tok.w \notin Marks
Peek(p) == Head(p.rest).w

State(rest, err) == [rest |-> rest, err |-> err]
Next1(p) == State(Tail(p.rest), p.err)
PErr(p) == State(p.rest, TRUE)

\* pkeyword with one keyword or several.
Has(p, w) == Head(p.rest).k = "kw" /\ Fold(Head(p.rest).w) = w
Has2(p, v, w) == Has(p, v) /\ Has(Next1(p), w)
Expect(p, w) == IF Has(p, w) THEN Next1(p) ELSE PErr(p)
Expect2(p, v, w) == IF Has2(p, v, w) THEN Next1(Next1(p)) ELSE PErr(p)

\* What a call leaves: the state, and a node or a string.
Read(p, node) == [p |-> p, node |-> node]

\* pStr at a mark or at @ reads an empty string; a keyword is refused. Numbers
\* are strings too.
StrOf(p) == IF Head(p.rest).k \in {"num", "word"} THEN Head(p.rest).s ELSE << >>
PStr(p) == Read(IF Head(p.rest).k \in {"num", "word"} THEN Next1(p) ELSE p, StrOf(p))

\* pMustSym takes a keyword for a name.
PMustSym(p) ==
  IF IsMark(Head(p.rest)) \/ Head(p.rest).k \in {"sym", "at"} THEN Read(p, << >>)
  ELSE Read(Next1(p), Head(p.rest).s)

\* pNum: a number that does not fit is none.
IsNum(p) == Head(p.rest).k = "num" /\ Head(p.rest).n < Half
PNum(p) == IF IsNum(p) THEN Read(Next1(p), Head(p.rest).n) ELSE Read(PErr(p), 0)

\* pSym refuses a keyword after the @ and has read the @ by then.
PastAt(p) == IF Head(p.rest).k = "at" THEN Next1(p) ELSE p
PSym(p) ==
  IF Head(p.rest).k = "sym" THEN Read(Next1(p), Head(p.rest).s) ELSE Read(PastAt(p), << >>)

-----------------------------------------------------------------------------
(* Expressions, by levels of precedence.                                    *)

Levels == <<{"or"}, {"and"}, CmpOps, {"+", "-"}, {"*", "/", "%"}>>
PExprOr == 1
PExprCmp == 3

\* pExprAtom without the parentheses: what pSym refuses is tried as a number and
\* as a string, past an @. At a keyword the node has become a number by the time
\* the error is set.
Unnamed(p) ==
  CASE IsNum(p) -> Read(Next1(p), Lit(I64(Head(p.rest).n)))
    [] IsKeyword(Head(p.rest)) -> Read(PErr(p), Lit(I64(0)))
    [] OTHER -> Read(PStr(p).p, Lit(Str(StrOf(p))))
PLeaf(p) == IF Head(p.rest).k = "sym" THEN Read(PSym(p).p, Sym(PSym(p).node)) ELSE Unnamed(PSym(p).p)

\* What has been read with a minus before it, before a closing parenthesis, and
\* between two operands.
Negative(a) == Read(a.p, Neg(a.node))
Closed(a) == Read(Expect(a.p, ")"), a.node)
Joined(left, right) == Read(right.p, Bin(Fold(Peek(left.p)), left.node, right.node))

\* One expression is itself, several are a tuple.
OneOrTuple(kids) == IF Len(kids) = 1 THEN kids[1] ELSE Node("tuple", ZeroValue, kids)

RECURSIVE PExpr(_, _), PMore(_, _), PExprList(_, _)

\* pExprBinOp, pExprUnOp and pExprAtom.
PExpr(p, level) ==
  CASE level <= 5 -> PMore(PExpr(p, level + 1), level)
    [] level = 6 /\ Has(p, "-") -> Negative(PExpr(Next1(p), 7))
    [] level = 6 /\ ~Has(p, "-") -> PExpr(p, 7)
    [] level = 7 /\ Has(p, "(") -> Closed(PExprList(PExpr(Next1(p), PExprOr), << >>))
    [] OTHER -> PLeaf(p)

\* A plausible slip in pExprBinOp: what follows an operator is read to the end.
PMoreRight(left, level) ==
  IF Head(left.p.rest).k = "kw" /\ Fold(Peek(left.p)) \in Levels[level]
  THEN Joined(left, PExpr(Next1(left.p), level)) ELSE left

\* The loop of pExprBinOp: what has been read is the left kid of the next operator.
PMore(left, level) ==
  IF Head(left.p.rest).k = "kw" /\ Fold(Peek(left.p)) \in Levels[level]
  THEN PMore(Joined(left, PExpr(Next1(left.p), level + 1)), level) ELSE left

\* The loop of pExprTuple.
PExprList(e, kids) ==
  IF Has(e.p, ",") THEN PExprList(PExpr(Next1(e.p), PExprOr), Append(kids, e.node))
  ELSE Read(e.p, OneOrTuple(Append(kids, e.node)))

PExprTuple(p) == PExprList(PExpr(p, PExprOr), << >>)

\* The names in a tuple, or in a single node; those of its kids only.
KidNames(node) == [i \in DOMAIN node.kids |-> Payload(node.kids[i]).s]
Names(node) == IF node.kids = << >> THEN <<Payload(node).s>> ELSE KidNames(node)

-----------------------------------------------------------------------------
(* The clauses of a scan.                                                   *)

RECURSIVE PConditions(_, _)
PConditions(c, conds) ==
  IF Has(c.p, "and") THEN PConditions(PExpr(Next1(c.p), PExprCmp), Append(conds, c.node))
  ELSE Read(IF Len(conds) > 1 THEN PErr(c.p) ELSE c.p, Append(conds, c.node))

\* pIndexBy, once "index by" has been read: the state and the two keys.
TupleKey(t) == Read(t.p, <<t.node>>)
PIndexBy(p) ==
  IF Has(p, "(") THEN TupleKey(Closed(PExprTuple(Next1(p)))) ELSE PConditions(PExpr(p, PExprCmp), << >>)

\* pScan: clauses in this order, each of them optional, for a scan read so far.
\* Without a limit it is the largest integer.
WithKeys(sc, by) ==
  Read(by.p, [sc.node EXCEPT !.key1 = by.node[1], !.key2 = IF Len(by.node) > 1 THEN by.node[2] ELSE Nil])
WithFilter(sc, filter) == Read(filter.p, [sc.node EXCEPT !.filter = filter.node])
WithOffset(sc, n) == Read(n.p, [sc.node EXCEPT !.offset = n.node])
WithLimit(sc, n) == Read(n.p, [sc.node EXCEPT !.limit = n.node])

IndexClause(sc) == IF Has2(sc.p, "index", "by") THEN WithKeys(sc, PIndexBy(Next1(Next1(sc.p)))) ELSE sc
FilterClause(sc) == IF Has(sc.p, "filter") THEN WithFilter(sc, PExpr(Next1(sc.p), PExprOr)) ELSE sc
POffset(sc) == IF Has(sc.p, "offset") THEN WithOffset(sc, PNum(Next1(sc.p))) ELSE sc
PLimit(sc) == IF Has(sc.p, "limit") THEN WithLimit(sc, PNum(Next1(sc.p))) ELSE sc

PScan(p, table) ==
  PLimit(POffset(FilterClause(IndexClause(
    Read(p, [table |-> table, key1 |-> Nil, key2 |-> Nil, filter |-> Nil, offset |-> 0, limit |-> Half - 1])))))

-----------------------------------------------------------------------------
(* Statements. A parse ends with a statement, with none, with a nil pointer *)
(* that its caller takes for a statement, or not at all. An operator takes  *)
(* what the calls before it have read.                                      *)

Parsed(p, stmt) == [st |-> "stmt", p |-> p, stmt |-> stmt]
NilPointer(p) == [st |-> "nilptr", p |-> p, stmt |-> Nil]
NoStatement(p) == [st |-> "none", p |-> p, stmt |-> Nil]
Forever(p) == [st |-> "forever", p |-> p, stmt |-> Nil]

\* The end of pSelect, pUpdate and pDelete: an error so far makes it nil; a
\* missing semicolon is an error nobody looks at.
ScanStatement(p, stmt) == IF p.err THEN NilPointer(p) ELSE Parsed(Expect(p, ";"), stmt)

\* pSelectExprList and pUpdateExprList: the state, the names and the nodes.
ExprList(p, names, exprs) == [p |-> p, names |-> names, exprs |-> exprs]

WithExpr(l, p, name, expr) == ExprList(p, Append(l.names, name), Append(l.exprs, expr))

\* pSelectExpr, when its expression has been read, and its name.
PAs(e) == IF Has(e.p, "as") THEN PMustSym(Next1(e.p)) ELSE Read(e.p, << >>)
SelectNamed(l, e, as) == WithExpr(l, as.p, as.node, e.node)
PSelectExpr(l, e) == SelectNamed(l, e, PAs(e))

\* pUpdateExpr: without an @ the name is empty.
UpdateNamed(l, col, e) == WithExpr(l, e.p, col.node, e.node)
PUpdateExpr(l, col) == UpdateNamed(l, col, PExpr(Expect(col.p, "="), PExprOr))

\* The loops over a list of which one has been read.
RECURSIVE PSelectList(_), PUpdateList(_)
PSelectList(l) ==
  IF Has(l.p, ",") THEN PSelectList(PSelectExpr(l, PExpr(Next1(l.p), PExprOr))) ELSE l
PUpdateList(l) ==
  IF Has(l.p, ",") THEN PUpdateList(PUpdateExpr(l, PSym(Next1(l.p)))) ELSE l

NoExprs(p) == ExprList(p, << >>, << >>)

SelectFrom(l, scan) ==
  ScanStatement(scan.p, [kind |-> "select", scan |-> scan.node, names |-> l.names, exprs |-> l.exprs])
SelectTable(l, table) == SelectFrom(l, PScan(table.p, table.node))
SelectList(l) == SelectTable(l, PMustSym(Expect(l.p, "from")))
PSelect(p) ==
  SelectList(IF Has(p, "*") THEN ExprList(Next1(p), <<Star>>, << >>)
             ELSE PSelectList(PSelectExpr(NoExprs(p), PExpr(p, PExprOr))))

UpdateScan(l, scan) ==
  ScanStatement(scan.p, [kind |-> "update", scan |-> scan.node, names |-> l.names, exprs |-> l.exprs])
UpdateSet(l, table) == UpdateScan(l, PScan(l.p, table.node))
UpdateTable(table, p) == UpdateSet(PUpdateList(PUpdateExpr(NoExprs(p), PSym(p))), table)
PUpdateOf(table) == UpdateTable(table, Expect(table.p, "set"))
PUpdate(p) == PUpdateOf(PMustSym(p))

DeleteScan(scan) == ScanStatement(scan.p, [kind |-> "delete", scan |-> scan.node])
DeleteFrom(table) == DeleteScan(PScan(table.p, table.node))
PDelete(p) == DeleteFrom(PMustSym(Expect(p, "from")))

\* The names and the values are the kids of what stands in the parentheses.
InsertValues(table, cols, vals, upsert) ==
  Parsed(Expect(Expect(vals.p, ")"), ";"),
         [kind |-> "insert", table |-> table.node, names |-> KidNames(cols.node),
          exprs |-> vals.node.kids, upsert |-> upsert])
InsertColumns(table, cols, upsert) ==
  InsertValues(table, cols, PExprTuple(Expect(Expect(Expect(cols.p, ")"), "values"), "(")), upsert)
InsertInto(table, upsert) == InsertColumns(table, PExprTuple(Expect(table.p, "(")), upsert)
PInsert(p, upsert) == InsertInto(PMustSym(p), upsert)

ColType(s) == CASE s = WordInt -> "int" [] s = WordBytes -> "bytes" [] OTHER -> "none"

RECURSIVE PColumns(_), PIndexes(_)

\* A round of the loop over the columns: a name, a type and a comma. A round that
\* reads nothing is followed by the same round.
ColumnRead(l, name, type, p) ==
  IF p.rest = l.p.rest THEN [l EXCEPT !.forever = TRUE]
  ELSE PColumns([l EXCEPT !.p = p, !.cols = Append(@, name.node), !.types = Append(@, ColType(type.node))])
ColumnTyped(l, name, type) == ColumnRead(l, name, type, Expect(type.p, ","))
ColumnNamed(l, name) == ColumnTyped(l, name, PStr(name.p))

\* A plausible slip: the loop over the columns looks for index only.
PColumnsToIndex(l) == IF Peek(l.p) = "index" THEN l ELSE ColumnNamed(l, PStr(l.p))

\* The loop over the columns goes on up to index or primary.
PColumns(l) == IF Peek(l.p) \in {"index", "primary"} THEN l ELSE ColumnNamed(l, PStr(l.p))

\* A round of the loop over the indexes, which goes on up to primary.
IndexClosed(l, idx, p) ==
  IF p.rest = l.p.rest THEN [l EXCEPT !.forever = TRUE]
  ELSE PIndexes([l EXCEPT !.p = p, !.indexes = Append(@, Names(idx.node))])
IndexRead(l, idx) == IndexClosed(l, idx, Expect(Expect(idx.p, ")"), ","))
PIndexes(l) ==
  IF l.forever \/ Peek(l.p) = "primary" THEN l
  ELSE IndexRead(l, PExprTuple(Expect(IF Has(l.p, "index") THEN Next1(l.p) ELSE l.p, "(")))

\* A type that is none is an error, and the column is kept without one.
TableOf(name, l, p, keys) ==
  Parsed(Expect(Expect(Expect(p, ")"), ")"), ";"),
         [kind |-> "create",
          def |-> [name |-> name, cols |-> l.cols, types |-> l.types, pkeys |-> Len(keys),
                   prefixes |-> << >>, indexes |-> <<keys>> \o l.indexes]])
KeyRead(name, l, pk) == TableOf(name, l, pk.p, Names(pk.node))
ColumnsRead(name, l) ==
  IF l.forever THEN Forever(l.p)
  ELSE KeyRead(name, l, PExprTuple(Expect(Expect2(l.p, "primary", "key"), "(")))
NoColumns(p) == [p |-> p, cols |-> << >>, types |-> << >>, indexes |-> << >>, forever |-> FALSE]

TableNamed(name) ==
  IF ~Has(name.p, "(") THEN NilPointer(PErr(name.p))
  ELSE ColumnsRead(name.node, PIndexes(PColumns(NoColumns(Next1(name.p)))))
PCreateTable(p) == TableNamed(PStr(p))

PStmt(text) ==
  LET p == State(text, FALSE)
      p1 == Next1(p)
      p2 == Next1(p1)
  IN  CASE Has2(p, "create", "table") -> PCreateTable(p2)
        [] Has(p, "select") -> PSelect(p1)
        [] Has2(p, "insert", "into") -> PInsert(p2, FALSE)
        [] Has2(p, "upsert", "into") -> PInsert(p2, TRUE)
        [] Has(p, "update") -> PUpdate(p1)
        [] Has(p, "delete") -> PDelete(p1)
        [] OTHER -> NoStatement(p)
=============================================================================
