------------------------------- MODULE Query -------------------------------
(***************************************************************************)
(* A session: texts as getQueryInput of cmd/auroradb.go reads them,        *)
(* through ExecuteQuery of engine/executor.go, the parser (module Parser)  *)
(* and the execution of the statement (module Tables).                     *)
(***************************************************************************)
EXTENDS Tables, Parser

CONSTANTS Texts,   \* what may be asked at any time
          Probes,  \* what may be asked while the store has ProbeKeys keys
          ProbeKeys

ASSUME ProbeAssumption == ProbeKeys \in Nat

VARIABLES text  \* what was asked last

qvars == <<vars, text>>

Usual == stage = "idle" /\ Cardinality(DOMAIN kv) = ProbeKeys
Asked == Texts \union (IF Usual THEN Probes ELSE {})

QInit == Init /\ text = << >>

\* PStmt made a statement, errors or not, and it is executed.
Execute(t) ==
  /\ stage = "idle"
  /\ text' = t
  /\ \E q \in {PStmt(t)} :
       q.st = "stmt" /\ (CreateTable(q.stmt) \/ InsertRow(q.stmt) \/ Open(q.stmt))

\* PStmt returns nil, or a nil pointer of some type, which is not nil and panics
\* in qlStmt; or it does not return.
StageAfter == [none |-> "done", nilptr |-> "down", forever |-> "hung"]
ParseOnly(t) ==
  /\ stage = "idle"
  /\ text' = t
  /\ \E q \in {PStmt(t)} : q.st # "stmt" /\ stage' = StageAfter[q.st]
  /\ res' = IF stage' = "done" THEN "error" ELSE "none"
  /\ UNCHANGED <<kv, tx, stmt, todo, out>>

Step == (SkipRow \/ Row \/ Finish) /\ UNCHANGED text
Answer == Return /\ text' = << >>

QNext == (\E t \in Asked : Execute(t) \/ ParseOnly(t)) \/ Step \/ Answer

QSpec == QInit /\ [][QNext]_qvars

-----------------------------------------------------------------------------
(* A statement written out, with the parentheses that are needed.           *)

Rank(e) ==
  CASE e.op = "or" -> 1
    [] e.op = "and" -> 2
    [] e.op \in CmpOps -> 3
    [] e.op \in {"+", "-"} -> 4
    [] e.op \in {"*", "/", "%"} -> 5
    [] e.op = "neg" -> 6
    [] OTHER -> 7

WordOrNone(s) == IF s = << >> THEN << >> ELSE <<Word(s)>>
AtOrNone(s) == IF s = << >> THEN << >> ELSE <<At(s)>>

RECURSIVE Written(_, _)
Written(e, rank) ==
  LET plain ==
        CASE e.op = "lit" /\ e.val.t = "int" -> <<Number(e.val.n)>>
          [] e.op = "lit" /\ e.val.t = "bytes" -> WordOrNone(e.val.s)
          [] e.op = "sym" -> <<At(e.val)>>
          [] e.op = "neg" -> <<Keyword("-")>> \o Written(e.kids[1], 7)
          [] OTHER -> Written(e.kids[1], Rank(e)) \o <<Keyword(e.op)>> \o Written(e.kids[2], Rank(e) + 1)
  IN  IF Rank(e) < rank THEN <<Keyword("(")>> \o plain \o <<Keyword(")")>> ELSE plain

RECURSIVE Separated(_)
Separated(parts) ==
  IF Len(parts) = 1 THEN parts[1] ELSE parts[1] \o <<Keyword(",")>> \o Separated(Tail(parts))

Clause(w, tokens) == IF tokens = << >> THEN << >> ELSE <<Keyword(w)>> \o tokens

ScanWritten(q) ==
  (CASE q.key1 = Nil -> << >>
     [] q.key2 = Nil -> <<Keyword("index"), Keyword("by")>> \o Written(q.key1, 3)
     [] OTHER -> <<Keyword("index"), Keyword("by")>> \o Written(q.key1, 3)
                   \o <<Keyword("and")>> \o Written(q.key2, 3))
    \o (IF q.filter = Nil THEN << >> ELSE <<Keyword("filter")>> \o Written(q.filter, 1))
    \o (IF q.offset = 0 THEN << >> ELSE <<Keyword("offset"), Number(q.offset)>>)
    \o (IF q.limit = Half - 1 THEN << >> ELSE <<Keyword("limit"), Number(q.limit)>>)

Output(s, i) == Written(s.exprs[i], 1) \o Clause("as", WordOrNone(s.names[i]))
Setting(s, i) == AtOrNone(s.names[i]) \o <<Keyword("=")>> \o Written(s.exprs[i], 1)

StatementWritten(s) ==
  CASE s.kind = "select" ->
         <<Keyword("select")>>
           \o (IF s.names = <<Star>> THEN <<Keyword("*")>> ELSE Separated([i \in DOMAIN s.exprs |-> Output(s, i)]))
           \o <<Keyword("from")>> \o WordOrNone(s.scan.table) \o ScanWritten(s.scan)
    [] s.kind = "update" ->
         <<Keyword("update")>> \o WordOrNone(s.scan.table) \o <<Keyword("set")>>
           \o Separated([i \in DOMAIN s.exprs |-> Setting(s, i)]) \o ScanWritten(s.scan)
    [] s.kind = "delete" ->
         <<Keyword("delete"), Keyword("from")>> \o WordOrNone(s.scan.table) \o ScanWritten(s.scan)

-----------------------------------------------------------------------------
(* Properties.                                                              *)

Scans == stmt.kind \in {"select", "update", "delete"}
TableIsKeyword == stmt.scan.table = Keyword("table").s

(* A select, update or delete that runs is what its text says: the text     *)
(* begins with the statement written out, so that every operator has the    *)
(* operands its precedence gives it, and no clause is run that is not       *)
(* there. A text in the grammar is all of the statement; what follows one   *)
(* that is not is dropped, without a word (parser.go:196-216, 259-476).     *)
RunsAsWritten ==
  Scans /\ ~TableIsKeyword =>
    LET w == StatementWritten(stmt)
    IN  IsPrefix(w, text) /\ (~PStmt(text).p.err => Append(w, Keyword(";")) = text)

\* What follows the parenthesis of a create table; its name may be missing.
Opening(t) == IF t[3].k \in {"num", "word"} THEN 4 ELSE 3
Declares(t) == Has2(State(t, FALSE), "create", "table") /\ t[Opening(t)] = Keyword("(")
Declared(t) == SubSeq(t, Opening(t) + 1, Len(t))
From(toks, Test(_)) == SubSeq(toks, SelectInSeq(toks, Test), Len(toks))

\* The tokens the loop over the columns reads, and those the one over the indexes
\* does not: no expression begins with them or goes on with them.
InColumns(tok) == tok.k \in {"num", "word"} \/ tok = Keyword(",")
InNoIndex(tok) ==
  \/ IsKeyword(tok) /\ tok.w \notin {"index", "primary", "and", "or"}
  \/ tok \in {Keyword(";"), Keyword("=")}

Endless(t) ==
  /\ Declares(t)
  /\ LET rest == From(Declared(t), LAMBDA tok : ~InColumns(tok))
         stop == From(rest, LAMBDA tok : tok = Keyword("primary") \/ InNoIndex(tok))
     IN  Head(rest).w \notin {"index", "primary"} \/ Head(stop).w # "primary"

(* The parser does not come back from a create table in which a token that  *)
(* is no name, type or comma follows its columns and is not index or        *)
(* primary in lower case, or a semicolon, an equals sign or a keyword that  *)
(* no expression has stands after them and before primary: its two loops    *)
(* go on over a token that none of their calls reads. From every other text *)
(* it comes back (parser.go:107-147).                                       *)
ParserReturns ==
  text # << >> => (stage = "hung" /\ stmt = NoStmt <=> Endless(text))

RECURSIVE Subs(_)
Subs(e) == {e} \union UNION {Subs(e.kids[i]) : i \in DOMAIN e.kids}

RECURSIVE StaticType(_, _)
StaticType(def, e) ==
  LET kids == {StaticType(def, e.kids[i]) : i \in DOMAIN e.kids} IN
  CASE e.op = "lit" -> e.val.t
    [] e.op = "sym" -> TypeOf(def, e.val)
    [] e.op \in NumOps \union {"neg"} /\ kids = {"int"} -> "int"
    [] e.op \in CmpOps /\ (kids = {"int"} \/ kids = {"bytes"}) -> "bool"
    [] e.op \in LogicOps /\ kids = {"bool"} -> "bool"
    [] OTHER -> "none"

\* The operand of a node for a row; the same integer, up to a wrap.
Operand(row, e, i) == QLEval(row, e.kids[i]).out
Congruent(m, n) == (m - n) % (2 * Half) = 0
Size(n) == IF n < 0 THEN -n ELSE n

DividesByZero(row, e) == e.op \in {"/", "%"} /\ Operand(row, e, 2) = I64(0)

\* What arithmetic and logic ask of the result of a node.
Lawful(row, e) ==
  LET v == QLEval(row, e).out
      a == Operand(row, e, 1)
      b == Operand(row, e, 2)
  IN  CASE e.op = "neg" -> Congruent(v.n, 0 - a.n)
        [] e.op = "+" -> Congruent(v.n, a.n + b.n)
        [] e.op = "-" -> Congruent(v.n, a.n - b.n)
        [] e.op = "*" -> Congruent(v.n, a.n * b.n)
        [] e.op = "/" -> \E m \in 1 - Size(b.n) .. Size(b.n) - 1 :
                           a.n * m >= 0 /\ Congruent(b.n * v.n + m, a.n)
        [] e.op = "%" -> Size(v.n) < Size(b.n) /\ a.n * v.n >= 0 /\ (a.n - v.n) % Size(b.n) = 0
        [] e.op = "<=" -> (v.n = 1) = (a = b \/ R!Less(a, b))
        [] e.op = "<" -> (v.n = 1) = R!Less(a, b)
        [] e.op = ">=" -> (v.n = 1) = (a = b \/ R!Less(b, a))
        [] e.op = ">" -> (v.n = 1) = R!Less(b, a)
        [] e.op = "==" -> (v.n = 1) = (a = b)
        [] e.op = "and" -> v.n = a.n * b.n
        [] e.op = "or" -> v.n = a.n + b.n - a.n * b.n
        [] OTHER -> TRUE

Def == (CHOOSE t \in {View(stmt.scan.table)} : TRUE).def

(* The first expression of a select is evaluated as arithmetic and logic    *)
(* have it: the select answers only if the expression has a type and then   *)
(* with the value of every operator from its operands, up to a wrap; it is  *)
(* refused for a row only if the expression has no type; and the process    *)
(* ends only on a zero divisor (executor.go:17-252).                        *)
EvaluatesSoundly ==
  /\ stmt.kind = "select" /\ stmt.exprs # << >> /\ HasTable(NoTx, stmt.scan.table)
  /\ stmt.scan.filter = Nil /\ stmt.scan.key1 = Nil
  /\ stage \in {"done", "down"}
  => LET e == stmt.exprs[1]
         rows == View(stmt.scan.table).rows
     IN  /\ res = "ok" /\ rows # {} => StaticType(Def, e) # "none"
         /\ res = "ok" => \A r \in rows : \A s \in Subs(e) : Lawful(r, s)
         /\ res = "error" /\ out = << >> /\ rows # {} =>
              \E i \in DOMAIN stmt.exprs : StaticType(Def, stmt.exprs[i]) = "none"
         /\ stage = "down" => \E r \in rows : \E i \in DOMAIN stmt.exprs :
                                \E s \in Subs(stmt.exprs[i]) : DividesByZero(r, s)

(* A filter that compares a column by its bare name, as README.md:95-96     *)
(* writes it, keeps the rows of which the comparison holds                  *)
(* (parser.go:463-476, executor.go:254-268).                                *)
BareFilterFinds ==
  /\ stage = "done" /\ res = "ok" /\ stmt.kind = "select"
  /\ stmt.scan.key1 = Nil /\ stmt.scan.filter.op \in CmpOps
  /\ stmt.scan.filter.kids[1].op = "lit"
  /\ TypeOf(Def, stmt.scan.filter.kids[1].val.s) = stmt.scan.filter.kids[2].val.t
  => LET f == stmt.scan.filter
         meant == Bin(f.op, Sym(f.kids[1].val.s), f.kids[2])
     IN  Len(out) = Cardinality({r \in View(stmt.scan.table).rows : QLEvalRecordBool(r, meant) = "pass"})
=============================================================================
