-------------------------------- MODULE Expr --------------------------------
(***************************************************************************)
(* Records and expressions: types.Record of types/schema.go and the        *)
(* evaluator of engine/executor.go (qlEval and the functions it calls,     *)
(* QLEvalOutput, QLEvalRecordBool).                                        *)
(*                                                                         *)
(* A record is a sequence of columns [c, v]. A node of an expression is    *)
(* its type, its value and its kids.                                       *)
(***************************************************************************)
EXTENDS Keys

Bool(b) == Value("bool", IF b THEN 1 ELSE 0, << >>)
ZeroValue == Value("none", 0, << >>)  \* types.Value{}

Star == <<2, 2>>  \* stands for the name "*"

Field(c, v) == [c |-> c, v |-> v]
Cols(rec) == [i \in DOMAIN rec |-> rec[i].c]
Vals(rec) == [i \in DOMAIN rec |-> rec[i].v]
HasCol(rec, col) == \E i \in DOMAIN rec : rec[i].c = col

\* Record.Get: the first column of that name.
Get(rec, col) ==
  rec[CHOOSE i \in DOMAIN rec : rec[i].c = col /\ \A j \in 1 .. i - 1 : rec[j].c # col].v

Node(op, val, kids) == [op |-> op, val |-> val, kids |-> kids]
Lit(v) == Node("lit", v, << >>)
Sym(col) == Node("sym", col, << >>)
Neg(e) == Node("neg", ZeroValue, <<e>>)
Bin(op, l, r) == Node(op, ZeroValue, <<l, r>>)
Nil == Node("nil", ZeroValue, << >>)    \* a nil pointer
Blank == Node("none", ZeroValue, << >>)  \* QLNode{}

\* The fields I64 and Str of a node; a symbol has its name in Str.
Payload(node) == CASE node.op = "lit" -> node.val [] node.op = "sym" -> Str(node.val) [] OTHER -> ZeroValue

CmpOps == {"<=", ">=", "==", "<", ">"}
LogicOps == {"or", "and"}
NumOps == {"+", "-", "*", "/", "%"}

-----------------------------------------------------------------------------
(* What an operator does with two values of one type.                       *)

Wrap(n) == ((n + Half) % (2 * Half)) - Half

\* Go's division rounds towards zero; the remainder has the sign of the dividend.
Quotient(a, b) ==
  LET Abs(n) == IF n < 0 THEN -n ELSE n
      q == Abs(a) \div Abs(b)
  IN  IF (a < 0) = (b < 0) THEN q ELSE -q

Arith(op, a, b) ==
  CASE op = "+" -> Wrap(a + b)
    [] op = "-" -> Wrap(a - b)
    [] op = "*" -> Wrap(a * b)
    [] op = "/" -> Wrap(Quotient(a, b))
    [] op = "%" -> a - b * Quotient(a, b)

Compares(op, eq, lt) ==
  CASE op = "==" -> eq
    [] op = ">=" -> ~lt
    [] op = "<=" -> eq \/ lt
    [] op = ">" -> ~eq /\ ~lt
    [] op = "<" -> lt

-----------------------------------------------------------------------------
(* qlEval. A context is what is in ctx.out and whether ctx.err is set; an    *)
(* integer division by zero ends the process.                               *)

Ctx(out, st) == [out |-> out, st |-> st]
Out(v) == Ctx(v, "ok")
Err == Ctx(ZeroValue, "err")
Panic == Ctx(ZeroValue, "panic")

\* qlCmp, qlOrAnd and qlNumeric on the two results, once evalLeftRightKids has
\* seen that their types agree.
Apply(op, l, r) ==
  CASE op \in CmpOps /\ l.t = "int" -> Out(Bool(Compares(op, l.n = r.n, l.n < r.n)))
    [] op \in CmpOps /\ l.t = "bytes" -> Out(Bool(Compares(op, l.s = r.s, Before(l.s, r.s))))
    [] op \in LogicOps /\ l.t = "bool" ->
         Out(Bool(IF op = "or" THEN l.n = 1 \/ r.n = 1 ELSE l.n = 1 /\ r.n = 1))
    [] op \in NumOps /\ l.t = "int" ->
         IF op \in {"/", "%"} /\ r.n = 0 THEN Panic ELSE Out(I64(Arith(op, l.n, r.n)))
    [] OTHER -> Err

\* A plausible slip in evalLeftRightKids: the types of the kids are not compared.
BothIgnoresTypes(op, left, right) ==
  IF left.st # "ok" THEN Ctx(ZeroValue, left.st)
  ELSE IF right.st # "ok" THEN Ctx(ZeroValue, right.st)
  ELSE Apply(op, left.out, right.out)

\* evalLeftRightKids: the left kid, the right kid, their types; no short cut.
Both(op, left, right) ==
  IF left.st # "ok" THEN Ctx(ZeroValue, left.st)
  ELSE IF right.st # "ok" THEN Ctx(ZeroValue, right.st)
  ELSE IF left.out.t # right.out.t THEN Err
  ELSE Apply(op, left.out, right.out)

\* QL_NEG evaluates its kid in its own context: what the kid left in ctx.out
\* stays there beside the error.
Negated(kid) ==
  IF kid.st = "panic" THEN Panic
  ELSE IF kid.out.t = "int" THEN Ctx(I64(Wrap(-kid.out.n)), kid.st)
  ELSE Ctx(kid.out, "err")

\* A tuple and a blank node are no case of the switch: no output, and no error.
RECURSIVE QLEval(_, _)
QLEval(env, node) ==
  CASE node.op = "lit" -> Out(node.val)
    [] node.op = "sym" -> IF HasCol(env, node.val) THEN Out(Get(env, node.val)) ELSE Err
    [] node.op = "neg" -> Negated(QLEval(env, node.kids[1]))
    [] node.op \in {"tuple", "none"} -> Out(ZeroValue)
    [] OTHER -> Both(node.op, QLEval(env, node.kids[1]), QLEval(env, node.kids[2]))

-----------------------------------------------------------------------------
(* The two callers.                                                         *)

\* QLEvalRecordBool: only ctx.out is looked at, not ctx.err.
Verdict(c) ==
  IF c.st = "panic" THEN "panic"
  ELSE IF c.out.t = "bool" /\ c.out.n # 0 THEN "pass" ELSE "reject"
QLEvalRecordBool(rec, filter) == Verdict(QLEval(rec, filter))

\* QLEvalOutput for one column: a boolean becomes an integer.
Column(c) ==
  IF c.st # "ok" THEN c
  ELSE IF c.out.t \in {"bool", "int"} THEN Out(I64(c.out.n))
  ELSE IF c.out.t = "bytes" THEN c
  ELSE Err
QLEvalColumn(rec, node) == Column(QLEval(rec, node))
=============================================================================
