------------------------------ MODULE MCQuery ------------------------------
(* The texts of README.md, each of them with a token left out or an @ put   *)
(* before a keyword, create tables with a token replaced, and selects of    *)
(* small expressions.                                                       *)
EXTENDS Query

Id == <<3>>
Name == <<4>>
Users == <<5>>
Alice == <<3, 4>>
Bob == <<4, 3>>

\* A text from keywords, numbers and words.
K(w) == <<Keyword(w)>>
W(s) == <<Word(s)>>
N(n) == <<Number(n)>>
Join(parts) == FlattenSeq(parts)

Columns == Join(<<K("create"), K("table"), W(Users), K("("), W(Id), W(WordInt), K(","), W(Name), W(WordBytes), K(",")>>)
PrimaryKeyOf(w) == Join(<<K(w), K("key"), K("("), W(Id), K(")"), K(")"), K(";")>>)
Create == Join(<<Columns, K("index"), K("("), W(Name), K(")"), K(","), PrimaryKeyOf("primary")>>)
CreateUpper == Columns \o PrimaryKeyOf("PRIMARY")
CreatePlain == Columns \o PrimaryKeyOf("primary")

Insert1(verb, n, s) ==
  Join(<<K(verb), K("into"), W(Users), K("("), W(Id), K(","), W(Name), K(")"),
         K("values"), K("("), N(n), K(","), W(s), K(")"), K(";")>>)

Select(rest) == Join(<<K("select"), K("*"), K("from"), W(Users), rest, K(";")>>)
SelectFilter ==
  Join(<<K("select"), W(Name), K(","), W(Id), K("from"), W(Users), K("filter"), W(Id), K(">="), N(1), K(";")>>)
SelectRange == Select(Join(<<K("index"), K("by"), W(Id), K(">="), N(1), K("and"), W(Id), K("<="), N(10)>>))
UpdateName(filter) ==
  Join(<<K("update"), W(Users), K("set"), <<At(Name)>>, K("="), W(Bob), K("filter"), filter, K("=="), N(1), K(";")>>)
DeleteFilter == Join(<<K("delete"), K("from"), W(Users), K("filter"), W(Id), K("=="), N(1), K(";")>>)
DeleteBy == Join(<<K("delete"), K("from"), W(Users), K("index"), K("by"), W(Name), K("=="), W(Alice), K(";")>>)

Readme ==
  {Create, Insert1("insert", 1, Alice), Insert1("insert", 2, Bob), Select(<< >>), SelectFilter, SelectRange,
   UpdateName(W(Id)), DeleteFilter, DeleteBy}
MCTexts == Readme \union {CreateUpper, CreatePlain, Insert1("upsert", 1, Bob), UpdateName(<<At(Id)>>)}

Without(t, i) == SubSeq(t, 1, i - 1) \o SubSeq(t, i + 1, Len(t))
WithAt(t, i) == InsertAt(t, i, AtKeyword)
Misread == {Keyword(w) : w \in {"key", "as", "PRIMARY", "primary", "index", "and", "=", "(", ")", ",", "-"}} \union {At(Id)}
Damaged ==
  UNION {{Without(t, i) : i \in 1 .. Len(t) - 1} : t \in MCTexts}
    \union UNION {{WithAt(t, i) : i \in {i \in DOMAIN t : IsKeyword(t[i])}} : t \in MCTexts}
    \union UNION {{ReplaceAt(t, i, tok) : i \in 3 .. Len(t) - 1, tok \in Misread} : t \in {Create, CreateUpper, CreatePlain}}

Atoms == {Lit(I64(0)), Lit(I64(17)), Sym(Id), Lit(Str(Name))}
Ops == {"or", "and", "==", "<", "-", "*", "/", "%"}
Twos == {Bin(o, a, b) : o \in Ops, a \in Atoms, b \in Atoms}
Tests == {Bin(o, Sym(Id), b) : o \in CmpOps, b \in Atoms}
Exprs ==
  UNION {{Bin(o, p, Sym(Id)), Bin(o, Lit(I64(2)), p)} : o \in Ops, p \in Twos}
    \union {Neg(p) : p \in Twos} \union {Bin(o, Neg(Sym(Id)), p) : o \in {"+", ">"}, p \in Twos}
    \union {Bin(o, p, q) : o \in LogicOps, p \in Tests, q \in {q \in Tests : q.op \in {">=", "=="}}}

SelectOf(e) == Join(<<K("select"), Written(e, 1), K("as"), W(Name), K("from"), W(Users), K(";")>>)
MCProbes == Damaged \union {SelectOf(e) : e \in Exprs}
=============================================================================
