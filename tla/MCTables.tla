------------------------------ MODULE MCTables ------------------------------
(* Tables on small ones: users (id int, name bytes, index (name), primary   *)
(* key (id)), pairs (k bytes, n int, index (n, k), primary key (k)), words  *)
(* (k bytes, n int, index (n), primary key (k)) and one with a primary key  *)
(* of two columns. Any two of the first three can be made, in any order.    *)
(* Bytes are 0 .. 5, so that 5 is ff, and integers -18 .. 17; 12 is the     *)
(* first whose first byte is ff.                                            *)
EXTENDS Tables

Ids == {-1, 0, 12}
Names == {<< >>, <<3>>}
Keys == {<< >>, <<FF>>, <<0, 1>>}
Numbers == {1}

Id == <<3>>
Name == <<4>>
Users == <<3, 3>>
Pairs == <<4, 4>>
Words == <<4, 3>>
More == <<3, 4>>

Table(name, cols, types, pkeys, indexes) ==
  [name |-> name, cols |-> cols, types |-> types, pkeys |-> pkeys, prefixes |-> << >>, indexes |-> indexes]
Creates ==
  {[kind |-> "create", def |-> d] : d \in {
     Table(Users, <<Id, Name>>, <<"int", "bytes">>, 1, <<<<Id>>, <<Name>>>>),
     Table(Pairs, <<Name, Id>>, <<"bytes", "int">>, 1, <<<<Name>>, <<Id, Name>>>>),
     Table(Words, <<Name, Id>>, <<"bytes", "int">>, 1, <<<<Name>>, <<Id>>>>),
     Table(More, <<Id, Name>>, <<"int", "int">>, 2, <<<<Id, Name>>>>)}}

Put(table, names, vals, upsert) ==
  [kind |-> "insert", table |-> table, names |-> names, exprs |-> [i \in DOMAIN vals |-> Lit(vals[i])], upsert |-> upsert]
Puts ==
  {Put(Users, <<Id, Name>>, <<I64(i), Str(s)>>, u) : i \in Ids, s \in Names, u \in BOOLEAN}
    \union {Put(t, <<Name, Id>>, <<Str(s), I64(i)>>, FALSE) : t \in {Pairs, Words}, i \in Numbers, s \in Keys}
    \union {Put(Users, << >>, << >>, FALSE),
            Put(Users, <<Name, Id>>, <<Str(<<3>>), I64(1)>>, TRUE),
            Put(Users, <<Id>>, <<I64(0), Str(<<3>>)>>, FALSE),
            Put(Users, <<Id, More>>, <<I64(0), Str(<<3>>)>>, FALSE),
            Put(Users, <<Id, Name, More>>, <<I64(-1), Str(<<3>>), I64(0)>>, FALSE),
            [Put(Users, <<Id, Name>>, << >>, FALSE) EXCEPT !.exprs = <<Neg(Lit(I64(1))), Lit(Str(<<3>>))>>]}

Req(table, key1, key2, filter) == [table |-> table, key1 |-> key1, key2 |-> key2, filter |-> filter]
Cond(op, col, v) == Bin(op, Lit(Str(col)), Lit(v))
IsFirst == Bin("==", Sym(Id), Lit(I64(-1)))
Divide == Bin("==", Bin("/", Lit(I64(13)), Bin("+", Sym(Id), Lit(I64(1)))), Lit(I64(1)))
ByName == Cond("==", Name, Str(<<3>>))
Low == Bin("<", Bin("/", Lit(I64(13)), Sym(Id)), Lit(I64(1)))

UserScans ==
  {Req(Users, Nil, Nil, f) : f \in {Nil, IsFirst, Divide, Neg(IsFirst)}}
    \union {Req(Users, Cond(op, Id, I64(-1)), Nil, Nil) : op \in CmpOps}
    \union {Req(Users, Cond(op, Name, Str(<<3>>)), Nil, Nil) : op \in CmpOps}
    \union {Req(Users, Cond(">", Name, Str(<<1>>)), Cond("<=", Name, Str(<<3>>)), Nil),
            Req(Users, Lit(Str(Name)), Nil, IsFirst)}
PairScans ==
  {Req(Pairs, Nil, Nil, Nil), Req(Pairs, Node("tuple", ZeroValue, <<Sym(Id), Sym(Name)>>), Nil, Nil),
   Req(Pairs, Cond("==", Id, I64(1)), Nil, Nil)}
WordScans == {Req(Words, Cond(op, Id, I64(1)), Nil, Nil) : op \in CmpOps}

Selects == {[kind |-> "select", scan |-> q, names |-> <<Star>>, exprs |-> << >>] : q \in UserScans \union PairScans \union WordScans}
    \union {[kind |-> "select", scan |-> Req(Users, Lit(Str(Name)), Nil, Nil), names |-> <<<< >>, Id>>, exprs |-> e] : e \in
             {<<Sym(Name), Bin("*", Sym(Id), Lit(I64(12)))>>, <<Sym(Name), Sym(More)>>}}
Deletes == {[kind |-> "delete", scan |-> q] : q \in
              {Req(Users, Nil, Nil, IsFirst), Req(Users, ByName, Nil, Nil), Req(Pairs, Cond(">=", Name, Str(<< >>)), Nil, Nil),
               Req(Pairs, Nil, Nil, Bin(">", Sym(Name), Lit(Str(<<0, 1>>)))),
               Req(Words, Cond("==", Id, I64(1)), Nil, Nil)}}
Updates ==
  {[kind |-> "update", scan |-> q[1], names |-> <<q[2]>>, exprs |-> <<q[3]>>] : q \in
     {<<Req(Users, Nil, Nil, Nil), Name, Lit(Str(<<3>>))>>,
      <<Req(Users, ByName, Nil, Nil), Name, Lit(Str(<< >>))>>,
      <<Req(Users, Nil, Nil, Low), Name, Lit(Str(<<3>>))>>,
      <<Req(Users, Nil, Nil, Nil), Id, Lit(I64(12))>>,
      <<Req(Users, ByName, Nil, Nil), Id, Bin("+", Sym(Id), Lit(I64(1)))>>,
      <<Req(Pairs, Nil, Nil, Nil), Id, Bin("-", Lit(I64(0)), Sym(Id))>>}}

MCStatements == Creates \union Puts \union Selects \union Deletes \union Updates
=============================================================================
