------------------------------- MODULE MCScan -------------------------------
(* Scan on trees of one or two entries to a leaf and three kids to a node,  *)
(* up to three levels. Keys 1 and 13 belong to other tables.                *)
EXTENDS Scan

CONSTANTS Ops, Lows, Highs,  \* operators, and what they compare with below and above
          Idxs, Rejects, Offsets, Limits

MCKeyLen == [k \in Key \union {0} |-> IF k = 0 THEN 0 ELSE 1]
MCValLen == [v \in Value |-> 1]

\* Constants are keys; a secondary index compares with the value of the key.
Consts(S, idx) == IF idx = 0 THEN S ELSE {k \div Width : k \in S}
Conds(idx) == [op : Ops \ Below, c : Consts(Lows, idx)]
                \union [op : Ops \intersect Below, c : Consts(Highs, idx)]

\* Two conditions, for two sides of a range or for the same one.
Pairs(idx) == {p \in Conds(idx) \X Conds(idx) : "EQ" \notin {p[1].op, p[2].op}}

MCQueries ==
  UNION {[conds : {<< >>} \union {<<c>> : c \in Conds(i)} \union Pairs(i),
          idx : {i}, rejects : Rejects, offset : Offsets, limit : Limits] : i \in Idxs}
=============================================================================
