------------------------------ MODULE Encoding ------------------------------
(***************************************************************************)
(* Keys of a table: DecodeKey of types/schema.go with the table's          *)
(* definition, and the keys of secondary indexes in index/secondary.go.    *)
(***************************************************************************)
EXTENDS Expr
-----------------------------------------------------------------------------
(* A table definition: [name, cols, types, pkeys, prefixes, indexes].       *)

\* The type of a column; "none" for a name that is no column. Of several columns
\* of one name the planner's loops take the last, that of GetPKFromSecKey the first.
TypeAt(tdef, i) == IF i = 0 THEN "none" ELSE tdef.types[i]
TypeOf(tdef, col) == TypeAt(tdef, SelectLastInSeq(tdef.cols, LAMBDA c : c = col))
FirstTypeOf(tdef, col) == TypeAt(tdef, SelectInSeq(tdef.cols, LAMBDA c : c = col))
PkTypes(tdef) == SubSeq(tdef.types, 1, tdef.pkeys)

DecodeKey(key, tdef) == Decode(key, PkTypes(tdef))

\* The empty string is filed as the byte ff. The change is made in the record,
\* before its primary key is read from there.
Filed(rec, cols) ==
  [i \in DOMAIN rec |->
     IF /\ rec[i].v = Str(<< >>)
        /\ \E j \in DOMAIN cols : cols[j] = rec[i].c
        /\ \A k \in 1 .. i - 1 : rec[k].c # rec[i].c
     THEN Field(rec[i].c, Str(<<FF>>)) ELSE rec[i]]

\* GetSecondaryIndexesKeys: one key for every index after the first. What one
\* index files as ff stays so for the next.
GetSecondaryIndexesKeys(tdef, rec) ==
  LET filed[i \in 1 .. Len(tdef.indexes)] ==
        IF i = 1 THEN rec ELSE Filed(filed[i - 1], tdef.indexes[i])
      vals(cols, r) == [j \in DOMAIN cols |-> Get(r, cols[j])] \o SubSeq(Vals(r), 1, tdef.pkeys)
  IN  [i \in 1 .. Len(tdef.indexes) - 1 |->
         EncodeKey(tdef.prefixes[i + 1], vals(tdef.indexes[i + 1], filed[i + 1]))]

\* Every indexed column is in the record and can be encoded; a column that is
\* missing is a nil dereference.
Indexable(tdef, rec) ==
  \A i \in 2 .. Len(tdef.indexes) : \A j \in DOMAIN tdef.indexes[i] :
    HasCol(rec, tdef.indexes[i][j]) /\ Encodable(<<Get(rec, tdef.indexes[i][j])>>)

\* Index i, or one before it, is over the primary key: it files that as ff too.
FilesPk(tdef, i) ==
  \E j \in 2 .. i : \E k \in DOMAIN tdef.indexes[j] : tdef.indexes[j][k] = tdef.cols[1]

\* GetPKFromSecKey: past the columns of the index, the primary key.
GetPKFromSecKey(tdef, key, idx) ==
  LET cols == tdef.indexes[idx]
      all == Decode(key, [j \in DOMAIN cols |-> FirstTypeOf(tdef, cols[j])] \o PkTypes(tdef))
  IN  [i \in 1 .. tdef.pkeys |-> Field(tdef.cols[i], all[Len(cols) + i])]
=============================================================================
