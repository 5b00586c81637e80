------------------------------ MODULE MCBTree ------------------------------
(* BTree on pages of a few entries. Long and short keys alternate.          *)
EXTENDS BTree

CONSTANTS LongKey, ShortKey, SmallVal, BigVal

MCKeyLen == [k \in Key \union {0} |-> IF k = 0 THEN 0 ELSE IF k % 2 = 0 THEN ShortKey ELSE LongKey]
MCValLen == [v \in Value |-> IF v = "small" THEN SmallVal ELSE BigVal]
=============================================================================
