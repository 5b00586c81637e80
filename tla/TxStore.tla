------------------------------ MODULE TxStore ------------------------------
(***************************************************************************)
(* What AuroraDB's transactional key-value layer promises its caller, with *)
(* none of its bookkeeping: a store, and for every open transaction the    *)
(* keys it has touched with what it left there.                            *)
(*                                                                         *)
(* The promise is the one the code can keep, not full isolation:           *)
(*  - a transaction reads its own writes over the store, for as long as it *)
(*    is fresh (nobody moved the root of the tree since it began);         *)
(*  - Commit installs exactly the touched keys, all of them at once, over  *)
(*    whatever the store holds by then (the last committer wins);          *)
(*  - rolling back a transaction that is fresh changes nothing; rolling    *)
(*    back one that is not, or after pages have been written, may leave    *)
(*    any content behind.                                                  *)
(***************************************************************************)
CONSTANTS Key,         \* keys
          Value,       \* values a caller can store
          Absent,      \* the answer for a key that is not there
          Txn,         \* transaction objects
          WriteFaults  \* may a commit fail after it began to write pages?

VARIABLES store,    \* the committed content
          open,     \* the transactions begun and not yet ended
          fresh,    \* the open transactions whose root is still current
          touched,  \* touched[t]: the keys t has set or deleted
          local,    \* local[t][k]: what t left at a key it touched
          up        \* FALSE once the process has panicked

vars == <<store, open, fresh, touched, local, up>>

Content == [Key -> Value \union {Absent}]
Empty == [k \in Key |-> Absent]

Init ==
  /\ store = Empty
  /\ open = {}
  /\ fresh = {}
  /\ touched = [t \in Txn |-> {}]
  /\ local = [t \in Txn |-> Empty]
  /\ up = TRUE

Begin(t) ==
  /\ up
  /\ t \notin open
  /\ open' = open \union {t}
  /\ fresh' = fresh \union {t}
  /\ touched' = [touched EXCEPT ![t] = {}]
  /\ local' = [local EXCEPT ![t] = Empty]
  /\ UNCHANGED <<store, up>>

\* What a fresh transaction reads, and what Commit installs.
Read(t, k) == IF k \in touched[t] THEN local[t][k] ELSE store[k]

\* Setting a key and deleting it differ only in what is read afterwards.
Write(t, k, v) ==
  /\ up
  /\ t \in open
  /\ touched' = [touched EXCEPT ![t] = @ \union {k}]
  /\ local' = [local EXCEPT ![t][k] = v]
  /\ UNCHANGED <<store, open, fresh, up>>

\* A transaction object that has ended is dropped.
End(t) ==
  /\ open' = open \ {t}
  /\ touched' = [touched EXCEPT ![t] = {}]
  /\ local' = [local EXCEPT ![t] = Empty]
  /\ UNCHANGED up

Commit(t) ==
  /\ up
  /\ t \in open
  /\ store' = [k \in Key |-> Read(t, k)]
  /\ fresh' = {}
  /\ End(t)

Rollback(t) ==
  /\ up
  /\ t \in open
  /\ \/ /\ t \in fresh
        /\ fresh' = fresh \ {t}
        /\ UNCHANGED store
     \/ /\ t \notin fresh \/ WriteFaults
        /\ fresh' = {}
        /\ store' \in Content
  /\ End(t)

\* The process may only die while there is nothing in the store to lose.
Die ==
  /\ up
  /\ store = Empty
  /\ up' = FALSE
  /\ UNCHANGED <<store, open, fresh, touched, local>>

Next ==
  \/ \E t \in Txn : Begin(t) \/ Commit(t) \/ Rollback(t)
  \/ \E t \in Txn, k \in Key, v \in Value \union {Absent} : Write(t, k, v)
  \/ Die

Spec == Init /\ [][Next]_vars
=============================================================================
