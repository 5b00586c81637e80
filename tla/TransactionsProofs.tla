------------------------- MODULE TransactionsProofs -------------------------
(***************************************************************************)
(* For every set of keys, values and transactions, and any number of       *)
(* transactions open at once: the bookkeeping of a transaction stays       *)
(* consistent (TypeOK, SetsAgree, RootsAgree), and Transactions implements *)
(* TxStore. Inv is inductive as it stands: SetsAgree is what makes the     *)
(* content Commit computes from writes, deletes and pending the content    *)
(* TxStore installs, and RootsAgree is what makes Abort restore what was   *)
(* there.                                                                  *)
(***************************************************************************)
EXTENDS Transactions, FiniteSetTheorems, TLAPS

\* The content Commit produces is a content, and no nil is stored: a key whose
\* pending entry is gone is among the deletions.
LEMMA AppliedContent ==
  ASSUME Inv, NEW t \in Txn
  PROVE  Applied(t) = [k \in Key |-> IF k \in writeSet[t] \union delSet[t]
                                     THEN pending[t][k] ELSE tree[k]]
<1> USE DEF Inv, TypeOK, SetsAgree, Content
<1> SUFFICES ASSUME NEW k \in Key
             PROVE  Applied(t)[k] = IF k \in writeSet[t] \union delSet[t]
                                    THEN pending[t][k] ELSE tree[k]
  BY DEF Applied
<1>1. CASE k \in deletes[t]
  <2>1. k \in delSet[t] /\ k \notin writeSet[t]
    BY <1>1
  <2>2. pending[t][k] = Absent
    BY <2>1
  <2> QED
    BY <1>1, <2>1, <2>2 DEF Applied
<1>2. CASE k \notin deletes[t] /\ k \in writes[t]
  BY <1>2 DEF Applied
<1>3. CASE k \notin deletes[t] /\ k \notin writes[t]
  BY <1>3 DEF Applied
<1> QED
  BY <1>1, <1>2, <1>3

\* What Commit leaves in db.tree is a content again.
LEMMA AppliedType ==
  ASSUME Inv, NEW t \in Txn
  PROVE  Applied(t) \in Content
<1>1. pending[t] \in Content /\ tree \in Content
  BY DEF Inv, TypeOK
<1> QED
  BY <1>1, AppliedContent DEF Content

\* A tree without keys is a content.
LEMMA EmptyType == Empty \in Content
BY DEF Empty, Content

-----------------------------------------------------------------------------
(* Init establishes Inv and every action preserves it.                      *)

\* A database just opened, with no transaction begun, satisfies the invariant.
LEMMA InitInv == Init => Inv
<1> SUFFICES ASSUME Init PROVE Inv
  OBVIOUS
<1>1. TypeOK
  BY EmptyType DEF Init, TypeOK
<1>2. SetsAgree
  BY DEF Init, SetsAgree, Empty
<1>3. RootsAgree
  BY DEF Init, RootsAgree
<1> QED
  BY <1>1, <1>2, <1>3 DEF Inv

\* Forgetting a transaction leaves the others' bookkeeping alone.
LEMMA DropInv ==
  ASSUME Inv, NEW t \in Txn, Drop(t),
         tree' \in Content, rooted' \in BOOLEAN, up' \in BOOLEAN
  PROVE  /\ open' \in SUBSET Txn
         /\ base' \in [Txn -> Content]
         /\ baseRoot' \in [Txn -> BOOLEAN]
         /\ pending' \in [Txn -> Content]
         /\ delSet' \in [Txn -> SUBSET Key]
         /\ writeSet' \in [Txn -> SUBSET Key]
         /\ readSet' \in [Txn -> SUBSET Key]
         /\ writes' \in [Txn -> SUBSET Key]
         /\ deletes' \in [Txn -> SUBSET Key]
         /\ SetsAgree'
         /\ \A u \in open' : ~baseRoot'[u] => base'[u] = Empty
         /\ \A u \in open' : base'[u] = base[u] /\ baseRoot'[u] = baseRoot[u]
<1> USE EmptyType DEF Inv, TypeOK, SetsAgree, RootsAgree, Drop
<1>1. SetsAgree'
  <2> SUFFICES ASSUME NEW u \in Txn
               PROVE  /\ delSet'[u] = deletes'[u]
                      /\ writeSet'[u] \intersect delSet'[u] = {}
                      /\ writeSet'[u] \subseteq writes'[u]
                      /\ writes'[u] \subseteq writeSet'[u] \union deletes'[u]
                      /\ \A k \in Key : k \in writeSet'[u] <=> pending'[u][k] # Absent
                      /\ u \notin open' => pending'[u] = Empty
    OBVIOUS
  <2>1. CASE u = t
    BY <2>1 DEF Empty
  <2>2. CASE u # t
    BY <2>2
  <2> QED
    BY <2>1, <2>2
<1>2. \A u \in open' : base'[u] = base[u] /\ baseRoot'[u] = baseRoot[u]
  OBVIOUS
<1> QED
  BY <1>1, <1>2

\* Every call of a transaction, and every way Commit can end, preserves it.
LEMMA NextInv == Inv /\ [Next]_vars => Inv'
<1> SUFFICES ASSUME Inv, [Next]_vars PROVE Inv'
  OBVIOUS
<1> USE EmptyType
<1>1. ASSUME NEW t \in Txn, Begin(t) PROVE Inv'
  <2>1. TypeOK'
    BY <1>1 DEF Begin, Inv, TypeOK
  <2>2. SetsAgree'
    <3> SUFFICES ASSUME NEW u \in Txn
                 PROVE  /\ delSet'[u] = deletes'[u]
                        /\ writeSet'[u] \intersect delSet'[u] = {}
                        /\ writeSet'[u] \subseteq writes'[u]
                        /\ writes'[u] \subseteq writeSet'[u] \union deletes'[u]
                        /\ \A k \in Key : k \in writeSet'[u] <=> pending'[u][k] # Absent
                        /\ u \notin open' => pending'[u] = Empty
      BY DEF SetsAgree
    <3>1. CASE u = t
      BY <1>1, <3>1 DEF Begin, Inv, TypeOK, SetsAgree, Empty
    <3>2. CASE u # t
      BY <1>1, <3>2 DEF Begin, Inv, TypeOK, SetsAgree
    <3> QED
      BY <3>1, <3>2
  <2>3. RootsAgree'
    BY <1>1 DEF Begin, Inv, TypeOK, RootsAgree
  <2> QED
    BY <2>1, <2>2, <2>3 DEF Inv
<1>2. ASSUME NEW t \in Txn, NEW k \in Key, Get(t, k) PROVE Inv'
  BY <1>2 DEF Get, Inv, TypeOK, SetsAgree, RootsAgree
<1>3. ASSUME NEW t \in Txn, NEW k \in Key, Del(t, k) PROVE Inv'
  <2>1. TypeOK'
    BY <1>3 DEF Del, Inv, TypeOK, Content
  <2>2. SetsAgree'
    <3> SUFFICES ASSUME NEW u \in Txn
                 PROVE  /\ delSet'[u] = deletes'[u]
                        /\ writeSet'[u] \intersect delSet'[u] = {}
                        /\ writeSet'[u] \subseteq writes'[u]
                        /\ writes'[u] \subseteq writeSet'[u] \union deletes'[u]
                        /\ \A j \in Key : j \in writeSet'[u] <=> pending'[u][j] # Absent
                        /\ u \notin open' => pending'[u] = Empty
      BY DEF SetsAgree
    <3>1. CASE u = t
      BY <1>3, <3>1 DEF Del, Inv, TypeOK, SetsAgree, Content
    <3>2. CASE u # t
      BY <1>3, <3>2 DEF Del, Inv, TypeOK, SetsAgree
    <3> QED
      BY <3>1, <3>2
  <2>3. RootsAgree'
    BY <1>3 DEF Del, Inv, TypeOK, RootsAgree
  <2> QED
    BY <2>1, <2>2, <2>3 DEF Inv
<1>4. ASSUME NEW t \in Txn, NEW k \in Key, NEW v \in Value, Set(t, k, v) PROVE Inv'
  <2>1. TypeOK'
    BY <1>4 DEF Set, Inv, TypeOK, Content
  <2>2. SetsAgree'
    <3> SUFFICES ASSUME NEW u \in Txn
                 PROVE  /\ delSet'[u] = deletes'[u]
                        /\ writeSet'[u] \intersect delSet'[u] = {}
                        /\ writeSet'[u] \subseteq writes'[u]
                        /\ writes'[u] \subseteq writeSet'[u] \union deletes'[u]
                        /\ \A j \in Key : j \in writeSet'[u] <=> pending'[u][j] # Absent
                        /\ u \notin open' => pending'[u] = Empty
      BY DEF SetsAgree
    <3>1. CASE u = t
      BY <1>4, <3>1, ConstantsAssumption DEF Set, Inv, TypeOK, SetsAgree, Content
    <3>2. CASE u # t
      BY <1>4, <3>2 DEF Set, Inv, TypeOK, SetsAgree
    <3> QED
      BY <3>1, <3>2
  <2>3. RootsAgree'
    BY <1>4 DEF Set, Inv, TypeOK, RootsAgree
  <2> QED
    BY <2>1, <2>2, <2>3 DEF Inv
<1>5. ASSUME NEW t \in Txn, Commit(t) PROVE Inv'
  <2>1. tree' \in Content /\ rooted' \in BOOLEAN /\ up' \in BOOLEAN
    BY <1>5, AppliedType DEF Commit, Inv, TypeOK
  <2>2. ~rooted' => tree' = Empty
    <3> SUFFICES ASSUME ~rooted' PROVE tree' = Empty
      OBVIOUS
    <3>1. ~rooted /\ writes[t] = {} /\ deletes[t] = {}
      BY <1>5 DEF Commit, Panics, Inv, TypeOK
    <3>2. writeSet[t] = {} /\ delSet[t] = {}
      BY <3>1 DEF Inv, TypeOK, SetsAgree
    <3>3. Applied(t) = tree
      BY <3>2, AppliedContent DEF Inv, TypeOK, Content
    <3> QED
      BY <1>5, <3>1, <3>3 DEF Commit, Inv, RootsAgree
  <2> QED
    BY <1>5, <2>1, <2>2, DropInv DEF Commit, Inv, TypeOK, RootsAgree
<1>6. ASSUME NEW t \in Txn, CommitPanic(t) PROVE Inv'
  BY <1>6 DEF CommitPanic, txVars, Inv, TypeOK, SetsAgree, RootsAgree
<1>7. ASSUME NEW t \in intact, Restore(t), Drop(t), UNCHANGED up PROVE Inv'
  <2>1. t \in Txn /\ tree' = tree /\ rooted' = rooted
    BY <1>7 DEF Restore, Inv, TypeOK, RootsAgree
  <2>2. intact' \in SUBSET open'
    BY <1>7 DEF Restore, Drop, Inv, TypeOK
  <2> QED
    BY <1>7, <2>1, <2>2, DropInv DEF Restore, Inv, TypeOK, RootsAgree
<1>8. ASSUME NEW t \in open, RestoreStale(t), Drop(t), UNCHANGED up PROVE Inv'
  <2>1. t \in Txn /\ tree' \in Content /\ rooted' \in BOOLEAN
    BY <1>8 DEF RestoreStale, Inv, TypeOK
  <2> QED
    BY <1>8, <2>1, DropInv DEF RestoreStale, Inv, TypeOK, RootsAgree
<1>9. CASE UNCHANGED vars
  BY <1>9 DEF vars, txVars, Inv, TypeOK, SetsAgree, RootsAgree
<1> QED
  BY <1>1, <1>2, <1>3, <1>4, <1>5, <1>6, <1>7, <1>8, <1>9
     DEF Next, Abort, CommitFailsEarly, CommitFailsLate

-----------------------------------------------------------------------------
(* The theorems.                                                            *)

\* Every variable keeps its type and the bookkeeping of disk.go's transactions
\* stays consistent, in every behaviour.
THEOREM InvHolds == Spec => []Inv
<1>1. Init => Inv
  BY InitInv
<1>2. Inv /\ [Next]_vars => Inv'
  BY NextInv
<1> QED
  BY <1>1, <1>2, PTL DEF Spec

\* Every field of KV and KVTX keeps its type; in particular no nil value that
\* Commit reads from pending stays in the tree.
THEOREM TypeCorrect == Spec => []TypeOK
<1>1. Inv => TypeOK
  BY DEF Inv
<1> QED
  BY <1>1, InvHolds, PTL

\* delSet and deletes, writeSet and writes, and pending agree at every moment.
THEOREM BookkeepingAgrees == Spec => []SetsAgree
<1>1. Inv => SetsAgree
  BY DEF Inv
<1> QED
  BY <1>1, InvHolds, PTL

\* A captured root that is still current holds what the tree holds.
THEOREM CapturedRootsAgree == Spec => []RootsAgree
<1>1. Inv => RootsAgree
  BY DEF Inv
<1> QED
  BY <1>1, InvHolds, PTL

\* A transaction reads its own changes over the committed content.
THEOREM GetReadsOwnWrites == Spec => []ReadsOwnWrites
<1>1. Inv => ReadsOwnWrites
  <2> SUFFICES ASSUME Inv, NEW t \in intact, NEW k \in Key
               PROVE  GetVal(t, k) = Store!Read(t, k)
    BY DEF ReadsOwnWrites
  <2>1. t \in Txn /\ base[t] = tree
    BY DEF Inv, TypeOK, RootsAgree
  <2>2. k \in writeSet[t] <=> pending[t][k] # Absent
    BY <2>1 DEF Inv, SetsAgree
  <2>3. k \in delSet[t] => k \notin writeSet[t]
    BY <2>1 DEF Inv, SetsAgree
  <2> QED
    BY <2>1, <2>2, <2>3 DEF GetVal, Store!Read
<1> QED
  BY <1>1, InvHolds, PTL

-----------------------------------------------------------------------------
(* The refinement of TxStore.                                               *)

\* A database just opened is an empty abstract store.
LEMMA StoreInit == Init => Store!Init
BY DEF Init, Store!Init, Empty, Store!Empty

\* The abstract end of a transaction.
LEMMA StoreEnd ==
  ASSUME Inv, NEW t \in Txn, Drop(t), UNCHANGED up
  PROVE  Store!End(t)
<1>1. pending' = [pending EXCEPT ![t] = Store!Empty]
  BY DEF Drop, Empty, Store!Empty
<1>2. [u \in Txn |-> writeSet[u] \union delSet[u]]'
        = [[u \in Txn |-> writeSet[u] \union delSet[u]] EXCEPT ![t] = {}]
  BY DEF Drop, Inv, TypeOK
<1> QED
  BY <1>1, <1>2 DEF Drop, Store!End

\* Both ways of restoring the root captured by Begin are abstract rollbacks.
LEMMA StoreRollback ==
  ASSUME Inv, up, UNCHANGED up, NEW t \in open, Drop(t),
         \/ t \in intact /\ Restore(t)
         \/ (t \notin intact \/ WriteFaults) /\ RestoreStale(t)
  PROVE  Store!Rollback(t)
<1>1. t \in Txn
  BY DEF Inv, TypeOK
<1>2. Store!End(t)
  BY <1>1, StoreEnd
<1>3. CASE t \in intact /\ Restore(t)
  BY <1>1, <1>2, <1>3 DEF Restore, Store!Rollback, Inv, RootsAgree
<1>4. CASE (t \notin intact \/ WriteFaults) /\ RestoreStale(t)
  <2>1. tree' \in Content
    BY <1>4, EmptyType DEF RestoreStale
  <2> QED
    BY <1>2, <1>4, <2>1 DEF RestoreStale, Store!Rollback, Content, Store!Content
<1> QED
  BY <1>3, <1>4

\* Every step of the transactions is a step of the abstract store or none.
LEMMA StoreNext == Inv /\ [Next]_vars => [Store!Next]_(Store!vars)
<1> SUFFICES ASSUME Inv, [Next]_vars PROVE [Store!Next]_(Store!vars)
  OBVIOUS
<1> DEFINE touch == [u \in Txn |-> writeSet[u] \union delSet[u]]
<1>1. ASSUME NEW t \in Txn, Begin(t) PROVE Store!Next
  <2>1. touch' = [touch EXCEPT ![t] = {}]
    BY <1>1 DEF Begin, Inv, TypeOK
  <2>2. pending' = [pending EXCEPT ![t] = Store!Empty]
    <3>1. pending[t] = Store!Empty
      BY <1>1 DEF Begin, Inv, SetsAgree, Empty, Store!Empty
    <3> QED
      BY <1>1, <3>1 DEF Begin, Inv, TypeOK
  <2>3. Store!Begin(t)
    BY <1>1, <2>1, <2>2 DEF Begin, Store!Begin
  <2> QED
    BY <2>3 DEF Store!Next
<1>2. ASSUME NEW t \in Txn, NEW k \in Key, Get(t, k) PROVE UNCHANGED Store!vars
  BY <1>2 DEF Get, Store!vars
<1>3. ASSUME NEW t \in Txn, NEW k \in Key, Del(t, k) PROVE Store!Next
  <2>1. touch' = [touch EXCEPT ![t] = @ \union {k}]
    <3> SUFFICES ASSUME NEW u \in Txn
                 PROVE  touch'[u] = [touch EXCEPT ![t] = @ \union {k}][u]
      OBVIOUS
    <3>1. CASE u = t
      BY <1>3, <3>1 DEF Del, Inv, TypeOK
    <3>2. CASE u # t
      BY <1>3, <3>2 DEF Del, Inv, TypeOK
    <3> QED
      BY <3>1, <3>2
  <2>2. pending' = [pending EXCEPT ![t][k] = Absent]
    <3>1. (IF k \in writeSet[t] THEN Absent ELSE pending[t][k]) = Absent
      BY DEF Inv, SetsAgree
    <3> QED
      BY <1>3, <3>1 DEF Del, Inv, TypeOK, Content
  <2>3. Store!Write(t, k, Absent)
    BY <1>3, <2>1, <2>2 DEF Del, Store!Write
  <2> QED
    BY <2>3 DEF Store!Next
<1>4. ASSUME NEW t \in Txn, NEW k \in Key, NEW v \in Value, Set(t, k, v) PROVE Store!Next
  <2>1. touch' = [touch EXCEPT ![t] = @ \union {k}]
    <3> SUFFICES ASSUME NEW u \in Txn
                 PROVE  touch'[u] = [touch EXCEPT ![t] = @ \union {k}][u]
      OBVIOUS
    <3>1. CASE u = t
      BY <1>4, <3>1 DEF Set, Inv, TypeOK
    <3>2. CASE u # t
      BY <1>4, <3>2 DEF Set, Inv, TypeOK
    <3> QED
      BY <3>1, <3>2
  <2>2. Store!Write(t, k, v)
    BY <1>4, <2>1 DEF Set, Store!Write
  <2> QED
    BY <2>2 DEF Store!Next
<1>5. ASSUME NEW t \in Txn, Commit(t) PROVE Store!Next
  <2>1. tree' = [k \in Key |-> Store!Read(t, k)]
    BY <1>5, AppliedContent DEF Commit, Store!Read
  <2>2. Store!End(t)
    BY <1>5, StoreEnd DEF Commit
  <2>3. Store!Commit(t)
    BY <1>5, <2>1, <2>2 DEF Commit, Store!Commit
  <2> QED
    BY <2>3 DEF Store!Next
<1>6. ASSUME NEW t \in Txn, CommitPanic(t) PROVE Store!Next
  <2>1. tree = Store!Empty
    BY <1>6 DEF CommitPanic, Panics, Inv, RootsAgree, Empty, Store!Empty
  <2>2. Store!Die
    BY <1>6, <2>1 DEF CommitPanic, txVars, Store!Die
  <2> QED
    BY <2>2 DEF Store!Next
<1>7. ASSUME NEW t \in Txn, Abort(t) \/ CommitFailsEarly(t) \/ CommitFailsLate(t)
      PROVE  Store!Next
  <2>1. Store!Rollback(t)
    BY <1>7, StoreRollback DEF Abort, CommitFailsEarly, CommitFailsLate
  <2> QED
    BY <2>1 DEF Store!Next
<1>8. CASE UNCHANGED vars
  BY <1>8 DEF vars, txVars, Store!vars
<1> QED
  BY <1>1, <1>2, <1>3, <1>4, <1>5, <1>6, <1>7, <1>8 DEF Next

\* Transactions implement the abstract store: commits install exactly what the
\* transaction did, rollbacks of current transactions change nothing.
THEOREM RefinesTxStore == Spec => ImplementsTxStore
<1>1. Init => Store!Init
  BY StoreInit
<1>2. Inv /\ [Next]_vars => [Store!Next]_(Store!vars)
  BY StoreNext
<1> QED
  BY <1>1, <1>2, InvHolds, PTL DEF Spec, ImplementsTxStore, Store!Spec

-----------------------------------------------------------------------------
(* One transaction at a time.                                               *)

\* The transaction that is open, if any, began on the current root.
OneOpen ==
  /\ open \subseteq intact
  /\ \A t, u \in open : t = u

\* With room for one transaction, the one that is open is always intact.
LEMMA OneOpenNext ==
  ASSUME MaxOpen = 1
  PROVE  Inv /\ OneOpen /\ [Next]_vars => OneOpen'
<1> SUFFICES ASSUME Inv, OneOpen, [Next]_vars PROVE OneOpen'
  OBVIOUS
<1>1. ASSUME NEW t \in Txn, Begin(t) PROVE OneOpen'
  <2>1. IsFiniteSet(open)
    BY FS_Subset, ConstantsAssumption DEF Inv, TypeOK
  <2>2. Cardinality(open) \in Nat /\ Cardinality(open) < 1
    BY <1>1, <2>1, FS_CardinalityType DEF Begin
  <2>3. open = {}
    BY <2>1, <2>2, FS_EmptySet
  <2> QED
    BY <1>1, <2>3 DEF Begin, OneOpen
<1>2. ASSUME NEW t \in Txn, t \in open, Drop(t) PROVE OneOpen'
  <2>1. open' = {}
    BY <1>2 DEF Drop, OneOpen
  <2> QED
    BY <2>1 DEF OneOpen
<1>3. CASE UNCHANGED <<open, intact>>
  BY <1>3 DEF OneOpen
<1> QED
  BY <1>1, <1>2, <1>3
     DEF Next, Get, Set, Del, Commit, CommitPanic, CommitFailsEarly,
         CommitFailsLate, Abort, vars

\* The one open transaction changes the tree only by committing, and then to
\* what KVTX.Get answered.
LEMMA AtomicStep ==
  ASSUME ~WriteFaults, Inv, OneOpen, Next, tree' # tree
  PROVE  \E t \in Txn : /\ Commit(t)
                        /\ tree' = [k \in Key |-> GetVal(t, k)]
<1>1. ASSUME NEW t \in Txn, Abort(t) \/ CommitFailsEarly(t) PROVE FALSE
  <2>1. t \in intact
    BY <1>1 DEF Abort, CommitFailsEarly, OneOpen
  <2>2. tree' = base[t]
    BY <1>1, <2>1 DEF Abort, CommitFailsEarly, Restore
  <2> QED
    BY <2>1, <2>2 DEF Inv, RootsAgree
<1>2. PICK t \in Txn : Commit(t)
  BY <1>1 DEF Next, Begin, Get, Set, Del, CommitPanic, CommitFailsLate
<1>3. t \in open /\ tree' = Applied(t)
  BY <1>2 DEF Commit
<1>4. base[t] = tree
  BY <1>3 DEF OneOpen, Inv, RootsAgree
<1>5. Applied(t) = [k \in Key |-> GetVal(t, k)]
  <2> SUFFICES ASSUME NEW k \in Key
               PROVE  (IF k \in writeSet[t] \union delSet[t] THEN pending[t][k] ELSE tree[k])
                        = GetVal(t, k)
    BY AppliedContent
  <2>1. k \in writeSet[t] <=> pending[t][k] # Absent
    BY DEF Inv, SetsAgree
  <2>2. k \in delSet[t] => k \notin writeSet[t]
    BY DEF Inv, SetsAgree
  <2> QED
    BY <1>4, <2>1, <2>2 DEF GetVal
<1> QED
  BY <1>2, <1>3, <1>5

\* The way engine.ExecuteQuery runs them, and as long as no write to the file
\* fails, transactions are atomic for any number of keys and values.
THEOREM SerialTransactionsAreAtomic ==
  ASSUME MaxOpen = 1, ~WriteFaults
  PROVE  Spec => AtomicSerially
<1>1. Init => OneOpen
  BY DEF Init, OneOpen
<1>2. Inv /\ OneOpen /\ [Next]_vars => OneOpen'
  BY OneOpenNext
<1>3. Inv /\ OneOpen /\ [Next]_vars
        => [tree' # tree => \E t \in Txn : /\ Commit(t)
                                           /\ tree' = [k \in Key |-> GetVal(t, k)]]_vars
  BY AtomicStep
<1> QED
  BY <1>1, <1>2, <1>3, InvHolds, PTL DEF Spec, AtomicSerially
=============================================================================
