---------------------------- MODULE Transactions ----------------------------
(***************************************************************************)
(* The transactions of storage/disk.go: KVTX with its pending tree, its    *)
(* read, write and delete sets, and KV.Begin, KV.Commit and KV.Abort.      *)
(*                                                                         *)
(* Trees are modelled by what they hold: db.tree, tx.snapshot and          *)
(* tx.pending are maps from keys to values (BTree models how a tree holds  *)
(* them, Pager how pages do). A root captured by Begin (tx.meta and        *)
(* tx.snapshot.Root) denotes the content it had for as long as nobody      *)
(* moves db.tree.Root; afterwards its pages may have been reused, and what *)
(* it denotes is left open.                                                *)
(*                                                                         *)
(* engine.ExecuteQuery runs one transaction at a time (MaxOpen = 1); the   *)
(* exported API of db and storage lets a caller hold several (MaxOpen > 1).*)
(***************************************************************************)
EXTENDS Naturals, FiniteSets

CONSTANTS Key, Value,
          Absent,      \* a key that is not in a tree
          Nil,         \* the nil value Commit reads for a key gone from pending
          Txn, MaxOpen,
          WriteFaults  \* may updateFile fail after it began to write pages?

ASSUME ConstantsAssumption ==
  /\ Absent \notin Value
  /\ Nil \notin Value \union {Absent}
  /\ MaxOpen \in Nat
  /\ WriteFaults \in BOOLEAN
  /\ IsFiniteSet(Txn)

VARIABLES
  tree,      \* content of db.tree
  rooted,    \* db.tree.Root # 0
  open,      \* transactions between Begin and Commit or Abort
  intact,    \* open transactions whose captured root is still db.tree.Root
  base,      \* base[t]: content of the root captured by Begin
  baseRoot,  \* baseRoot[t]: that root is not 0
  pending,   \* pending[t]: content of tx.pending
  delSet, writeSet, readSet,  \* util.Set fields of tx
  writes, deletes,            \* map fields of tx
  up         \* FALSE once log.Panicln has ended the process

txVars == <<base, baseRoot, pending, delSet, writeSet, readSet, writes, deletes>>
vars == <<tree, rooted, open, intact, txVars, up>>

Content == [Key -> Value \union {Absent}]
Empty == [k \in Key |-> Absent]

Init ==
  /\ tree = Empty
  /\ rooted = FALSE
  /\ open = {}
  /\ intact = {}
  /\ base = [t \in Txn |-> Empty]
  /\ baseRoot = [t \in Txn |-> FALSE]
  /\ pending = [t \in Txn |-> Empty]
  /\ delSet = [t \in Txn |-> {}]
  /\ writeSet = [t \in Txn |-> {}]
  /\ readSet = [t \in Txn |-> {}]
  /\ writes = [t \in Txn |-> {}]
  /\ deletes = [t \in Txn |-> {}]
  /\ up = TRUE

-----------------------------------------------------------------------------
(* The calls of a transaction's owner.                                      *)

Begin(t) ==
  /\ up
  /\ t \notin open
  /\ Cardinality(open) < MaxOpen
  /\ open' = open \union {t}
  /\ intact' = intact \union {t}
  /\ base' = [base EXCEPT ![t] = tree]
  /\ baseRoot' = [baseRoot EXCEPT ![t] = rooted]
  /\ delSet' = [delSet EXCEPT ![t] = {}]
  /\ writeSet' = [writeSet EXCEPT ![t] = {}]
  /\ readSet' = [readSet EXCEPT ![t] = {}]
  /\ writes' = [writes EXCEPT ![t] = {}]
  /\ deletes' = [deletes EXCEPT ![t] = {}]
  /\ UNCHANGED <<tree, rooted, pending, up>>

\* A plausible slip in KVTX.Get: a deletion of the transaction is not looked up.
GetForgetsDelete(t, k) == IF pending[t][k] # Absent THEN pending[t][k] ELSE base[t][k]

\* What KVTX.Get answers; an error is Absent. The snapshot is read through its
\* captured root, so it holds base[t] only while t is intact.
GetVal(t, k) ==
  IF k \in delSet[t] THEN Absent
  ELSE IF pending[t][k] # Absent THEN pending[t][k]
  ELSE base[t][k]

\* A Get of a key the transaction deleted returns before the read set grows.
Get(t, k) ==
  /\ up
  /\ t \in open
  /\ k \notin delSet[t]
  /\ readSet' = [readSet EXCEPT ![t] = @ \union {k}]
  /\ UNCHANGED <<tree, rooted, open, intact, base, baseRoot, pending, delSet,
                 writeSet, writes, deletes, up>>

\* A plausible slip in KVTX.Set: the earlier deletion stays recorded for Commit.
SetKeepsDelete(t, k, v) ==
  /\ up
  /\ t \in open
  /\ delSet' = [delSet EXCEPT ![t] = @ \ {k}]
  /\ writeSet' = [writeSet EXCEPT ![t] = @ \union {k}]
  /\ writes' = [writes EXCEPT ![t] = @ \union {k}]
  /\ pending' = [pending EXCEPT ![t][k] = v]
  /\ UNCHANGED <<tree, rooted, open, intact, base, baseRoot, readSet, deletes, up>>

Set(t, k, v) ==
  /\ up
  /\ t \in open
  /\ delSet' = [delSet EXCEPT ![t] = @ \ {k}]
  /\ deletes' = [deletes EXCEPT ![t] = @ \ {k}]
  /\ writeSet' = [writeSet EXCEPT ![t] = @ \union {k}]
  /\ writes' = [writes EXCEPT ![t] = @ \union {k}]
  /\ pending' = [pending EXCEPT ![t][k] = v]
  /\ UNCHANGED <<tree, rooted, open, intact, base, baseRoot, readSet, up>>

\* A plausible slip in KVTX.Del: a key the transaction wrote stays in pending.
DelKeepsPending(t, k) ==
  /\ up
  /\ t \in open
  /\ k \notin delSet[t]
  /\ delSet' = [delSet EXCEPT ![t] = @ \union {k}]
  /\ deletes' = [deletes EXCEPT ![t] = @ \union {k}]
  /\ writeSet' = [writeSet EXCEPT ![t] = @ \ {k}]
  /\ UNCHANGED <<tree, rooted, open, intact, base, baseRoot, readSet, writes,
                 pending, up>>

\* Deleting a key that is already in delSet returns false and changes nothing.
\* The key stays in writes: Commit inserts it again before it deletes it.
Del(t, k) ==
  /\ up
  /\ t \in open
  /\ k \notin delSet[t]
  /\ delSet' = [delSet EXCEPT ![t] = @ \union {k}]
  /\ deletes' = [deletes EXCEPT ![t] = @ \union {k}]
  /\ writeSet' = [writeSet EXCEPT ![t] = @ \ {k}]
  /\ pending' = [pending EXCEPT ![t][k] = IF k \in writeSet[t] THEN Absent ELSE @]
  /\ UNCHANGED <<tree, rooted, open, intact, base, baseRoot, readSet, writes, up>>

-----------------------------------------------------------------------------
(* The end of a transaction. Its object is not used again.                  *)

Drop(t) ==
  /\ open' = open \ {t}
  /\ base' = [base EXCEPT ![t] = Empty]
  /\ baseRoot' = [baseRoot EXCEPT ![t] = FALSE]
  /\ pending' = [pending EXCEPT ![t] = Empty]
  /\ delSet' = [delSet EXCEPT ![t] = {}]
  /\ writeSet' = [writeSet EXCEPT ![t] = {}]
  /\ readSet' = [readSet EXCEPT ![t] = {}]
  /\ writes' = [writes EXCEPT ![t] = {}]
  /\ deletes' = [deletes EXCEPT ![t] = {}]

\* A plausible slip in Commit: the deletions are applied before the writes.
DeletesFirst(t) ==
  [k \in Key |-> IF k \in writes[t]
                 THEN IF pending[t][k] = Absent THEN Nil ELSE pending[t][k]
                 ELSE IF k \in deletes[t] THEN Absent
                 ELSE tree[k]]

\* db.tree after both loops of Commit: every write, then every deletion. A key
\* that was written and then deleted is not in pending and is inserted as nil.
Applied(t) ==
  [k \in Key |-> IF k \in deletes[t] THEN Absent
                 ELSE IF k \in writes[t]
                 THEN IF pending[t][k] = Absent THEN Nil ELSE pending[t][k]
                 ELSE tree[k]]

\* BTree.Delete panics on a tree without a root, and only an insert makes one.
Panics(t) == ~rooted /\ writes[t] = {} /\ deletes[t] # {}

CommitPanic(t) ==
  /\ up
  /\ t \in open
  /\ Panics(t)
  /\ up' = FALSE
  /\ UNCHANGED <<tree, rooted, open, intact, txVars>>

Commit(t) ==
  /\ up
  /\ t \in open
  /\ ~Panics(t)
  /\ tree' = Applied(t)
  /\ rooted' = (rooted \/ writes[t] # {})
  /\ intact' = {}
  /\ Drop(t)
  /\ UNCHANGED up

\* A plausible slip in Abort: the root is not among what is restored, so the
\* half-applied commit that failed stays in memory.
RestoreForgetsRoot(t) ==
  /\ tree' = Applied(t)
  /\ rooted' = (rooted \/ writes[t] # {})
  /\ intact' = intact \ {t}

\* loadMeta(tx.meta) puts db.tree back on the root captured by Begin.
Restore(t) ==
  /\ tree' = base[t]
  /\ rooted' = baseRoot[t]
  /\ intact' = intact \ {t}

\* The same for a root whose pages are no longer as Begin saw them: other
\* commits, or this commit's own page writes, may have reused them. Root 0
\* has no pages and is empty whatever happened.
RestoreStale(t) ==
  /\ tree' \in IF baseRoot[t] THEN Content ELSE {Empty}
  /\ rooted' = baseRoot[t]
  /\ intact' = {}

Abort(t) ==
  /\ up
  /\ t \in open
  /\ \/ t \in intact /\ Restore(t)
     \/ t \notin intact /\ RestoreStale(t)
  /\ Drop(t)
  /\ UNCHANGED up

\* Commit when extendMmap fails: nothing was written, Commit calls Abort.
CommitFailsEarly(t) ==
  /\ up
  /\ t \in open
  /\ ~Panics(t)
  /\ \/ t \in intact /\ Restore(t)
     \/ t \notin intact /\ RestoreStale(t)
  /\ Drop(t)
  /\ UNCHANGED up

\* Commit when a pwrite or an fsync fails: pages were written, some of them
\* over pages of the captured root; Commit calls Abort.
CommitFailsLate(t) ==
  /\ WriteFaults
  /\ up
  /\ t \in open
  /\ ~Panics(t)
  /\ RestoreStale(t)
  /\ Drop(t)
  /\ UNCHANGED up

Next ==
  \E t \in Txn :
    \/ Begin(t)
    \/ \E k \in Key : Get(t, k) \/ Del(t, k)
    \/ \E k \in Key, v \in Value : Set(t, k, v)
    \/ Commit(t) \/ CommitPanic(t) \/ CommitFailsEarly(t) \/ CommitFailsLate(t)
    \/ Abort(t)

Spec == Init /\ [][Next]_vars

-----------------------------------------------------------------------------
(* Properties.                                                              *)

TypeOK ==
  /\ tree \in Content
  /\ rooted \in BOOLEAN
  /\ open \in SUBSET Txn
  /\ intact \in SUBSET open
  /\ base \in [Txn -> Content]
  /\ baseRoot \in [Txn -> BOOLEAN]
  /\ pending \in [Txn -> Content]
  /\ delSet \in [Txn -> SUBSET Key]
  /\ writeSet \in [Txn -> SUBSET Key]
  /\ readSet \in [Txn -> SUBSET Key]
  /\ writes \in [Txn -> SUBSET Key]
  /\ deletes \in [Txn -> SUBSET Key]
  /\ up \in BOOLEAN

(* The three ways a transaction records a change agree: KVTX keeps delSet   *)
(* and deletes, writeSet and writes, and the pending tree, and Get, Del and *)
(* Commit each consult a different one of them (disk.go:315, 410, 438).     *)
SetsAgree ==
  \A t \in Txn :
    /\ delSet[t] = deletes[t]
    /\ writeSet[t] \intersect delSet[t] = {}
    /\ writeSet[t] \subseteq writes[t]
    /\ writes[t] \subseteq writeSet[t] \union deletes[t]
    /\ \A k \in Key : k \in writeSet[t] <=> pending[t][k] # Absent
    /\ t \notin open => pending[t] = Empty

(* A captured root that is still current holds what the tree holds, and a   *)
(* tree without a root holds nothing: what Abort restores (disk.go:331) is  *)
(* then what was there.                                                     *)
RootsAgree ==
  /\ \A t \in intact : base[t] = tree /\ baseRoot[t] = rooted
  /\ \A t \in open : ~baseRoot[t] => base[t] = Empty
  /\ ~rooted => tree = Empty

Inv == TypeOK /\ SetsAgree /\ RootsAgree

(* The abstract store. A key is touched when it is in writeSet or delSet,   *)
(* and a key that was deleted is not in pending: pending is what t left.    *)
Store ==
  INSTANCE TxStore WITH
    store <- tree, fresh <- intact, local <- pending,
    touched <- [t \in Txn |-> writeSet[t] \union delSet[t]]

(* Transactions keep the promise of TxStore: a commit installs exactly the  *)
(* keys the transaction touched, with what it left there, and a rollback of *)
(* a transaction that is intact changes nothing (disk.go:314-335, 422-443). *)
ImplementsTxStore == Store!Spec

(* What KVTX.Get answers from its delete set, its pending tree and its      *)
(* snapshot (disk.go:409-420) is what the abstract store would: the         *)
(* transaction's own changes over the committed content.                    *)
ReadsOwnWrites ==
  \A t \in intact, k \in Key : GetVal(t, k) = Store!Read(t, k)

(* Run one at a time and without write faults, transactions are atomic:     *)
(* nothing but a commit changes the tree, and a commit turns it into        *)
(* exactly what the transaction read at that moment (executor.go:439-446).  *)
AtomicSerially ==
  [][tree' # tree =>
       \E t \in Txn : /\ Commit(t)
                      /\ tree' = [k \in Key |-> GetVal(t, k)]]_vars

(* README.md:125 on the optimistic transactions: "Conflicts are detected at *)
(* commit time; if a record has changed since it was read, the transaction  *)
(* aborts." At the least, no update is lost: a commit finds every key it    *)
(* read and then set as it was when the transaction began.                  *)
ConflictsAbort ==
  [][\A t \in Txn : Commit(t) =>
       \A k \in readSet[t] \intersect writeSet[t] : tree[k] = base[t][k]]_vars
=============================================================================
