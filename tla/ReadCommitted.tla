--------------------------- MODULE ReadCommitted ---------------------------
(***************************************************************************)
(* PostgreSQL under its default isolation level, as the code of app/       *)
(* relies on it: nothing in the repository changes the isolation level,    *)
(* takes an explicit lock or keeps a version column.                       *)
(*                                                                         *)
(*   - a statement reads what was committed when it started, plus the      *)
(*     writes of its own transaction;                                      *)
(*   - INSERT and UPDATE lock the row until the transaction ends, and a    *)
(*     statement that meets a locked row waits, then works on the newest   *)
(*     version of it;                                                      *)
(*   - COMMIT publishes every write of the transaction in one step,        *)
(*     ROLLBACK forgets them, and both release every lock.                 *)
(*                                                                         *)
(* An INSERT locks its (unique) key, which is how a second INSERT of the   *)
(* same key waits for the first transaction to end.                        *)
(***************************************************************************)
CONSTANTS
  Tx,       \* transactions: in this program, one per HTTP request
  Row,      \* primary (or unique) keys, of every table
  NoRow,    \* what a key holds when there is no row
  Nobody    \* the owner of a free lock

VARIABLES
  db,       \* the committed version of every row
  work,     \* the newest version of every row, committed or not
  lock      \* the transaction that wrote it, until that transaction ends

dbVars == <<db, work, lock>>

EmptyLocks == lock = [row \in Row |-> Nobody]

(* What a SELECT of transaction t sees. *)
Visible(t, row) == IF lock[row] = t THEN work[row] ELSE db[row]

(* A statement of t need not wait for this row. *)
Writable(t, row) == lock[row] \in {Nobody, t}

(* An INSERT or UPDATE: val is computed by the caller from work[row]. *)
Store(t, row, val) ==
  /\ Writable(t, row)
  /\ work' = [work EXCEPT ![row] = val]
  /\ lock' = [lock EXCEPT ![row] = t]
  /\ UNCHANGED db

(* A statement that writes several rows: vals gives each its new value. *)
StoreRows(t, vals) ==
  /\ \A row \in DOMAIN vals : Writable(t, row)
  /\ work' = [row \in Row |-> IF row \in DOMAIN vals THEN vals[row] ELSE work[row]]
  /\ lock' = [row \in Row |-> IF row \in DOMAIN vals THEN t ELSE lock[row]]
  /\ UNCHANGED db

Release(t) == lock' = [row \in Row |-> IF lock[row] = t THEN Nobody ELSE lock[row]]

CommitTx(t) ==
  /\ db' = [row \in Row |-> IF lock[row] = t THEN work[row] ELSE db[row]]
  /\ Release(t)
  /\ UNCHANGED work

RollbackTx(t) ==
  /\ work' = [row \in Row |-> IF lock[row] = t THEN db[row] ELSE work[row]]
  /\ Release(t)
  /\ UNCHANGED db
=============================================================================
