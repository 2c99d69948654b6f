----------------------------- MODULE Transactions -----------------------------
(* pkg/database: callers borrow the client of a generation's pool, run       *)
(* transactions on versioned rows through repositories bound to them, and    *)
(* delete rows softly; the database locks the rows a transaction has written *)
(* and looks at the committed row when a statement gets its lock.            *)
EXTENDS Integers, Functions

CONSTANTS
    Borrowers,  \* the callers of database.Access
    Rows,       \* the rows of a table whose schema has a version and a soft-delete field
    Total,      \* what the values of the rows add up to
    Budget      \* how many times the callers call, all together

VARIABLES
    row,        \* the committed rows: [value, version, deleted]
    lock,       \* per row: the transaction that has written it, or Free
    tx,         \* per caller: where WithinTx is, what it read and what it wrote
    borrowed,   \* the callers whose borrowed client is open
    pool,       \* "open" or "closed"
    ledger,     \* history: per row, the value that the committed transfers add up to
    budget

dbVars == <<row, lock, tx, borrowed, pool, ledger, budget>>

Free == "free"
\* A transfer has a row to take from and one to give to.
ASSUME DatabaseAssumption ==
    /\ Free \notin Borrowers
    /\ \E a, b \in Rows : a # b /\ Rows = {a, b}
    /\ Total \in Nat /\ Budget \in Nat

Unread == [value |-> 0, version |-> 0]
NotCalled == [at |-> "idle", seen |-> [k \in Rows |-> Unread], wrote |-> {}, takes |-> CHOOSE k \in Rows : TRUE]
Outside == {"idle", "applied", "failed", "unknown"}
Sum(values) == FoldFunction(+, 0, values)

DbInit ==
    /\ row \in [Rows -> {[value |-> v, version |-> 1, deleted |-> FALSE] : v \in 0 .. Total}]
    /\ Sum([k \in Rows |-> row[k].value]) = Total
    /\ ledger = [k \in Rows |-> row[k].value]
    /\ lock = [k \in Rows |-> Free]
    /\ tx = [c \in Borrowers |-> NotCalled]
    /\ borrowed = {} /\ pool = "open" /\ budget = Budget

-----------------------------------------------------------------------------
(* Access.WithinTx: lease, Borrow, Begin.  Transfers take one from a row and add it to the other. *)
Begin(c) ==
    /\ tx[c].at \in Outside /\ budget > 0
    /\ budget' = budget - 1
    /\ IF pool = "closed"
       THEN tx' = [tx EXCEPT ![c].at = "failed"] /\ UNCHANGED borrowed
       ELSE \E from \in Rows :
                /\ tx' = [tx EXCEPT ![c] = [NotCalled EXCEPT !.at = "work", !.takes = from]]
                /\ borrowed' = borrowed \cup {c}
    /\ UNCHANGED <<row, lock, pool, ledger>>

(* BaseRepository.query: what is deleted softly is not there. *)
Visible(k) == ~row[k].deleted

(* First in the transaction; a row that is not found ends the callback with an error. *)
Read(c, k) ==
    /\ tx[c].at = "work" /\ tx[c].seen[k] = Unread
    /\ IF Visible(k)
       THEN tx' = [tx EXCEPT ![c].seen[k] = [value |-> row[k].value, version |-> row[k].version]]
       ELSE tx' = [tx EXCEPT ![c].at = "error"]
    /\ UNCHANGED <<row, lock, borrowed, pool, ledger, budget>>

\* Faulty: an update whose filter does not ask for the version.
FilterID(c, k) == Visible(k)

(* The condition of Update: the key, the version that was read, and not deleted. *)
Filter(c, k) == Visible(k) /\ row[k].version = tx[c].seen[k].version

(* BaseRepository.Update with its mandatory version filter: it waits for the    *)
(* lock of the row, and then either changes one row or reports the conflict.    *)
Update(c, k) ==
    /\ tx[c].at = "work" /\ k \notin tx[c].wrote /\ \A o \in Rows : tx[c].seen[o] # Unread
    /\ lock[k] = Free
    /\ IF Filter(c, k)
       THEN lock' = [lock EXCEPT ![k] = c] /\ tx' = [tx EXCEPT ![c].wrote = @ \cup {k}]
       ELSE tx' = [tx EXCEPT ![c].at = "error"] /\ UNCHANGED lock
    /\ UNCHANGED <<row, borrowed, pool, ledger, budget>>

(* A statement fails, the context ends, or the callback gives up or panics. *)
Break(c) ==
    /\ tx[c].at = "work"
    /\ \E end \in {"error", "panic"} : tx' = [tx EXCEPT ![c].at = end]
    /\ UNCHANGED <<row, lock, borrowed, pool, ledger, budget>>

Released(c) == [k \in Rows |-> IF lock[k] = c THEN Free ELSE lock[k]]

CallbackReturns(c) ==
    /\ tx[c].at = "work" /\ tx[c].wrote = Rows
    /\ tx' = [tx EXCEPT ![c].at = "commit"]
    /\ UNCHANGED <<row, lock, borrowed, pool, ledger, budget>>

Stored(c, k) ==
    IF k \notin tx[c].wrote THEN row[k]
    ELSE [row[k] EXCEPT !.version = @ + 1,
                        !.value = tx[c].seen[k].value + (IF k = tx[c].takes THEN -1 ELSE 1)]

Credited(c, k) ==
    IF k \notin tx[c].wrote THEN ledger[k]
    ELSE ledger[k] + (IF k = tx[c].takes THEN -1 ELSE 1)

(* Commit: done, refused, or done although the answer was lost. *)
Commit(c) ==
    /\ tx[c].at = "commit"
    /\ \E outcome \in {"applied", "failed", "unknown"}, stored \in BOOLEAN :
          /\ outcome = "applied" => stored
          /\ outcome = "failed" => ~stored
          /\ row' = IF stored THEN [k \in Rows |-> Stored(c, k)] ELSE row
          /\ ledger' = IF stored THEN [k \in Rows |-> Credited(c, k)] ELSE ledger
          /\ tx' = [tx EXCEPT ![c].at = outcome]
    /\ lock' = Released(c) /\ borrowed' = borrowed \ {c}
    /\ UNCHANGED <<pool, budget>>

(* What the deferred rollback of WithinTx leaves, after an error and after a panic alike. *)
Undone(c) == UNCHANGED <<row, ledger>>

Rollback(c) ==
    /\ tx[c].at \in {"error", "panic"}
    /\ Undone(c)
    /\ tx' = [tx EXCEPT ![c].at = "failed"]
    /\ lock' = Released(c) /\ borrowed' = borrowed \ {c}
    /\ UNCHANGED <<pool, budget>>

-----------------------------------------------------------------------------
(* SoftDelete with its version filter, outside a transaction, by who just saw the row. *)
Delete(c, k) ==
    /\ tx[c].at \in Outside /\ pool = "open" /\ budget > 0
    /\ budget' = budget - 1
    /\ lock[k] = Free /\ Visible(k)
    /\ row' = [row EXCEPT ![k].deleted = TRUE, ![k].version = @ + 1]
    /\ UNCHANGED <<lock, tx, borrowed, pool, ledger>>

(* The terminal finalizer: the kernel calls it when no lease is left. *)
CanClose == borrowed = {}

ClosePool ==
    /\ pool = "open" /\ CanClose
    /\ pool' = "closed"
    /\ UNCHANGED <<row, lock, tx, borrowed, ledger, budget>>

DbNext ==
    \/ ClosePool
    \/ \E c \in Borrowers :
          \/ Begin(c) \/ Break(c) \/ CallbackReturns(c) \/ Commit(c) \/ Rollback(c)
          \/ \E k \in Rows : Read(c, k) \/ Update(c, k) \/ Delete(c, k)

DbSpec == DbInit /\ [][DbNext]_dbVars

-----------------------------------------------------------------------------
DbTypeOK ==
    /\ row \in [Rows -> [value : Int, version : Nat, deleted : BOOLEAN]]
    /\ lock \in [Rows -> Borrowers \cup {Free}]
    /\ \A c \in Borrowers :
          /\ tx[c].at \in Outside \cup {"work", "error", "panic", "commit"}
          /\ tx[c].seen \in [Rows -> [value : Int, version : Nat]]
          /\ tx[c].wrote \subseteq Rows /\ tx[c].takes \in Rows
    /\ borrowed \subseteq Borrowers /\ pool \in {"open", "closed"} /\ budget \in 0 .. Budget

(* A transaction is stored as a whole or not at all, whatever ends its callback: *)
(* the transfers never change what the rows add up to, and a caller that is told *)
(* of a failure, or panicked, has left neither a write nor a lock                *)
(* (gormClient.WithinTx).                                                        *)
TransactionsAreWhole ==
    /\ Sum([k \in Rows |-> row[k].value]) = Total
    /\ \A k \in Rows : lock[k] # Free => lock[k] \in borrowed

(* No transfer overwrites another: each row holds what all the stored transfers  *)
(* add up to, because an update only hits the version that its caller read       *)
(* (BaseRepository.Update and requireVersionFilter).                             *)
UpdatesAreNotLost == \A k \in Rows : row[k].value = ledger[k]

(* What was deleted softly is never changed, nor deleted, again. *)
DeletedStays == [][\A k \in Rows : row[k].deleted => row'[k] = row[k]]_dbVars

(* What a caller of the database may rely on: whole transactions, no lost        *)
(* update, and what is deleted stays deleted.                                    *)
TransactionsAreSound == [](DbTypeOK /\ TransactionsAreWhole /\ UpdatesAreNotLost) /\ DeletedStays
=============================================================================
