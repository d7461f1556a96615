-------------------------- MODULE StockLedgerClaims --------------------------
(***************************************************************************)
(* StockLedger against its abstract specification, and against two things  *)
(* the repository says of the ledger in so many words.                     *)
(***************************************************************************)
EXTENDS StockLedger, SequencesExt

(* An open transaction is one running request, wherever its steps are. *)
Atomic == INSTANCE AtomicLedger WITH
    status <- [r \in Requests |-> CASE pc[r] = "idle" -> "waiting"
                                    [] pc[r] \in Open -> "running"
                                    [] OTHER -> pc[r]],
    suspect <- unlockedReads

(* Transactions are all or nothing and serialise: interleaved under their   *)
(* row locks, rolled back by refusals, conflicts, deadlocks and timeouts at *)
(* any line, they leave the rows and the ledger one would get by running    *)
(* each committed one alone.                                                *)
ImplementsAtomicLedger == Atomic!Spec

(* The schema's comment on StockMovement: the signed sum of a pair's        *)
(* movements always reconciles to its stock level, `type` carries the       *)
(* direction.  The reading of the direction is the one of the end-to-end    *)
(* test and of the seed: a row that is not inbound decreases the stock.     *)
SignedSum(rows) ==
    FoldLeft(LAMBDA sum, row : IF row.type \in IncreasingTypes THEN sum + row.quantity
                               ELSE sum - row.quantity,
             0, rows)
SignedSumReconciles ==
    \A p \in Pairs \ unlockedReads : levels[p] # NoRow =>
        SignedSum(movements[p]) = levels[p].quantity

(* The service's comment on the race to create a row: the loser's upsert    *)
(* falls through to an update "after which it re-reads under the lock".     *)
(* Then no write would rest on a stale row, and the ledger of every pair    *)
(* would account for its quantity, however first movements race.            *)
AlwaysReconciles ==
    \A p \in Pairs :
        /\ Unbroken(movements[p], 0)
        /\ Balance(movements[p], 0) = IF levels[p] = NoRow THEN 0 ELSE levels[p].quantity
=============================================================================
