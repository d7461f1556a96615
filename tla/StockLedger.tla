----------------------------- MODULE StockLedger -----------------------------
(***************************************************************************)
(* StockLedgerService under concurrent requests.                           *)
(*                                                                         *)
(* A request is one interactive transaction that applies a sequence of     *)
(* stock changes, row by row: a manual adjustment has one change, an order *)
(* or a transfer one per line.  Each change runs lockOrCreateLevel, decides *)
(* on the row it got, and writes; the row locks are held to the end of the *)
(* transaction.  Postgres runs at READ COMMITTED: a request sees committed *)
(* rows and its own writes, and nothing of another open transaction.       *)
(*                                                                         *)
(* Two facts of the database client are part of the model.  An upsert with *)
(* an empty update is a SELECT followed, when nothing is found, by an      *)
(* INSERT: the SELECT takes no lock.  And an interactive transaction that  *)
(* outlives its time limit, or whose process dies, is rolled back.         *)
(***************************************************************************)
EXTENDS StockRows, FiniteSets

CONSTANTS Requests,    \* the requests that may run, each of them once
          NoRequest,   \* the owner of a row nobody has locked
          Programs,    \* the sequences of changes a request may carry
          KnownPairs,  \* the pairs whose product exists in the organisation
          Opening      \* the row of each pair before the first request

(* What the services' callers can put in a transaction: movements whose    *)
(* check is off only take what their own reservation covers.               *)
CallerChange(c) ==
    /\ c \in Change
    /\ c.respects \/ c.delta >= c.reservedDelta \/ c.kind = "reservation"
    /\ c.kind = "reservation" => c.delta = 0

ASSUME NoRequestAssumption == NoRequest \notin Requests
ASSUME ProgramsAssumption ==
    \A prog \in Programs :
        /\ prog \in Seq(Change) /\ prog # <<>>
        /\ \A i \in 1..Len(prog) : CallerChange(prog[i])
ASSUME OpeningAssumption ==
    /\ Opening \in [Pairs -> Level \cup {NoRow}]
    /\ \A p \in Pairs : Opening[p] # NoRow =>
          /\ NonNegative(Opening[p]) /\ Covered(Opening[p])
          /\ Opening[p].quantity <= MaxInt /\ Opening[p].reserved <= MaxInt

VARIABLES
    levels,         \* committed stock_levels rows
    movements,      \* committed stock_movements rows of each pair, oldest first
    lock,           \* who has locked, or inserted and not committed, a row
    writes,         \* rows each request has written and not committed
    drafts,         \* ledger rows each request has inserted and not committed
    pc,             \* where each request stands
    program,        \* the changes it applies
    line,           \* the change it is at
    read,           \* the row lockOrCreateLevel returned to it
    unlockedReads   \* history: pairs a request read through the upsert's SELECT

txVars == <<writes, drafts, lock>>
vars == <<levels, movements, lock, writes, drafts, pc, program, line, read, unlockedReads>>

Open == {"select", "upsert", "insert", "update", "commit"}
Settled == {"committed", "rolledback"}

OrNoRow(S) == S \cup {NoRow}

(* A pair's ledger before the first request: its stock came in once. *)
OpeningRows(p) ==
    IF Opening[p] = NoRow THEN <<>>
    ELSE LedgerRowsOf(RecordIn(p, Opening[p].quantity), ZeroLevel)

Nothing == [p \in Pairs |-> NoRow]
NoDrafts == [p \in Pairs |-> <<>>]

Init ==
    /\ levels = Opening
    /\ movements = [p \in Pairs |-> OpeningRows(p)]
    /\ lock = [p \in Pairs |-> NoRequest]
    /\ writes = [r \in Requests |-> Nothing]
    /\ drafts = [r \in Requests |-> NoDrafts]
    /\ pc = [r \in Requests |-> "idle"]
    /\ program = [r \in Requests |-> <<>>]
    /\ line = [r \in Requests |-> 1]
    /\ read = [r \in Requests |-> NoRow]
    /\ unlockedReads = {}

-----------------------------------------------------------------------------
(* The change a request is at, its row, and what the request sees of it. *)

CurrentChange(r) == program[r][line[r]]
CurrentPair(r) == CurrentChange(r).pair
SeesCommittedOnly(r, p) == levels[p]   \* mutant of Visible: blind to its own writes
Visible(r, p) == IF writes[r][p] # NoRow THEN writes[r][p] ELSE levels[p]
NeverWaits(r, p) == TRUE               \* mutant of FreeFor: no row locks
FreeFor(r, p) == lock[p] \in {NoRequest, r}

Goto(r, label) == pc' = [pc EXCEPT ![r] = label]

(* Mutant of End: the locks outlive the transaction. *)
EndKeepingLocks(r, outcome) ==
    /\ Goto(r, outcome)
    /\ writes' = [writes EXCEPT ![r] = Nothing]
    /\ drafts' = [drafts EXCEPT ![r] = NoDrafts]
    /\ program' = [program EXCEPT ![r] = <<>>]
    /\ line' = [line EXCEPT ![r] = 1]
    /\ read' = [read EXCEPT ![r] = NoRow]
    /\ UNCHANGED <<lock, unlockedReads>>

(* The end of a request's transaction: its rows are free, it is forgotten. *)
End(r, outcome) ==
    /\ Goto(r, outcome)
    /\ lock' = [p \in Pairs |-> IF lock[p] = r THEN NoRequest ELSE lock[p]]
    /\ writes' = [writes EXCEPT ![r] = Nothing]
    /\ drafts' = [drafts EXCEPT ![r] = NoDrafts]
    /\ program' = [program EXCEPT ![r] = <<>>]
    /\ line' = [line EXCEPT ![r] = 1]
    /\ read' = [read EXCEPT ![r] = NoRow]
    /\ UNCHANGED unlockedReads

(* Mutant of Rollback: each line is its own transaction, so that those      *)
(* before the failing one stay applied.                                     *)
KeepsAppliedLines(r) ==
    /\ levels' = [p \in Pairs |-> Visible(r, p)]
    /\ movements' = [p \in Pairs |-> movements[p] \o drafts[r][p]]
    /\ End(r, "rolledback")

(* A rollback undoes every line the request has applied. *)
Rollback(r) == End(r, "rolledback") /\ UNCHANGED <<levels, movements>>

Begin(r) ==
    /\ pc[r] = "idle"
    /\ \E prog \in Programs : program' = [program EXCEPT ![r] = prog]
    /\ Goto(r, "select")
    /\ UNCHANGED <<levels, movements, txVars, line, read, unlockedReads>>

(* 400: the change contradicts its type or changes nothing. *)
RejectMalformed(r) ==
    /\ pc[r] = "select"
    /\ Malformed(CurrentChange(r))
    /\ Rollback(r)

(* Mutant of LockRow: a plain SELECT. *)
ReadRow(r) ==
    LET p == CurrentPair(r) IN
    /\ pc[r] = "select"
    /\ ~Malformed(CurrentChange(r))
    /\ Visible(r, p) # NoRow
    /\ read' = [read EXCEPT ![r] = Visible(r, p)]
    /\ Goto(r, "update")
    /\ UNCHANGED <<levels, movements, txVars, program, line, unlockedReads>>

(* SELECT ... FOR UPDATE finds the row, waits for its lock and returns it. *)
LockRow(r) ==
    LET p == CurrentPair(r) IN
    /\ pc[r] = "select"
    /\ ~Malformed(CurrentChange(r))
    /\ Visible(r, p) # NoRow
    /\ FreeFor(r, p)
    /\ lock' = [lock EXCEPT ![p] = r]
    /\ read' = [read EXCEPT ![r] = Visible(r, p)]
    /\ Goto(r, "update")
    /\ UNCHANGED <<levels, movements, writes, drafts, program, line, unlockedReads>>

(* It finds no row, or one that another open transaction inserted. *)
MissRow(r) ==
    /\ pc[r] = "select"
    /\ ~Malformed(CurrentChange(r))
    /\ Visible(r, CurrentPair(r)) = NoRow
    /\ Goto(r, "upsert")
    /\ UNCHANGED <<levels, movements, txVars, program, line, read, unlockedReads>>

(* 400: a first movement of a product the organisation does not have. *)
RejectUnknownProduct(r) ==
    /\ pc[r] = "upsert"
    /\ CurrentPair(r) \notin KnownPairs
    /\ Rollback(r)

(* The upsert's SELECT finds a row committed since, and the service takes it *)
(* for the row it decides on: nothing locks it and nothing reads it again.   *)
FindUnlocked(r) ==
    LET p == CurrentPair(r) IN
    /\ pc[r] = "upsert"
    /\ p \in KnownPairs
    /\ levels[p] # NoRow
    /\ read' = [read EXCEPT ![r] = levels[p]]
    /\ unlockedReads' = unlockedReads \cup {p}
    /\ Goto(r, "update")
    /\ UNCHANGED <<levels, movements, txVars, program, line>>

(* The upsert's SELECT finds nothing: it goes on to its INSERT. *)
MissAgain(r) ==
    /\ pc[r] = "upsert"
    /\ CurrentPair(r) \in KnownPairs
    /\ levels[CurrentPair(r)] = NoRow
    /\ Goto(r, "insert")
    /\ UNCHANGED <<levels, movements, txVars, program, line, read, unlockedReads>>

(* The INSERT, once no open transaction holds the same unique key. *)
InsertRow(r) ==
    LET p == CurrentPair(r) IN
    /\ pc[r] = "insert"
    /\ levels[p] = NoRow
    /\ lock[p] = NoRequest
    /\ lock' = [lock EXCEPT ![p] = r]
    /\ writes' = [writes EXCEPT ![r][p] = ZeroLevel]
    /\ read' = [read EXCEPT ![r] = ZeroLevel]
    /\ Goto(r, "update")
    /\ UNCHANGED <<levels, movements, drafts, program, line, unlockedReads>>

(* Another transaction committed the key first: a unique violation. *)
InsertConflict(r) ==
    /\ pc[r] = "insert"
    /\ levels[CurrentPair(r)] # NoRow
    /\ Rollback(r)

(* 409: not enough stock, or not enough of it free of promises. *)
Refuse(r) ==
    /\ pc[r] = "update"
    /\ RefusedOn(CurrentChange(r), read[r])
    /\ Rollback(r)

(* The UPDATE fails on the range of the column. *)
RejectOutOfRange(r) ==
    /\ pc[r] = "update"
    /\ ~RefusedOn(CurrentChange(r), read[r])
    /\ OutOfRange(CurrentChange(r), read[r])
    /\ FreeFor(r, CurrentPair(r))
    /\ Rollback(r)

(* The UPDATE of the row, to values computed from what was read, and the    *)
(* ledger row.  It waits for the row's lock if the read did not take it.    *)
UpdateRow(r) ==
    LET p == CurrentPair(r)
        c == CurrentChange(r)
    IN
    /\ pc[r] = "update"
    /\ ~RefusedOn(c, read[r])
    /\ ~OutOfRange(c, read[r])
    /\ FreeFor(r, p)
    /\ lock' = [lock EXCEPT ![p] = r]
    /\ writes' = [writes EXCEPT ![r][p] = RowAfter(c, read[r], Visible(r, p))]
    /\ drafts' = [drafts EXCEPT ![r][p] = @ \o LedgerRowsOf(c, read[r])]
    /\ line' = [line EXCEPT ![r] = @ + 1]
    /\ Goto(r, IF line[r] = Len(program[r]) THEN "commit" ELSE "select")
    /\ read' = [read EXCEPT ![r] = NoRow]
    /\ UNCHANGED <<levels, movements, program, unlockedReads>>

(* The transaction ends: its rows become visible, its locks are free. *)
Commit(r) ==
    /\ pc[r] = "commit"
    /\ levels' = [p \in Pairs |-> Visible(r, p)]
    /\ movements' = [p \in Pairs |-> movements[p] \o drafts[r][p]]
    /\ End(r, "committed")

-----------------------------------------------------------------------------
(* What the database and the runtime do to a transaction. *)

(* A request that cannot go on because another one holds its row. *)
Blocked(r) ==
    /\ ~FreeFor(r, CurrentPair(r))
    /\ \/ pc[r] = "select" /\ Visible(r, CurrentPair(r)) # NoRow
                           /\ ~Malformed(CurrentChange(r))
       \/ pc[r] = "insert" /\ levels[CurrentPair(r)] = NoRow
       \/ pc[r] = "update" /\ ~RefusedOn(CurrentChange(r), read[r])

(* Requests that wait for each other, one of which Postgres rolls back. *)
Deadlocked(S) ==
    /\ S # {}
    /\ \A r \in S : /\ pc[r] \in Open \ {"commit"}
                    /\ Blocked(r)
                    /\ lock[CurrentPair(r)] \in S

DeadlockVictim(r) ==
    /\ \E S \in SUBSET Requests : r \in S /\ Deadlocked(S)
    /\ Rollback(r)

(* The transaction's time limit passes, or the API process dies. *)
Timeout(r) ==
    /\ pc[r] \in Open
    /\ Rollback(r)

(* A replenishment rule creates the row of a pair that has none; on an     *)
(* existing row it writes only the columns this model leaves out.          *)
SetReplenishmentRule(p) ==
    /\ p \in KnownPairs
    /\ levels[p] = NoRow
    /\ lock[p] = NoRequest
    /\ levels' = [levels EXCEPT ![p] = ZeroLevel]
    /\ UNCHANGED <<movements, txVars, pc, program, line, read, unlockedReads>>

Step(r) ==
    \/ RejectMalformed(r) \/ LockRow(r) \/ MissRow(r)
    \/ RejectUnknownProduct(r) \/ FindUnlocked(r) \/ MissAgain(r)
    \/ InsertRow(r) \/ InsertConflict(r)
    \/ Refuse(r) \/ RejectOutOfRange(r) \/ UpdateRow(r)
    \/ Commit(r)

(* Every request has been answered and no row is left to create. *)
Quiet ==
    /\ \A r \in Requests : pc[r] \in Settled
    /\ UNCHANGED vars

Next ==
    \/ \E r \in Requests : Begin(r) \/ Step(r) \/ DeadlockVictim(r) \/ Timeout(r)
    \/ \E p \in Pairs : SetReplenishmentRule(p)
    \/ Quiet

Spec == Init /\ [][Next]_vars

(* The server runs every request it has begun and Postgres resolves every  *)
(* deadlock; nothing obliges a user to send one, or a limit to expire.     *)
Fairness == \A r \in Requests : WF_vars(Step(r)) /\ WF_vars(DeadlockVictim(r))

FairSpec == Spec /\ Fairness
-----------------------------------------------------------------------------
(* A request that is at a line is at one its program has, past the checks  *)
(* that come before the row, and one that writes has read a row that still *)
(* exists.                                                                 *)
WellPlaced(r) ==
    /\ pc[r] \in Open => program[r] \in Programs
    /\ pc[r] \in Open \ {"commit"} => line[r] \in 1..Len(program[r])
    /\ pc[r] \notin Open => line[r] = 1
    /\ pc[r] \in {"upsert", "insert", "update"} => ~Malformed(CurrentChange(r))
    /\ pc[r] = "update" => read[r] # NoRow /\ Visible(r, CurrentPair(r)) # NoRow

(* Every variable has its type, and every request is where its code can be. *)
TypeOK ==
    /\ levels \in [Pairs -> OrNoRow(Level)]
    /\ movements \in [Pairs -> Seq(Movement)]
    /\ lock \in [Pairs -> Requests \cup {NoRequest}]
    /\ writes \in [Requests -> [Pairs -> OrNoRow(Level)]]
    /\ drafts \in [Requests -> [Pairs -> Seq(Movement)]]
    /\ pc \in [Requests -> {"idle"} \cup Open \cup Settled]
    /\ program \in [Requests -> Programs \cup {<<>>}]
    /\ line \in [Requests -> Nat]
    /\ read \in [Requests -> OrNoRow(Level)]
    /\ unlockedReads \subseteq Pairs
    /\ \A r \in Requests : WellPlaced(r)

(* Concurrent dispatches never drive a row below zero, on hand or reserved, *)
(* and no row leaves the range of its columns: "rather than both reading    *)
(* 1 available and driving stock negative".  It holds on every pair, even   *)
(* one whose row was read without its lock.                                 *)
LevelsNonNegative ==
    \A p \in Pairs : levels[p] # NoRow =>
        /\ NonNegative(levels[p])
        /\ levels[p].quantity <= MaxInt /\ levels[p].reserved <= MaxInt

(* Units promised to sales orders stay on the shelf, whatever dispatches,   *)
(* adjustments and allocations run at the same time, on every pair whose    *)
(* row was always read under its lock.                                      *)
ReservationsCovered ==
    \A p \in Pairs \ unlockedReads : levels[p] # NoRow => Covered(levels[p])

(* "Nothing can change stock without leaving a trace": the ledger of a pair *)
(* starts at zero, each row accounts for the step from the balance of the   *)
(* row before it, and the last balance is the quantity on hand.  Only a row *)
(* read outside its lock can break it.                                      *)
LedgerReconciles ==
    \A p \in Pairs \ unlockedReads :
        /\ Unbroken(movements[p], 0)
        /\ Balance(movements[p], 0) = IF levels[p] = NoRow THEN 0 ELSE levels[p].quantity

(* What a request decides on is the row as it stands, from the read to the  *)
(* write: nobody moves stock between the check and the UPDATE.              *)
DecidesOnCurrentRow ==
    \A r \in Requests :
        pc[r] = "update" /\ CurrentPair(r) \notin unlockedReads =>
            /\ lock[CurrentPair(r)] = r
            /\ read[r] = Visible(r, CurrentPair(r))

(* Every transaction that starts is committed or rolled back, however the   *)
(* requests lock each other's rows: deadlocks are broken and locks released. *)
RequestsSettle ==
    \A r \in Requests : (pc[r] \in Open) ~> (pc[r] \in Settled)
=============================================================================
