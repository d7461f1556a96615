----------------------------- MODULE AtomicLedger ----------------------------
(***************************************************************************)
(* What StockLedgerService promises its callers: a transaction happens all *)
(* at once or not at all.  There are no locks here and no lines in flight. *)
(* A request either applies its whole sequence of changes to the rows as   *)
(* they stand, every change accepted on the row the one before it left,    *)
(* and appends their ledger rows, or it changes nothing.                   *)
(*                                                                         *)
(* The promise is made pair by pair.  Once a pair is suspect, because a    *)
(* request took an unlocked row of it for the current one, nothing is said *)
(* about its quantity; the other pairs of the same request keep it.        *)
(***************************************************************************)
EXTENDS StockRows, SequencesExt

CONSTANTS Requests, Programs, KnownPairs, Opening

VARIABLES levels, movements, status, program, suspect

vars == <<levels, movements, status, program, suspect>>

Init ==
    /\ levels = Opening
    /\ movements = [p \in Pairs |->
          IF Opening[p] = NoRow \/ Opening[p].quantity = 0 THEN <<>>
          ELSE << [type |-> "INBOUND", quantity |-> Opening[p].quantity,
                   balanceAfter |-> Opening[p].quantity] >>]
    /\ status = [r \in Requests |-> "waiting"]
    /\ program = [r \in Requests |-> <<>>]
    /\ suspect = {}

Begin(r) ==
    /\ status[r] = "waiting"
    /\ status' = [status EXCEPT ![r] = "running"]
    /\ \E prog \in Programs : program' = [program EXCEPT ![r] = prog]
    /\ UNCHANGED <<levels, movements, suspect>>

(* One change of a sequence, on what the changes before it have left. *)
Accept(so_far, change) ==
    LET level == IF so_far.level = NoRow THEN ZeroLevel ELSE so_far.level IN
    [level |-> RowAfter(change, level, level),
     rows |-> so_far.rows \o LedgerRowsOf(change, level),
     accepted |-> /\ so_far.accepted
                  /\ ~Malformed(change)
                  /\ so_far.level = NoRow => change.pair \in KnownPairs
                  /\ ~RefusedOn(change, level)
                  /\ ~OutOfRange(change, level)]

(* What each prefix of a sequence leaves of one pair, from a given row. *)
Trail(row, prog, p) ==
    LET after[i \in 0..Len(prog)] ==
            IF i = 0 THEN [level |-> row, rows |-> <<>>, accepted |-> TRUE]
            ELSE IF prog[i].pair # p THEN after[i - 1]
            ELSE Accept(after[i - 1], prog[i])
    IN after

(* A whole sequence, as one pair sees it. *)
Outcome(prog, p) == Trail(levels[p], prog, p)[Len(prog)]

Commit(r) ==
    /\ status[r] = "running"
    /\ status' = [status EXCEPT ![r] = "committed"]
    /\ program' = [program EXCEPT ![r] = <<>>]
    /\ \A p \in Pairs \ suspect :
          LET outcome == Outcome(program[r], p) IN
          /\ outcome.accepted
          /\ levels'[p] = outcome.level
          /\ movements'[p] = movements[p] \o outcome.rows
    /\ \A p \in suspect :
          /\ levels'[p] \in Level
          /\ IsPrefix(movements[p], movements'[p])
    /\ UNCHANGED suspect

RollBack(r) ==
    /\ status[r] = "running"
    /\ status' = [status EXCEPT ![r] = "rolledback"]
    /\ program' = [program EXCEPT ![r] = <<>>]
    /\ UNCHANGED <<levels, movements, suspect>>

(* A replenishment rule opens an empty row. *)
OpenRow(p) ==
    /\ p \in KnownPairs
    /\ levels[p] = NoRow
    /\ levels' = [levels EXCEPT ![p] = ZeroLevel]
    /\ UNCHANGED <<movements, status, program, suspect>>

(* A running request takes an unlocked row of p for the current one. *)
Distrust(p) ==
    /\ \E r \in Requests : /\ status[r] = "running"
                           /\ \E i \in 1..Len(program[r]) : program[r][i].pair = p
    /\ levels[p] # NoRow
    /\ suspect' = suspect \cup {p}
    /\ UNCHANGED <<levels, movements, status, program>>

Next ==
    \/ \E r \in Requests : Begin(r) \/ Commit(r) \/ RollBack(r)
    \/ \E p \in Pairs : OpenRow(p) \/ Distrust(p)

Spec == Init /\ [][Next]_vars
=============================================================================
