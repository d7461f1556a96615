-------------------------- MODULE StockLedgerProofs --------------------------
(***************************************************************************)
(* Proofs about StockLedger, for every number of requests, every set of    *)
(* pairs, every opening stock and every program its callers may carry.     *)
(* The last part is the refinement of AtomicLedger.                        *)
(***************************************************************************)
EXTENDS StockLedgerClaims, StockLemmas

(* All the ways a transaction ends without effect are one rollback. *)
LEMMA NextCases ==
    ASSUME Next
    PROVE  \/ \E r \in Requests :
                 \/ Begin(r) \/ LockRow(r) \/ MissRow(r)
                 \/ FindUnlocked(r) \/ MissAgain(r) \/ InsertRow(r)
                 \/ UpdateRow(r) \/ Commit(r)
                 \/ pc[r] \in Open /\ Rollback(r)
           \/ \E p \in Pairs : SetReplenishmentRule(p)
           \/ UNCHANGED vars
  BY DEF Next, Step, RejectMalformed, RejectUnknownProduct, InsertConflict, Refuse,
         RejectOutOfRange, DeadlockVictim, Deadlocked, Timeout, Open, Quiet

(* A request that is at a line is at a change its caller may build. *)
LEMMA CurrentChangeType ==
    ASSUME TypeOK, NEW r \in Requests, pc[r] \in Open \ {"commit"}
    PROVE  /\ CurrentChange(r) \in Change
           /\ CallerChange(CurrentChange(r))
           /\ CurrentPair(r) \in Pairs
           /\ Len(program[r]) \in Nat
           /\ line[r] \in 1..Len(program[r])
  <1>1. program[r] \in Programs /\ line[r] \in 1..Len(program[r])
    BY DEF TypeOK, WellPlaced, Open
  <1>2. program[r] \in Seq(Change) /\ CallerChange(program[r][line[r]])
    BY <1>1, ProgramsAssumption
  <1>3. CurrentChange(r) \in Change
    BY <1>1, <1>2 DEF CurrentChange
  <1> QED
    BY <1>1, <1>2, <1>3 DEF CurrentChange, CurrentPair, Change

(* The row an upsert inserts is a row. *)
LEMMA ZeroLevelType == ZeroLevel \in Level /\ ZeroLevel # NoRow
  BY NoRowAssumption DEF ZeroLevel, Level

(* What a change writes is a row, and what it appends are ledger rows. *)
LEMMA RowAfterType ==
    ASSUME NEW c \in Change, NEW l \in Level, NEW m \in Level
    PROVE  /\ RowAfter(c, l, m) \in Level
           /\ LedgerRowsOf(c, l) \in Seq(Movement)
  <1>1. RowAfter(c, l, m) \in Level
    BY DEF RowAfter, NextQuantity, NextReserved, Level, Change
  <1>2. CASE c.delta = 0
    BY <1>1, <1>2 DEF LedgerRowsOf
  <1>3. CASE c.delta # 0
    <2>1. [type |-> c.type, quantity |-> Magnitude(c.delta),
           balanceAfter |-> NextQuantity(c, l)] \in Movement
      BY DEF Movement, Magnitude, NextQuantity, Change, Level
    <2> QED
      BY <1>1, <1>3, <2>1 DEF LedgerRowsOf
  <1> QED
    BY <1>2, <1>3

(* The initial ledger of a pair: one inbound row, or none. *)
LEMMA OpeningRowsType ==
    ASSUME NEW p \in Pairs
    PROVE  OpeningRows(p) \in Seq(Movement)
  <1>1. CASE Opening[p] = NoRow
    BY <1>1 DEF OpeningRows
  <1>2. CASE Opening[p] # NoRow
    <2>1. Opening[p] \in Level /\ NonNegative(Opening[p])
      BY <1>2, OpeningAssumption
    <2>2. RecordIn(p, Opening[p].quantity) \in Change
      BY <2>1 DEF RecordIn, MovementOf, Change, Level, MovementTypes, IncreasingTypes
    <2> QED
      BY <1>2, <2>2, ZeroLevelType, RowAfterType DEF OpeningRows
  <1> QED
    BY <1>1, <1>2

-----------------------------------------------------------------------------

(* The first state has the types it should. *)
LEMMA TypeInit == Init => TypeOK
  <1> SUFFICES ASSUME Init PROVE TypeOK
    OBVIOUS
  <1>1. levels \in [Pairs -> OrNoRow(Level)]
    BY OpeningAssumption DEF Init, OrNoRow
  <1>2. movements \in [Pairs -> Seq(Movement)]
    BY OpeningRowsType DEF Init
  <1>3. /\ writes \in [Requests -> [Pairs -> OrNoRow(Level)]]
        /\ drafts \in [Requests -> [Pairs -> Seq(Movement)]]
    BY DEF Init, Nothing, NoDrafts, OrNoRow
  <1> QED
    BY <1>1, <1>2, <1>3 DEF Init, TypeOK, WellPlaced, OrNoRow, Open, Settled

(* A request that a step of another one leaves alone stays well placed: the *)
(* only thing it shares is the committed rows, which never disappear.       *)
LEMMA LeftAlone ==
    ASSUME TypeOK, NEW s \in Requests,
           pc'[s] = pc[s], program'[s] = program[s], line'[s] = line[s],
           read'[s] = read[s], writes'[s] = writes[s],
           \A p \in Pairs : levels[p] # NoRow => levels'[p] # NoRow
    PROVE  WellPlaced(s)'
  <1>1. WellPlaced(s)
    BY DEF TypeOK
  <1> CurrentChange(s)' = CurrentChange(s)
    BY DEF CurrentChange
  <1>2. CASE pc[s] # "update"
    BY <1>1, <1>2 DEF WellPlaced
  <1>3. CASE pc[s] = "update"
    <2>1. CurrentPair(s)' = CurrentPair(s) /\ CurrentPair(s) \in Pairs
      BY <1>3, CurrentChangeType DEF CurrentPair, CurrentChange, Open
    <2>2. Visible(s, CurrentPair(s))' # NoRow
      BY <1>1, <1>3, <2>1 DEF WellPlaced, Visible
    <2> QED
      BY <1>1, <2>2 DEF WellPlaced
  <1> QED
    BY <1>2, <1>3

(* The end every transaction shares. *)
LEMMA TypeEnd ==
    ASSUME TypeOK, NEW r \in Requests, NEW outcome \in Settled, End(r, outcome),
           levels' \in [Pairs -> OrNoRow(Level)],
           movements' \in [Pairs -> Seq(Movement)],
           \A p \in Pairs : levels[p] # NoRow => levels'[p] # NoRow
    PROVE  TypeOK'
  <1> USE DEF End, Goto
  <1>1. lock' \in [Pairs -> Requests \cup {NoRequest}]
    BY DEF TypeOK
  <1>2. /\ writes' \in [Requests -> [Pairs -> OrNoRow(Level)]]
        /\ drafts' \in [Requests -> [Pairs -> Seq(Movement)]]
        /\ read' \in [Requests -> OrNoRow(Level)]
    BY DEF TypeOK, Nothing, NoDrafts, OrNoRow
  <1>3. /\ pc' \in [Requests -> {"idle"} \cup Open \cup Settled]
        /\ program' \in [Requests -> Programs \cup {<<>>}]
        /\ line' \in [Requests -> Nat]
    BY DEF TypeOK
  <1>4. ASSUME NEW s \in Requests PROVE WellPlaced(s)'
    <2>1. CASE s = r
      BY <2>1 DEF TypeOK, WellPlaced, Open, Settled
    <2>2. CASE s # r
      <3>1. /\ pc'[s] = pc[s] /\ program'[s] = program[s] /\ line'[s] = line[s]
            /\ read'[s] = read[s] /\ writes'[s] = writes[s]
        BY <2>2 DEF TypeOK
      <3> QED
        BY <3>1, LeftAlone
    <2> QED
      BY <2>1, <2>2
  <1> QED
    BY <1>1, <1>2, <1>3, <1>4 DEF TypeOK

(* Every step keeps the types. *)
LEMMA TypeStep == TypeOK /\ [Next]_vars => TypeOK'
  <1> SUFFICES ASSUME TypeOK, [Next]_vars PROVE TypeOK'
    OBVIOUS
  <1> USE DEF Goto, txVars
  <1>1. ASSUME NEW r \in Requests, Begin(r) PROVE TypeOK'
    <2>1. PICK prog \in Programs : program' = [program EXCEPT ![r] = prog]
      BY <1>1 DEF Begin
    <2>2. Len(prog) \in Nat /\ Len(prog) >= 1
      BY ProgramsAssumption
    <2>3. line[r] = 1
      BY <1>1 DEF TypeOK, WellPlaced, Begin, Open
    <2>4. ASSUME NEW s \in Requests PROVE WellPlaced(s)'
      <3>1. CASE s = r
        BY <1>1, <2>1, <2>2, <2>3, <3>1 DEF TypeOK, WellPlaced, Begin, Open
      <3>2. CASE s # r
        BY <1>1, <2>1, <3>2, LeftAlone DEF TypeOK, Begin
      <3> QED
        BY <3>1, <3>2
    <2> QED
      BY <1>1, <2>1, <2>4 DEF TypeOK, Begin, Open
  <1>2. ASSUME NEW r \in Requests, Rollback(r) PROVE TypeOK'
    BY <1>2, TypeEnd DEF Rollback, Settled, TypeOK
  <1>3. ASSUME NEW r \in Requests, LockRow(r) PROVE TypeOK'
    <2>1. CurrentPair(r) \in Pairs /\ CurrentPair(r)' = CurrentPair(r)
      BY <1>3, CurrentChangeType DEF LockRow, Open, CurrentPair, CurrentChange
    <2>2. Visible(r, CurrentPair(r)) \in Level
      BY <1>3, <2>1 DEF LockRow, TypeOK, OrNoRow, Visible
    <2>3. ASSUME NEW s \in Requests PROVE WellPlaced(s)'
      <3>1. CASE s = r
        BY <1>3, <2>1, <2>2, <3>1, NoRowAssumption DEF TypeOK, WellPlaced, LockRow, Open, Visible, CurrentChange
      <3>2. CASE s # r
        BY <1>3, <3>2, LeftAlone DEF TypeOK, LockRow
      <3> QED
        BY <3>1, <3>2
    <2> QED
      BY <1>3, <2>1, <2>2, <2>3 DEF TypeOK, LockRow, Open, OrNoRow
  <1>4. ASSUME NEW r \in Requests, MissRow(r) \/ MissAgain(r) PROVE TypeOK'
    <2>1. ASSUME NEW s \in Requests PROVE WellPlaced(s)'
      <3>1. CASE s = r
        BY <1>4, <3>1 DEF TypeOK, WellPlaced, MissRow, MissAgain, Open, CurrentChange
      <3>2. CASE s # r
        BY <1>4, <3>2, LeftAlone DEF TypeOK, MissRow, MissAgain
      <3> QED
        BY <3>1, <3>2
    <2> QED
      BY <1>4, <2>1 DEF TypeOK, MissRow, MissAgain, Open
  <1>5. ASSUME NEW r \in Requests, FindUnlocked(r) PROVE TypeOK'
    <2>1. CurrentPair(r) \in Pairs /\ CurrentPair(r)' = CurrentPair(r)
      BY <1>5, CurrentChangeType DEF FindUnlocked, Open, CurrentPair, CurrentChange
    <2>2. ASSUME NEW s \in Requests PROVE WellPlaced(s)'
      <3>1. CASE s = r
        BY <1>5, <2>1, <3>1 DEF TypeOK, WellPlaced, FindUnlocked, Open, Visible, CurrentChange
      <3>2. CASE s # r
        BY <1>5, <3>2, LeftAlone DEF TypeOK, FindUnlocked
      <3> QED
        BY <3>1, <3>2
    <2> QED
      BY <1>5, <2>1, <2>2 DEF TypeOK, FindUnlocked, Open, OrNoRow
  <1>6. ASSUME NEW r \in Requests, InsertRow(r) PROVE TypeOK'
    <2>1. CurrentPair(r) \in Pairs /\ CurrentPair(r)' = CurrentPair(r)
      BY <1>6, CurrentChangeType DEF InsertRow, Open, CurrentPair, CurrentChange
    <2>2. writes' \in [Requests -> [Pairs -> OrNoRow(Level)]]
      BY <1>6, ZeroLevelType DEF InsertRow, TypeOK, OrNoRow
    <2>3. ASSUME NEW s \in Requests PROVE WellPlaced(s)'
      <3>1. CASE s = r
        BY <1>6, <2>1, <3>1, ZeroLevelType DEF TypeOK, WellPlaced, InsertRow, Open, Visible, CurrentChange
      <3>2. CASE s # r
        BY <1>6, <3>2, LeftAlone DEF TypeOK, InsertRow
      <3> QED
        BY <3>1, <3>2
    <2> QED
      BY <1>6, <2>1, <2>2, <2>3, ZeroLevelType DEF TypeOK, InsertRow, Open, OrNoRow
  <1>7. ASSUME NEW r \in Requests, UpdateRow(r) PROVE TypeOK'
    <2> DEFINE p == CurrentPair(r)
               c == CurrentChange(r)
    <2>1. p \in Pairs /\ c \in Change /\ line[r] \in 1..Len(program[r]) /\ Len(program[r]) \in Nat
      BY <1>7, CurrentChangeType DEF UpdateRow, Open
    <2>2. read[r] \in Level /\ Visible(r, p) \in Level
      BY <1>7, <2>1 DEF UpdateRow, TypeOK, WellPlaced, OrNoRow, Visible
    <2>3. RowAfter(c, read[r], Visible(r, p)) \in Level /\ LedgerRowsOf(c, read[r]) \in Seq(Movement)
      BY <2>1, <2>2, RowAfterType
    <2>4. writes' \in [Requests -> [Pairs -> OrNoRow(Level)]]
      BY <1>7, <2>1, <2>3 DEF UpdateRow, TypeOK, OrNoRow
    <2>5. drafts' \in [Requests -> [Pairs -> Seq(Movement)]]
      <3>1. drafts[r][p] \o LedgerRowsOf(c, read[r]) \in Seq(Movement)
        BY <2>1, <2>3, ConcatProperties DEF TypeOK
      <3> QED
        BY <1>7, <2>1, <3>1 DEF UpdateRow, TypeOK
    <2>6. ASSUME NEW s \in Requests PROVE WellPlaced(s)'
      <3>1. CASE s = r
        BY <1>7, <2>1, <3>1 DEF TypeOK, WellPlaced, UpdateRow, Open
      <3>2. CASE s # r
        BY <1>7, <3>2, LeftAlone DEF TypeOK, UpdateRow
      <3> QED
        BY <3>1, <3>2
    <2> QED
      BY <1>7, <2>1, <2>4, <2>5, <2>6 DEF TypeOK, UpdateRow, Open, OrNoRow
  <1>8. ASSUME NEW r \in Requests, Commit(r) PROVE TypeOK'
    <2>1. levels' \in [Pairs -> OrNoRow(Level)]
      BY <1>8 DEF Commit, TypeOK, Visible
    <2>2. movements' \in [Pairs -> Seq(Movement)]
      BY <1>8, ConcatProperties DEF Commit, TypeOK
    <2>3. \A p \in Pairs : levels[p] # NoRow => levels'[p] # NoRow
      BY <1>8 DEF Commit, TypeOK, Visible
    <2> QED
      BY <1>8, <2>1, <2>2, <2>3, TypeEnd DEF Commit, Settled
  <1>9. ASSUME NEW p \in Pairs, SetReplenishmentRule(p) PROVE TypeOK'
    <2>1. levels' \in [Pairs -> OrNoRow(Level)]
      BY <1>9, ZeroLevelType DEF SetReplenishmentRule, TypeOK, OrNoRow
    <2>2. \A q \in Pairs : levels[q] # NoRow => levels'[q] # NoRow
      BY <1>9, ZeroLevelType DEF SetReplenishmentRule, TypeOK
    <2>3. ASSUME NEW s \in Requests PROVE WellPlaced(s)'
      BY <1>9, <2>2, LeftAlone DEF SetReplenishmentRule
    <2> QED
      BY <1>9, <2>1, <2>3 DEF TypeOK, SetReplenishmentRule
  <1>10. CASE UNCHANGED vars
    BY <1>10 DEF TypeOK, WellPlaced, Visible, CurrentPair, CurrentChange, vars
  <1> QED
    BY <1>1, <1>2, <1>3, <1>4, <1>5, <1>6, <1>7, <1>8, <1>9, <1>10, NextCases

(* Every behaviour of the ledger is well typed, and a request in progress  *)
(* always has a line to work on and a row to write.                        *)
THEOREM TypeCorrect == Spec => []TypeOK
  <1>1. Init => TypeOK
    BY TypeInit
  <1>2. TypeOK /\ [Next]_vars => TypeOK'
    BY TypeStep
  <1> QED
    BY <1>1, <1>2, PTL DEF Spec
-----------------------------------------------------------------------------
(***************************************************************************)
(* The lock discipline.  A row that a request has written is locked by it, *)
(* and its ledger rows belong to rows it has written.  From that, what a   *)
(* request decides on is the current row.                                  *)
(***************************************************************************)
WritesAreLocked ==
    \A r \in Requests, p \in Pairs :
        /\ writes[r][p] # NoRow => lock[p] = r
        /\ writes[r][p] = NoRow => drafts[r][p] = <<>>

LockInv == WritesAreLocked /\ DecidesOnCurrentRow

(* The end of a transaction takes nothing from the others. *)
LEMMA LockEnd ==
    ASSUME TypeOK, LockInv, NEW r \in Requests, NEW outcome \in Settled, End(r, outcome),
           levels' \in [Pairs -> OrNoRow(Level)],
           \A p \in Pairs : writes[r][p] = NoRow => levels'[p] = levels[p]
    PROVE  LockInv'
  <1>1. WritesAreLocked'
    BY NoRequestAssumption DEF LockInv, WritesAreLocked, End, TypeOK, Nothing, NoDrafts
  <1>2. ASSUME NEW s \in Requests, (pc[s] = "update")', (CurrentPair(s) \notin unlockedReads)'
        PROVE  (lock[CurrentPair(s)] = s /\ read[s] = Visible(s, CurrentPair(s)))'
    <2>1. s # r
      BY <1>2 DEF End, Goto, TypeOK, Settled
    <2>2. /\ pc[s] = "update" /\ read'[s] = read[s] /\ writes'[s] = writes[s]
          /\ CurrentPair(s)' = CurrentPair(s) /\ CurrentPair(s) \notin unlockedReads
      BY <1>2, <2>1 DEF End, Goto, TypeOK, CurrentPair, CurrentChange
    <2>3. CurrentPair(s) \in Pairs
      BY <2>2, CurrentChangeType DEF Open
    <2>4. lock[CurrentPair(s)] = s /\ read[s] = Visible(s, CurrentPair(s))
      BY <2>2 DEF LockInv, DecidesOnCurrentRow
    <2>5. levels'[CurrentPair(s)] = levels[CurrentPair(s)] /\ lock'[CurrentPair(s)] = s
      BY <2>1, <2>3, <2>4 DEF LockInv, WritesAreLocked, End, TypeOK
    <2> QED
      BY <2>2, <2>4, <2>5 DEF Visible
  <1> QED
    BY <1>1, <1>2 DEF LockInv, DecidesOnCurrentRow

(* A step that leaves a writer of a current row as it is, with its row and  *)
(* its lock, leaves its decision valid.                                     *)
LEMMA DecisionKept ==
    ASSUME TypeOK, LockInv, NEW s \in Requests,
           pc'[s] = pc[s], program'[s] = program[s], line'[s] = line[s],
           read'[s] = read[s], writes'[s] = writes[s],
           unlockedReads \subseteq unlockedReads',
           \A p \in Pairs : lock[p] = s => lock'[p] = s /\ levels'[p] = levels[p],
           (pc[s] = "update")', (CurrentPair(s) \notin unlockedReads)'
    PROVE  (lock[CurrentPair(s)] = s /\ read[s] = Visible(s, CurrentPair(s)))'
  <1>1. CurrentPair(s)' = CurrentPair(s) /\ CurrentPair(s) \in Pairs
    BY CurrentChangeType DEF CurrentPair, CurrentChange, Open
  <1>2. lock[CurrentPair(s)] = s /\ read[s] = Visible(s, CurrentPair(s))
    BY <1>1 DEF LockInv, DecidesOnCurrentRow
  <1> QED
    BY <1>1, <1>2 DEF Visible

(* Every step keeps the row locks exclusive and their holders known. *)
LEMMA LockStep == TypeOK /\ LockInv /\ [Next]_vars => LockInv'
  <1> SUFFICES ASSUME TypeOK, LockInv, [Next]_vars PROVE LockInv'
    OBVIOUS
  <1> USE DEF Goto, txVars
  <1>1. ASSUME NEW r \in Requests, Begin(r) \/ MissRow(r) \/ MissAgain(r) PROVE LockInv'
    <2>1. WritesAreLocked'
      BY <1>1 DEF LockInv, WritesAreLocked, Begin, MissRow, MissAgain
    <2>2. ASSUME NEW s \in Requests, (pc[s] = "update")', (CurrentPair(s) \notin unlockedReads)'
          PROVE  (lock[CurrentPair(s)] = s /\ read[s] = Visible(s, CurrentPair(s)))'
      <3>1. s # r
        BY <1>1, <2>2 DEF TypeOK, Begin, MissRow, MissAgain
      <3> QED
        BY <1>1, <2>2, <3>1, DecisionKept DEF TypeOK, Begin, MissRow, MissAgain
    <2> QED
      BY <2>1, <2>2 DEF LockInv, DecidesOnCurrentRow
  <1>2. ASSUME NEW r \in Requests, Rollback(r) PROVE LockInv'
    BY <1>2, LockEnd DEF Rollback, Settled, TypeOK
  <1>3. ASSUME NEW r \in Requests, LockRow(r) PROVE LockInv'
    <2> DEFINE p == CurrentPair(r)
    <2>1. p \in Pairs /\ p' = p
      BY <1>3, CurrentChangeType DEF LockRow, Open, CurrentPair, CurrentChange
    <2>2. WritesAreLocked'
      BY <1>3, <2>1, NoRequestAssumption DEF LockInv, WritesAreLocked, LockRow, FreeFor, TypeOK
    <2>3. ASSUME NEW s \in Requests, (pc[s] = "update")', (CurrentPair(s) \notin unlockedReads)'
          PROVE  (lock[CurrentPair(s)] = s /\ read[s] = Visible(s, CurrentPair(s)))'
      <3>1. CASE s = r
        BY <1>3, <2>1, <3>1 DEF LockRow, TypeOK, Visible
      <3>2. CASE s # r
        <4>1. \A q \in Pairs : lock[q] = s => lock'[q] = s /\ levels'[q] = levels[q]
          BY <1>3, <2>1, <3>2, NoRequestAssumption DEF LockRow, FreeFor, TypeOK
        <4> QED
          BY <1>3, <2>3, <3>2, <4>1, DecisionKept DEF LockRow, TypeOK
      <3> QED
        BY <3>1, <3>2
    <2> QED
      BY <2>2, <2>3 DEF LockInv, DecidesOnCurrentRow
  <1>4. ASSUME NEW r \in Requests, FindUnlocked(r) PROVE LockInv'
    <2>1. WritesAreLocked'
      BY <1>4 DEF LockInv, WritesAreLocked, FindUnlocked
    <2>2. ASSUME NEW s \in Requests, (pc[s] = "update")', (CurrentPair(s) \notin unlockedReads)'
          PROVE  (lock[CurrentPair(s)] = s /\ read[s] = Visible(s, CurrentPair(s)))'
      <3>1. CASE s = r
        BY <1>4, <2>2, <3>1 DEF FindUnlocked, CurrentPair, CurrentChange
      <3>2. CASE s # r
        BY <1>4, <2>2, <3>2, DecisionKept DEF FindUnlocked, TypeOK
      <3> QED
        BY <3>1, <3>2
    <2> QED
      BY <2>1, <2>2 DEF LockInv, DecidesOnCurrentRow
  <1>5. ASSUME NEW r \in Requests, InsertRow(r) PROVE LockInv'
    <2> DEFINE p == CurrentPair(r)
    <2>1. p \in Pairs /\ p' = p
      BY <1>5, CurrentChangeType DEF InsertRow, Open, CurrentPair, CurrentChange
    <2>2. WritesAreLocked'
      BY <1>5, <2>1, NoRequestAssumption, ZeroLevelType DEF LockInv, WritesAreLocked, InsertRow, TypeOK
    <2>3. ASSUME NEW s \in Requests, (pc[s] = "update")', (CurrentPair(s) \notin unlockedReads)'
          PROVE  (lock[CurrentPair(s)] = s /\ read[s] = Visible(s, CurrentPair(s)))'
      <3>1. CASE s = r
        BY <1>5, <2>1, <3>1, ZeroLevelType DEF InsertRow, TypeOK, Visible
      <3>2. CASE s # r
        <4>1. \A q \in Pairs : lock[q] = s => lock'[q] = s /\ levels'[q] = levels[q]
          BY <1>5, <2>1, <3>2, NoRequestAssumption DEF InsertRow, TypeOK
        <4> QED
          BY <1>5, <2>3, <3>2, <4>1, DecisionKept DEF InsertRow, TypeOK
      <3> QED
        BY <3>1, <3>2
    <2> QED
      BY <2>2, <2>3 DEF LockInv, DecidesOnCurrentRow
  <1>6. ASSUME NEW r \in Requests, UpdateRow(r) PROVE LockInv'
    <2> DEFINE p == CurrentPair(r)
               c == CurrentChange(r)
    <2>1. p \in Pairs /\ c \in Change
      BY <1>6, CurrentChangeType DEF UpdateRow, Open
    <2>2. RowAfter(c, read[r], Visible(r, p)) # NoRow
      BY <1>6, <2>1, RowAfterType, NoRowAssumption DEF UpdateRow, TypeOK, WellPlaced, OrNoRow, Visible
    <2>3. WritesAreLocked'
      BY <1>6, <2>1, <2>2, NoRequestAssumption DEF LockInv, WritesAreLocked, UpdateRow, FreeFor, TypeOK
    <2>4. ASSUME NEW s \in Requests, (pc[s] = "update")', (CurrentPair(s) \notin unlockedReads)'
          PROVE  (lock[CurrentPair(s)] = s /\ read[s] = Visible(s, CurrentPair(s)))'
      <3>1. s # r
        BY <1>6, <2>4 DEF UpdateRow, TypeOK
      <3>2. \A q \in Pairs : lock[q] = s => lock'[q] = s /\ levels'[q] = levels[q]
        BY <1>6, <2>1, <3>1, NoRequestAssumption DEF UpdateRow, FreeFor, TypeOK
      <3> QED
        BY <1>6, <2>4, <3>1, <3>2, DecisionKept DEF UpdateRow, TypeOK
    <2> QED
      BY <2>3, <2>4 DEF LockInv, DecidesOnCurrentRow
  <1>7. ASSUME NEW r \in Requests, Commit(r) PROVE LockInv'
    <2>1. levels' \in [Pairs -> OrNoRow(Level)]
      BY <1>7 DEF Commit, TypeOK, Visible
    <2>2. \A p \in Pairs : writes[r][p] = NoRow => levels'[p] = levels[p]
      BY <1>7 DEF Commit, Visible
    <2> QED
      BY <1>7, <2>1, <2>2, LockEnd DEF Commit, Settled
  <1>8. ASSUME NEW p \in Pairs, SetReplenishmentRule(p) PROVE LockInv'
    <2>1. WritesAreLocked'
      BY <1>8 DEF LockInv, WritesAreLocked, SetReplenishmentRule
    <2>2. ASSUME NEW s \in Requests, (pc[s] = "update")', (CurrentPair(s) \notin unlockedReads)'
          PROVE  (lock[CurrentPair(s)] = s /\ read[s] = Visible(s, CurrentPair(s)))'
      <3>1. \A q \in Pairs : lock[q] = s => lock'[q] = s /\ levels'[q] = levels[q]
        BY <1>8, NoRequestAssumption DEF SetReplenishmentRule, TypeOK
      <3> QED
        BY <1>8, <2>2, <3>1, DecisionKept DEF SetReplenishmentRule
    <2> QED
      BY <2>1, <2>2 DEF LockInv, DecidesOnCurrentRow
  <1>9. CASE UNCHANGED vars
    BY <1>9 DEF LockInv, WritesAreLocked, DecidesOnCurrentRow, Visible, CurrentPair, CurrentChange, vars
  <1> QED
    BY <1>1, <1>2, <1>3, <1>4, <1>5, <1>6, <1>7, <1>8, <1>9, NextCases

(* No row is locked at first. *)
LEMMA LockInitially == Init => LockInv
  BY DEF Init, LockInv, WritesAreLocked, DecidesOnCurrentRow, Nothing, NoDrafts

(* Whatever requests, programs and pairs there are, no request decides on a *)
(* row that has changed since it read it, unless it read it through the     *)
(* upsert: applyMovement and adjustReservation check and write one state.   *)
THEOREM DecisionsAreCurrent == Spec => []DecidesOnCurrentRow
  <1>1. Init => LockInv
    BY LockInitially
  <1>2. TypeOK /\ LockInv /\ [Next]_vars => LockInv'
    BY LockStep
  <1>3. LockInv => DecidesOnCurrentRow
    BY DEF LockInv
  <1> QED
    BY <1>1, <1>2, <1>3, TypeCorrect, PTL DEF Spec
-----------------------------------------------------------------------------
(***************************************************************************)
(* The rows.  Wherever a row is held -- committed, written by an open      *)
(* transaction, or read by a request -- it is in range; this needs no lock *)
(* discipline, because a row is always written whole.                      *)
(***************************************************************************)
InRange(level) ==
    NonNegative(level) /\ level.quantity <= MaxInt /\ level.reserved <= MaxInt

RowsInv ==
    /\ \A p \in Pairs : levels[p] # NoRow => InRange(levels[p])
    /\ \A r \in Requests, p \in Pairs : writes[r][p] # NoRow => InRange(writes[r][p])
    /\ \A r \in Requests : read[r] # NoRow => InRange(read[r])

(* An empty row is in range and covers its reservations. *)
LEMMA ZeroInRange == InRange(ZeroLevel) /\ Covered(ZeroLevel)
  BY MaxIntAssumption DEF InRange, NonNegative, Covered, ZeroLevel

(* What the service accepts on a row in range leaves a row in range. *)
LEMMA AcceptedInRange ==
    ASSUME NEW c \in Change, CallerChange(c), NEW l \in Level, NEW m \in Level,
           InRange(l), InRange(m), ~RefusedOn(c, l), ~OutOfRange(c, l)
    PROVE  InRange(RowAfter(c, l, m))
  BY MaxIntAssumption
  DEF Change, CallerChange, Level, InRange, NonNegative, RefusedOn, OutOfRange, RowAfter,
      NextQuantity, NextReserved

(* What it accepts on a covered row leaves a covered row: a promise is only *)
(* made of free units, and a shipment whose check is off takes no more from *)
(* the shelf than from the promises.                                        *)
LEMMA AcceptedCovered ==
    ASSUME NEW c \in Change, CallerChange(c), NEW l \in Level,
           Covered(l), ~RefusedOn(c, l)
    PROVE  Covered(RowAfter(c, l, l))
  BY DEF Change, CallerChange, Level, Covered, RefusedOn, RowAfter, NextQuantity, NextReserved

(* Every row is in range at first: there are none. *)
LEMMA RowsInitially == Init => RowsInv
  BY OpeningAssumption DEF Init, RowsInv, InRange, Nothing

(* Every step keeps the rows in range. *)
LEMMA RowsStep == TypeOK /\ RowsInv /\ [Next]_vars => RowsInv'
  <1> SUFFICES ASSUME TypeOK, RowsInv, [Next]_vars PROVE RowsInv'
    OBVIOUS
  <1> USE DEF Goto, txVars
  <1>1. ASSUME NEW r \in Requests, Begin(r) \/ MissRow(r) \/ MissAgain(r) PROVE RowsInv'
    BY <1>1 DEF RowsInv, Begin, MissRow, MissAgain
  <1>2. ASSUME NEW r \in Requests, Rollback(r) PROVE RowsInv'
    BY <1>2 DEF RowsInv, Rollback, End, Nothing, TypeOK
  <1>3. ASSUME NEW r \in Requests, LockRow(r) \/ FindUnlocked(r) PROVE RowsInv'
    <2>1. CurrentPair(r) \in Pairs
      BY <1>3, CurrentChangeType DEF LockRow, FindUnlocked, Open
    <2> QED
      BY <1>3, <2>1 DEF RowsInv, LockRow, FindUnlocked, Visible, TypeOK
  <1>4. ASSUME NEW r \in Requests, InsertRow(r) PROVE RowsInv'
    <2>1. CurrentPair(r) \in Pairs
      BY <1>4, CurrentChangeType DEF InsertRow, Open
    <2> QED
      BY <1>4, <2>1, ZeroInRange DEF RowsInv, InsertRow, TypeOK
  <1>5. ASSUME NEW r \in Requests, UpdateRow(r) PROVE RowsInv'
    <2> DEFINE p == CurrentPair(r)
               c == CurrentChange(r)
    <2>1. p \in Pairs /\ c \in Change /\ CallerChange(c)
      BY <1>5, CurrentChangeType DEF UpdateRow, Open
    <2>2. /\ read[r] \in Level /\ InRange(read[r])
          /\ Visible(r, p) \in Level /\ InRange(Visible(r, p))
      BY <1>5, <2>1 DEF UpdateRow, TypeOK, WellPlaced, OrNoRow, Visible, RowsInv
    <2>3. InRange(RowAfter(c, read[r], Visible(r, p)))
      BY <1>5, <2>1, <2>2, AcceptedInRange DEF UpdateRow
    <2> QED
      BY <1>5, <2>1, <2>3 DEF RowsInv, UpdateRow, TypeOK
  <1>6. ASSUME NEW r \in Requests, Commit(r) PROVE RowsInv'
    BY <1>6 DEF RowsInv, Commit, End, Visible, Nothing, TypeOK
  <1>7. ASSUME NEW p \in Pairs, SetReplenishmentRule(p) PROVE RowsInv'
    BY <1>7, ZeroInRange DEF RowsInv, SetReplenishmentRule, TypeOK
  <1>8. CASE UNCHANGED vars
    BY <1>8 DEF RowsInv, vars
  <1> QED
    BY <1>1, <1>2, <1>3, <1>4, <1>5, <1>6, <1>7, <1>8, NextCases

(* No interleaving of any requests drives a committed row below zero or out *)
(* of range, not even one that races to create it.                          *)
THEOREM NeverNegative == Spec => []LevelsNonNegative
  <1>1. Init => RowsInv
    BY RowsInitially
  <1>2. TypeOK /\ RowsInv /\ [Next]_vars => RowsInv'
    BY RowsStep
  <1>3. RowsInv => LevelsNonNegative
    BY DEF RowsInv, InRange, LevelsNonNegative
  <1> QED
    BY <1>1, <1>2, <1>3, TypeCorrect, PTL DEF Spec

-----------------------------------------------------------------------------
(***************************************************************************)
(* The promises.  On a pair whose row was always read under its lock, the  *)
(* committed row and every uncommitted version of it cover what they       *)
(* promise: the check was made on the row that was written.                *)
(***************************************************************************)
CoverInv ==
    \A p \in Pairs \ unlockedReads :
        /\ levels[p] # NoRow => Covered(levels[p])
        /\ \A r \in Requests : writes[r][p] # NoRow => Covered(writes[r][p])

(* Nothing is promised at first: there are no rows. *)
LEMMA CoverInitially == Init => CoverInv
  <1> SUFFICES ASSUME Init PROVE CoverInv
    OBVIOUS
  <1>1. \A p \in Pairs : levels[p] # NoRow => Covered(levels[p])
    BY OpeningAssumption DEF Init
  <1>2. \A r \in Requests, p \in Pairs : writes[r][p] = NoRow
    BY DEF Init, Nothing
  <1> QED
    BY <1>1, <1>2 DEF CoverInv

(* Every step that respects the promises keeps them covered. *)
LEMMA CoverStep == TypeOK /\ LockInv /\ CoverInv /\ [Next]_vars => CoverInv'
  <1> SUFFICES ASSUME TypeOK, LockInv, CoverInv, [Next]_vars PROVE CoverInv'
    OBVIOUS
  <1> USE DEF Goto, txVars
  <1>1. ASSUME NEW r \in Requests,
               Begin(r) \/ MissRow(r) \/ MissAgain(r) \/ LockRow(r) \/ FindUnlocked(r)
        PROVE  CoverInv'
    BY <1>1 DEF CoverInv, Begin, MissRow, MissAgain, LockRow, FindUnlocked
  <1>2. ASSUME NEW r \in Requests, Rollback(r) PROVE CoverInv'
    BY <1>2 DEF CoverInv, Rollback, End, Nothing, TypeOK
  <1>3. ASSUME NEW r \in Requests, InsertRow(r) PROVE CoverInv'
    BY <1>3, ZeroInRange DEF CoverInv, InsertRow, TypeOK
  <1>4. ASSUME NEW r \in Requests, UpdateRow(r) PROVE CoverInv'
    <2> DEFINE p == CurrentPair(r)
               c == CurrentChange(r)
    <2>1. p \in Pairs /\ c \in Change /\ CallerChange(c)
      BY <1>4, CurrentChangeType DEF UpdateRow, Open
    <2>2. ASSUME p \notin unlockedReads
          PROVE  Covered(RowAfter(c, read[r], Visible(r, p)))
      <3>1. read[r] = Visible(r, p)
        BY <1>4, <2>2 DEF UpdateRow, LockInv, DecidesOnCurrentRow
      <3>2. read[r] \in Level /\ Covered(read[r])
        BY <1>4, <2>1, <2>2, <3>1 DEF UpdateRow, TypeOK, WellPlaced, OrNoRow, Visible, CoverInv
      <3> QED
        BY <1>4, <2>1, <3>1, <3>2, AcceptedCovered DEF UpdateRow
    <2> QED
      BY <1>4, <2>1, <2>2 DEF CoverInv, UpdateRow, TypeOK
  <1>5. ASSUME NEW r \in Requests, Commit(r) PROVE CoverInv'
    BY <1>5 DEF CoverInv, Commit, End, Visible, Nothing, TypeOK
  <1>6. ASSUME NEW p \in Pairs, SetReplenishmentRule(p) PROVE CoverInv'
    BY <1>6, ZeroInRange DEF CoverInv, SetReplenishmentRule, TypeOK
  <1>7. CASE UNCHANGED vars
    BY <1>7 DEF CoverInv, vars
  <1> QED
    BY <1>1, <1>2, <1>3, <1>4, <1>5, <1>6, <1>7, NextCases

(* Stock promised to sales orders is never dispatched, adjusted or promised *)
(* away by another request, for any number of requests on any pairs.        *)
THEOREM PromisesCovered == Spec => []ReservationsCovered
  <1>1. Init => CoverInv
    BY CoverInitially
  <1>2. Init => LockInv
    BY LockInitially
  <1>3. TypeOK /\ LockInv /\ [Next]_vars => LockInv'
    BY LockStep
  <1>4. TypeOK /\ LockInv /\ CoverInv /\ [Next]_vars => CoverInv'
    BY CoverStep
  <1>5. CoverInv => ReservationsCovered
    BY DEF CoverInv, ReservationsCovered
  <1> QED
    BY <1>1, <1>2, <1>3, <1>4, <1>5, TypeCorrect, PTL DEF Spec
-----------------------------------------------------------------------------
(***************************************************************************)
(* The ledger.  The rows an open transaction has inserted for a pair go on *)
(* from the committed quantity to the quantity it has written.  The lock   *)
(* discipline keeps the committed quantity still meanwhile, so that the    *)
(* two ledgers join when it commits.                                       *)
(***************************************************************************)
QuantityOf(level) == IF level = NoRow THEN 0 ELSE level.quantity

ReconcileInv ==
    \A p \in Pairs \ unlockedReads :
        /\ Unbroken(movements[p], 0)
        /\ Balance(movements[p], 0) = QuantityOf(levels[p])
        /\ \A r \in Requests : writes[r][p] # NoRow =>
              /\ Unbroken(drafts[r][p], QuantityOf(levels[p]))
              /\ Balance(drafts[r][p], QuantityOf(levels[p])) = writes[r][p].quantity

(* Two ledgers join where one ends and the other starts. *)
LEMMA JoinLedgers ==
    ASSUME NEW s \in Seq(Movement), NEW t \in Seq(Movement), NEW start \in Int,
           Unbroken(s, start), Unbroken(t, Balance(s, start))
    PROVE  /\ Unbroken(s \o t, start)
           /\ Balance(s \o t, start) = Balance(t, Balance(s, start))
  <1>1. /\ Len(s) \in Nat /\ Len(t) \in Nat
        /\ s \o t \in Seq(Movement) /\ Len(s \o t) = Len(s) + Len(t)
        /\ \A i \in 1..Len(s) + Len(t) :
              (s \o t)[i] = IF i <= Len(s) THEN s[i] ELSE t[i - Len(s)]
    BY ConcatProperties
  <1>2. (s = <<>> <=> Len(s) = 0) /\ (t = <<>> <=> Len(t) = 0)
        /\ (s \o t = <<>> <=> Len(s \o t) = 0)
    BY <1>1, EmptySeq
  <1>3. ASSUME NEW i \in 1..Len(s \o t)
        PROVE  Accounts((s \o t)[i], IF i = 1 THEN start ELSE (s \o t)[i - 1].balanceAfter)
    <2>1. CASE i <= Len(s)
      BY <1>1, <2>1 DEF Unbroken
    <2>2. CASE i = Len(s) + 1
      <3>1. (s \o t)[i] = t[1] /\ 1 \in 1..Len(t)
        BY <1>1, <2>2
      <3>2. Accounts(t[1], Balance(s, start))
        BY <3>1 DEF Unbroken
      <3>3. Balance(s, start) = IF i = 1 THEN start ELSE (s \o t)[i - 1].balanceAfter
        BY <1>1, <1>2, <2>2 DEF Balance
      <3> QED
        BY <3>1, <3>2, <3>3
    <2>3. CASE i > Len(s) + 1
      <3>1. /\ i - Len(s) \in 1..Len(t) /\ i - Len(s) # 1
            /\ (s \o t)[i] = t[i - Len(s)]
            /\ (s \o t)[i - 1] = t[(i - Len(s)) - 1]
        BY <1>1, <2>3
      <3>2. Accounts(t[i - Len(s)], t[(i - Len(s)) - 1].balanceAfter)
        BY <3>1 DEF Unbroken
      <3> QED
        BY <2>3, <3>1, <3>2, <1>1
    <2> QED
      BY <1>1, <2>1, <2>2, <2>3
  <1>4. Balance(s \o t, start) = Balance(t, Balance(s, start))
    BY <1>1, <1>2 DEF Balance
  <1> QED
    BY <1>3, <1>4 DEF Unbroken

(* What a change appends leads from the quantity it read to the one it writes. *)
LEMMA ChangeAccounted ==
    ASSUME NEW c \in Change, NEW l \in Level, DirectionOK(c),
           c.kind = "movement" \/ c.delta = 0
    PROVE  /\ Unbroken(LedgerRowsOf(c, l), l.quantity)
           /\ Balance(LedgerRowsOf(c, l), l.quantity) = RowAfter(c, l, l).quantity
  <1> USE DEF Change, Level, NextQuantity
  <1>1. RowAfter(c, l, l).quantity = l.quantity + c.delta
    BY DEF RowAfter
  <1>2. CASE c.delta = 0
    <2>1. LedgerRowsOf(c, l) = <<>>
      BY <1>2 DEF LedgerRowsOf
    <2> QED
      BY <1>1, <1>2, <2>1 DEF Unbroken, Balance
  <1>3. CASE c.delta # 0
    <2> DEFINE row == [type |-> c.type, quantity |-> Magnitude(c.delta),
                       balanceAfter |-> l.quantity + c.delta]
    <2>1. LedgerRowsOf(c, l) = <<row>> /\ Len(<<row>>) = 1 /\ <<row>>[1] = row /\ <<row>> # <<>>
      BY <1>3 DEF LedgerRowsOf
    <2>2. Accounts(row, l.quantity)
      BY DEF Accounts, DirectionOK, Magnitude, IncreasingTypes, DecreasingTypes
    <2>3. Unbroken(<<row>>, l.quantity)
      BY <2>2 DEF Unbroken
    <2>4. Balance(<<row>>, l.quantity) = l.quantity + c.delta
      BY <2>1 DEF Balance
    <2> QED
      BY <1>1, <2>1, <2>3, <2>4
  <1> QED
    BY <1>2, <1>3

(* The ledgers are empty at first, and so are the rows. *)
LEMMA ReconcileInitially == Init => ReconcileInv
  <1> SUFFICES ASSUME Init PROVE ReconcileInv
    OBVIOUS
  <1>1. ASSUME NEW p \in Pairs
        PROVE  Unbroken(movements[p], 0) /\ Balance(movements[p], 0) = QuantityOf(levels[p])
    <2>1. movements[p] = OpeningRows(p) /\ levels[p] = Opening[p]
      BY DEF Init
    <2>2. CASE Opening[p] = NoRow
      BY <2>1, <2>2 DEF OpeningRows, QuantityOf, Unbroken, Balance
    <2>3. CASE Opening[p] # NoRow
      <3> DEFINE c == RecordIn(p, Opening[p].quantity)
      <3>1. Opening[p] \in Level /\ NonNegative(Opening[p])
        BY <2>3, OpeningAssumption
      <3>2. c \in Change /\ DirectionOK(c) /\ c.kind = "movement" /\ c.delta = Opening[p].quantity
        BY <3>1 DEF RecordIn, MovementOf, Change, Level, MovementTypes, IncreasingTypes,
                    DecreasingTypes, DirectionOK, NonNegative
      <3>3. /\ Unbroken(OpeningRows(p), ZeroLevel.quantity)
            /\ Balance(OpeningRows(p), ZeroLevel.quantity) = RowAfter(c, ZeroLevel, ZeroLevel).quantity
        BY <2>3, <3>2, ZeroLevelType, ChangeAccounted DEF OpeningRows
      <3>4. RowAfter(c, ZeroLevel, ZeroLevel).quantity = Opening[p].quantity /\ ZeroLevel.quantity = 0
        BY <3>1, <3>2 DEF RowAfter, NextQuantity, ZeroLevel, Level
      <3> QED
        BY <2>1, <2>3, <3>3, <3>4 DEF QuantityOf
    <2> QED
      BY <2>2, <2>3
  <1>2. \A r \in Requests, p \in Pairs : writes[r][p] = NoRow
    BY DEF Init, Nothing
  <1> QED
    BY <1>1, <1>2 DEF ReconcileInv

(* Every step keeps the rows equal to the sum of their movements. *)
LEMMA ReconcileStep == TypeOK /\ LockInv /\ ReconcileInv /\ [Next]_vars => ReconcileInv'
  <1> SUFFICES ASSUME TypeOK, LockInv, ReconcileInv, [Next]_vars PROVE ReconcileInv'
    OBVIOUS
  <1> USE DEF Goto, txVars
  <1>1. ASSUME NEW r \in Requests,
               Begin(r) \/ MissRow(r) \/ MissAgain(r) \/ LockRow(r) \/ FindUnlocked(r)
        PROVE  ReconcileInv'
    BY <1>1 DEF ReconcileInv, Begin, MissRow, MissAgain, LockRow, FindUnlocked
  <1>2. ASSUME NEW r \in Requests, Rollback(r) PROVE ReconcileInv'
    BY <1>2 DEF ReconcileInv, Rollback, End, Nothing, NoDrafts, TypeOK
  <1>3. ASSUME NEW r \in Requests, InsertRow(r) PROVE ReconcileInv'
    <2> DEFINE p == CurrentPair(r)
    <2>1. p \in Pairs
      BY <1>3, CurrentChangeType DEF InsertRow, Open
    <2>2. levels[p] = NoRow /\ drafts[r][p] = <<>>
      BY <1>3, <2>1, NoRequestAssumption DEF InsertRow, LockInv, WritesAreLocked
    <2>3. Unbroken(<<>>, 0) /\ Balance(<<>>, 0) = ZeroLevel.quantity
      BY DEF Unbroken, Balance, ZeroLevel
    <2> QED
      BY <1>3, <2>1, <2>2, <2>3 DEF ReconcileInv, InsertRow, TypeOK, QuantityOf
  <1>4. ASSUME NEW r \in Requests, UpdateRow(r) PROVE ReconcileInv'
    <2> DEFINE p == CurrentPair(r)
               c == CurrentChange(r)
               rows == LedgerRowsOf(c, read[r])
               after == RowAfter(c, read[r], Visible(r, p))
    <2>1. p \in Pairs /\ c \in Change /\ CallerChange(c) /\ ~Malformed(c)
      BY <1>4, CurrentChangeType DEF UpdateRow, Open, TypeOK, WellPlaced
    <2>2. read[r] \in Level /\ drafts[r][p] \in Seq(Movement) /\ QuantityOf(levels[p]) \in Int
      BY <1>4, <2>1 DEF UpdateRow, TypeOK, WellPlaced, OrNoRow, QuantityOf, Level
    <2>3. DirectionOK(c) /\ (c.kind = "movement" \/ c.delta = 0)
      BY <2>1 DEF Malformed, CallerChange, DirectionOK, Change
    <2>4. ASSUME p \notin unlockedReads
          PROVE  /\ Unbroken(drafts[r][p] \o rows, QuantityOf(levels[p]))
                 /\ Balance(drafts[r][p] \o rows, QuantityOf(levels[p])) = after.quantity
      <3>1. read[r] = Visible(r, p)
        BY <1>4, <2>4 DEF UpdateRow, LockInv, DecidesOnCurrentRow
      <3>2. /\ Unbroken(drafts[r][p], QuantityOf(levels[p]))
            /\ Balance(drafts[r][p], QuantityOf(levels[p])) = read[r].quantity
        <4>1. CASE writes[r][p] = NoRow
          <5>1. drafts[r][p] = <<>> /\ read[r] = levels[p] /\ levels[p] # NoRow
            BY <1>4, <2>1, <3>1, <4>1 DEF LockInv, WritesAreLocked, Visible, UpdateRow, TypeOK, WellPlaced
          <5> QED
            BY <5>1 DEF Unbroken, Balance, QuantityOf
        <4>2. CASE writes[r][p] # NoRow
          BY <2>1, <2>4, <3>1, <4>2 DEF ReconcileInv, Visible
        <4> QED
          BY <4>1, <4>2
      <3>3. Unbroken(rows, read[r].quantity) /\ Balance(rows, read[r].quantity) = after.quantity
        BY <2>1, <2>2, <2>3, <3>1, ChangeAccounted
      <3>4. rows \in Seq(Movement)
        BY <2>1, <2>2, RowAfterType
      <3> QED
        BY <2>2, <3>2, <3>3, <3>4, JoinLedgers
    <2> QED
      BY <1>4, <2>1, <2>4 DEF ReconcileInv, UpdateRow, TypeOK
  <1>5. ASSUME NEW r \in Requests, Commit(r) PROVE ReconcileInv'
    <2>1. ASSUME NEW p \in Pairs \ unlockedReads
          PROVE  Unbroken(movements'[p], 0) /\ Balance(movements'[p], 0) = QuantityOf(levels'[p])
      <3>1. movements'[p] = movements[p] \o drafts[r][p] /\ levels'[p] = Visible(r, p)
        BY <1>5 DEF Commit
      <3>2. movements[p] \in Seq(Movement) /\ drafts[r][p] \in Seq(Movement)
        BY DEF TypeOK
      <3>3. CASE writes[r][p] = NoRow
        BY <3>1, <3>2, <3>3, ConcatEmptySeq DEF ReconcileInv, LockInv, WritesAreLocked, Visible
      <3>4. CASE writes[r][p] # NoRow
        BY <3>1, <3>2, <3>4, JoinLedgers DEF ReconcileInv, Visible, QuantityOf
      <3> QED
        BY <3>3, <3>4
    <2>2. ASSUME NEW p \in Pairs \ unlockedReads, NEW s \in Requests, writes'[s][p] # NoRow
          PROVE  /\ levels'[p] = levels[p]
                 /\ writes'[s][p] = writes[s][p] /\ drafts'[s][p] = drafts[s][p]
      <3>1. s # r /\ writes'[s] = writes[s] /\ drafts'[s] = drafts[s]
        BY <1>5, <2>2 DEF Commit, End, TypeOK, Nothing
      <3>2. writes[r][p] = NoRow
        BY <2>2, <3>1 DEF LockInv, WritesAreLocked
      <3> QED
        BY <1>5, <3>1, <3>2 DEF Commit, Visible
    <2> QED
      BY <1>5, <2>1, <2>2 DEF ReconcileInv, Commit, End
  <1>6. ASSUME NEW p \in Pairs, SetReplenishmentRule(p) PROVE ReconcileInv'
    <2>1. \A q \in Pairs : QuantityOf(levels'[q]) = QuantityOf(levels[q])
      BY <1>6, ZeroLevelType DEF SetReplenishmentRule, TypeOK, QuantityOf, ZeroLevel
    <2> QED
      BY <1>6, <2>1 DEF ReconcileInv, SetReplenishmentRule
  <1>7. CASE UNCHANGED vars
    BY <1>7 DEF ReconcileInv, vars
  <1> QED
    BY <1>1, <1>2, <1>3, <1>4, <1>5, <1>6, <1>7, NextCases

(* No interleaving moves stock without a trace: on every pair read under    *)
(* its lock, the ledger is an unbroken chain from zero to the quantity on   *)
(* hand, whatever transactions commit, fail or are cut short.               *)
THEOREM LedgerAlwaysReconciles == Spec => []LedgerReconciles
  <1>1. Init => ReconcileInv
    BY ReconcileInitially
  <1>2. Init => LockInv
    BY LockInitially
  <1>3. TypeOK /\ LockInv /\ [Next]_vars => LockInv'
    BY LockStep
  <1>4. TypeOK /\ LockInv /\ ReconcileInv /\ [Next]_vars => ReconcileInv'
    BY ReconcileStep
  <1>5. ReconcileInv => LedgerReconciles
    BY DEF ReconcileInv, LedgerReconciles, QuantityOf
  <1> QED
    BY <1>1, <1>2, <1>3, <1>4, <1>5, TypeCorrect, PTL DEF Spec
-----------------------------------------------------------------------------
(***************************************************************************)
(* The refinement.  At each line the uncommitted rows of an open request   *)
(* are what the abstract sequence has come to by then.                     *)
(***************************************************************************)

(* Both modules compute on rows in the same way. *)
LEMMA SameRows ==
    /\ Atomic!ZeroLevel = ZeroLevel
    /\ Atomic!Level = Level
    /\ \A c, l : Atomic!RowAfter(c, l, l) = RowAfter(c, l, l)
    /\ \A c, l : Atomic!LedgerRowsOf(c, l) = LedgerRowsOf(c, l)
    /\ \A c, l : Atomic!RefusedOn(c, l) <=> RefusedOn(c, l)
    /\ \A c, l : Atomic!OutOfRange(c, l) <=> OutOfRange(c, l)
    /\ \A c : Atomic!Malformed(c) <=> Malformed(c)
  BY Zenon DEF Atomic!ZeroLevel, ZeroLevel, Atomic!Level, Level, Atomic!RowAfter, RowAfter,
        Atomic!LedgerRowsOf, LedgerRowsOf, Atomic!RefusedOn, RefusedOn,
        Atomic!OutOfRange, OutOfRange, Atomic!Malformed, Malformed,
        Atomic!DirectionOK, DirectionOK, Atomic!IncreasingTypes, IncreasingTypes,
        Atomic!DecreasingTypes, DecreasingTypes, Atomic!NextQuantity, NextQuantity,
        Atomic!NextReserved, NextReserved, Atomic!Magnitude, Magnitude

Start(row) == [level |-> row, rows |-> <<>>, accepted |-> TRUE]

StepsTo(before, change, p) ==
    IF change.pair # p THEN before ELSE Atomic!Accept(before, change)

TrailUpTo(t, row, prog, p, n) ==
    \A i \in 0..n : t[i] = IF i = 0 THEN Start(row) ELSE StepsTo(t[i - 1], prog[i], p)

(* The abstract sequence unfolds, change by change. *)
LEMMA TrailUnfolds ==
    ASSUME NEW row, NEW prog, Len(prog) \in Nat, NEW p
    PROVE  TrailUpTo(Atomic!Trail(row, prog, p), row, prog, p, Len(prog))
  <1> DEFINE Up(n) == \E t : TrailUpTo(t, row, prog, p, n)
             S == {n \in Nat : Up(n)}
  <1>1. 0 \in S
    <2> DEFINE t == [i \in 0..0 |-> Start(row)]
    <2>1. TrailUpTo(t, row, prog, p, 0)
      BY DEF TrailUpTo
    <2> QED
      BY <2>1
  <1>2. ASSUME NEW n \in Nat, n \in S
        PROVE  n + 1 \in S
    <2>1. PICK t : TrailUpTo(t, row, prog, p, n)
      BY <1>2
    <2> DEFINE u == [i \in 0..(n + 1) |-> IF i = n + 1 THEN StepsTo(t[n], prog[n + 1], p) ELSE t[i]]
    <2>2. /\ u[n + 1] = StepsTo(t[n], prog[n + 1], p)
          /\ \A i \in 0..n : u[i] = t[i]
      OBVIOUS
    <2> HIDE DEF u
    <2>3. TrailUpTo(u, row, prog, p, n + 1)
      BY <2>1, <2>2 DEF TrailUpTo
    <2> QED
      BY <2>3
  <1>3. \A n \in Nat : n \in S
    <2> HIDE DEF S
    <2> QED
      BY <1>1, <1>2, NatSetInduction
  <1>4. PICK t : TrailUpTo(t, row, prog, p, Len(prog))
    BY <1>3
  <1> DEFINE Unfolded(f) ==
        f = [i \in 0..Len(prog) |->
               IF i = 0 THEN [level |-> row, rows |-> <<>>, accepted |-> TRUE]
               ELSE IF prog[i].pair # p THEN f[i - 1]
               ELSE Atomic!Accept(f[i - 1], prog[i])]
             u == [i \in 0..Len(prog) |-> t[i]]
  <1>5. Unfolded(u)
    <2>1. \A i \in 0..Len(prog) :
             u[i] = IF i = 0 THEN [level |-> row, rows |-> <<>>, accepted |-> TRUE]
                    ELSE IF prog[i].pair # p THEN u[i - 1]
                    ELSE Atomic!Accept(u[i - 1], prog[i])
      <3> TAKE i \in 0..Len(prog)
      <3>1. u[i] = t[i] /\ (i # 0 => i - 1 \in 0..Len(prog) /\ u[i - 1] = t[i - 1])
        OBVIOUS
      <3>2. t[i] = IF i = 0 THEN Start(row) ELSE StepsTo(t[i - 1], prog[i], p)
        BY <1>4 DEF TrailUpTo
      <3> HIDE DEF u
      <3> QED
        BY <3>1, <3>2, Zenon DEF Start, StepsTo
    <2> QED
      BY <2>1
  <1>6. Atomic!Trail(row, prog, p) = (CHOOSE f : Unfolded(f))
    BY DEF Atomic!Trail
  <1>7. Unfolded(Atomic!Trail(row, prog, p))
    <2> HIDE DEF Unfolded
    <2> QED
      BY <1>5, <1>6
  <1> QED
    BY <1>7 DEF TrailUpTo, Start, StepsTo

(* A pair that no change so far is about keeps its row. *)
LEMMA TrailSkips ==
    ASSUME NEW row, NEW prog, Len(prog) \in Nat, NEW p,
           NEW k \in 0..Len(prog), \A i \in 1..k : prog[i].pair # p
    PROVE  Atomic!Trail(row, prog, p)[k] = Start(row)
  <1> DEFINE t == Atomic!Trail(row, prog, p)
             S == {n \in Nat : n <= k => t[n] = Start(row)}
  <1>1. TrailUpTo(t, row, prog, p, Len(prog))
    BY TrailUnfolds
  <1> HIDE DEF t
  <1>2. 0 \in S
    BY <1>1 DEF TrailUpTo
  <1>3. ASSUME NEW n \in Nat, n \in S
        PROVE  n + 1 \in S
    <2> SUFFICES ASSUME n + 1 <= k PROVE t[n + 1] = Start(row)
      OBVIOUS
    <2>1. t[n] = Start(row) /\ prog[n + 1].pair # p
      BY <1>3
    <2>2. t[n + 1] = StepsTo(t[n], prog[n + 1], p)
      BY <1>1 DEF TrailUpTo
    <2> QED
      BY <2>1, <2>2 DEF StepsTo
  <1>4. \A n \in Nat : n \in S
    <2> HIDE DEF S
    <2> QED
      BY <1>2, <1>3, NatSetInduction
  <1> QED
    BY <1>4 DEF t

(* What the abstract sequence has come to before the line of a request. *)
SoFar(r, p) == Atomic!Trail(levels[p], program[r], p)[line[r] - 1]

(* The row of a pair is the one the sequence has come to, or the one that was *)
(* inserted for the change that is next.                                      *)
RowAgrees(r, p) ==
    \/ SoFar(r, p).level = Visible(r, p)
    \/ /\ SoFar(r, p).level = NoRow
       /\ Visible(r, p) = ZeroLevel
       /\ pc[r] = "update" /\ p = CurrentPair(r) /\ p \in KnownPairs

Follows(r, p) ==
    /\ SoFar(r, p).accepted
    /\ SoFar(r, p).rows = drafts[r][p]
    /\ RowAgrees(r, p)

(* A request holds the lock of every pair it has changed. *)
HoldsChanged(r) == \A i \in 1..(line[r] - 1) : lock[program[r][i].pair] = r

RequestFollows(r) ==
    /\ line[r] \in 1..(Len(program[r]) + 1)
    /\ pc[r] = "commit" => line[r] = Len(program[r]) + 1
    /\ pc[r] = "insert" => CurrentPair(r) \in KnownPairs
    /\ HoldsChanged(r)
    /\ \A p \in Pairs \ unlockedReads : Follows(r, p)

FollowInv ==
    /\ \A r \in Requests :
          IF pc[r] \in Open THEN RequestFollows(r)
          ELSE \A p \in Pairs : writes[r][p] = NoRow
    /\ \A p \in unlockedReads : levels[p] # NoRow

(* A request that has just begun has changed nothing. *)
LEMMA FollowsBegin ==
    ASSUME TypeOK, LockInv, FollowInv, NEW r \in Requests, Begin(r)
    PROVE  RequestFollows(r)'
  <1> USE DEF Begin, Goto, txVars
  <1>1. /\ program'[r] \in Programs /\ line'[r] = 1 /\ pc'[r] = "select"
        /\ Len(program'[r]) \in Nat
    <2>1. program'[r] \in Programs /\ line'[r] = 1 /\ pc'[r] = "select"
      BY DEF TypeOK, WellPlaced, Open
    <2>2. program'[r] \in Seq(Change)
      BY <2>1, ProgramsAssumption
    <2> QED
      BY <2>1, <2>2, LenProperties
  <1>2. ASSUME NEW p \in Pairs
        PROVE  Atomic!Trail(levels'[p], program'[r], p)[line'[r] - 1] = Start(levels'[p])
    <2> DEFINE prog == program'[r]
    <2>1. Len(prog) \in Nat /\ 0 \in 0..Len(prog) /\ line'[r] - 1 = 0
      BY <1>1
    <2> HIDE DEF prog
    <2>2. Atomic!Trail(levels'[p], prog, p)[0] = Start(levels'[p])
      BY <2>1, TrailSkips
    <2> QED
      BY <2>1, <2>2 DEF prog
  <1>3. ASSUME NEW p \in Pairs
        PROVE  writes'[r][p] = NoRow /\ drafts'[r][p] = <<>>
    BY DEF FollowInv, Open, LockInv, WritesAreLocked
  <1>4. ASSUME NEW p \in Pairs
        PROVE  Follows(r, p)'
    <2>1. SoFar(r, p)' = Start(levels'[p])
      BY <1>2 DEF SoFar
    <2>2. Visible(r, p)' = levels'[p]
      BY <1>3 DEF Visible
    <2> QED
      BY <1>3, <2>1, <2>2 DEF Follows, RowAgrees, Start
  <1>5. HoldsChanged(r)'
    BY <1>1 DEF HoldsChanged
  <1> QED
    BY <1>1, <1>4, <1>5 DEF RequestFollows

(* Every change of an open request is about a pair. *)
LEMMA ChangesOfOpen ==
    ASSUME TypeOK, NEW r \in Requests, pc[r] \in Open
    PROVE  /\ Len(program[r]) \in Nat
           /\ \A i \in 1..Len(program[r]) : program[r][i] \in Change /\ program[r][i].pair \in Pairs
  <1>1. program[r] \in Programs
    BY DEF TypeOK, WellPlaced
  <1>2. program[r] \in Seq(Change)
    BY <1>1, ProgramsAssumption
  <1>3. \A i \in 1..Len(program[r]) : program[r][i] \in Change
    BY <1>2, ElementOfSeq
  <1> QED
    BY <1>2, <1>3, LenProperties DEF Change

(* A step that leaves an open request at its line, with its rows and its    *)
(* locks, leaves it as far as it was.                                       *)
LEMMA FollowsKept ==
    ASSUME TypeOK, LockInv, NEW r \in Requests, RequestFollows(r),
           pc[r] \in Open, pc'[r] \in Open,
           pc[r] = "update" => pc'[r] = "update",
           pc'[r] = "commit" => pc[r] = "commit",
           pc'[r] = "insert" => pc[r] = "insert" \/ CurrentPair(r) \in KnownPairs,
           program'[r] = program[r], line'[r] = line[r],
           writes'[r] = writes[r], drafts'[r] = drafts[r],
           unlockedReads \subseteq unlockedReads',
           \A p \in Pairs : lock[p] = r => lock'[p] = r /\ levels'[p] = levels[p]
    PROVE  RequestFollows(r)'
  <1>1. /\ Len(program[r]) \in Nat
        /\ \A i \in 1..Len(program[r]) : program[r][i] \in Change /\ program[r][i].pair \in Pairs
    BY ChangesOfOpen
  <1>2. line[r] \in 1..(Len(program[r]) + 1) /\ HoldsChanged(r)
    BY DEF RequestFollows
  <1>3. HoldsChanged(r)'
    BY <1>1, <1>2 DEF HoldsChanged
  <1>4. ASSUME NEW p \in Pairs, p \notin unlockedReads'
        PROVE  Follows(r, p)'
    <2>1. Follows(r, p)
      BY <1>4 DEF RequestFollows
    <2>2. CASE lock[p] = r
      <3>1. SoFar(r, p)' = SoFar(r, p) /\ Visible(r, p)' = Visible(r, p)
        BY <2>2 DEF SoFar, Visible
      <3>2. RowAgrees(r, p)'
        BY <2>1, <3>1 DEF Follows, RowAgrees, CurrentPair, CurrentChange
      <3> QED
        BY <2>1, <3>1, <3>2 DEF Follows
    <2>3. CASE lock[p] # r
      <3>1. writes[r][p] = NoRow /\ drafts[r][p] = <<>>
        BY <2>3 DEF LockInv, WritesAreLocked
      <3> DEFINE k == line[r] - 1
      <3>2. k \in 0..Len(program[r]) /\ \A i \in 1..k : program[r][i].pair # p
        BY <1>1, <1>2, <2>3 DEF HoldsChanged
      <3>3. Atomic!Trail(levels'[p], program[r], p)[k] = Start(levels'[p])
        <4> HIDE DEF k
        <4> QED
          BY <1>1, <3>2, TrailSkips
      <3>4. SoFar(r, p)' = Start(levels'[p])
        BY <3>3 DEF SoFar
      <3>5. Visible(r, p)' = levels'[p]
        BY <3>1 DEF Visible
      <3> QED
        BY <3>1, <3>4, <3>5 DEF Follows, RowAgrees, Start
    <2> QED
      BY <2>2, <2>3
  <1> QED
    BY <1>2, <1>3, <1>4 DEF RequestFollows, CurrentPair, CurrentChange

(* The inserted row is the one the abstract change starts from. *)
LEMMA FollowsInsert ==
    ASSUME TypeOK, LockInv, FollowInv, NEW r \in Requests, InsertRow(r)
    PROVE  RequestFollows(r)'
  <1> USE DEF InsertRow, Goto
  <1> DEFINE q == CurrentPair(r)
  <1>0. /\ pc[r] \in Open /\ pc'[r] = "update"
        /\ program'[r] = program[r] /\ line'[r] = line[r] /\ drafts'[r] = drafts[r]
        /\ CurrentPair(r)' = CurrentPair(r)
    BY DEF TypeOK, Open, CurrentPair, CurrentChange
  <1>1. RequestFollows(r) /\ q \in KnownPairs
    BY <1>0 DEF FollowInv, RequestFollows
  <1>2. /\ Len(program[r]) \in Nat
        /\ \A i \in 1..Len(program[r]) : program[r][i] \in Change /\ program[r][i].pair \in Pairs
    BY <1>0, ChangesOfOpen
  <1>3. q \in Pairs
    BY CurrentChangeType DEF Open
  <1>4. HoldsChanged(r)'
    BY <1>0, <1>1, <1>2 DEF RequestFollows, HoldsChanged, TypeOK
  <1>5. ASSUME NEW p \in Pairs, p \notin unlockedReads'
        PROVE  Follows(r, p)'
    <2>1. Follows(r, p) /\ SoFar(r, p)' = SoFar(r, p)
      BY <1>0, <1>1, <1>5 DEF RequestFollows, SoFar
    <2>2. SoFar(r, p).level = Visible(r, p)
      BY <2>1 DEF Follows, RowAgrees
    <2>3. CASE p # q
      <3>1. Visible(r, p)' = Visible(r, p)
        BY <1>3, <2>3 DEF Visible, TypeOK
      <3> QED
        BY <1>0, <2>1, <2>2, <3>1 DEF Follows, RowAgrees
    <2>4. CASE p = q
      <3>1. lock[p] # r /\ levels[p] = NoRow
        BY <2>4, NoRequestAssumption
      <3>2. Visible(r, p) = NoRow
        BY <3>1 DEF Visible, LockInv, WritesAreLocked
      <3>3. Visible(r, p)' = ZeroLevel
        BY <1>3, <2>4, ZeroLevelType DEF Visible, TypeOK
      <3> QED
        BY <1>0, <1>1, <2>1, <2>2, <2>4, <3>2, <3>3 DEF Follows, RowAgrees
    <2> QED
      BY <2>3, <2>4
  <1> QED
    BY <1>0, <1>1, <1>4, <1>5 DEF RequestFollows

(* The row and the ledger rows a change writes are the ones the abstract     *)
(* sequence accepts.                                                         *)
LEMMA FollowsUpdate ==
    ASSUME TypeOK, LockInv, FollowInv, NEW r \in Requests, UpdateRow(r)
    PROVE  RequestFollows(r)'
  <1> DEFINE q == CurrentPair(r)
             c == CurrentChange(r)
             n == Len(program[r])
  <1>1. /\ pc[r] = "update" /\ pc[r] \in Open
        /\ ~RefusedOn(c, read[r]) /\ ~OutOfRange(c, read[r]) /\ ~Malformed(c)
        /\ read[r] # NoRow /\ read[r] \in Level
    BY DEF UpdateRow, TypeOK, WellPlaced, Open, OrNoRow
  <1>2. /\ n \in Nat /\ line[r] \in 1..n /\ q \in Pairs /\ c \in Change
        /\ \A i \in 1..n : program[r][i] \in Change /\ program[r][i].pair \in Pairs
    BY <1>1, ChangesOfOpen, CurrentChangeType
  <1>3. /\ program' = program /\ levels' = levels /\ unlockedReads' = unlockedReads
        /\ line'[r] = line[r] + 1
        /\ pc'[r] = IF line[r] = n THEN "commit" ELSE "select"
    BY DEF UpdateRow, Goto, TypeOK
  <1>4. /\ lock' = [lock EXCEPT ![q] = r]
        /\ writes'[r] = [writes[r] EXCEPT ![q] = RowAfter(c, read[r], Visible(r, q))]
        /\ drafts'[r] = [drafts[r] EXCEPT ![q] = @ \o LedgerRowsOf(c, read[r])]
    BY DEF UpdateRow, TypeOK
  <1>5. RequestFollows(r)
    BY <1>1 DEF FollowInv
  <1>6. HoldsChanged(r)'
    <2>1. \A i \in 1..line[r] : lock'[program[r][i].pair] = r
      BY <1>2, <1>4, <1>5 DEF RequestFollows, HoldsChanged, TypeOK, CurrentPair, CurrentChange
    <2> QED
      BY <1>2, <1>3, <2>1 DEF HoldsChanged
  <1>7. ASSUME NEW p \in Pairs, p \notin unlockedReads
        PROVE  Follows(r, p)'
    <2> DEFINE before == SoFar(r, p)
               after == Atomic!Trail(levels[p], program[r], p)[line[r]]
    <2>1. Follows(r, p)
      BY <1>5, <1>7 DEF RequestFollows
    <2>2. after = StepsTo(before, c, p)
      <3> DEFINE t == Atomic!Trail(levels[p], program[r], p)
                 k == line[r]
      <3>1. TrailUpTo(t, levels[p], program[r], p, n)
        BY <1>2, TrailUnfolds
      <3>2. k \in 0..n /\ k # 0
        BY <1>2
      <3> HIDE DEF t
      <3>3. t[k] = StepsTo(t[k - 1], program[r][k], p)
        BY <3>1, <3>2 DEF TrailUpTo
      <3> QED
        BY <3>3 DEF SoFar, CurrentChange, t
    <2>3. SoFar(r, p)' = after
      BY <1>2, <1>3 DEF SoFar
    <2> HIDE DEF before, after
    <2>4. CASE p # q
      <3>1. after = before
        BY <2>2, <2>4 DEF StepsTo, CurrentPair
      <3>2. Visible(r, p)' = Visible(r, p) /\ drafts'[r][p] = drafts[r][p]
        BY <1>2, <1>3, <1>4, <2>4 DEF Visible, TypeOK
      <3> QED
        BY <2>1, <2>3, <2>4, <3>1, <3>2 DEF Follows, RowAgrees, before
    <2>5. CASE p = q
      <3> DEFINE l == read[r]
      <3>1. l = Visible(r, p)
        BY <1>1, <1>7, <2>5 DEF LockInv, DecidesOnCurrentRow
      <3>2. /\ IF before.level = NoRow THEN l = ZeroLevel /\ q \in KnownPairs ELSE before.level = l
            /\ before.accepted /\ before.rows = drafts[r][p]
        BY <1>1, <2>1, <2>5, <3>1, ZeroLevelType DEF Follows, RowAgrees, before
      <3>3. after = Atomic!Accept(before, c)
        BY <2>2, <2>5 DEF StepsTo, CurrentPair
      <3>4. /\ after.level = RowAfter(c, l, l)
            /\ after.rows = drafts[r][p] \o LedgerRowsOf(c, l)
            /\ after.accepted
        <4>1. (IF before.level = NoRow THEN Atomic!ZeroLevel ELSE before.level) = l
          BY <3>2, SameRows
        <4>2. c.pair = q
          BY DEF CurrentPair
        <4> HIDE DEF c, q, l
        <4>3. after = [level |-> Atomic!RowAfter(c, l, l),
                       rows |-> before.rows \o Atomic!LedgerRowsOf(c, l),
                       accepted |-> /\ before.accepted
                                    /\ ~Atomic!Malformed(c)
                                    /\ before.level = NoRow => c.pair \in KnownPairs
                                    /\ ~Atomic!RefusedOn(c, l)
                                    /\ ~Atomic!OutOfRange(c, l)]
          BY <3>3, <4>1, Zenon DEF Atomic!Accept
        <4>4. after.level = RowAfter(c, l, l) /\ after.rows = before.rows \o LedgerRowsOf(c, l)
          BY <4>3, SameRows
        <4>5. after.accepted
          BY <1>1, <3>2, <4>2, <4>3, SameRows DEF c, l
        <4> QED
          BY <3>2, <4>4, <4>5
      <3>5. RowAfter(c, l, l) # NoRow
        BY <1>1, <1>2, RowAfterType, NoRowAssumption
      <3>6. Visible(r, p)' = RowAfter(c, l, l) /\ drafts'[r][p] = drafts[r][p] \o LedgerRowsOf(c, l)
        BY <1>2, <1>4, <2>5, <3>1, <3>5 DEF Visible, TypeOK
      <3> HIDE DEF l, c
      <3> QED
        BY <2>3, <3>4, <3>6 DEF Follows, RowAgrees
    <2> QED
      BY <2>4, <2>5
  <1> QED
    BY <1>2, <1>3, <1>6, <1>7 DEF RequestFollows

(* No request is open at first. *)
LEMMA FollowsInitially == Init => FollowInv
  BY DEF Init, FollowInv, Open, Nothing

(* Every step keeps the open requests on their way. *)
LEMMA FollowsStep ==
    TypeOK /\ TypeOK' /\ LockInv /\ FollowInv /\ [Next]_vars => FollowInv'
  <1> SUFFICES ASSUME TypeOK, TypeOK', LockInv, FollowInv, [Next]_vars PROVE FollowInv'
    OBVIOUS
  <1> USE DEF Goto, txVars
  <1> DEFINE Good(s) == IF pc[s] \in Open THEN RequestFollows(s)
                        ELSE \A p \in Pairs : writes[s][p] = NoRow
  <1>0. /\ \A s \in Requests : Good(s)
        /\ \A p \in unlockedReads : levels[p] # NoRow
    BY DEF FollowInv
  <1>1. ASSUME NEW s \in Requests,
               pc'[s] = pc[s], program'[s] = program[s], line'[s] = line[s],
               writes'[s] = writes[s], drafts'[s] = drafts[s],
               unlockedReads \subseteq unlockedReads',
               \A p \in Pairs : lock[p] = s => lock'[p] = s /\ levels'[p] = levels[p]
        PROVE  Good(s)'
    BY <1>0, <1>1, FollowsKept
  <1>2. ASSUME NEW r \in Requests, Begin(r) PROVE FollowInv'
    <2>1. Good(r)'
      BY <1>2, FollowsBegin DEF Begin, Open, TypeOK
    <2>2. ASSUME NEW s \in Requests, s # r PROVE Good(s)'
      BY <1>1, <1>2, <2>2 DEF Begin, TypeOK
    <2> QED
      BY <1>0, <1>2, <2>1, <2>2 DEF FollowInv, Begin
  <1>3. ASSUME NEW r \in Requests, LockRow(r) \/ MissRow(r) \/ MissAgain(r) \/ FindUnlocked(r)
        PROVE  FollowInv'
    <2>1. /\ pc[r] \in Open /\ pc[r] \in {"select", "upsert"} /\ pc'[r] \in Open \ {"commit"}
          /\ pc'[r] = "insert" => CurrentPair(r) \in KnownPairs
      BY <1>3 DEF LockRow, MissRow, MissAgain, FindUnlocked, Open, TypeOK
    <2>2. /\ program' = program /\ line' = line /\ writes' = writes /\ drafts' = drafts
          /\ unlockedReads \subseteq unlockedReads'
          /\ levels' = levels
          /\ \A p \in Pairs : lock[p] = r => lock'[p] = r
          /\ \A s \in Requests \ {r} : /\ pc'[s] = pc[s]
                                       /\ \A p \in Pairs : lock[p] = s => lock'[p] = s
          /\ \A p \in unlockedReads' : levels[p] # NoRow
      BY <1>0, <1>3, NoRequestAssumption
         DEF LockRow, MissRow, MissAgain, FindUnlocked, TypeOK, FreeFor
    <2>3. Good(r)'
      BY <1>0, <2>1, <2>2, FollowsKept
    <2>4. ASSUME NEW s \in Requests, s # r PROVE Good(s)'
      BY <1>1, <2>2, <2>4
    <2> QED
      BY <2>2, <2>3, <2>4 DEF FollowInv
  <1>4. ASSUME NEW r \in Requests, InsertRow(r) PROVE FollowInv'
    <2>1. Good(r)'
      BY <1>4, FollowsInsert DEF InsertRow, Open, TypeOK
    <2>2. ASSUME NEW s \in Requests, s # r PROVE Good(s)'
      BY <1>1, <1>4, <2>2, NoRequestAssumption DEF InsertRow, TypeOK
    <2> QED
      BY <1>0, <1>4, <2>1, <2>2 DEF FollowInv, InsertRow
  <1>5. ASSUME NEW r \in Requests, UpdateRow(r) PROVE FollowInv'
    <2>1. Good(r)'
      BY <1>5, FollowsUpdate DEF UpdateRow, Open, TypeOK
    <2>2. ASSUME NEW s \in Requests, s # r PROVE Good(s)'
      BY <1>1, <1>5, <2>2, NoRequestAssumption DEF UpdateRow, TypeOK, FreeFor
    <2> QED
      BY <1>0, <1>5, <2>1, <2>2 DEF FollowInv, UpdateRow
  <1>6. ASSUME NEW r \in Requests, NEW outcome \in Settled, End(r, outcome),
               levels' \in [Pairs -> OrNoRow(Level)],
               \A p \in Pairs : /\ writes[r][p] = NoRow => levels'[p] = levels[p]
                                /\ levels[p] # NoRow => levels'[p] # NoRow
        PROVE  FollowInv'
    <2>1. Good(r)'
      BY <1>6 DEF End, Settled, Open, Nothing, TypeOK
    <2>2. ASSUME NEW s \in Requests, s # r PROVE Good(s)'
      <3>1. \A p \in Pairs : lock[p] = s => lock'[p] = s /\ levels'[p] = levels[p]
        BY <1>6, <2>2 DEF End, LockInv, WritesAreLocked
      <3> QED
        BY <1>1, <1>6, <2>2, <3>1 DEF End, TypeOK
    <2>3. unlockedReads' = unlockedReads /\ unlockedReads \subseteq Pairs
      BY <1>6 DEF End, TypeOK
    <2> QED
      BY <1>0, <1>6, <2>1, <2>2, <2>3 DEF FollowInv
  <1>7. ASSUME NEW r \in Requests, Rollback(r) PROVE FollowInv'
    BY <1>6, <1>7 DEF Rollback, Settled, TypeOK
  <1>8. ASSUME NEW r \in Requests, Commit(r) PROVE FollowInv'
    <2>1. /\ levels' \in [Pairs -> OrNoRow(Level)]
          /\ \A p \in Pairs : levels'[p] = Visible(r, p)
      BY <1>8 DEF Commit, TypeOK
    <2>2. End(r, "committed") /\ "committed" \in Settled
      BY <1>8 DEF Commit, Settled
    <2> QED
      BY <1>6, <2>1, <2>2 DEF Visible
  <1>9. ASSUME NEW p \in Pairs, SetReplenishmentRule(p) PROVE FollowInv'
    <2>1. ASSUME NEW s \in Requests PROVE Good(s)'
      BY <1>1, <1>9, NoRequestAssumption DEF SetReplenishmentRule, TypeOK
    <2> QED
      BY <1>0, <1>9, <2>1, ZeroLevelType DEF FollowInv, SetReplenishmentRule, TypeOK
  <1>10. CASE UNCHANGED vars
    <2>1. ASSUME NEW s \in Requests PROVE Good(s)'
      BY <1>1, <1>10 DEF vars
    <2> QED
      BY <1>0, <1>10, <2>1 DEF FollowInv, vars
  <1> QED
    BY <1>2, <1>3, <1>4, <1>5, <1>7, <1>8, <1>9, <1>10, NextCases

-----------------------------------------------------------------------------
(* Each step of the ledger is one of the abstract specification, or none. *)

StatusOf(label) == CASE label = "idle" -> "waiting" [] label \in Open -> "running" [] OTHER -> label
AtomicStatus == [r \in Requests |-> StatusOf(pc[r])]

(* Open requests run, and those that have ended say how. *)
LEMMA StatusFacts ==
    /\ StatusOf("idle") = "waiting"
    /\ \A label \in Open : StatusOf(label) = "running"
    /\ \A label \in Settled : StatusOf(label) = label
  BY DEF StatusOf, Open, Settled

(* Both start with the opening rows, come in once. *)
LEMMA AtomicInitially == Init => Atomic!Init
  <1> SUFFICES ASSUME Init PROVE Atomic!Init
    OBVIOUS
  <1>1. ASSUME NEW p \in Pairs
        PROVE  movements[p] = IF Opening[p] = NoRow \/ Opening[p].quantity = 0 THEN <<>>
                              ELSE << [type |-> "INBOUND", quantity |-> Opening[p].quantity,
                                       balanceAfter |-> Opening[p].quantity] >>
    BY OpeningAssumption
       DEF Init, OpeningRows, RecordIn, MovementOf, LedgerRowsOf, Magnitude, NextQuantity,
           ZeroLevel, Level, NonNegative
  <1>2. movements = [p \in Pairs |->
            IF Opening[p] = NoRow \/ Opening[p].quantity = 0 THEN <<>>
            ELSE << [type |-> "INBOUND", quantity |-> Opening[p].quantity,
                     balanceAfter |-> Opening[p].quantity] >>]
    BY <1>1 DEF Init
  <1>3. \A r \in Requests : pc[r] = "idle"
    BY DEF Init
  <1>4. AtomicStatus = [r \in Requests |-> "waiting"]
    BY <1>3, StatusFacts DEF AtomicStatus
  <1> QED
    BY <1>2, <1>4 DEF Init, Atomic!Init, AtomicStatus, StatusOf

(* What a step does to the status of a request, and to nobody else's. *)
LEMMA StatusMoves ==
    ASSUME pc \in [Requests -> {"idle"} \cup Open \cup Settled],
           NEW r \in Requests, NEW label \in Open \cup Settled,
           pc' = [pc EXCEPT ![r] = label]
    PROVE  AtomicStatus' = [AtomicStatus EXCEPT ![r] = StatusOf(label)]
  <1>1. \A s \in Requests : pc'[s] = IF s = r THEN label ELSE pc[s]
    OBVIOUS
  <1>2. AtomicStatus' = [s \in Requests |-> StatusOf(pc'[s])]
    BY DEF AtomicStatus
  <1> QED
    BY <1>1, <1>2 DEF AtomicStatus

(* A request that stays open keeps running. *)
LEMMA StatusStays ==
    ASSUME pc \in [Requests -> {"idle"} \cup Open \cup Settled],
           NEW r \in Requests, NEW label \in Open, pc[r] \in Open,
           pc' = [pc EXCEPT ![r] = label]
    PROVE  AtomicStatus' = AtomicStatus
  <1>1. AtomicStatus' = [AtomicStatus EXCEPT ![r] = StatusOf(label)]
    BY StatusMoves
  <1>2. AtomicStatus[r] = StatusOf(label)
    BY StatusFacts DEF AtomicStatus
  <1> QED
    BY <1>1, <1>2 DEF AtomicStatus

(* A request that begins begins. *)
LEMMA AtomicBegin ==
    ASSUME TypeOK, NEW r \in Requests, Begin(r)
    PROVE  Atomic!Begin(r)
  <1>1. AtomicStatus[r] = "waiting"
    BY StatusFacts DEF AtomicStatus, Begin
  <1>2. AtomicStatus' = [AtomicStatus EXCEPT ![r] = "running"]
    <2>1. pc' = [pc EXCEPT ![r] = "select"] /\ "select" \in Open \cup Settled
      BY DEF Begin, Goto, Open
    <2>2. AtomicStatus' = [AtomicStatus EXCEPT ![r] = StatusOf("select")]
      BY <2>1, StatusMoves DEF TypeOK
    <2> QED
      BY <2>2, StatusFacts DEF Open, Settled
  <1> QED
    BY <1>1, <1>2 DEF Begin, Atomic!Begin, AtomicStatus, StatusOf

(* However it ends without effect, it is one abstract rollback. *)
LEMMA AtomicRollBack ==
    ASSUME TypeOK, NEW r \in Requests, pc[r] \in Open, Rollback(r)
    PROVE  Atomic!RollBack(r)
  <1>1. AtomicStatus[r] = "running"
    BY StatusFacts DEF AtomicStatus
  <1>2. AtomicStatus' = [AtomicStatus EXCEPT ![r] = "rolledback"]
    <2>1. pc' = [pc EXCEPT ![r] = "rolledback"] /\ "rolledback" \in Open \cup Settled
      BY DEF Rollback, End, Goto, Settled
    <2>2. AtomicStatus' = [AtomicStatus EXCEPT ![r] = StatusOf("rolledback")]
      BY <2>1, StatusMoves DEF TypeOK
    <2> QED
      BY <2>2, StatusFacts DEF Open, Settled
  <1> QED
    BY <1>1, <1>2 DEF Rollback, End, Atomic!RollBack, AtomicStatus, StatusOf

(* A replenishment rule opens a row. *)
LEMMA AtomicOpenRow ==
    ASSUME NEW p \in Pairs, SetReplenishmentRule(p)
    PROVE  Atomic!OpenRow(p)
  BY SameRows DEF SetReplenishmentRule, Atomic!OpenRow

(* A read that takes no lock makes the pair suspect. *)
LEMMA AtomicDistrust ==
    ASSUME TypeOK, NEW r \in Requests, FindUnlocked(r)
    PROVE  CurrentPair(r) \in Pairs /\ Atomic!Distrust(CurrentPair(r))
  <1>1. pc[r] \in Open /\ CurrentPair(r) \in Pairs /\ line[r] \in 1..Len(program[r])
    BY CurrentChangeType DEF FindUnlocked, Open
  <1>2. AtomicStatus[r] = "running"
    BY <1>1, StatusFacts DEF AtomicStatus
  <1>3. AtomicStatus' = AtomicStatus
    BY <1>1, StatusStays DEF FindUnlocked, Goto, Open, TypeOK
  <1>4. \E s \in Requests : /\ AtomicStatus[s] = "running"
                            /\ \E i \in 1..Len(program[s]) : program[s][i].pair = CurrentPair(r)
    BY <1>1, <1>2 DEF CurrentPair, CurrentChange
  <1> QED
    BY <1>1, <1>3, <1>4 DEF FindUnlocked, Atomic!Distrust, AtomicStatus, StatusOf

(* A ledger that rows are appended to goes on from itself. *)
LEMMA PrefixOfConcat ==
    ASSUME NEW s \in Seq(Movement), NEW t \in Seq(Movement)
    PROVE  Atomic!IsPrefix(s, s \o t)
  <1>1. Len(s) \in Nat /\ Len(t) \in Nat /\ Len(s \o t) = Len(s) + Len(t)
    BY ConcatProperties
  <1>2. SubSeq(s, 1, Len(s)) = SubSeq(s \o t, 1, Len(s))
    BY <1>1
  <1> QED
    BY <1>1, <1>2 DEF Atomic!IsPrefix

(* A commit publishes what its sequence comes to on the rows as they stand. *)
LEMMA AtomicCommit ==
    ASSUME TypeOK, LockInv, FollowInv, NEW r \in Requests, Commit(r)
    PROVE  Atomic!Commit(r)
  <1>1. pc[r] = "commit" /\ pc[r] \in Open /\ AtomicStatus[r] = "running"
    BY StatusFacts DEF AtomicStatus, Commit, Open
  <1>2. AtomicStatus' = [AtomicStatus EXCEPT ![r] = "committed"]
    <2>1. pc' = [pc EXCEPT ![r] = "committed"] /\ "committed" \in Open \cup Settled
      BY DEF Commit, End, Goto, Settled
    <2>2. AtomicStatus' = [AtomicStatus EXCEPT ![r] = StatusOf("committed")]
      BY <2>1, StatusMoves DEF TypeOK
    <2> QED
      BY <2>2, StatusFacts DEF Open, Settled
  <1>3. RequestFollows(r) /\ Len(program[r]) \in Nat /\ line[r] - 1 = Len(program[r])
    BY <1>1, ChangesOfOpen DEF FollowInv, RequestFollows
  <1>4. ASSUME NEW p \in Pairs \ unlockedReads
        PROVE  LET outcome == Atomic!Outcome(program[r], p) IN
               /\ outcome.accepted
               /\ levels'[p] = outcome.level
               /\ movements'[p] = movements[p] \o outcome.rows
    <2>1. Atomic!Outcome(program[r], p) = SoFar(r, p)
      BY <1>3 DEF Atomic!Outcome, SoFar
    <2>2. Follows(r, p) /\ SoFar(r, p).level = Visible(r, p)
      BY <1>1, <1>3 DEF RequestFollows, Follows, RowAgrees
    <2> QED
      BY <2>1, <2>2 DEF Follows, Commit
  <1>5. ASSUME NEW p \in unlockedReads
        PROVE  levels'[p] \in Atomic!Level /\ Atomic!IsPrefix(movements[p], movements'[p])
    <2>1. p \in Pairs /\ levels[p] # NoRow
      BY DEF FollowInv, TypeOK
    <2>2. Visible(r, p) \in Level
      BY <2>1 DEF Visible, TypeOK, OrNoRow
    <2>3. movements[p] \in Seq(Movement) /\ drafts[r][p] \in Seq(Movement)
      BY <2>1 DEF TypeOK
    <2> QED
      BY <2>1, <2>2, <2>3, PrefixOfConcat, SameRows DEF Commit
  <1>6. program' = [program EXCEPT ![r] = <<>>] /\ UNCHANGED unlockedReads
    BY DEF Commit, End
  <1> QED
    BY <1>1, <1>2, <1>4, <1>5, <1>6 DEF Atomic!Commit, AtomicStatus, StatusOf

(* Every step maps to a step or to none. *)
LEMMA AtomicStep ==
    TypeOK /\ LockInv /\ FollowInv /\ [Next]_vars => [Atomic!Next]_(Atomic!vars)
  <1> SUFFICES ASSUME TypeOK, LockInv, FollowInv, [Next]_vars
               PROVE  Atomic!Next \/ UNCHANGED Atomic!vars
    OBVIOUS
  <1>1. ASSUME NEW r \in Requests, Begin(r) PROVE Atomic!Next
    BY <1>1, AtomicBegin DEF Atomic!Next
  <1>2. ASSUME NEW r \in Requests, pc[r] \in Open, Rollback(r) PROVE Atomic!Next
    BY <1>2, AtomicRollBack DEF Atomic!Next
  <1>3. ASSUME NEW r \in Requests, Commit(r) PROVE Atomic!Next
    BY <1>3, AtomicCommit DEF Atomic!Next
  <1>4. ASSUME NEW r \in Requests, FindUnlocked(r) PROVE Atomic!Next
    BY <1>4, AtomicDistrust DEF Atomic!Next
  <1>5. ASSUME NEW p \in Pairs, SetReplenishmentRule(p) PROVE Atomic!Next
    BY <1>5, AtomicOpenRow DEF Atomic!Next
  <1>6. ASSUME NEW r \in Requests,
               LockRow(r) \/ MissRow(r) \/ MissAgain(r) \/ InsertRow(r) \/ UpdateRow(r)
        PROVE  UNCHANGED Atomic!vars
    <2>1. /\ UNCHANGED <<levels, movements, program, unlockedReads>>
          /\ pc[r] \in Open
      BY <1>6 DEF LockRow, MissRow, MissAgain, InsertRow, UpdateRow, Open, txVars
    <2>2. PICK label \in Open : pc' = [pc EXCEPT ![r] = label]
      BY <1>6 DEF LockRow, MissRow, MissAgain, InsertRow, UpdateRow, Goto, Open
    <2>3. AtomicStatus' = AtomicStatus
      BY <2>1, <2>2, StatusStays DEF TypeOK
    <2> QED
      BY <2>1, <2>3 DEF Atomic!vars, AtomicStatus, StatusOf
  <1>7. CASE UNCHANGED vars
    BY <1>7 DEF vars, Atomic!vars
  <1> QED
    BY <1>1, <1>2, <1>3, <1>4, <1>5, <1>6, <1>7, NextCases

(* Transactions serialise, for any number of requests and any programs: the *)
(* rows and the ledger are at all times those of the committed requests run *)
(* one after the other, each as a whole, on every pair that was always read *)
(* under its lock.                                                          *)
THEOREM TransactionsAreAtomic == Spec => ImplementsAtomicLedger
  <1>1. Init => LockInv /\ FollowInv /\ Atomic!Init
    BY LockInitially, FollowsInitially, AtomicInitially
  <1>2. TypeOK /\ LockInv /\ [Next]_vars => LockInv'
    BY LockStep
  <1>3. TypeOK /\ TypeOK' /\ LockInv /\ FollowInv /\ [Next]_vars => FollowInv'
    BY FollowsStep
  <1>4. TypeOK /\ LockInv /\ FollowInv /\ [Next]_vars => [Atomic!Next]_(Atomic!vars)
    BY AtomicStep
  <1> QED
    BY <1>1, <1>2, <1>3, <1>4, TypeCorrect, PTL DEF Spec, ImplementsAtomicLedger, Atomic!Spec
=============================================================================
