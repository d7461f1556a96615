------------------------------ MODULE BulkJobs ------------------------------
(***************************************************************************)
(* JobsService and BulkStockProcessor: stock corrections that are queued   *)
(* and applied line by line in the background.                             *)
(*                                                                         *)
(* A request writes the job's row and then hands the job to BullMQ.  A     *)
(* worker takes it, resolves its codes once, and applies its lines chunk   *)
(* by chunk, each line in a transaction of its own; a line that is refused *)
(* is an entry of the report.  BullMQ delivers a job again when its        *)
(* handler throws and when its worker stops renewing the lock, whether the *)
(* worker died or only lost Redis: then two runs of one job go on side by  *)
(* side.  Every run starts at the first line.                              *)
(***************************************************************************)
EXTENDS StockRows, FiniteSets, SequencesExt

CONSTANTS Jobs, Workers,
          Lines,          \* the lines of each job, as sequences
          KnownPairs,     \* the pairs whose SKU and warehouse code exist
          Opening,        \* the row of each pair at the start
          ChunkSize,      \* CHUNK_SIZE
          ReportLimit,    \* the errors kept on the row: errors.slice(0, 100)
          MaxAttempts,    \* of each job; the code gives every job attempts: 3
          MaxStalls       \* of each job; BullMQ's maxStalledCount

(* A correction of one pair; zero passes bulkStockAdjustmentLineSchema. *)
Correction == [pair : Pairs, delta : Int]

ASSUME LinesAssumption == \A j \in Jobs : Lines[j] \in Seq(Correction) /\ Lines[j] # <<>>
ASSUME BulkOpeningAssumption ==
    /\ Opening \in [Pairs -> Level]
    /\ \A p \in Pairs : NonNegative(Opening[p]) /\ Covered(Opening[p])
ASSUME LimitsAssumption ==
    /\ ChunkSize \in Nat \ {0} /\ ReportLimit \in Nat \ {0}
    /\ MaxAttempts \in [Jobs -> Nat \ {0}] /\ MaxStalls \in [Jobs -> Nat]

VARIABLES
    levels,     \* the stock_levels rows
    rows,       \* the bulk_jobs rows
    queue,      \* what BullMQ knows of each job
    runs,       \* what each worker slot is doing; empty when it is free
    applied,    \* the ledger rows of each job's lines, counted
    deliveries  \* history: how often BullMQ has delivered each job

bulkVars == <<levels, rows, queue, runs, applied, deliveries>>

Numbers(j) == 1..Len(Lines[j])
RowStatuses == {"QUEUED", "PROCESSING", "COMPLETED", "COMPLETED_WITH_ERRORS"}

(* The row: an absent one has the status "none". *)
Row == [status : RowStatuses \cup {"none"}, processed : Nat, failed : Nat, errors : SUBSET Nat]
NoJob == [status |-> "none", processed |-> 0, failed |-> 0, errors |-> {}]

(* `owner` is the worker that holds the job's lock. *)
QueueStates == {"absent", "refused", "waiting", "active", "completed", "failed"}
Entry == [state : QueueStates, attempts : Nat, stalls : Nat,
          owner : SUBSET Workers]
NoEntry == [state |-> "absent", attempts |-> 0, stalls |-> 0, owner |-> {}]

(* A run of process(): where it is, the next line, and its own counts. *)
Stages == {"start", "lines", "progress", "finish", "invalidate", "return"}
Run == [job : Jobs, stage : Stages, next : Nat, processed : Nat, errors : SUBSET Nat]
NewRun(j) == [job |-> j, stage |-> "start", next |-> 1, processed |-> 0, errors |-> {}]

BulkInit ==
    /\ levels = Opening
    /\ rows = [j \in Jobs |-> NoJob]
    /\ queue = [j \in Jobs |-> NoEntry]
    /\ runs = [w \in Workers |-> {}]
    /\ applied = [j \in Jobs |-> [n \in Numbers(j) |-> 0]]
    /\ deliveries = [j \in Jobs |-> 0]

-----------------------------------------------------------------------------
(* The request. *)

CreateRow(j) ==
    /\ rows[j] = NoJob
    /\ rows' = [rows EXCEPT ![j].status = "QUEUED"]
    /\ UNCHANGED <<levels, queue, runs, applied, deliveries>>

Enqueue(j) ==
    /\ rows[j].status = "QUEUED"
    /\ queue[j].state = "absent"
    /\ queue' = [queue EXCEPT ![j].state = "waiting"]
    /\ UNCHANGED <<levels, rows, runs, applied, deliveries>>

(* Redis refuses the job, or the process dies before it is handed over: *)
(* the row stays.                                                       *)
EnqueueFails(j) ==
    /\ rows[j].status = "QUEUED"
    /\ queue[j].state = "absent"
    /\ queue' = [queue EXCEPT ![j].state = "refused"]
    /\ UNCHANGED <<levels, rows, runs, applied, deliveries>>

-----------------------------------------------------------------------------
(* BullMQ. *)

Take(w, j) ==
    /\ runs[w] = {}
    /\ queue[j].state = "waiting"
    /\ queue' = [queue EXCEPT ![j].state = "active", ![j].owner = {w}]
    /\ runs' = [runs EXCEPT ![w] = {NewRun(j)}]
    /\ deliveries' = [deliveries EXCEPT ![j] = @ + 1]
    /\ UNCHANGED <<levels, rows, applied>>

RetriesOnceMore(j) ==   \* mutant of AfterFailure
    [queue[j] EXCEPT !.attempts = @ + 1, !.owner = {},
                     !.state = IF queue[j].attempts < MaxAttempts[j] THEN "waiting" ELSE "failed"]
AfterFailure(j) ==
    [queue[j] EXCEPT !.attempts = @ + 1, !.owner = {},
                     !.state = IF queue[j].attempts + 1 < MaxAttempts[j] THEN "waiting" ELSE "failed"]

(* The handler throws: an update of the job's row, the resolution of its    *)
(* codes or the progress report fails.  A worker that has lost the lock is  *)
(* not listened to.                                                         *)
Throw(w) ==
    /\ \E run \in runs[w] :
          /\ run.stage \in {"start", "progress", "finish"}
          /\ queue' = IF queue[run.job].owner = {w}
                      THEN [queue EXCEPT ![run.job] = AfterFailure(run.job)]
                      ELSE queue
    /\ runs' = [runs EXCEPT ![w] = {}]
    /\ UNCHANGED <<levels, rows, applied, deliveries>>

(* The worker process dies: the job stays active until its lock runs out. *)
Crash(w) ==
    /\ runs[w] # {}
    /\ runs' = [runs EXCEPT ![w] = {}]
    /\ UNCHANGED <<levels, rows, queue, applied, deliveries>>

StaysActive(j) == [queue[j] EXCEPT !.owner = {}]   \* mutant of Stalled
Stalled(j) ==
    [queue[j] EXCEPT !.stalls = @ + 1, !.owner = {},
                     !.state = IF queue[j].stalls < MaxStalls[j] THEN "waiting" ELSE "failed"]

RunningJob(w, j) == \E run \in runs[w] : run.job = j

(* The lock of a dead worker runs out. *)
LockExpires(j) ==
    /\ queue[j].state = "active"
    /\ \A w \in queue[j].owner : ~RunningJob(w, j)
    /\ queue' = [queue EXCEPT ![j] = Stalled(j)]
    /\ UNCHANGED <<levels, rows, runs, applied, deliveries>>

(* A live worker cannot renew its lock: its run goes on without it. *)
LoseLock(j) ==
    /\ queue[j].state = "active"
    /\ \E w \in queue[j].owner : RunningJob(w, j)
    /\ queue' = [queue EXCEPT ![j] = Stalled(j)]
    /\ UNCHANGED <<levels, rows, runs, applied, deliveries>>

(* process() returns: the owner's answer settles the job. *)
Return(w) ==
    /\ \E run \in runs[w] :
          /\ run.stage = "return"
          /\ queue' = IF queue[run.job].owner = {w}
                      THEN [queue EXCEPT ![run.job] = [@ EXCEPT !.state = "completed", !.owner = {}]]
                      ELSE queue
    /\ runs' = [runs EXCEPT ![w] = {}]
    /\ UNCHANGED <<levels, rows, applied, deliveries>>

-----------------------------------------------------------------------------
(* BulkStockProcessor.process. *)

Start(w) ==
    /\ \E run \in runs[w] :
          /\ run.stage = "start"
          /\ rows' = [rows EXCEPT ![run.job].status = "PROCESSING"]
          /\ runs' = [runs EXCEPT ![w] = {[run EXCEPT !.stage = "lines"]}]
    /\ UNCHANGED <<levels, queue, applied, deliveries>>

(* The line is the last one of its chunk. *)
EndOfChunk(j, n) == n % ChunkSize = 0 \/ n = Len(Lines[j])

StageAfter(run) == IF EndOfChunk(run.job, run.next) THEN "progress" ELSE "lines"

(* Two mutants of AfterLine: a line that fails is not reported; a line is  *)
(* counted before its transaction is known to commit.                      *)
DropsErrors(run, ok) ==
    [run EXCEPT !.next = @ + 1, !.processed = IF ok THEN @ + 1 ELSE @, !.stage = StageAfter(run)]
CountsTooEarly(run, ok) ==
    [run EXCEPT !.next = @ + 1, !.processed = @ + 1, !.stage = StageAfter(run),
                !.errors = IF ok THEN @ ELSE @ \cup {run.next}]

AfterLine(run, ok) ==
    [run EXCEPT !.next = @ + 1,
                !.processed = IF ok THEN @ + 1 ELSE @,
                !.errors = IF ok THEN @ ELSE @ \cup {run.next},
                !.stage = StageAfter(run)]

ChangeOf(line) == Adjust(line.pair, line.delta)

Applicable(line) ==
    /\ line.pair \in KnownPairs
    /\ line.delta # 0
    /\ ~RefusedOn(ChangeOf(line), levels[line.pair])
    /\ ~OutOfRange(ChangeOf(line), levels[line.pair])

(* The line's transaction commits. *)
ApplyLine(w) ==
    /\ \E run \in runs[w] :
          LET line == Lines[run.job][run.next] IN
          /\ run.stage = "lines"
          /\ Applicable(line)
          /\ levels' = [levels EXCEPT ![line.pair] = RowAfter(ChangeOf(line), @, @)]
          /\ applied' = [applied EXCEPT ![run.job][run.next] = @ + 1]
          /\ runs' = [runs EXCEPT ![w] = {AfterLine(run, TRUE)}]
    /\ UNCHANGED <<rows, queue, deliveries>>

(* An unknown code, a zero, a refused change, or any other failure of the *)
(* line's transaction.                                                    *)
FailLine(w) ==
    /\ \E run \in runs[w] :
          /\ run.stage = "lines"
          /\ runs' = [runs EXCEPT ![w] = {AfterLine(run, FALSE)}]
    /\ UNCHANGED <<levels, rows, queue, applied, deliveries>>

Reported(errors) ==
    {n \in errors : Cardinality({m \in errors : m < n}) < ReportLimit}

(* The end of a chunk: its counts are written to the row. *)
Progress(w) ==
    /\ \E run \in runs[w] :
          /\ run.stage = "progress"
          /\ rows' = [rows EXCEPT ![run.job] = [@ EXCEPT
                !.processed = run.processed, !.failed = Cardinality(run.errors)]]
          /\ runs' = [runs EXCEPT ![w] = {[run EXCEPT !.stage =
                IF run.next > Len(Lines[run.job]) THEN "finish" ELSE "lines"]}]
    /\ UNCHANGED <<levels, queue, applied, deliveries>>

FinalStatus(run) == IF run.errors = {} THEN "COMPLETED" ELSE "COMPLETED_WITH_ERRORS"

Finish(w) ==
    /\ \E run \in runs[w] :
          /\ run.stage = "finish"
          /\ rows' = [rows EXCEPT ![run.job] =
                [status |-> FinalStatus(run), processed |-> run.processed,
                 failed |-> Cardinality(run.errors), errors |-> Reported(run.errors)]]
          /\ runs' = [runs EXCEPT ![w] = {[run EXCEPT !.stage = "invalidate"]}]
    /\ UNCHANGED <<levels, queue, applied, deliveries>>

(* cacheService.invalidateOrganization has answered; OrgCache has its steps. *)
Invalidate(w) ==
    /\ \E run \in runs[w] :
          /\ run.stage = "invalidate"
          /\ runs' = [runs EXCEPT ![w] = {[run EXCEPT !.stage = "return"]}]
    /\ UNCHANGED <<levels, rows, queue, applied, deliveries>>

-----------------------------------------------------------------------------
BulkTypeOK ==
    /\ levels \in [Pairs -> Level]
    /\ rows \in [Jobs -> Row]
    /\ queue \in [Jobs -> Entry]
    /\ \A j \in Jobs : queue[j].attempts <= MaxAttempts[j] /\ queue[j].stalls <= MaxStalls[j] + 1
    /\ runs \in [Workers -> SUBSET Run] /\ \A w \in Workers : Cardinality(runs[w]) <= 1
    /\ \A j \in Jobs : applied[j] \in [Numbers(j) -> Nat]
    /\ deliveries \in [Jobs -> Nat]

Finished(j) == rows[j].status \in {"COMPLETED", "COMPLETED_WITH_ERRORS"}

(* The report is complete: every line of a finished job is in the ledger or *)
(* on the row's list of errors, even after retries and with two runs of the *)
(* job side by side.  A list that was cut off is cut off at the end.        *)
EveryLineAccounted ==
    \A j \in Jobs : Finished(j) =>
        \A n \in Numbers(j) :
            \/ applied[j][n] > 0
            \/ n \in rows[j].errors
            \/ /\ Cardinality(rows[j].errors) = ReportLimit
               /\ \A m \in rows[j].errors : m < n

AppliedLines(j) == SumFunction(applied[j])

(* The counts a client polls never claim more than the ledger holds, a line *)
(* is applied at most once per delivery of its job, and the counts of a     *)
(* finished job that was delivered once are exactly the ledger's.           *)
ReportMatchesLedger ==
    \A j \in Jobs :
        /\ rows[j].processed <= AppliedLines(j)
        /\ \A n \in Numbers(j) : applied[j][n] <= deliveries[j]
        /\ Finished(j) /\ deliveries[j] = 1 =>
               /\ rows[j].processed = AppliedLines(j)
               /\ rows[j].failed = Len(Lines[j]) - AppliedLines(j)

(* A job that BullMQ has accepted ends: its row says that it has finished,  *)
(* or BullMQ has given it up.  (The code never writes FAILED.)              *)
JobsEnd ==
    \A j \in Jobs : queue[j].state = "waiting" ~> (Finished(j) \/ queue[j].state = "failed")
=============================================================================
