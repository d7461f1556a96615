------------------------------ MODULE Exports -------------------------------
(***************************************************************************)
(* ExportsService: a table is written to the response in batches, each     *)
(* fetched by a query of its own at an offset.  Other requests add, remove *)
(* and rename rows between two batches.  The order is the sku for          *)
(* products, the warehouse and product for stock levels, and the time for  *)
(* movements, the newest first; movements of one time have no order, and   *)
(* each query may return them in another one.                              *)
(***************************************************************************)
EXTENDS Naturals, FiniteSets

CONSTANTS BatchSize,
          Records,      \* the rows that are ever there
          MaxKey,       \* bound: the keys that rows are sorted by
          MaxChanges    \* bound: rows added, removed or renamed during an export

ASSUME ExportBounds ==
    BatchSize \in Nat \ {0} /\ MaxKey \in Nat /\ MaxChanges \in Nat

VARIABLES
    table,     \* which table is exported
    rows,      \* its rows: the key of each that is there
    export,    \* the export: where it is, its offset
    written,   \* how often each row was written to the response
    stayed,    \* history: the rows that were there from its beginning on, unrenamed
    grown,     \* history: how often a row was added or renamed since
    shrunk     \* history: how often a row was removed or renamed since

exportVars == <<table, rows, export, written, stayed, grown, shrunk>>

Keys == 1..MaxKey
Tables == {"products", "levels", "movements"}
There == DOMAIN rows

ExportsTypeOK ==
    /\ table \in Tables
    /\ There \subseteq Records /\ rows \in [There -> Keys]
    /\ export \in [at : {"idle", "streaming", "ended"}, skip : Nat]
    /\ written \in [Records -> Nat]
    /\ stayed \subseteq There
    /\ grown \in 0..MaxChanges /\ shrunk \in 0..MaxChanges

ExportsInit(t) ==
    /\ table = t
    /\ rows = [r \in {} |-> 0]
    /\ export = [at |-> "idle", skip |-> 0]
    /\ written = [r \in Records |-> 0]
    /\ stayed = {} /\ grown = 0 /\ shrunk = 0

Before(r, s) == IF table = "movements" THEN rows[r] > rows[s] ELSE rows[r] < rows[s]

(* The sets of rows that may come first in the order of a query.            *)
Leading(S) == \A r \in S, s \in There \ S : ~Before(s, r)

(* What a query at an offset may return: the rows that follow the first     *)
(* `skip` in some order that agrees with the keys.                          *)
Batches(skip) ==
    {B \in SUBSET There :
        \E S \in SUBSET (There \ B) :
            /\ Leading(S) /\ Leading(S \cup B)
            /\ Cardinality(S) = skip \/ (Cardinality(S) < skip /\ S = There)
            /\ Cardinality(B) = BatchSize
                  \/ (Cardinality(B) < BatchSize /\ S \cup B = There)}

Start ==
    /\ export.at = "idle"
    /\ export' = [at |-> "streaming", skip |-> 0]
    /\ stayed' = There
    /\ UNCHANGED <<table, rows, written, grown, shrunk>>

(* Mutant of Last: a full batch is taken for the last. *)
StopsOnFullBatch(batch) == Cardinality(batch) <= BatchSize

Last(batch) == Cardinality(batch) < BatchSize

Stream ==
    /\ export.at = "streaming"
    /\ \E batch \in Batches(export.skip) :
          /\ written' = [r \in Records |->
                            IF r \in batch THEN written[r] + 1 ELSE written[r]]
          /\ export' = IF Last(batch) THEN [export EXCEPT !.at = "ended"]
                       ELSE [export EXCEPT !.skip = @ + BatchSize]
    /\ UNCHANGED <<table, rows, stayed, grown, shrunk>>

-----------------------------------------------------------------------------
(* Other requests.  The keys of products and levels are unique; a movement  *)
(* is the newest when it is recorded and is never removed.                  *)
Running == export.at = "streaming"
Untaken(key) == \A r \in There : rows[r] # key

Insert(r, key) ==
    /\ r \notin There
    /\ IF table = "movements" THEN \A s \in There : rows[s] <= key ELSE Untaken(key)
    /\ Running => grown < MaxChanges
    /\ rows' = [s \in There \cup {r} |-> IF s = r THEN key ELSE rows[s]]
    /\ grown' = IF Running THEN grown + 1 ELSE grown
    /\ UNCHANGED <<table, export, written, stayed, shrunk>>

Remove(r) ==
    /\ Running /\ table # "movements"
    /\ r \in There /\ shrunk < MaxChanges
    /\ rows' = [s \in There \ {r} |-> rows[s]]
    /\ shrunk' = shrunk + 1
    /\ stayed' = stayed \ {r}
    /\ UNCHANGED <<table, export, written, grown>>

(* An update of a product may change its sku.                               *)
Rename(r, key) ==
    /\ Running /\ table = "products"
    /\ r \in There /\ Untaken(key)
    /\ grown < MaxChanges /\ shrunk < MaxChanges
    /\ rows' = [rows EXCEPT ![r] = key]
    /\ grown' = grown + 1 /\ shrunk' = shrunk + 1
    /\ stayed' = stayed \ {r}
    /\ UNCHANGED <<table, export, written>>

ExportsNext ==
    \/ Start \/ Stream
    \/ \E r \in Records, key \in Keys :
          Insert(r, key) \/ Remove(r) \/ Rename(r, key)

(* ExportIsComplete: offset paging misses no more rows than were removed    *)
(* and repeats no more than were added while it ran; without changes each   *)
(* row is written once.  Movements recorded at one time are excepted: which *)
(* of them a batch holds is open in every query (exports.service stream).   *)
OwnKey(r) == \A s \in There \ {r} : rows[s] # rows[r]
ExportIsComplete ==
    export.at = "ended" =>
        LET sure == {r \in stayed : OwnKey(r)} IN
        /\ Cardinality({r \in sure : written[r] = 0}) <= shrunk
        /\ Cardinality({r \in sure : written[r] > 1}) <= grown
=============================================================================
