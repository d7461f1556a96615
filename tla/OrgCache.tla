------------------------------ MODULE OrgCache -------------------------------
(***************************************************************************)
(* CacheService: the summaries of one organisation kept in Redis, and the  *)
(* invalidation that follows a change of its data.                         *)
(*                                                                         *)
(* The data is a version number that every committed write raises; a       *)
(* summary is known by the oldest version it was computed from.  A fill    *)
(* (CacheService.remember) is a look-up, the reads of the factory and a    *)
(* store, and the dashboard's factory itself asks for the low-stock list   *)
(* through the cache.  An invalidation walks the keys with SCAN and        *)
(* deletes them batch by batch.  Redis may fail at each of these steps,    *)
(* and none of its failures reaches the caller.                            *)
(***************************************************************************)
EXTENDS Naturals, FiniteSets

CONSTANTS Readers,      \* the requests that ask for a summary, again and again
          Writers,      \* those that change the data and then invalidate
          MaxVersion    \* bound: the writes of one behaviour

ASSUME MaxVersionAssumption == MaxVersion \in Nat \ {0}

Keys == {"dashboard", "low-stock"}

VARIABLES
    version,    \* of the organisation's data
    cache,      \* the entry of each key; empty when there is none
    fills,      \* the fills in flight of each reader, by key; empty when none
    owed,       \* the version each writer has committed and not yet invalidated; 0 for none
    scan,       \* the keys an invalidation has still to delete
    settled     \* history: the newest version whose invalidation went through

cacheVars == <<version, cache, fills, owed, scan, settled>>

(* A summary: the oldest version it was computed from.  `excused` is a     *)
(* history bit: the invalidation of a newer version started while it was   *)
(* being computed, or before it took over an older one, and passed it by.   *)
Summary == [oldest : 1..MaxVersion, excused : BOOLEAN]

(* A fill in flight: what the factory still has to read. *)
Reads == {"rows", "low-stock"}
Fill == [needs : SUBSET Reads, oldest : 1..(MaxVersion + 1), excused : BOOLEAN]

AtMostOne(S) == {T \in SUBSET S : Cardinality(T) <= 1}

(* Nothing read yet: newer than everything. *)
Unread(k) ==
    [needs |-> IF k = "dashboard" THEN Reads ELSE {"rows"},
     oldest |-> MaxVersion + 1, excused |-> FALSE]

Older(m, n) == IF m < n THEN m ELSE n

Absorb(fill, part, oldest, excused) ==
    [fill EXCEPT !.needs = @ \ {part}, !.oldest = Older(@, oldest),
                 !.excused = @ \/ excused]

CacheInit ==
    /\ version = 1
    /\ cache = [k \in Keys |-> {}]
    /\ fills = [r \in Readers |-> [k \in Keys |-> {}]]
    /\ owed = [w \in Writers |-> 0]
    /\ scan = [w \in Writers |-> {}]
    /\ settled = 1

-----------------------------------------------------------------------------
(* remember: a hit is served, and changes nothing; so does a look-up that  *)
(* fails, after which the factory's value is returned and not stored.  A    *)
(* miss runs the factory and stores what it returns.                        *)

LookUp(r, k) ==
    /\ \A other \in Keys : fills[r][other] = {}
    /\ cache[k] = {}
    /\ fills' = [fills EXCEPT ![r][k] = {Unread(k)}]
    /\ UNCHANGED <<version, cache, owed, scan, settled>>

(* The factory's own queries, by the oldest of them. *)
ReadRows(r, k) ==
    /\ \E fill \in fills[r][k] :
          /\ "rows" \in fill.needs
          /\ fills' = [fills EXCEPT ![r][k] = {Absorb(fill, "rows", version, FALSE)}]
    /\ UNCHANGED <<version, cache, owed, scan, settled>>

(* An entry older than a write whose walk is on its way to it. *)
Doomed(entry) == \E w \in Writers : scan[w] # {} /\ entry.oldest < owed[w]

(* StockService.lowStock, asked by the dashboard's factory: an entry is     *)
(* taken as it is, a miss starts a fill of its own, and after a look-up     *)
(* that failed the list is read from the rows and not stored.               *)
LookUpLowStock(r) ==
    /\ fills[r]["low-stock"] = {}
    /\ \E fill \in fills[r]["dashboard"] :
          /\ "low-stock" \in fill.needs
          /\ \/ \E entry \in cache["low-stock"] :
                   fills' = [fills EXCEPT ![r]["dashboard"] =
                       {Absorb(fill, "low-stock", entry.oldest, entry.excused \/ Doomed(entry))}]
             \/ /\ cache["low-stock"] = {}
                /\ fills' = [fills EXCEPT ![r]["low-stock"] = {Unread("low-stock")}]
             \/ fills' = [fills EXCEPT ![r]["dashboard"] =
                    {Absorb(fill, "low-stock", version, FALSE)}]
    /\ UNCHANGED <<version, cache, owed, scan, settled>>

(* The value is stored, unless Redis refuses it, and returned: a low-stock  *)
(* list that the dashboard asked for becomes a part of it.                  *)
Answer(r, k) ==
    /\ \E fill \in fills[r][k] :
          /\ fill.needs = {}
          /\ \/ cache' = [cache EXCEPT ![k] =
                    {[oldest |-> fill.oldest, excused |-> fill.excused]}]
             \/ UNCHANGED cache
          /\ fills' = [fills EXCEPT ![r] = [other \in Keys |->
                IF other = k THEN {}
                ELSE {Absorb(f, "low-stock", fill.oldest, fill.excused) : f \in @[other]}]]
    /\ UNCHANGED <<version, owed, scan, settled>>

(* EX ttl: the entry's time to live ends. *)
NeverExpires(k) == FALSE /\ UNCHANGED cacheVars   \* mutant of Expire
Expire(k) ==
    /\ cache[k] # {}
    /\ cache' = [cache EXCEPT ![k] = {}]
    /\ UNCHANGED <<version, fills, owed, scan, settled>>

-----------------------------------------------------------------------------
(* A service commits a change, and then invalidates. *)

Commit(w) ==
    /\ scan[w] = {}
    /\ version < MaxVersion
    /\ version' = version + 1
    /\ owed' = [owed EXCEPT ![w] = version + 1]
    /\ UNCHANGED <<cache, fills, scan, settled>>

(* The fills that have read older data escape the walk. *)
ExcusedFills(w) == [r \in Readers |-> [k \in Keys |->
    {[f EXCEPT !.excused = @ \/ f.oldest < owed[w]] : f \in fills[r][k]}]]

(* The walk starts: SCAN returns every key that is there from its start to  *)
(* its end.  With nothing to return it is over at once.                     *)
StartScan(w) ==
    /\ owed[w] # 0
    /\ scan[w] = {}
    /\ scan' = [scan EXCEPT ![w] = {k \in Keys : cache[k] # {}}]
    /\ fills' = ExcusedFills(w)
    /\ IF scan'[w] = {}
       THEN /\ settled' = IF owed[w] > settled THEN owed[w] ELSE settled
            /\ owed' = [owed EXCEPT ![w] = 0]
       ELSE UNCHANGED <<settled, owed>>
    /\ UNCHANGED <<version, cache>>

(* Mutant of Deleted: the loop over the cursor is missing. *)
FirstBatchOnly(w, batch) == [rest |-> {}, gone |-> batch]

(* One SCAN call and the DEL of the keys it returned. *)
Deleted(w, batch) == [rest |-> scan[w] \ batch, gone |-> batch]

DeleteBatch(w) ==
    /\ \E batch \in (SUBSET scan[w]) \ {{}} :
          LET step == Deleted(w, batch) IN
          /\ cache' = [k \in Keys |-> IF k \in step.gone THEN {} ELSE cache[k]]
          /\ scan' = [scan EXCEPT ![w] = step.rest]
          /\ IF step.rest = {}
             THEN /\ settled' = IF owed[w] > settled THEN owed[w] ELSE settled
                  /\ owed' = [owed EXCEPT ![w] = 0]
             ELSE UNCHANGED <<settled, owed>>
    /\ UNCHANGED <<version, fills>>

(* Redis fails, or the process dies before or during the walk: the change   *)
(* stays committed, and what is cached may outlive it.                      *)
AbandonScan(w) ==
    /\ owed[w] # 0
    /\ owed' = [owed EXCEPT ![w] = 0]
    /\ scan' = [scan EXCEPT ![w] = {}]
    /\ UNCHANGED <<version, cache, fills, settled>>

-----------------------------------------------------------------------------
Reading(r) ==
    \/ LookUpLowStock(r)
    \/ \E k \in Keys : ReadRows(r, k) \/ Answer(r, k)
Invalidating(w) == StartScan(w) \/ DeleteBatch(w) \/ AbandonScan(w)

CacheNext ==
    \/ \E r \in Readers : Reading(r) \/ \E k \in Keys : LookUp(r, k)
    \/ \E w \in Writers : Commit(w) \/ Invalidating(w)
    \/ \E k \in Keys : Expire(k)

(* A fill that has begun goes on, an invalidation that has begun goes on,  *)
(* and time passes.  Nobody has to ask for a summary or to change data.    *)
CacheFairness ==
    /\ \A r \in Readers : WF_cacheVars(Reading(r))
    /\ \A w \in Writers : WF_cacheVars(Invalidating(w))
    /\ \A k \in Keys : WF_cacheVars(Expire(k))

-----------------------------------------------------------------------------
CacheTypeOK ==
    /\ version \in 1..MaxVersion
    /\ settled \in 1..version
    /\ cache \in [Keys -> AtMostOne(Summary)]
    /\ fills \in [Readers -> [Keys -> AtMostOne(Fill)]]
    /\ owed \in [Writers -> 0..version]
    /\ scan \in [Writers -> SUBSET Keys]

(* cache.service.ts:16-20: an invalidation leaves no stale entry behind.    *)
(* Of the entries that were not being computed when an invalidation began,  *)
(* none is older than a write whose invalidation went through, through any  *)
(* nesting of one summary in another.                                       *)
CacheHoldsSettledWrites ==
    \A k \in Keys : \A entry \in cache[k] : entry.excused \/ entry.oldest >= settled

(* A stale entry, however it came about, does not survive its time to live: *)
(* once the writes are over, the cache ends up holding nothing but current  *)
(* summaries.                                                               *)
CacheCatchesUp ==
    \A v \in 1..MaxVersion :
        <>[](version = v) => <>[](\A k \in Keys : \A entry \in cache[k] : entry.oldest = v)
=============================================================================
