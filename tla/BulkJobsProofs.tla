--------------------------- MODULE BulkJobsProofs ---------------------------
(***************************************************************************)
(* Proofs about BulkJobsCached, for any jobs, workers, services, readers   *)
(* and bounds, so that any number of jobs may be under way at once: what   *)
(* the cache holds, and what a job's report says.                          *)
(***************************************************************************)
EXTENDS BulkJobsCached, StockLemmas

-----------------------------------------------------------------------------
(* At most one of something. *)
AtMost(T, S) == T = {} \/ \E x \in S : T = {x}

(* It is what the type invariants say. *)
LEMMA AtMostType == ASSUME NEW T, NEW S, AtMost(T, S) PROVE T \in AtMostOne(S) /\ T \subseteq S
  <1>1. CASE T = {}
    BY <1>1, FS_EmptySet DEF AtMostOne
  <1>2. ASSUME NEW x \in S, T = {x} PROVE T \in AtMostOne(S) /\ T \subseteq S
    <2>1. Cardinality({x}) = 1
      BY FS_Singleton
    <2> QED
      BY <1>2, <2>1 DEF AtMostOne
  <1> QED
    BY <1>1, <1>2 DEF AtMost

-----------------------------------------------------------------------------
(* The cache. *)

(* A fill that has read its rows has a version of them. *)
FillOK(fill) == "rows" \notin fill.needs => fill.oldest <= MaxVersion

CacheShape ==
    /\ version \in 1..MaxVersion
    /\ settled \in 1..version
    /\ cache \in [Keys -> SUBSET Summary] /\ \A k \in Keys : AtMost(cache[k], Summary)
    /\ fills \in [Readers -> [Keys -> SUBSET Fill]]
    /\ \A r \in Readers, k \in Keys :
          AtMost(fills[r][k], Fill) /\ \A fill \in fills[r][k] : FillOK(fill)
    /\ owed \in [Writers -> 0..version]
    /\ scan \in [Writers -> SUBSET Keys]

(* A summary or a fill that a walk for version v leaves behind is not older, *)
(* or excused.                                                              *)
Good(x, v) == x.excused \/ x.oldest >= v

(* A fill has seen every settled write, and, once a walk is under way, the  *)
(* write it is about.  So has an entry, unless the walk has still to delete *)
(* it.                                                                      *)
SeesWrites(fill) ==
    /\ Good(fill, settled)
    /\ \A w \in Writers : scan[w] # {} => Good(fill, owed[w])
EntrySees(k, entry) ==
    /\ Good(entry, settled)
    /\ \A w \in Writers : scan[w] # {} /\ k \notin scan[w] => Good(entry, owed[w])

CacheInv ==
    /\ CacheShape
    /\ \A k \in Keys : \A entry \in cache[k] : EntrySees(k, entry)
    /\ \A r \in Readers, k \in Keys : \A fill \in fills[r][k] : SeesWrites(fill)

(* The type invariant follows. *)
LEMMA CacheTypes == CacheInv => CacheTypeOK
  <1> SUFFICES ASSUME CacheShape PROVE CacheTypeOK
    BY DEF CacheInv
  <1>1. cache \in [Keys -> AtMostOne(Summary)]
    BY AtMostType DEF CacheShape
  <1>2. ASSUME NEW r \in Readers PROVE fills[r] \in [Keys -> AtMostOne(Fill)]
    BY AtMostType DEF CacheShape
  <1>3. fills \in [Readers -> [Keys -> AtMostOne(Fill)]]
    BY <1>2 DEF CacheShape
  <1> QED
    BY <1>1, <1>3 DEF CacheTypeOK, CacheShape

(* What absorbing a part does to a fill: it is no newer than the part, and  *)
(* as good as both were.                                                    *)
LEMMA AbsorbFacts ==
    ASSUME NEW fill \in Fill, NEW part \in Reads, NEW oldest \in 1..(MaxVersion + 1),
           NEW excused \in BOOLEAN
    PROVE  LET after == Absorb(fill, part, oldest, excused) IN
           /\ after \in Fill /\ after.needs = fill.needs \ {part}
           /\ after.oldest <= oldest /\ after.oldest <= fill.oldest
           /\ \A v \in Nat : Good(fill, v) /\ (excused \/ oldest >= v) => Good(after, v)
  <1> DEFINE after == Absorb(fill, part, oldest, excused)
  <1>1. /\ fill.oldest \in 1..(MaxVersion + 1) /\ fill.excused \in BOOLEAN
        /\ fill.needs \in SUBSET Reads
    BY DEF Fill
  <1>2. Older(fill.oldest, oldest) \in {fill.oldest, oldest}
        /\ Older(fill.oldest, oldest) <= fill.oldest /\ Older(fill.oldest, oldest) <= oldest
    BY <1>1, MaxVersionAssumption DEF Older
  <1>3. /\ after \in Fill /\ after.needs = fill.needs \ {part}
        /\ after.oldest = Older(fill.oldest, oldest)
        /\ after.excused = (fill.excused \/ excused)
    BY <1>1, <1>2 DEF Absorb, Fill
  <1> HIDE DEF after
  <1>4. \A v \in Nat : Good(fill, v) /\ (excused \/ oldest >= v) => Good(after, v)
    BY <1>1, <1>2, <1>3 DEF Good
  <1> QED
    BY <1>2, <1>3, <1>4 DEF after

(* A step of one fill. *)
LEMMA FillMoves ==
    ASSUME CacheInv, NEW r \in Readers, NEW k \in Keys,
           NEW fill \in Fill, FillOK(fill), SeesWrites(fill),
           fills' = [fills EXCEPT ![r][k] = {fill}],
           UNCHANGED <<version, cache, owed, scan, settled>>
    PROVE  CacheInv'
  <1>1. \A q \in Readers, l \in Keys :
           fills'[q][l] = IF q = r /\ l = k THEN {fill} ELSE fills[q][l]
    BY DEF CacheInv, CacheShape
  <1>2. fills' \in [Readers -> [Keys -> SUBSET Fill]]
    BY DEF CacheInv, CacheShape
  <1>3. \A q \in Readers, l \in Keys :
           /\ AtMost(fills'[q][l], Fill)
           /\ \A f \in fills'[q][l] : FillOK(f) /\ SeesWrites(f)
    <2> SUFFICES ASSUME NEW q \in Readers, NEW l \in Keys
                 PROVE  /\ AtMost(fills'[q][l], Fill)
                        /\ \A f \in fills'[q][l] : FillOK(f) /\ SeesWrites(f)
      OBVIOUS
    <2>1. CASE q = r /\ l = k
      BY <1>1, <2>1 DEF AtMost
    <2>2. CASE ~(q = r /\ l = k)
      BY <1>1, <2>2 DEF CacheInv, CacheShape
    <2> QED
      BY <2>1, <2>2
  <1>4. CacheShape'
    BY <1>2, <1>3 DEF CacheInv, CacheShape, AtMost, FillOK
  <1> QED
    BY <1>3, <1>4 DEF CacheInv, SeesWrites, EntrySees, Good

(* Reading the rows. *)
LEMMA ReadRowsInv ==
    ASSUME CacheInv, NEW r \in Readers, NEW k \in Keys, LookUp(r, k) \/ ReadRows(r, k)
    PROVE  CacheInv'
  <1>0. /\ version \in 1..MaxVersion /\ settled \in 1..version
        /\ \A w \in Writers : owed[w] \in 0..version
        /\ MaxVersion \in Nat /\ version \in 1..(MaxVersion + 1) /\ "rows" \in Reads
    BY MaxVersionAssumption DEF CacheInv, CacheShape, Reads
  <1>1. CASE LookUp(r, k)
    <2> DEFINE fill == Unread(k)
    <2>1. fill \in Fill /\ fill.needs = (IF k = "dashboard" THEN Reads ELSE {"rows"})
          /\ fill.oldest = MaxVersion + 1
      BY <1>0 DEF Unread, Fill, Reads
    <2>2. FillOK(fill)
      BY <2>1 DEF FillOK, Reads
    <2> HIDE DEF fill
    <2>3. SeesWrites(fill)
      BY <1>0, <2>1 DEF SeesWrites, Good
    <2> QED
      BY <1>1, <2>1, <2>2, <2>3, FillMoves DEF LookUp, fill
  <1>2. CASE ReadRows(r, k)
    <2>1. PICK fill \in fills[r][k] :
             /\ "rows" \in fill.needs
             /\ fills' = [fills EXCEPT ![r][k] = {Absorb(fill, "rows", version, FALSE)}]
      BY <1>2 DEF ReadRows
    <2> DEFINE after == Absorb(fill, "rows", version, FALSE)
    <2>2. fill \in Fill /\ SeesWrites(fill)
      BY DEF CacheInv, CacheShape
    <2>3. /\ after \in Fill /\ after.oldest <= version
          /\ \A v \in Nat : Good(fill, v) /\ version >= v => Good(after, v)
      <3>1. /\ after \in Fill /\ after.oldest <= version
            /\ \A v \in Nat : Good(fill, v) /\ (FALSE \/ version >= v) => Good(after, v)
        BY <1>0, <2>2, AbsorbFacts
      <3> HIDE DEF after
      <3> QED
        BY <3>1
    <2> HIDE DEF after
    <2>4. FillOK(after)
      BY <1>0, <2>3 DEF FillOK, Fill
    <2>5. SeesWrites(after)
      BY <1>0, <2>2, <2>3 DEF SeesWrites
    <2> QED
      BY <1>2, <2>1, <2>3, <2>4, <2>5, FillMoves DEF ReadRows, after
  <1> QED
    BY <1>1, <1>2

(* Taking the low-stock list from the cache: an entry that a walk is on its *)
(* way to is older than what the walk is about, and excuses the fill.       *)
LEMMA LookUpLowStockInv ==
    ASSUME CacheInv, NEW r \in Readers, LookUpLowStock(r)
    PROVE  CacheInv'
  <1>0. /\ version \in 1..MaxVersion /\ settled \in 1..version
        /\ \A w \in Writers : owed[w] \in 0..version
        /\ MaxVersion \in Nat /\ "dashboard" \in Keys /\ "low-stock" \in Keys
        /\ "low-stock" \in Reads /\ version \in 1..(MaxVersion + 1)
    BY MaxVersionAssumption DEF CacheInv, CacheShape, Keys, Reads
  <1>1. PICK fill \in fills[r]["dashboard"] :
           \/ \E entry \in cache["low-stock"] :
                 fills' = [fills EXCEPT ![r]["dashboard"] =
                     {Absorb(fill, "low-stock", entry.oldest, entry.excused \/ Doomed(entry))}]
           \/ fills' = [fills EXCEPT ![r]["low-stock"] = {Unread("low-stock")}]
           \/ fills' = [fills EXCEPT ![r]["dashboard"] =
                  {Absorb(fill, "low-stock", version, FALSE)}]
    BY DEF LookUpLowStock
  <1>2. UNCHANGED <<version, cache, owed, scan, settled>>
    BY DEF LookUpLowStock
  <1>3. fill \in Fill /\ SeesWrites(fill) /\ FillOK(fill)
    BY <1>0 DEF CacheInv, CacheShape
  <1>4. ASSUME NEW entry \in cache["low-stock"],
               fills' = [fills EXCEPT ![r]["dashboard"] =
                   {Absorb(fill, "low-stock", entry.oldest, entry.excused \/ Doomed(entry))}]
        PROVE  CacheInv'
    <2> DEFINE excused == entry.excused \/ Doomed(entry)
               after == Absorb(fill, "low-stock", entry.oldest, excused)
    <2>1. entry \in Summary /\ EntrySees("low-stock", entry)
      BY <1>0 DEF CacheInv, CacheShape
    <2>2. entry.oldest \in 1..MaxVersion /\ entry.excused \in BOOLEAN /\ excused \in BOOLEAN
      BY <2>1 DEF Summary
    <2>3. /\ excused \/ entry.oldest >= settled
          /\ \A w \in Writers : scan[w] # {} => excused \/ entry.oldest >= owed[w]
      BY <1>0, <2>1, <2>2 DEF EntrySees, Good, Doomed
    <2> HIDE DEF excused
    <2>4. /\ after \in Fill /\ after.oldest <= fill.oldest
          /\ after.needs = fill.needs \ {"low-stock"}
          /\ \A v \in Nat : Good(fill, v) /\ (excused \/ entry.oldest >= v) => Good(after, v)
      BY <1>0, <1>3, <2>2, AbsorbFacts
    <2> HIDE DEF after
    <2>5. FillOK(after)
      BY <1>0, <1>3, <2>4 DEF FillOK, Fill
    <2>6. SeesWrites(after)
      BY <1>0, <1>3, <2>3, <2>4 DEF SeesWrites
    <2> QED
      BY <1>0, <1>2, <1>4, <2>4, <2>5, <2>6, FillMoves DEF after, excused
  <1>5. CASE fills' = [fills EXCEPT ![r]["low-stock"] = {Unread("low-stock")}]
    <2> DEFINE after == Unread("low-stock")
    <2>1. after \in Fill /\ after.needs = {"rows"} /\ after.oldest = MaxVersion + 1
      BY <1>0 DEF Unread, Fill, Reads
    <2> HIDE DEF after
    <2>2. FillOK(after) /\ SeesWrites(after)
      BY <1>0, <2>1 DEF FillOK, SeesWrites, Good
    <2> QED
      BY <1>0, <1>2, <1>5, <2>1, <2>2, FillMoves DEF after
  <1>6. CASE fills' = [fills EXCEPT ![r]["dashboard"] = {Absorb(fill, "low-stock", version, FALSE)}]
    <2> DEFINE after == Absorb(fill, "low-stock", version, FALSE)
    <2>1. /\ after \in Fill /\ after.oldest <= version
          /\ \A v \in Nat : Good(fill, v) /\ (FALSE \/ version >= v) => Good(after, v)
      BY <1>0, <1>3, AbsorbFacts
    <2> HIDE DEF after
    <2>2. FillOK(after) /\ SeesWrites(after)
      BY <1>0, <1>3, <2>1 DEF FillOK, SeesWrites, Fill
    <2> QED
      BY <1>0, <1>2, <1>6, <2>1, <2>2, FillMoves DEF after
  <1> QED
    BY <1>1, <1>4, <1>5, <1>6

(* Storing a summary, and handing it to the fill that asked for it. *)
LEMMA AnswerInv ==
    ASSUME CacheInv, NEW r \in Readers, NEW k \in Keys, Answer(r, k)
    PROVE  CacheInv'
  <1>0. /\ version \in 1..MaxVersion /\ settled \in 1..version
        /\ \A w \in Writers : owed[w] \in 0..version
        /\ MaxVersion \in Nat /\ "low-stock" \in Reads /\ "rows" \in Reads
    BY MaxVersionAssumption DEF CacheInv, CacheShape, Reads
  <1>1. PICK fill \in fills[r][k] :
           /\ fill.needs = {}
           /\ \/ cache' = [cache EXCEPT ![k] =
                     {[oldest |-> fill.oldest, excused |-> fill.excused]}]
              \/ UNCHANGED cache
           /\ fills' = [fills EXCEPT ![r] = [other \in Keys |->
                 IF other = k THEN {}
                 ELSE {Absorb(f, "low-stock", fill.oldest, fill.excused) : f \in @[other]}]]
    BY DEF Answer
  <1>2. UNCHANGED <<version, owed, scan, settled>>
    BY DEF Answer
  <1>3. fill \in Fill /\ SeesWrites(fill) /\ FillOK(fill)
    BY DEF CacheInv, CacheShape
  <1>4. fill.oldest \in 1..MaxVersion /\ fill.excused \in BOOLEAN
    BY <1>0, <1>1, <1>3 DEF FillOK, Fill
  <1>5. /\ cache' \in [Keys -> SUBSET Summary]
        /\ \A l \in Keys : /\ AtMost(cache'[l], Summary)
                           /\ \A entry \in cache'[l] : EntrySees(l, entry)
    <2>1. CASE UNCHANGED cache
      BY <2>1 DEF CacheInv, CacheShape
    <2>2. CASE cache' = [cache EXCEPT ![k] = {[oldest |-> fill.oldest, excused |-> fill.excused]}]
      <3> DEFINE entry == [oldest |-> fill.oldest, excused |-> fill.excused]
      <3>1. entry \in Summary /\ entry.oldest = fill.oldest /\ entry.excused = fill.excused
        BY <1>4 DEF Summary
      <3>2. \A v : Good(fill, v) => Good(entry, v)
        BY <3>1 DEF Good
      <3> HIDE DEF entry
      <3>3. \A l \in Keys : EntrySees(l, entry)
        BY <1>3, <3>2 DEF EntrySees, SeesWrites
      <3>4. cache' = [cache EXCEPT ![k] = {entry}]
        BY <2>2 DEF entry
      <3>5. /\ cache' \in [Keys -> SUBSET Summary]
            /\ \A l \in Keys : cache'[l] = IF l = k THEN {entry} ELSE cache[l]
        BY <3>1, <3>4 DEF CacheInv, CacheShape
      <3>6. ASSUME NEW l \in Keys
            PROVE  /\ AtMost(cache'[l], Summary)
                   /\ \A e \in cache'[l] : EntrySees(l, e)
        <4>1. CASE l = k
          BY <3>1, <3>3, <3>5, <4>1 DEF AtMost
        <4>2. CASE l # k
          BY <3>5, <4>2 DEF CacheInv, CacheShape
        <4> QED
          BY <4>1, <4>2
      <3> QED
        BY <3>5, <3>6
    <2> QED
      BY <1>1, <2>1, <2>2
  <1>6. ASSUME NEW f \in Fill, FillOK(f), SeesWrites(f)
        PROVE  LET after == Absorb(f, "low-stock", fill.oldest, fill.excused) IN
               after \in Fill /\ FillOK(after) /\ SeesWrites(after)
    <2> DEFINE after == Absorb(f, "low-stock", fill.oldest, fill.excused)
    <2>1. fill.oldest \in 1..(MaxVersion + 1)
      BY <1>0, <1>4
    <2>2. /\ after \in Fill /\ after.oldest <= f.oldest /\ after.needs = f.needs \ {"low-stock"}
          /\ \A v \in Nat : Good(f, v) /\ (fill.excused \/ fill.oldest >= v) => Good(after, v)
      BY <1>0, <1>4, <2>1, AbsorbFacts
    <2> HIDE DEF after
    <2>3. FillOK(after)
      BY <1>0, <1>6, <2>2 DEF FillOK, Fill
    <2>4. SeesWrites(after)
      BY <1>0, <1>3, <1>6, <2>2 DEF SeesWrites, Good
    <2> QED
      BY <2>2, <2>3, <2>4 DEF after
  <1>7. /\ fills' \in [Readers -> [Keys -> SUBSET Fill]]
        /\ \A q \in Readers, l \in Keys :
              /\ AtMost(fills'[q][l], Fill)
              /\ \A f \in fills'[q][l] : FillOK(f) /\ SeesWrites(f)
    <2> DEFINE row == [other \in Keys |->
                  IF other = k THEN {}
                  ELSE {Absorb(f, "low-stock", fill.oldest, fill.excused) : f \in fills[r][other]}]
    <2>1. ASSUME NEW l \in Keys
          PROVE  /\ row[l] \in SUBSET Fill /\ AtMost(row[l], Fill)
                 /\ \A f \in row[l] : FillOK(f) /\ SeesWrites(f)
      <3>1. CASE l = k
        BY <3>1 DEF AtMost
      <3>2. CASE l # k
        <4>1. row[l] = {Absorb(f, "low-stock", fill.oldest, fill.excused) : f \in fills[r][l]}
          BY <3>2
        <4>2. AtMost(fills[r][l], Fill) /\ \A f \in fills[r][l] : FillOK(f) /\ SeesWrites(f)
          BY DEF CacheInv, CacheShape
        <4>3. CASE fills[r][l] = {}
          BY <4>1, <4>3 DEF AtMost
        <4>4. ASSUME NEW f \in Fill, fills[r][l] = {f}
              PROVE  /\ row[l] \in SUBSET Fill /\ AtMost(row[l], Fill)
                     /\ \A e \in row[l] : FillOK(e) /\ SeesWrites(e)
          <5>1. row[l] = {Absorb(f, "low-stock", fill.oldest, fill.excused)}
            BY <4>1, <4>4
          <5> QED
            BY <1>6, <4>2, <4>4, <5>1 DEF AtMost
        <4> QED
          BY <4>2, <4>3, <4>4 DEF AtMost
      <3> QED
        BY <3>1, <3>2
    <2>2. fills' = [fills EXCEPT ![r] = row]
      BY <1>1
    <2>3. row \in [Keys -> SUBSET Fill]
      BY <2>1
    <2> HIDE DEF row
    <2>4. /\ fills' \in [Readers -> [Keys -> SUBSET Fill]]
          /\ \A q \in Readers : fills'[q] = IF q = r THEN row ELSE fills[q]
      BY <2>2, <2>3 DEF CacheInv, CacheShape
    <2>5. ASSUME NEW q \in Readers, NEW l \in Keys
          PROVE  /\ AtMost(fills'[q][l], Fill)
                 /\ \A f \in fills'[q][l] : FillOK(f) /\ SeesWrites(f)
      <3>1. CASE q = r
        BY <2>1, <2>4, <3>1
      <3>2. CASE q # r
        BY <2>4, <3>2 DEF CacheInv, CacheShape
      <3> QED
        BY <3>1, <3>2
    <2> QED
      BY <2>4, <2>5
  <1>8. CacheShape'
    BY <1>2, <1>5, <1>7 DEF CacheInv, CacheShape, AtMost, FillOK
  <1> QED
    BY <1>2, <1>5, <1>7, <1>8 DEF CacheInv, SeesWrites, EntrySees, Good

(* Entries go. *)
LEMMA ExpireInv ==
    ASSUME CacheInv, NEW k \in Keys, Expire(k)
    PROVE  CacheInv'
  <1>1. /\ cache' \in [Keys -> SUBSET Summary]
        /\ \A l \in Keys : cache'[l] = IF l = k THEN {} ELSE cache[l]
        /\ UNCHANGED <<version, fills, owed, scan, settled>>
    BY DEF Expire, CacheInv, CacheShape
  <1>2. ASSUME NEW l \in Keys
        PROVE  AtMost(cache'[l], Summary) /\ \A e \in cache'[l] : EntrySees(l, e)
    BY <1>1 DEF CacheInv, CacheShape, AtMost
  <1>3. CacheShape'
    BY <1>1, <1>2 DEF CacheInv, CacheShape, AtMost, FillOK
  <1> QED
    BY <1>1, <1>2, <1>3 DEF CacheInv, SeesWrites, EntrySees, Good

(* A write: no walk is about it yet. *)
LEMMA CommitInv ==
    ASSUME CacheInv, NEW w \in Writers, Commit(w)
    PROVE  CacheInv'
  <1>1. /\ scan[w] = {} /\ version' = version + 1 /\ version < MaxVersion
        /\ UNCHANGED <<cache, fills, scan, settled>>
        /\ \A x \in Writers \ {w} : owed'[x] = owed[x]
        /\ owed' \in [Writers -> 0..(version + 1)]
    BY MaxVersionAssumption DEF Commit, CacheInv, CacheShape
  <1>2. CacheShape'
    BY <1>1, MaxVersionAssumption DEF CacheInv, CacheShape, AtMost, FillOK
  <1>3. \A x \in Writers : scan'[x] # {} => scan[x] # {} /\ scan'[x] = scan[x] /\ owed'[x] = owed[x]
    BY <1>1
  <1>4. \A k \in Keys : \A entry : EntrySees(k, entry) => EntrySees(k, entry)'
    BY <1>1, <1>3 DEF EntrySees, Good
  <1>5. \A fill : SeesWrites(fill) => SeesWrites(fill)'
    BY <1>1, <1>3 DEF SeesWrites, Good
  <1> QED
    BY <1>1, <1>2, <1>4, <1>5 DEF CacheInv

(* What a walk does when it is over, and the writer owes nothing more. *)
Settles(w) ==
    /\ settled' = IF owed[w] > settled THEN owed[w] ELSE settled
    /\ owed' = [owed EXCEPT ![w] = 0]

(* Either way, the versions stay in their ranges. *)
LEMMA SettlesType ==
    ASSUME CacheInv, NEW w \in Writers, Settles(w) \/ UNCHANGED <<settled, owed>>, version' = version
    PROVE  /\ settled' \in 1..version' /\ owed' \in [Writers -> 0..version']
           /\ \A x \in Writers \ {w} : owed'[x] = owed[x]
           /\ Settles(w) => settled' \in {settled, owed[w]}
           /\ ~Settles(w) => settled' = settled /\ owed'[w] = owed[w]
  <1>1. /\ version \in 1..MaxVersion /\ settled \in 1..version
        /\ owed \in [Writers -> 0..version] /\ owed[w] \in 0..version
    BY DEF CacheInv, CacheShape
  <1> QED
    BY <1>1, MaxVersionAssumption DEF Settles

(* A walk starts, over the entries there are; the fills that are older are  *)
(* excused.                                                                 *)
LEMMA StartScanInv ==
    ASSUME CacheInv, NEW w \in Writers, StartScan(w)
    PROVE  CacheInv'
  <1> DEFINE walk == {k \in Keys : cache[k] # {}}
  <1>0. /\ scan \in [Writers -> SUBSET Keys] /\ owed \in [Writers -> 0..version]
        /\ version \in 1..MaxVersion /\ settled \in 1..version
    BY DEF CacheInv, CacheShape
  <1>1. /\ scan[w] = {} /\ version' = version /\ cache' = cache
        /\ scan' = [scan EXCEPT ![w] = walk]
        /\ fills' = ExcusedFills(w)
        /\ IF scan'[w] = {} THEN Settles(w) ELSE UNCHANGED <<settled, owed>>
    BY DEF StartScan, Settles
  <1>2. /\ scan' \in [Writers -> SUBSET Keys] /\ scan'[w] = walk
        /\ \A x \in Writers \ {w} : scan'[x] = scan[x]
    BY <1>0, <1>1
  <1>3. /\ walk = {} => Settles(w)
        /\ walk # {} => UNCHANGED <<settled, owed>>
        /\ \A x \in Writers \ {w} : owed'[x] = owed[x]
        /\ settled' \in 1..version' /\ owed' \in [Writers -> 0..version']
        /\ settled' \in {settled, owed[w]} /\ (walk # {} => settled' = settled)
    BY <1>1, <1>2, SettlesType
  <1> HIDE DEF walk
  <1>4. ASSUME NEW f \in Fill, SeesWrites(f), FillOK(f)
        PROVE  \E after \in Fill :
                  /\ after = [f EXCEPT !.excused = @ \/ f.oldest < owed[w]]
                  /\ FillOK(after) /\ SeesWrites(after)'
    <2>1. f.excused \in BOOLEAN /\ f.oldest \in 1..(MaxVersion + 1)
      BY DEF Fill
    <2>2. PICK after \in Fill :
             /\ after = [f EXCEPT !.excused = @ \/ f.oldest < owed[w]]
             /\ after.needs = f.needs /\ after.oldest = f.oldest
             /\ after.excused = (f.excused \/ f.oldest < owed[w])
      <3>1. (f.excused \/ f.oldest < owed[w]) \in BOOLEAN
        OBVIOUS
      <3>2. ASSUME NEW bit \in BOOLEAN
            PROVE  /\ [f EXCEPT !.excused = bit] \in Fill
                   /\ [f EXCEPT !.excused = bit].needs = f.needs
                   /\ [f EXCEPT !.excused = bit].oldest = f.oldest
                   /\ [f EXCEPT !.excused = bit].excused = bit
        BY <2>1 DEF Fill
      <3> QED
        BY <3>1, <3>2
    <2>3. \A v : Good(f, v) => Good(after, v)
      BY <2>2 DEF Good
    <2>4. Good(after, owed[w])
      <3>1. owed[w] \in Nat /\ f.oldest \in Nat
        BY <1>0, <2>1
      <3>2. f.oldest < owed[w] \/ f.oldest >= owed[w]
        BY <3>1
      <3> QED
        BY <2>2, <3>2 DEF Good
    <2>5. Good(after, settled')
      BY <1>3, <1>4, <2>3, <2>4 DEF SeesWrites
    <2>6. ASSUME NEW x \in Writers, scan'[x] # {} PROVE Good(after, owed'[x])
      <3>1. CASE x = w
        BY <1>2, <1>3, <2>4, <2>6, <3>1
      <3>2. CASE x # w
        BY <1>2, <1>3, <1>4, <2>3, <2>6, <3>2 DEF SeesWrites
      <3> QED
        BY <3>1, <3>2
    <2>7. SeesWrites(after)'
      BY <2>5, <2>6 DEF SeesWrites, Good
    <2> QED
      BY <1>4, <2>2, <2>7 DEF FillOK
  <1>5. /\ fills' \in [Readers -> [Keys -> SUBSET Fill]]
        /\ \A q \in Readers, l \in Keys :
              /\ AtMost(fills'[q][l], Fill)
              /\ \A f \in fills'[q][l] : FillOK(f) /\ SeesWrites(f)'
    <2>1. ASSUME NEW q \in Readers, NEW l \in Keys
          PROVE  /\ fills'[q][l] \in SUBSET Fill /\ AtMost(fills'[q][l], Fill)
                 /\ \A f \in fills'[q][l] : FillOK(f) /\ SeesWrites(f)'
      <3>1. fills'[q][l] = {[f EXCEPT !.excused = @ \/ f.oldest < owed[w]] : f \in fills[q][l]}
        BY <1>1 DEF ExcusedFills
      <3>2. AtMost(fills[q][l], Fill) /\ \A f \in fills[q][l] : FillOK(f) /\ SeesWrites(f)
        BY DEF CacheInv, CacheShape
      <3>3. CASE fills[q][l] = {}
        BY <3>1, <3>3 DEF AtMost
      <3>4. ASSUME NEW f \in Fill, fills[q][l] = {f}
            PROVE  /\ fills'[q][l] \in SUBSET Fill /\ AtMost(fills'[q][l], Fill)
                   /\ \A e \in fills'[q][l] : FillOK(e) /\ SeesWrites(e)'
        <4>1. fills'[q][l] = {[f EXCEPT !.excused = @ \/ f.oldest < owed[w]]}
          BY <3>1, <3>4
        <4>2. PICK after \in Fill :
                 /\ after = [f EXCEPT !.excused = @ \/ f.oldest < owed[w]]
                 /\ FillOK(after) /\ SeesWrites(after)'
          BY <1>4, <3>2, <3>4
        <4>3. fills'[q][l] = {after}
          BY <4>1, <4>2
        <4> QED
          BY <4>2, <4>3 DEF AtMost
      <3> QED
        BY <3>2, <3>3, <3>4 DEF AtMost
    <2>2. fills' = [q \in Readers |-> [l \in Keys |-> fills'[q][l]]]
      BY <1>1 DEF ExcusedFills
    <2> QED
      BY <2>1, <2>2
  <1>6. ASSUME NEW k \in Keys, NEW entry \in cache'[k] PROVE EntrySees(k, entry)'
    <2>1. EntrySees(k, entry) /\ k \in walk
      BY <1>1 DEF CacheInv, walk
    <2>2. settled' = settled /\ owed' = owed
      BY <1>3, <2>1
    <2> QED
      BY <1>2, <2>1, <2>2 DEF EntrySees, Good
  <1>7. CacheShape'
    BY <1>1, <1>2, <1>3, <1>5 DEF CacheInv, CacheShape, AtMost, FillOK
  <1> QED
    BY <1>5, <1>6, <1>7 DEF CacheInv

(* A batch is deleted; what the walk has passed by is good. *)
LEMMA DeleteBatchInv ==
    ASSUME CacheInv, NEW w \in Writers, DeleteBatch(w)
    PROVE  CacheInv'
  <1>0. /\ scan \in [Writers -> SUBSET Keys] /\ owed \in [Writers -> 0..version]
        /\ version \in 1..MaxVersion /\ settled \in 1..version
    BY DEF CacheInv, CacheShape
  <1>1. PICK batch \in (SUBSET scan[w]) \ {{}} :
           /\ cache' = [k \in Keys |-> IF k \in batch THEN {} ELSE cache[k]]
           /\ scan' = [scan EXCEPT ![w] = scan[w] \ batch]
           /\ IF scan[w] \ batch = {} THEN Settles(w) ELSE UNCHANGED <<settled, owed>>
    BY DEF DeleteBatch, Deleted, Settles
  <1>2. version' = version /\ fills' = fills /\ scan[w] # {}
    BY <1>1 DEF DeleteBatch
  <1>3. /\ scan' \in [Writers -> SUBSET Keys] /\ scan'[w] = scan[w] \ batch
        /\ \A x \in Writers \ {w} : scan'[x] = scan[x]
    BY <1>0, <1>1
  <1>4. /\ \A x \in Writers \ {w} : owed'[x] = owed[x]
        /\ settled' \in 1..version' /\ owed' \in [Writers -> 0..version']
        /\ settled' \in {settled, owed[w]}
        /\ scan'[w] # {} => settled' = settled /\ owed' = owed
    BY <1>1, <1>2, <1>3, SettlesType
  <1>5. /\ cache' \in [Keys -> SUBSET Summary]
        /\ \A k \in Keys : AtMost(cache'[k], Summary) /\ cache'[k] \subseteq cache[k]
        /\ \A k \in batch : cache'[k] = {}
    BY <1>1 DEF CacheInv, CacheShape, AtMost
  <1>6. ASSUME NEW k \in Keys, NEW entry \in cache'[k] PROVE EntrySees(k, entry)'
    <2>1. EntrySees(k, entry) /\ k \notin batch
      BY <1>5 DEF CacheInv
    <2>2. Good(entry, settled')
      <3>1. CASE scan'[w] # {}
        BY <1>4, <2>1, <3>1 DEF EntrySees
      <3>2. CASE scan'[w] = {}
        <4>1. k \notin scan[w]
          BY <1>3, <2>1, <3>2
        <4> QED
          BY <1>2, <1>4, <2>1, <4>1 DEF EntrySees
      <3> QED
        BY <3>1, <3>2
    <2>3. ASSUME NEW x \in Writers, scan'[x] # {}, k \notin scan'[x] PROVE Good(entry, owed'[x])
      BY <1>2, <1>3, <1>4, <2>1, <2>3 DEF EntrySees
    <2> QED
      BY <2>2, <2>3 DEF EntrySees, Good
  <1>7. ASSUME NEW fill, SeesWrites(fill) PROVE SeesWrites(fill)'
    <2>1. Good(fill, settled')
      BY <1>2, <1>4, <1>7 DEF SeesWrites
    <2>2. ASSUME NEW x \in Writers, scan'[x] # {} PROVE Good(fill, owed'[x])
      BY <1>2, <1>3, <1>4, <1>7, <2>2 DEF SeesWrites
    <2> QED
      BY <2>1, <2>2 DEF SeesWrites, Good
  <1>8. CacheShape'
    BY <1>2, <1>3, <1>4, <1>5 DEF CacheInv, CacheShape, AtMost, FillOK
  <1> QED
    BY <1>2, <1>6, <1>7, <1>8 DEF CacheInv

(* A walk that is given up claims nothing. *)
LEMMA AbandonInv ==
    ASSUME CacheInv, NEW w \in Writers, AbandonScan(w)
    PROVE  CacheInv'
  <1>1. /\ owed' \in [Writers -> 0..version] /\ scan' \in [Writers -> SUBSET Keys]
        /\ \A x \in Writers : scan'[x] # {} => scan'[x] = scan[x] /\ owed'[x] = owed[x]
        /\ UNCHANGED <<version, cache, fills, settled>>
    BY MaxVersionAssumption DEF AbandonScan, CacheInv, CacheShape
  <1>2. CacheShape'
    BY <1>1 DEF CacheInv, CacheShape, AtMost, FillOK
  <1>3. /\ \A k \in Keys : \A entry : EntrySees(k, entry) => EntrySees(k, entry)'
        /\ \A fill : SeesWrites(fill) => SeesWrites(fill)'
    BY <1>1 DEF EntrySees, SeesWrites, Good
  <1> QED
    BY <1>1, <1>2, <1>3 DEF CacheInv

(* The empty cache. *)
LEMMA CacheStarts ==
    ASSUME CacheInit
    PROVE  CacheInv
  BY MaxVersionAssumption
     DEF CacheInit, CacheInv, CacheShape, AtMost, SeesWrites, EntrySees, FillOK, Good

(* Every step of the cache, of its readers and of its writers. *)
LEMMA CacheSteps == CacheInv /\ [CacheNext]_cacheVars => CacheInv'
  <1> SUFFICES ASSUME CacheInv, [CacheNext]_cacheVars PROVE CacheInv'
    OBVIOUS
  <1>1. CASE UNCHANGED cacheVars
    BY <1>1 DEF cacheVars, CacheInv, CacheShape, AtMost, SeesWrites, EntrySees, FillOK, Good
  <1>2. CASE CacheNext
    BY <1>2, ReadRowsInv, LookUpLowStockInv, AnswerInv, ExpireInv, CommitInv, StartScanInv,
       DeleteBatchInv, AbandonInv DEF CacheNext, Reading, Invalidating
  <1> QED
    BY <1>1, <1>2

(* A step of the jobs and the services takes the cache along one of its own *)
(* steps, or leaves it alone.                                               *)
LEMMA NextMovesCache == [Next]_vars => [CacheNext]_cacheVars
  <1> SUFFICES ASSUME [Next]_vars PROVE [CacheNext]_cacheVars
    OBVIOUS
  <1>1. ASSUME NEW w \in Workers, WorkerStep(w) \/ WorkerLost(w) PROVE [CacheNext]_cacheVars
    <2>1. w \in Writers
      BY WritersAssumption
    <2> QED
      BY <1>1, <2>1 DEF WorkerStep, WorkerLost, Forget, CacheNext, Invalidating
  <1>2. ASSUME NEW s \in Services,
               ServiceStep(s) \/ (Open /\ version < ServiceMax /\ Commit(s) /\ UNCHANGED bulkVars)
        PROVE  [CacheNext]_cacheVars
    <2>1. s \in Writers
      BY WritersAssumption
    <2> QED
      BY <1>2, <2>1 DEF ServiceStep, CacheNext, Invalidating
  <1>3. ASSUME NEW j \in Jobs, Submit(j) \/ Deliver(j) \/ LockGone(j) \/ (LoseLock(j) /\ UNCHANGED cacheVars)
        PROVE  UNCHANGED cacheVars
    BY <1>3 DEF Submit, Deliver, LockGone
  <1>4. ASSUME NEW r \in Readers, ReaderStep(r) PROVE CacheNext
    BY <1>4 DEF ReaderStep, CacheNext
  <1>5. ASSUME NEW r \in Readers, NEW k \in Keys, LookUp(r, k) PROVE CacheNext
    BY <1>5 DEF CacheNext
  <1>6. ASSUME NEW k \in Keys, EntryExpires(k) PROVE CacheNext
    BY <1>6 DEF EntryExpires, CacheNext
  <1>7. CASE UNCHANGED vars
    BY <1>7 DEF vars, cacheVars
  <1> QED
    BY <1>1, <1>2, <1>3, <1>4, <1>5, <1>6, <1>7 DEF Next

(* The cache's part of the invariant, of every behaviour. *)
THEOREM CacheInvariant == Spec => []CacheInv
  <1>1. Init => CacheInv
    BY CacheStarts DEF Init
  <1>2. CacheInv /\ [Next]_vars => CacheInv'
    BY CacheSteps, NextMovesCache
  <1> QED
    BY <1>1, <1>2, PTL DEF Spec

(* cache.service.ts:16-20: an invalidation leaves no stale entry behind, of *)
(* those that were not being computed when it began.                        *)
THEOREM SettledWritesSeen == Spec => []CacheHoldsSettledWrites
  <1>1. CacheInv => CacheHoldsSettledWrites
    BY DEF CacheInv, EntrySees, Good, CacheHoldsSettledWrites
  <1> QED
    BY <1>1, CacheInvariant, PTL

-----------------------------------------------------------------------------
(* Counting. *)

(* The sum of a function that is 1 on a set and 0 elsewhere. *)
LEMMA SumOfBits ==
    ASSUME NEW T, IsFiniteSet(T), NEW S, S \subseteq T, NEW f,
           \A x \in T : f[x] = IF x \in S THEN 1 ELSE 0
    PROVE  SumFunctionOnSet(f, T) = Cardinality(S)
  <1> DEFINE Sum(U) == SumFunctionOnSet(f, U)
             P == {U \in SUBSET T : Sum(U) = Cardinality(U \cap S)}
  <1>1. ASSUME NEW U \in SUBSET T, \A V \in SUBSET U : V # U => V \in P
        PROVE  U \in P
    <2>1. CASE U = {}
      <3>1. U \cap S = {}
        BY <2>1
      <3> QED
        BY <2>1, <3>1, SumEmpty, FS_EmptySet
    <2>2. ASSUME NEW y \in U PROVE U \in P
      <3> DEFINE V == U \ {y}
      <3>1. IsFiniteSet(U) /\ IsFiniteSet(V \cap S)
        BY FS_Subset
      <3>2. Sum(U) = f[y] + Sum(V)
        <4>1. \A x \in U : f[x] \in Int
          OBVIOUS
        <4> QED
          BY <3>1, <4>1, SumTake
      <3>3. Sum(V) = Cardinality(V \cap S)
        BY <1>1
      <3>4. Cardinality(V \cap S) \in Nat
        BY <3>1, FS_CardinalityType
      <3>5. CASE y \in S
        <4>1. U \cap S = (V \cap S) \cup {y} /\ y \notin V \cap S /\ f[y] = 1
          BY <3>5
        <4>2. Cardinality(U \cap S) = Cardinality(V \cap S) + 1
          BY <3>1, <4>1, FS_AddElement
        <4> QED
          BY <3>2, <3>3, <3>4, <4>1, <4>2
      <3>6. CASE y \notin S
        <4>1. U \cap S = V \cap S /\ f[y] = 0
          BY <3>6
        <4>2. Sum(U) = Cardinality(V \cap S)
          BY <3>2, <3>3, <3>4, <4>1
        <4> QED
          BY <4>1, <4>2
      <3> QED
        BY <3>5, <3>6
    <2> QED
      BY <2>1, <2>2
  <1>2. T \in P
    <2> HIDE DEF P
    <2> QED
      BY <1>1, SubsetInduction
  <1>3. T \cap S = S
    OBVIOUS
  <1> QED
    BY <1>2, <1>3

(* Where a function of naturals is positive, it adds up to as much at least. *)
LEMMA SumCounts ==
    ASSUME NEW T, IsFiniteSet(T), NEW S, S \subseteq T, NEW f, \A x \in T : f[x] \in Nat,
           \A x \in S : f[x] > 0
    PROVE  Cardinality(S) <= SumFunctionOnSet(f, T)
  <1> DEFINE bits == [x \in T |-> IF x \in S THEN 1 ELSE 0]
             rest == [x \in T |-> f[x] - bits[x]]
  <1>1. \A x \in T : bits[x] = IF x \in S THEN 1 ELSE 0
    OBVIOUS
  <1>2. \A x \in T : rest[x] \in Nat /\ bits[x] \in Int /\ f[x] = bits[x] + rest[x]
    OBVIOUS
  <1> HIDE DEF bits, rest
  <1>3. SumFunctionOnSet(bits, T) = Cardinality(S)
    BY <1>1, SumOfBits
  <1>4. SumFunctionOnSet(rest, T) \in Nat
    BY <1>2, SumNat
  <1>5. SumFunctionOnSet(f, T) = SumFunctionOnSet(bits, T) + SumFunctionOnSet(rest, T)
    <2>1. \A x \in T : rest[x] \in Int /\ f[x] \in Int
      BY <1>2
    <2> QED
      BY <1>2, <2>1, SumAdds
  <1>6. Cardinality(S) \in Nat
    <2>1. IsFiniteSet(S)
      BY FS_Subset
    <2> QED
      BY <2>1, FS_CardinalityType
  <1> QED
    BY <1>3, <1>4, <1>5, <1>6

(* The errors kept on the row: all of them, or as many as fit. *)
LEMMA ReportedCount ==
    ASSUME NEW n \in Nat, NEW S, S \subseteq 1..n
    PROVE  Cardinality(Reported(S)) = IF Cardinality(S) < ReportLimit THEN Cardinality(S)
                                                                      ELSE ReportLimit
  <1> DEFINE Part(k) == S \cap 1..k
             Kept(k) == Reported(S) \cap 1..k
             P == {k \in Nat : Cardinality(Kept(k)) =
                       IF Cardinality(Part(k)) < ReportLimit THEN Cardinality(Part(k)) ELSE ReportLimit}
  <1>0. ReportLimit \in Nat \ {0}
    BY LimitsAssumption
  <1>1. \A k \in Nat : /\ IsFiniteSet(Part(k)) /\ Cardinality(Part(k)) \in Nat
                       /\ IsFiniteSet(Kept(k)) /\ Cardinality(Kept(k)) \in Nat
    <2> SUFFICES ASSUME NEW k \in Nat
                 PROVE  /\ IsFiniteSet(Part(k)) /\ Cardinality(Part(k)) \in Nat
                        /\ IsFiniteSet(Kept(k)) /\ Cardinality(Kept(k)) \in Nat
      OBVIOUS
    <2>1. IsFiniteSet(1..k)
      BY FS_Interval
    <2>2. IsFiniteSet(Part(k)) /\ IsFiniteSet(Kept(k))
      BY <2>1, FS_Subset
    <2> QED
      BY <2>2, FS_CardinalityType
  <1>2. 0 \in P
    <2>1. Part(0) = {} /\ Kept(0) = {}
      OBVIOUS
    <2> QED
      BY <1>0, <2>1, FS_EmptySet
  <1>3. ASSUME NEW k \in Nat, k \in P PROVE k + 1 \in P
    <2>1. {m \in S : m < k + 1} = Part(k)
      <3>1. \A m \in S : m \in Int /\ (m < k + 1 <=> m \in 1..k)
        OBVIOUS
      <3> QED
        BY <3>1
    <2>2. CASE k + 1 \notin S
      <3>1. Part(k + 1) = Part(k)
        BY <2>2
      <3>2. Kept(k + 1) = Kept(k)
        BY <2>2 DEF Reported
      <3> QED
        BY <1>3, <3>1, <3>2
    <2>3. CASE k + 1 \in S
      <3>1. Part(k + 1) = Part(k) \cup {k + 1} /\ k + 1 \notin Part(k)
        BY <2>3
      <3>2. Cardinality(Part(k + 1)) = Cardinality(Part(k)) + 1
        BY <1>1, <3>1, FS_AddElement
      <3>3. CASE Cardinality(Part(k)) < ReportLimit
        <4>1. k + 1 \in Reported(S)
          BY <2>1, <2>3, <3>3 DEF Reported
        <4>2. Kept(k + 1) = Kept(k) \cup {k + 1} /\ k + 1 \notin Kept(k)
          BY <4>1
        <4>3. Cardinality(Kept(k + 1)) = Cardinality(Kept(k)) + 1
          BY <1>1, <4>2, FS_AddElement
        <4>4. Cardinality(Kept(k)) = Cardinality(Part(k))
          BY <1>3, <3>3
        <4> HIDE DEF Part, Kept
        <4> QED
          BY <1>0, <1>1, <3>2, <3>3, <4>3, <4>4
      <3>4. CASE ~(Cardinality(Part(k)) < ReportLimit)
        <4>1. k + 1 \notin Reported(S)
          BY <2>1, <3>4 DEF Reported
        <4>2. Kept(k + 1) = Kept(k)
          BY <4>1
        <4>3. Cardinality(Kept(k)) = ReportLimit
          BY <1>3, <3>4
        <4> HIDE DEF Part, Kept
        <4> QED
          BY <1>0, <1>1, <3>2, <3>4, <4>2, <4>3
      <3> QED
        BY <3>3, <3>4
    <2> QED
      BY <2>2, <2>3
  <1>4. n \in P
    <2> HIDE DEF P
    <2> QED
      BY <1>2, <1>3, NatSetInduction
  <1>5. Part(n) = S /\ Kept(n) = Reported(S)
    BY DEF Reported
  <1> QED
    BY <1>4, <1>5

(* An error that is not on the row was cut off at the end of a full list. *)
LEMMA ReportedCutAtEnd ==
    ASSUME NEW n \in Nat, NEW S, S \subseteq 1..n, NEW x \in S, x \notin Reported(S)
    PROVE  /\ Cardinality(Reported(S)) = ReportLimit
           /\ \A m \in Reported(S) : m < x
  <1>0. ReportLimit \in Nat \ {0}
    BY LimitsAssumption
  <1>1. IsFiniteSet(S) /\ Cardinality(S) \in Nat
    <2>1. IsFiniteSet(1..n)
      BY FS_Interval
    <2>2. IsFiniteSet(S)
      BY <2>1, FS_Subset
    <2> QED
      BY <2>2, FS_CardinalityType
  <1> DEFINE Below(y) == {m \in S : m < y}
  <1>2. \A y \in S : IsFiniteSet(Below(y)) /\ Cardinality(Below(y)) \in Nat
                     /\ Cardinality(Below(y)) <= Cardinality(S)
    <2> SUFFICES ASSUME NEW y \in S
                 PROVE  IsFiniteSet(Below(y)) /\ Cardinality(Below(y)) \in Nat
                        /\ Cardinality(Below(y)) <= Cardinality(S)
      OBVIOUS
    <2>1. IsFiniteSet(Below(y)) /\ Cardinality(Below(y)) <= Cardinality(S)
      BY <1>1, FS_Subset
    <2> QED
      BY <2>1, FS_CardinalityType
  <1>3. Cardinality(Below(x)) >= ReportLimit
    BY <1>0, <1>2 DEF Reported
  <1>4. Cardinality(Reported(S)) = ReportLimit
    <2>1. ~(Cardinality(S) < ReportLimit)
      <3> HIDE DEF Below
      <3> QED
        BY <1>0, <1>1, <1>2, <1>3
    <2> QED
      BY <2>1, ReportedCount
  <1>5. ASSUME NEW m \in Reported(S), ~(m < x) PROVE FALSE
    <2>1. m \in S /\ Cardinality(Below(m)) < ReportLimit
      BY DEF Reported
    <2>2. Below(x) \subseteq Below(m)
      <3>1. \A y \in S : y \in Int
        OBVIOUS
      <3>2. \A y \in S : y < x => y < m
        BY <1>5, <2>1, <3>1
      <3> QED
        BY <3>2
    <2>3. Cardinality(Below(x)) <= Cardinality(Below(m))
      BY <1>2, <2>1, <2>2, FS_Subset
    <2> HIDE DEF Below
    <2> QED
      BY <1>0, <1>2, <1>3, <2>1, <2>3
  <1> QED
    BY <1>4, <1>5

-----------------------------------------------------------------------------
(* The jobs. *)

Over == {"invalidate", "return"}

BulkShape ==
    /\ levels \in [Pairs -> Level]
    /\ rows \in [Jobs -> Row]
    /\ queue \in [Jobs -> Entry]
    /\ runs \in [Workers -> SUBSET Run] /\ \A w \in Workers : AtMost(runs[w], Run)
    /\ DOMAIN applied = Jobs /\ \A j \in Jobs : applied[j] \in [Numbers(j) -> Nat]
    /\ deliveries \in [Jobs -> Nat]

(* A job that BullMQ may still hand out has an attempt and a stall left. *)
EntryFits(j, entry) ==
    /\ entry.attempts <= MaxAttempts[j] /\ entry.stalls <= MaxStalls[j] + 1
    /\ entry.state \in {"absent", "waiting", "active"} =>
          entry.attempts < MaxAttempts[j] /\ entry.stalls <= MaxStalls[j]
    /\ entry.owner # {} => entry.state = "active"

StageFits(run) ==
    /\ run.next \in 1..(Len(Lines[run.job]) + 1)
    /\ run.stage = "start" => run.next = 1
    /\ run.stage = "lines" => run.next <= Len(Lines[run.job])
    /\ run.stage \in Over \cup {"finish"} => run.next = Len(Lines[run.job]) + 1

(* The lines a run has applied. *)
Passed(run) == (1..(run.next - 1)) \ run.errors

(* What a run counts is in the ledger; of a job that was delivered once, the *)
(* ledger holds that and nothing else.                                       *)
WorkOK(w, run) ==
    /\ StageFits(run)
    /\ run.errors \subseteq 1..(run.next - 1)
    /\ run.processed = Cardinality(Passed(run))
    /\ \A n \in Passed(run) : applied[run.job][n] > 0
    /\ deliveries[run.job] > 0
    /\ deliveries[run.job] = 1 =>
          /\ \A n \in Numbers(run.job) : applied[run.job][n] = IF n \in Passed(run) THEN 1 ELSE 0
          /\ \A v \in Workers : RunningJob(v, run.job) => v = w

(* The workers that may still apply a line: each will have been a delivery. *)
Pending(j, n) == {w \in Workers : \E run \in runs[w] : run.job = j /\ run.next <= n}
LineOK(j, n) ==
    /\ IsFiniteSet(Pending(j, n))
    /\ applied[j][n] + Cardinality(Pending(j, n)) <= deliveries[j]

Accounted(j) ==
    \A n \in Numbers(j) :
        \/ applied[j][n] > 0
        \/ n \in rows[j].errors
        \/ /\ Cardinality(rows[j].errors) = ReportLimit
           /\ \A m \in rows[j].errors : m < n

Exact(j) ==
    /\ rows[j].processed = AppliedLines(j)
    /\ rows[j].failed = Len(Lines[j]) - AppliedLines(j)

(* The row of a finished job that was delivered once is the ledger's, and   *)
(* nobody works on the job any more.                                        *)
RowOK(j) ==
    /\ rows[j].processed <= AppliedLines(j)
    /\ Finished(j) => Accounted(j) /\ deliveries[j] > 0
    /\ Finished(j) /\ deliveries[j] = 1 =>
          /\ Exact(j)
          /\ \A w \in Workers : \A run \in runs[w] : run.job = j => run.stage \in Over

BulkInv ==
    /\ BulkShape
    /\ \A j \in Jobs : EntryFits(j, queue[j])
    /\ \A w \in Workers : \A run \in runs[w] : WorkOK(w, run)
    /\ \A j \in Jobs : \A n \in Numbers(j) : LineOK(j, n)
    /\ \A j \in Jobs : RowOK(j)

(* The type invariant follows. *)
LEMMA BulkTypes == BulkInv => BulkTypeOK
  <1> SUFFICES ASSUME BulkInv PROVE BulkTypeOK
    OBVIOUS
  <1>1. \A w \in Workers : Cardinality(runs[w]) <= 1
    <2> SUFFICES ASSUME NEW w \in Workers PROVE Cardinality(runs[w]) <= 1
      OBVIOUS
    <2>1. AtMost(runs[w], Run)
      BY DEF BulkInv, BulkShape
    <2>2. runs[w] \in AtMostOne(Run)
      BY <2>1, AtMostType
    <2> QED
      BY <2>2 DEF AtMostOne
  <1> QED
    BY <1>1 DEF BulkInv, BulkShape, BulkTypeOK, EntryFits

(* The lines of a job. *)
LEMMA LinesFacts ==
    ASSUME NEW j \in Jobs
    PROVE  /\ Len(Lines[j]) \in Nat \ {0} /\ IsFiniteSet(Numbers(j))
           /\ \A n \in Numbers(j) : Lines[j][n] \in Correction /\ n \in Nat
  <1>1. Lines[j] \in Seq(Correction) /\ Lines[j] # <<>>
    BY LinesAssumption
  <1>2. Len(Lines[j]) \in Nat \ {0} /\ \A n \in Numbers(j) : Lines[j][n] \in Correction /\ n \in Nat
    BY <1>1 DEF Numbers
  <1>3. IsFiniteSet(Numbers(j))
    BY <1>2, FS_Interval DEF Numbers
  <1> QED
    BY <1>2, <1>3

(* The lines applied, and one more. *)
LEMMA AppliedLinesFacts ==
    ASSUME BulkShape, NEW j \in Jobs
    PROVE  /\ AppliedLines(j) = SumFunctionOnSet(applied[j], Numbers(j))
           /\ AppliedLines(j) \in Nat
           /\ \A n \in Numbers(j) : applied[j][n] \in Nat
  <1>1. applied[j] \in [Numbers(j) -> Nat]
    BY DEF BulkShape
  <1>2. AppliedLines(j) = SumFunctionOnSet(applied[j], Numbers(j))
    BY <1>1 DEF AppliedLines, SumFunction
  <1>3. SumFunctionOnSet(applied[j], Numbers(j)) \in Nat
    BY <1>1, LinesFacts, SumNat
  <1> QED
    BY <1>1, <1>2, <1>3

(* What a run counts, against the ledger. *)
LEMMA RunCounts ==
    ASSUME BulkInv, NEW w \in Workers, NEW run \in runs[w]
    PROVE  /\ run \in Run /\ WorkOK(w, run)
           /\ run.processed <= AppliedLines(run.job)
           /\ deliveries[run.job] = 1 => run.processed = AppliedLines(run.job)
           /\ Cardinality(run.errors) \in Nat
           /\ run.next = Len(Lines[run.job]) + 1 =>
                 Cardinality(run.errors) = Len(Lines[run.job]) - run.processed
  <1> DEFINE j == run.job
             size == Len(Lines[j])
  <1>1. run \in Run /\ j \in Jobs /\ WorkOK(w, run)
    BY DEF BulkInv, BulkShape, Run
  <1>2. size \in Nat \ {0} /\ IsFiniteSet(Numbers(j)) /\ Numbers(j) = 1..size
    BY <1>1, LinesFacts DEF Numbers
  <1>3. /\ run.next \in 1..(size + 1) /\ run.errors \subseteq 1..(run.next - 1)
        /\ run.processed = Cardinality(Passed(run))
    BY <1>1 DEF WorkOK, StageFits
  <1>4. Passed(run) \subseteq Numbers(j)
    BY <1>2, <1>3 DEF Passed
  <1>5. /\ AppliedLines(j) = SumFunctionOnSet(applied[j], Numbers(j))
        /\ \A n \in Numbers(j) : applied[j][n] \in Nat
    BY <1>1, AppliedLinesFacts DEF BulkInv
  <1>6. run.processed <= AppliedLines(j)
    <2>1. \A n \in Passed(run) : applied[j][n] > 0
      BY <1>1 DEF WorkOK
    <2> HIDE DEF j
    <2> QED
      BY <1>2, <1>3, <1>4, <1>5, <2>1, SumCounts
  <1>7. ASSUME deliveries[j] = 1 PROVE run.processed = AppliedLines(j)
    <2>1. \A n \in Numbers(j) : applied[j][n] = IF n \in Passed(run) THEN 1 ELSE 0
      BY <1>1, <1>7 DEF WorkOK
    <2> HIDE DEF j
    <2> QED
      BY <1>2, <1>3, <1>4, <1>5, <2>1, SumOfBits
  <1>8. IsFiniteSet(run.errors) /\ Cardinality(run.errors) \in Nat
    <2>1. IsFiniteSet(1..(run.next - 1))
      BY <1>2, <1>3, FS_Interval
    <2>2. IsFiniteSet(run.errors)
      BY <1>3, <2>1, FS_Subset
    <2> QED
      BY <2>2, FS_CardinalityType
  <1>9. ASSUME run.next = size + 1 PROVE Cardinality(run.errors) = size - run.processed
    <2>1. Passed(run) = (1..size) \ run.errors /\ (1..size) \cap run.errors = run.errors
      BY <1>2, <1>3, <1>9 DEF Passed
    <2>2. IsFiniteSet(1..size) /\ Cardinality(1..size) = size
      BY <1>2, FS_Interval
    <2>3. Cardinality((1..size) \ run.errors)
             = Cardinality(1..size) - Cardinality((1..size) \cap run.errors)
      BY <2>2, FS_Difference
    <2>4. run.processed = Cardinality((1..size) \ run.errors)
      BY <1>3, <2>1
    <2>5. run.processed = size - Cardinality(run.errors)
      BY <2>1, <2>2, <2>3, <2>4, Zenon
    <2> QED
      BY <1>2, <1>8, <2>5
  <1> QED
    BY <1>1, <1>6, <1>7, <1>8, <1>9

(* What a step leaves of a run: it is further on, and has applied the same. *)
Follows(run, after) ==
    /\ after.job = run.job /\ after.next >= run.next
    /\ after.processed = run.processed /\ Passed(after) = Passed(run)
    /\ after.errors \subseteq 1..(after.next - 1)
    /\ StageFits(after)

(* A step that applies nothing and delivers nothing. *)
Quietly ==
    /\ UNCHANGED <<applied, deliveries>>
    /\ runs' \in [Workers -> SUBSET Run]
    /\ \A w \in Workers : AtMost(runs'[w], Run)
    /\ \A w \in Workers : \A after \in runs'[w] : \E run \in runs[w] : Follows(run, after)

(* Such a step leaves the runs as good as they were. *)
LEMMA WorkKept ==
    ASSUME BulkInv, Quietly
    PROVE  /\ \A w \in Workers : \A after \in runs'[w] : WorkOK(w, after)'
           /\ \A j \in Jobs : \A n \in Numbers(j) : LineOK(j, n)'
  <1>0. \A w \in Workers, j \in Jobs : RunningJob(w, j)' => RunningJob(w, j)
    BY DEF Quietly, Follows, RunningJob
  <1>1. ASSUME NEW w \in Workers, NEW after \in runs'[w] PROVE WorkOK(w, after)'
    <2>1. PICK run \in runs[w] : Follows(run, after)
      BY DEF Quietly
    <2>2. WorkOK(w, run) /\ run.job \in Jobs
      BY DEF BulkInv, BulkShape, Run
    <2>3. applied' = applied /\ deliveries' = deliveries
      BY DEF Quietly
    <2>4. /\ after.job = run.job /\ after.processed = run.processed
          /\ Passed(after) = Passed(run) /\ StageFits(after)
          /\ after.errors \subseteq 1..(after.next - 1)
      BY <2>1 DEF Follows
    <2>5. /\ StageFits(after)' <=> StageFits(after)
          /\ Passed(after)' = Passed(after)
      BY DEF StageFits, Passed
    <2> HIDE DEF Passed
    <2>6. \A v \in Workers : RunningJob(v, after.job)' => RunningJob(v, run.job)
      BY <1>0, <2>2, <2>4
    <2> QED
      BY <2>2, <2>3, <2>4, <2>5, <2>6 DEF WorkOK
  <1>2. ASSUME NEW j \in Jobs, NEW n \in Numbers(j) PROVE LineOK(j, n)'
    <2>1. Pending(j, n)' \subseteq Pending(j, n)
      <3> SUFFICES ASSUME NEW w \in Workers, NEW after \in runs'[w],
                          after.job = j, after.next <= n
                   PROVE  \E run \in runs[w] : run.job = j /\ run.next <= n
        BY DEF Pending
      <3>1. PICK run \in runs[w] : Follows(run, after)
        BY DEF Quietly
      <3>2. after.next \in Int /\ run.next \in Int /\ n \in Int
        BY LinesFacts DEF BulkInv, BulkShape, Quietly, Run
      <3> QED
        BY <3>1, <3>2 DEF Follows
    <2>2. LineOK(j, n)
      BY DEF BulkInv
    <2>3. /\ IsFiniteSet(Pending(j, n)) /\ IsFiniteSet(Pending(j, n)')
          /\ Cardinality(Pending(j, n)') <= Cardinality(Pending(j, n))
      BY <2>1, <2>2, FS_Subset DEF LineOK
    <2>4. Cardinality(Pending(j, n)') \in Nat /\ Cardinality(Pending(j, n)) \in Nat
      BY <2>3, FS_CardinalityType
    <2>5. applied[j][n] \in Nat /\ deliveries[j] \in Nat
      BY DEF BulkInv, BulkShape
    <2>6. applied'[j][n] + Cardinality(Pending(j, n)') <= deliveries'[j]
      <3>1. applied[j][n] + Cardinality(Pending(j, n)) <= deliveries[j]
        BY <2>2 DEF LineOK
      <3>2. applied' = applied /\ deliveries' = deliveries
        BY DEF Quietly
      <3> QED
        BY <2>3, <2>4, <2>5, <3>1, <3>2
    <2> QED
      BY <2>3, <2>6 DEF LineOK
  <1> QED
    BY <1>1, <1>2

(* And the row of a job that it does not write. *)
LEMMA RowKept ==
    ASSUME BulkInv, Quietly, NEW j \in Jobs, rows'[j] = rows[j],
           \A w \in Workers : \A after \in runs'[w] : after.job = j =>
              \E run \in runs[w] : run.job = j /\ (run.stage \in Over => after.stage \in Over)
    PROVE  RowOK(j)'
  <1>1. RowOK(j)
    BY DEF BulkInv
  <1>2. UNCHANGED <<applied, deliveries>>
    BY DEF Quietly
  <1> QED
    BY <1>1, <1>2 DEF RowOK, Finished, Accounted, Exact, AppliedLines

(* What BullMQ notes of a job. *)
LEMMA EntryMoves ==
    ASSUME BulkInv, NEW j \in Jobs, NEW entry \in Entry, EntryFits(j, entry),
           queue' = [queue EXCEPT ![j] = entry]
    PROVE  queue' \in [Jobs -> Entry] /\ \A k \in Jobs : EntryFits(k, queue[k])'
  <1>1. \A k \in Jobs : queue'[k] = IF k = j THEN entry ELSE queue[k]
    BY DEF BulkInv, BulkShape
  <1>2. queue' \in [Jobs -> Entry]
    BY DEF BulkInv, BulkShape
  <1>3. \A k \in Jobs : EntryFits(k, queue'[k])
    BY <1>1 DEF BulkInv
  <1> QED
    BY <1>2, <1>3 DEF EntryFits

(* A job comes back when its lock is lost, or is given up. *)
LEMMA StalledFits ==
    ASSUME BulkInv, NEW j \in Jobs, queue[j].state = "active"
    PROVE  Stalled(j) \in Entry /\ EntryFits(j, Stalled(j))
  <1> DEFINE next == IF queue[j].stalls < MaxStalls[j] THEN "waiting" ELSE "failed"
  <1>1. queue[j] \in Entry /\ EntryFits(j, queue[j])
    BY DEF BulkInv, BulkShape
  <1>2. MaxAttempts[j] \in Nat \ {0} /\ MaxStalls[j] \in Nat
    BY LimitsAssumption
  <1>3. queue[j].stalls \in Nat /\ queue[j].attempts \in Nat
    BY <1>1 DEF Entry
  <1>4. next \in {"waiting", "failed"} /\ (next = "waiting" => queue[j].stalls < MaxStalls[j])
    OBVIOUS
  <1> HIDE DEF next
  <1>5. Stalled(j) = [queue[j] EXCEPT !.stalls = @ + 1, !.owner = {}, !.state = next]
    BY DEF Stalled, next
  <1>6. Stalled(j) = [state |-> next, attempts |-> queue[j].attempts,
                      stalls |-> queue[j].stalls + 1, owner |-> {}]
    BY <1>1, <1>5 DEF Entry
  <1>7. /\ Stalled(j) \in Entry /\ Stalled(j).state = next /\ Stalled(j).owner = {}
        /\ Stalled(j).stalls = queue[j].stalls + 1 /\ Stalled(j).attempts = queue[j].attempts
    BY <1>3, <1>4, <1>6 DEF Entry, QueueStates
  <1> QED
    BY <1>1, <1>2, <1>3, <1>4, <1>7 DEF EntryFits

(* Steps of the request and of the queue, which no run notices. *)
LEMMA QueueSteps ==
    ASSUME BulkInv, NEW j \in Jobs,
           \/ CreateRow(j) \/ Enqueue(j) \/ EnqueueFails(j) \/ LockExpires(j) \/ LoseLock(j)
    PROVE  BulkInv'
  <1>1. UNCHANGED <<levels, runs, applied, deliveries>>
    BY DEF CreateRow, Enqueue, EnqueueFails, LockExpires, LoseLock
  <1>2. \A w \in Workers : \A run \in runs[w] : WorkOK(w, run)
    BY DEF BulkInv
  <1>3. Quietly
    <2>1. \A run : run \in Run => run.next >= run.next
      BY DEF Run
    <2> QED
      BY <1>1, <1>2, <2>1 DEF Quietly, BulkInv, BulkShape, Follows, WorkOK
  <1>5. queue[j] \in Entry /\ EntryFits(j, queue[j]) /\ rows[j] \in Row /\ RowOK(j)
    BY DEF BulkInv, BulkShape
  <1>6. queue' \in [Jobs -> Entry] /\ \A k \in Jobs : EntryFits(k, queue[k])'
    <2>1. CASE CreateRow(j)
      BY <2>1 DEF CreateRow, BulkInv, BulkShape, EntryFits
    <2>2. CASE LockExpires(j) \/ LoseLock(j)
      <3>1. queue' = [queue EXCEPT ![j] = Stalled(j)] /\ queue[j].state = "active"
        BY <2>2 DEF LockExpires, LoseLock
      <3> QED
        BY <3>1, StalledFits, EntryMoves
    <2>3. ASSUME NEW state \in {"waiting", "refused"}, queue[j].state = "absent",
                 queue' = [queue EXCEPT ![j].state = state]
          PROVE  queue' \in [Jobs -> Entry] /\ \A k \in Jobs : EntryFits(k, queue[k])'
      <3> DEFINE entry == [queue[j] EXCEPT !.state = state]
      <3>1. /\ entry \in Entry /\ entry.state = state /\ entry.owner = queue[j].owner
            /\ entry.stalls = queue[j].stalls /\ entry.attempts = queue[j].attempts
        BY <1>5 DEF Entry, QueueStates
      <3>2. queue' = [queue EXCEPT ![j] = entry]
        BY <2>3
      <3> HIDE DEF entry
      <3>3. EntryFits(j, entry)
        BY <1>5, <2>3, <3>1 DEF EntryFits
      <3> QED
        BY <3>1, <3>2, <3>3, EntryMoves
    <2>4. CASE Enqueue(j)
      BY <2>3, <2>4 DEF Enqueue
    <2>5. CASE EnqueueFails(j)
      BY <2>3, <2>5 DEF EnqueueFails
    <2> QED
      BY <2>1, <2>2, <2>4, <2>5
  <1>7. /\ rows' \in [Jobs -> Row]
        /\ \A k \in Jobs : \/ rows'[k] = rows[k]
                           \/ ~Finished(k)' /\ rows'[k].processed = rows[k].processed
    <2>1. CASE CreateRow(j)
      BY <1>5, <2>1 DEF CreateRow, BulkInv, BulkShape, Row, RowStatuses, Finished
    <2>2. CASE ~CreateRow(j)
      BY <2>2 DEF Enqueue, EnqueueFails, LockExpires, LoseLock, BulkInv, BulkShape
    <2> QED
      BY <2>1, <2>2
  <1>8. \A k \in Jobs : RowOK(k)'
    <2> SUFFICES ASSUME NEW k \in Jobs PROVE RowOK(k)'
      OBVIOUS
    <2>1. RowOK(k)
      BY DEF BulkInv
    <2>2. CASE rows'[k] = rows[k]
      BY <1>1, <1>3, <2>2, RowKept
    <2>3. CASE ~Finished(k)' /\ rows'[k].processed = rows[k].processed
      BY <1>1, <2>1, <2>3 DEF RowOK, AppliedLines
    <2> QED
      BY <1>7, <2>2, <2>3
  <1>9. BulkShape'
    BY <1>1, <1>6, <1>7 DEF BulkInv, BulkShape, AtMost
  <1> QED
    BY <1>3, <1>6, <1>8, <1>9, WorkKept DEF BulkInv

(* A run that ends, whatever becomes of its job. *)
LEMMA RunEnds ==
    ASSUME BulkInv, NEW w \in Workers, runs' = [runs EXCEPT ![w] = {}],
           UNCHANGED <<levels, rows, applied, deliveries>>,
           queue' \in [Jobs -> Entry], \A k \in Jobs : EntryFits(k, queue[k])'
    PROVE  BulkInv'
  <1>1. /\ runs' \in [Workers -> SUBSET Run]
        /\ \A v \in Workers : runs'[v] = IF v = w THEN {} ELSE runs[v]
    BY DEF BulkInv, BulkShape
  <1>2. \A v \in Workers : \A run \in runs[v] : WorkOK(v, run) /\ run \in Run
    BY DEF BulkInv, BulkShape
  <1>3. Quietly
    <2>1. \A run : run \in Run => run.next >= run.next
      BY DEF Run
    <2>2. \A v \in Workers : AtMost(runs'[v], Run)
      BY <1>1 DEF BulkInv, BulkShape, AtMost
    <2>3. \A v \in Workers : \A after \in runs'[v] : after \in runs[v] /\ Follows(after, after)
      BY <1>1, <1>2, <2>1 DEF Follows, WorkOK
    <2> QED
      BY <1>1, <2>2, <2>3 DEF Quietly
  <1>4. \A k \in Jobs : RowOK(k)'
    BY <1>1, <1>3, RowKept
  <1>5. BulkShape'
    BY <1>1, <1>3 DEF BulkInv, BulkShape, Quietly, AtMost
  <1> QED
    BY <1>3, <1>4, <1>5, WorkKept DEF BulkInv

(* The handler throws. *)
LEMMA ThrowInv ==
    ASSUME BulkInv, NEW w \in Workers, Throw(w)
    PROVE  BulkInv'
  <1>1. PICK run \in runs[w] :
           queue' = IF queue[run.job].owner = {w}
                    THEN [queue EXCEPT ![run.job] = AfterFailure(run.job)]
                    ELSE queue
    BY DEF Throw
  <1>2. PICK j \in Jobs : j = run.job
    BY DEF BulkInv, BulkShape, Run
  <1>3. queue[j] \in Entry /\ EntryFits(j, queue[j])
    BY DEF BulkInv, BulkShape
  <1>4. queue' \in [Jobs -> Entry] /\ \A k \in Jobs : EntryFits(k, queue[k])'
    <2>1. CASE queue[j].owner = {w}
      <3> DEFINE next == IF queue[j].attempts + 1 < MaxAttempts[j] THEN "waiting" ELSE "failed"
      <3>1. MaxAttempts[j] \in Nat \ {0} /\ MaxStalls[j] \in Nat
        BY LimitsAssumption
      <3>2. queue[j].stalls \in Nat /\ queue[j].attempts \in Nat
        BY <1>3 DEF Entry
      <3>3. next \in {"waiting", "failed"} /\ (next = "waiting" => queue[j].attempts + 1 < MaxAttempts[j])
        OBVIOUS
      <3> HIDE DEF next
      <3>4. AfterFailure(j) = [queue[j] EXCEPT !.attempts = @ + 1, !.owner = {}, !.state = next]
        BY DEF AfterFailure, next
      <3>5. AfterFailure(j) = [state |-> next, attempts |-> queue[j].attempts + 1,
                               stalls |-> queue[j].stalls, owner |-> {}]
        BY <1>3, <3>4 DEF Entry
      <3>6. AfterFailure(j) \in Entry
        BY <3>2, <3>3, <3>5 DEF Entry, QueueStates
      <3>7. queue[j].attempts < MaxAttempts[j] /\ queue[j].stalls <= MaxStalls[j]
        BY <1>3, <2>1 DEF EntryFits
      <3>8. EntryFits(j, AfterFailure(j))
        BY <3>1, <3>2, <3>3, <3>5, <3>7 DEF EntryFits
      <3>9. queue' = [queue EXCEPT ![j] = AfterFailure(j)]
        BY <1>1, <1>2, <2>1
      <3> QED
        BY <3>6, <3>8, <3>9, EntryMoves
    <2>2. CASE queue[j].owner # {w}
      BY <1>1, <1>2, <2>2 DEF BulkInv, BulkShape, EntryFits
    <2> QED
      BY <2>1, <2>2
  <1>5. runs' = [runs EXCEPT ![w] = {}] /\ UNCHANGED <<levels, rows, applied, deliveries>>
    BY DEF Throw
  <1> QED
    BY <1>4, <1>5, RunEnds

(* The handler returns. *)
LEMMA ReturnInv ==
    ASSUME BulkInv, NEW w \in Workers, Return(w)
    PROVE  BulkInv'
  <1>1. PICK run \in runs[w] :
           queue' = IF queue[run.job].owner = {w}
                    THEN [queue EXCEPT ![run.job] = [@ EXCEPT !.state = "completed", !.owner = {}]]
                    ELSE queue
    BY DEF Return
  <1>2. PICK j \in Jobs : j = run.job
    BY DEF BulkInv, BulkShape, Run
  <1>3. queue[j] \in Entry /\ EntryFits(j, queue[j])
    BY DEF BulkInv, BulkShape
  <1>4. queue' \in [Jobs -> Entry] /\ \A k \in Jobs : EntryFits(k, queue[k])'
    <2>1. CASE queue[j].owner = {w}
      <3>1. PICK entry : entry = [queue[j] EXCEPT !.state = "completed", !.owner = {}]
        OBVIOUS
      <3>2. entry = [state |-> "completed", attempts |-> queue[j].attempts,
                     stalls |-> queue[j].stalls, owner |-> {}]
        BY <1>3, <3>1 DEF Entry
      <3>3. queue' = [queue EXCEPT ![j] = entry]
        BY <1>1, <1>2, <2>1, <3>1
      <3>4. entry \in Entry /\ EntryFits(j, entry)
        BY <1>3, <3>2 DEF Entry, QueueStates, EntryFits
      <3> QED
        BY <3>3, <3>4, EntryMoves
    <2>2. CASE queue[j].owner # {w}
      BY <1>1, <1>2, <2>2 DEF BulkInv, BulkShape, EntryFits
    <2> QED
      BY <2>1, <2>2
  <1>5. runs' = [runs EXCEPT ![w] = {}] /\ UNCHANGED <<levels, rows, applied, deliveries>>
    BY DEF Return
  <1> QED
    BY <1>4, <1>5, RunEnds

(* The worker dies. *)
LEMMA CrashInv ==
    ASSUME BulkInv, NEW w \in Workers, Crash(w)
    PROVE  BulkInv'
  <1>1. runs' = [runs EXCEPT ![w] = {}] /\ UNCHANGED <<levels, rows, applied, deliveries, queue>>
    BY DEF Crash
  <1>2. queue' \in [Jobs -> Entry] /\ \A k \in Jobs : EntryFits(k, queue[k])'
    BY <1>1 DEF BulkInv, BulkShape, EntryFits
  <1> QED
    BY <1>1, <1>2, RunEnds

(* A worker takes a job: one delivery more, and a run that has applied       *)
(* nothing.                                                                  *)
LEMMA TakeInv ==
    ASSUME BulkInv, NEW w \in Workers, NEW j \in Jobs, Take(w, j)
    PROVE  BulkInv'
  <1>1. /\ runs[w] = {} /\ queue[j].state = "waiting"
        /\ queue' = [queue EXCEPT ![j].state = "active", ![j].owner = {w}]
        /\ runs' = [runs EXCEPT ![w] = {NewRun(j)}]
        /\ deliveries' = [deliveries EXCEPT ![j] = @ + 1]
        /\ UNCHANGED <<levels, rows, applied>>
    BY DEF Take
  <1>2. /\ NewRun(j) \in Run /\ NewRun(j).job = j /\ NewRun(j).next = 1 /\ NewRun(j).stage = "start"
        /\ NewRun(j).processed = 0 /\ NewRun(j).errors = {}
    BY DEF NewRun, Run, Stages
  <1>3. /\ \A v \in Workers : runs'[v] = IF v = w THEN {NewRun(j)} ELSE runs[v]
        /\ runs' \in [Workers -> SUBSET Run]
        /\ \A v \in Workers : AtMost(runs'[v], Run)
    BY <1>1, <1>2 DEF BulkInv, BulkShape, AtMost
  <1>4. /\ \A k \in Jobs : deliveries'[k] = IF k = j THEN deliveries[j] + 1 ELSE deliveries[k]
        /\ deliveries' \in [Jobs -> Nat] /\ \A k \in Jobs : deliveries[k] \in Nat
    BY <1>1 DEF BulkInv, BulkShape
  <1>5. queue' \in [Jobs -> Entry] /\ \A k \in Jobs : EntryFits(k, queue[k])'
    <2>1. queue[j] \in Entry /\ EntryFits(j, queue[j])
      BY DEF BulkInv, BulkShape
    <2>2. PICK entry : entry = [queue[j] EXCEPT !.state = "active", !.owner = {w}]
      OBVIOUS
    <2>3. entry = [state |-> "active", attempts |-> queue[j].attempts,
                   stalls |-> queue[j].stalls, owner |-> {w}]
      BY <2>1, <2>2 DEF Entry
    <2>4. queue' = [queue EXCEPT ![j] = entry]
      BY <1>1, <2>1, <2>2 DEF BulkInv, BulkShape, Entry
    <2>5. entry \in Entry /\ EntryFits(j, entry)
      BY <1>1, <2>1, <2>3 DEF Entry, QueueStates, EntryFits
    <2> QED
      BY <2>4, <2>5, EntryMoves
  <1>6. \A v \in Workers : \A run \in runs[v] : run.job \in Jobs /\ WorkOK(v, run)
    BY DEF BulkInv, BulkShape, Run
  <1>7. \A v \in Workers, k \in Jobs :
           RunningJob(v, k)' <=> IF v = w THEN k = j ELSE RunningJob(v, k)
    BY <1>2, <1>3 DEF RunningJob
  <1>8. WorkOK(w, NewRun(j))'
    <2>1. Passed(NewRun(j)) = {} /\ Cardinality({}) = 0
      BY <1>2, FS_EmptySet DEF Passed
    <2>2. StageFits(NewRun(j))
      BY <1>2, LinesFacts DEF StageFits, Over
    <2>3. deliveries'[j] = 1 => \A n \in Numbers(j) : applied[j][n] = 0
      <3> SUFFICES ASSUME deliveries'[j] = 1, NEW n \in Numbers(j) PROVE applied[j][n] = 0
        OBVIOUS
      <3>1. deliveries[j] = 0
        BY <1>4
      <3>2. LineOK(j, n) /\ applied[j][n] \in Nat
        BY DEF BulkInv, BulkShape
      <3>3. Cardinality(Pending(j, n)) \in Nat
        BY <3>2, FS_CardinalityType DEF LineOK
      <3> QED
        BY <3>1, <3>2, <3>3 DEF LineOK
    <2>4. deliveries'[j] = 1 => \A v \in Workers : RunningJob(v, j)' => v = w
      BY <1>4, <1>6, <1>7 DEF RunningJob, WorkOK
    <2>5. deliveries'[j] > 0 /\ applied' = applied
      BY <1>1, <1>4
    <2>6. Passed(NewRun(j))' = {} /\ StageFits(NewRun(j))'
      BY <2>1, <2>2 DEF Passed, StageFits, NewRun
    <2>7. WorkOK(w, NewRun(j))' <=>
             /\ StageFits(NewRun(j))'
             /\ NewRun(j).errors \subseteq 1..(NewRun(j).next - 1)
             /\ NewRun(j).processed = Cardinality(Passed(NewRun(j))')
             /\ \A n \in Passed(NewRun(j))' : applied'[NewRun(j).job][n] > 0
             /\ deliveries'[NewRun(j).job] > 0
             /\ deliveries'[NewRun(j).job] = 1 =>
                   /\ \A n \in Numbers(NewRun(j).job) :
                         applied'[NewRun(j).job][n] = IF n \in Passed(NewRun(j))' THEN 1 ELSE 0
                   /\ \A v \in Workers : RunningJob(v, NewRun(j).job)' => v = w
      BY DEF WorkOK, NewRun
    <2> QED
      BY <1>2, <2>1, <2>3, <2>4, <2>5, <2>6, <2>7
  <1>9. ASSUME NEW v \in Workers \ {w}, NEW run \in runs[v] PROVE WorkOK(v, run)'
    <2>1. run.job \in Jobs /\ WorkOK(v, run)
      BY <1>6
    <2>2. deliveries'[run.job] > 0 /\ (deliveries'[run.job] = 1 => deliveries[run.job] = 1 /\ run.job # j)
      BY <1>4, <2>1 DEF WorkOK
    <2>3. run.job # j => \A u \in Workers : RunningJob(u, run.job)' => RunningJob(u, run.job)
      BY <1>7, <2>1
    <2> QED
      BY <1>1, <2>1, <2>2, <2>3 DEF WorkOK, StageFits, Passed
  <1>10. \A v \in Workers : \A run \in runs'[v] : WorkOK(v, run)'
    BY <1>3, <1>8, <1>9
  <1>11. ASSUME NEW k \in Jobs, NEW n \in Numbers(k) PROVE LineOK(k, n)'
    <2>1. LineOK(k, n) /\ applied[k][n] \in Nat /\ applied' = applied
      BY <1>1 DEF BulkInv, BulkShape
    <2>2. Cardinality(Pending(k, n)) \in Nat
      BY <2>1, FS_CardinalityType DEF LineOK
    <2>3. CASE k # j
      <3>1. Pending(k, n)' = Pending(k, n)
        BY <1>1, <1>2, <1>3, <2>3 DEF Pending
      <3> QED
        BY <1>4, <2>1, <2>3, <3>1 DEF LineOK
    <2>4. CASE k = j
      <3>1. n \in Nat /\ 1 <= n
        BY LinesFacts DEF Numbers
      <3>2. Pending(k, n)' = Pending(k, n) \cup {w} /\ w \notin Pending(k, n)
        BY <1>1, <1>2, <1>3, <2>4, <3>1 DEF Pending
      <3>3. /\ IsFiniteSet(Pending(k, n)')
            /\ Cardinality(Pending(k, n)') = Cardinality(Pending(k, n)) + 1
        BY <2>1, <3>2, FS_AddElement DEF LineOK
      <3>4. deliveries'[k] = deliveries[k] + 1 /\ deliveries[k] \in Nat
        BY <1>4, <2>4
      <3>5. applied[k][n] + Cardinality(Pending(k, n)) <= deliveries[k]
        BY <2>1 DEF LineOK
      <3>6. applied'[k][n] + Cardinality(Pending(k, n)') <= deliveries'[k]
        BY <2>1, <2>2, <3>3, <3>4, <3>5
      <3> QED
        BY <3>3, <3>6 DEF LineOK
    <2> QED
      BY <2>3, <2>4
  <1>12. ASSUME NEW k \in Jobs PROVE RowOK(k)'
    <2>1. RowOK(k) /\ rows' = rows /\ applied' = applied
      BY <1>1 DEF BulkInv
    <2>2. CASE k = j
      BY <1>4, <2>1, <2>2 DEF RowOK, Finished, Accounted, AppliedLines
    <2>3. CASE k # j
      BY <1>2, <1>3, <1>4, <2>1, <2>3 DEF RowOK, Finished, Accounted, AppliedLines, Exact
    <2> QED
      BY <2>2, <2>3
  <1>13. BulkShape'
    BY <1>1, <1>3, <1>4, <1>5 DEF BulkInv, BulkShape, AtMost
  <1> QED
    BY <1>5, <1>10, <1>11, <1>12, <1>13 DEF BulkInv

(* A run goes on without applying a line. *)
LEMMA RunMoves ==
    ASSUME BulkInv, NEW w \in Workers, NEW run \in runs[w], NEW after \in Run, Follows(run, after),
           runs' = [runs EXCEPT ![w] = {after}], UNCHANGED <<levels, queue, applied, deliveries>>
    PROVE  /\ Quietly
           /\ \A v \in Workers : runs'[v] = IF v = w THEN {after} ELSE runs[v]
           /\ rows' \in [Jobs -> Row] /\ (\A k \in Jobs : RowOK(k)') => BulkInv'
  <1>1. \A v \in Workers : runs'[v] = IF v = w THEN {after} ELSE runs[v]
    BY DEF BulkInv, BulkShape
  <1>2. \A v \in Workers : \A any \in runs[v] : WorkOK(v, any) /\ any \in Run
    BY DEF BulkInv, BulkShape
  <1>3. Quietly
    <2>1. \A any : any \in Run => any.next >= any.next
      BY DEF Run
    <2>2. \A v \in Workers : AtMost(runs'[v], Run)
      BY <1>1 DEF BulkInv, BulkShape, AtMost
    <2>3. \A v \in Workers \ {w} : \A any \in runs'[v] : any \in runs[v] /\ Follows(any, any)
      BY <1>1, <1>2, <2>1 DEF Follows, WorkOK
    <2>4. runs' \in [Workers -> SUBSET Run]
      BY DEF BulkInv, BulkShape
    <2>5. \A v \in Workers : \A any \in runs'[v] : \E one \in runs[v] : Follows(one, any)
      BY <1>1, <2>3
    <2> QED
      BY <2>2, <2>4, <2>5 DEF Quietly
  <1>4. ASSUME rows' \in [Jobs -> Row], \A k \in Jobs : RowOK(k)' PROVE BulkInv'
    <2>1. BulkShape'
      BY <1>3, <1>4 DEF BulkInv, BulkShape, Quietly, AtMost
    <2>2. \A k \in Jobs : EntryFits(k, queue[k])'
      BY DEF BulkInv, EntryFits
    <2> QED
      BY <1>3, <1>4, <2>1, <2>2, WorkKept DEF BulkInv
  <1> QED
    BY <1>1, <1>3, <1>4

(* A run that enters another stage. *)
LEMMA Restaged ==
    ASSUME NEW run \in Run, NEW stage \in Stages, NEW after, after = [run EXCEPT !.stage = stage]
    PROVE  /\ after \in Run /\ after.job = run.job /\ after.stage = stage /\ after.next = run.next
           /\ after.processed = run.processed /\ after.errors = run.errors
  BY DEF Run

(* It follows what it was, if it fits its new stage. *)
LEMMA RestagedFollows ==
    ASSUME BulkInv, NEW w \in Workers, NEW run \in runs[w], NEW after \in Run, StageFits(after),
           after.job = run.job, after.next = run.next,
           after.processed = run.processed, after.errors = run.errors
    PROVE  Follows(run, after)
  <1>1. run \in Run /\ WorkOK(w, run)
    BY DEF BulkInv, BulkShape
  <1>2. run.next >= run.next
    BY <1>1 DEF Run
  <1> QED
    BY <1>1, <1>2 DEF Follows, Passed, WorkOK

(* The first update of the row, after which the job is not finished. *)
LEMMA StartInv ==
    ASSUME BulkInv, NEW w \in Workers, Start(w)
    PROVE  BulkInv'
  <1>1. PICK run \in runs[w] :
           /\ run.stage = "start"
           /\ rows' = [rows EXCEPT ![run.job].status = "PROCESSING"]
           /\ runs' = [runs EXCEPT ![w] = {[run EXCEPT !.stage = "lines"]}]
    BY DEF Start
  <1>2. UNCHANGED <<levels, queue, applied, deliveries>>
    BY DEF Start
  <1>3. run \in Run /\ run.job \in Jobs /\ WorkOK(w, run)
    BY DEF BulkInv, BulkShape, Run
  <1>4. PICK after \in Run :
           /\ after = [run EXCEPT !.stage = "lines"]
           /\ after.job = run.job /\ after.stage = "lines" /\ after.next = run.next
           /\ after.processed = run.processed /\ after.errors = run.errors
    <2>1. PICK after : after = [run EXCEPT !.stage = "lines"]
      OBVIOUS
    <2> QED
      BY <1>3, <2>1, Restaged DEF Stages
  <1>5. StageFits(after)
    BY <1>1, <1>3, <1>4, LinesFacts DEF WorkOK, StageFits, Over
  <1>6. Follows(run, after)
    BY <1>4, <1>5, RestagedFollows
  <1>7. runs' = [runs EXCEPT ![w] = {after}]
    BY <1>1, <1>4
  <1>8. /\ Quietly
        /\ \A v \in Workers : runs'[v] = IF v = w THEN {after} ELSE runs[v]
        /\ rows' \in [Jobs -> Row] /\ (\A k \in Jobs : RowOK(k)') => BulkInv'
    BY <1>2, <1>6, <1>7, RunMoves
  <1>9. /\ rows' \in [Jobs -> Row]
        /\ \A k \in Jobs \ {run.job} : rows'[k] = rows[k]
        /\ rows'[run.job].processed = rows[run.job].processed /\ ~Finished(run.job)'
    BY <1>1, <1>3 DEF BulkInv, BulkShape, Row, RowStatuses, Finished
  <1>10. ASSUME NEW k \in Jobs PROVE RowOK(k)'
    <2>1. CASE k = run.job
      BY <1>2, <1>9, <2>1 DEF BulkInv, RowOK, AppliedLines
    <2>2. CASE k # run.job
      BY <1>4, <1>8, <1>9, <2>2, RowKept
    <2> QED
      BY <2>1, <2>2
  <1> QED
    BY <1>8, <1>9, <1>10

(* A line is applied. *)
LEMMA AfterApplied ==
    ASSUME NEW run \in Run
    PROVE  \E after \in Run :
              /\ after = AfterLine(run, TRUE)
              /\ after.job = run.job /\ after.next = run.next + 1 /\ after.stage = StageAfter(run)
              /\ after.processed = run.processed + 1 /\ after.errors = run.errors
  <1>1. StageAfter(run) \in Stages
    BY DEF StageAfter, Stages
  <1>2. run.next \in Nat /\ run.processed \in Nat /\ run.errors \in SUBSET Nat
    BY DEF Run
  <1>3. PICK after : after = AfterLine(run, TRUE)
    OBVIOUS
  <1>4. after = [run EXCEPT !.next = run.next + 1, !.processed = run.processed + 1,
                            !.errors = run.errors, !.stage = StageAfter(run)]
    BY <1>3 DEF AfterLine, Run
  <1>5. after = [job |-> run.job, stage |-> StageAfter(run), next |-> run.next + 1,
                 processed |-> run.processed + 1, errors |-> run.errors]
    BY <1>4 DEF Run
  <1>6. after \in Run
    BY <1>1, <1>2, <1>5 DEF Run
  <1>7. /\ after.job = run.job /\ after.next = run.next + 1 /\ after.stage = StageAfter(run)
        /\ after.processed = run.processed + 1 /\ after.errors = run.errors
    BY <1>5
  <1> QED
    BY <1>3, <1>6, <1>7

(* A line is refused. *)
LEMMA AfterRefused ==
    ASSUME NEW run \in Run
    PROVE  \E after \in Run :
              /\ after = AfterLine(run, FALSE)
              /\ after.job = run.job /\ after.next = run.next + 1 /\ after.stage = StageAfter(run)
              /\ after.processed = run.processed /\ after.errors = run.errors \cup {run.next}
  <1>1. StageAfter(run) \in Stages
    BY DEF StageAfter, Stages
  <1>2. run.next \in Nat /\ run.processed \in Nat /\ run.errors \in SUBSET Nat
    BY DEF Run
  <1>3. PICK after : after = AfterLine(run, FALSE)
    OBVIOUS
  <1>4. after = [run EXCEPT !.next = run.next + 1, !.processed = run.processed,
                            !.errors = run.errors \cup {run.next}, !.stage = StageAfter(run)]
    BY <1>3 DEF AfterLine, Run
  <1>5. after = [job |-> run.job, stage |-> StageAfter(run), next |-> run.next + 1,
                 processed |-> run.processed, errors |-> run.errors \cup {run.next}]
    BY <1>4 DEF Run
  <1>6. after \in Run
    BY <1>1, <1>2, <1>5 DEF Run
  <1>7. /\ after.job = run.job /\ after.next = run.next + 1 /\ after.stage = StageAfter(run)
        /\ after.processed = run.processed /\ after.errors = run.errors \cup {run.next}
    BY <1>5
  <1> QED
    BY <1>3, <1>6, <1>7

(* The next line is one of the job's, unless the chunk is over. *)
LEMMA StageAfterFits ==
    ASSUME BulkInv, NEW w \in Workers, NEW run \in runs[w], run.stage = "lines",
           NEW after, after.job = run.job, after.next = run.next + 1, after.stage = StageAfter(run)
    PROVE  StageFits(after)
  <1>1. WorkOK(w, run) /\ run.job \in Jobs
    BY DEF BulkInv, BulkShape, Run
  <1>2. Len(Lines[run.job]) \in Nat /\ run.next \in 1..Len(Lines[run.job])
    BY <1>1, LinesFacts DEF WorkOK, StageFits
  <1>3. \/ StageAfter(run) = "progress"
        \/ StageAfter(run) = "lines" /\ run.next # Len(Lines[run.job])
    BY DEF StageAfter, EndOfChunk
  <1> QED
    BY <1>2, <1>3 DEF StageFits, Over

(* A line that is refused. *)
LEMMA FailLineInv ==
    ASSUME BulkInv, NEW w \in Workers, FailLine(w)
    PROVE  BulkInv'
  <1>1. PICK run \in runs[w] :
           run.stage = "lines" /\ runs' = [runs EXCEPT ![w] = {AfterLine(run, FALSE)}]
    BY DEF FailLine
  <1>2. UNCHANGED <<levels, rows, queue, applied, deliveries>>
    BY DEF FailLine
  <1>3. run \in Run /\ run.job \in Jobs /\ WorkOK(w, run)
    BY DEF BulkInv, BulkShape, Run
  <1>4. PICK after \in Run :
           /\ after = AfterLine(run, FALSE)
           /\ after.job = run.job /\ after.next = run.next + 1 /\ after.stage = StageAfter(run)
           /\ after.processed = run.processed /\ after.errors = run.errors \cup {run.next}
    BY <1>3, AfterRefused
  <1>6. Follows(run, after)
    <2>1. /\ run.next \in 1..Len(Lines[run.job]) /\ Len(Lines[run.job]) \in Nat
          /\ run.errors \subseteq 1..(run.next - 1)
      BY <1>1, <1>3, LinesFacts DEF WorkOK, StageFits
    <2>2. run.next \in Nat \ {0} /\ after.next - 1 = run.next /\ after.next >= run.next
      <3>1. run.next \in Nat \ {0}
        BY <2>1
      <3>2. after.next = run.next + 1
        BY <1>4
      <3> QED
        BY <3>1, <3>2
    <2>3. Passed(after) = Passed(run)
      <3>1. (1..run.next) \ (run.errors \cup {run.next}) = (1..(run.next - 1)) \ run.errors
        BY <2>2
      <3> QED
        BY <1>4, <2>2, <3>1 DEF Passed
    <2>4. after.errors \subseteq 1..(after.next - 1)
      <3>1. \A n \in run.errors \cup {run.next} : n \in 1..run.next
        BY <2>1, <2>2
      <3> QED
        BY <1>4, <2>2, <3>1
    <2>5. StageFits(after)
      BY <1>1, <1>3, <1>4, StageAfterFits
    <2> QED
      BY <1>4, <2>2, <2>3, <2>4, <2>5 DEF Follows
  <1>7. runs' = [runs EXCEPT ![w] = {after}]
    BY <1>1, <1>4
  <1>8. /\ Quietly
        /\ \A v \in Workers : runs'[v] = IF v = w THEN {after} ELSE runs[v]
        /\ rows' \in [Jobs -> Row] /\ (\A k \in Jobs : RowOK(k)') => BulkInv'
    BY <1>2, <1>4, <1>6, <1>7, RunMoves
  <1>9. ASSUME NEW k \in Jobs PROVE RowOK(k)'
    <2>1. ASSUME NEW v \in Workers, NEW any \in runs'[v], any.job = k
          PROVE  \E one \in runs[v] : one.job = k /\ (one.stage \in Over => any.stage \in Over)
      <3>1. CASE v = w
        <4>1. any = after /\ run \in runs[v] /\ run.job = k
          BY <1>4, <1>8, <2>1, <3>1
        <4>2. run.stage \in Over => after.stage \in Over
          BY <1>1, <1>4 DEF Over
        <4> QED
          BY <4>1, <4>2
      <3>2. CASE v # w
        BY <1>8, <2>1, <3>2
      <3> QED
        BY <3>1, <3>2
    <2> QED
      BY <1>2, <1>8, <2>1, RowKept
  <1>10. rows' \in [Jobs -> Row]
    BY <1>2 DEF BulkInv, BulkShape
  <1> QED
    BY <1>8, <1>9, <1>10

(* The caches have been told. *)
LEMMA InvalidateInv ==
    ASSUME BulkInv, NEW w \in Workers, Invalidate(w)
    PROVE  BulkInv'
  <1>1. PICK run \in runs[w] :
           run.stage = "invalidate" /\ runs' = [runs EXCEPT ![w] = {[run EXCEPT !.stage = "return"]}]
    BY DEF Invalidate
  <1>2. UNCHANGED <<levels, rows, queue, applied, deliveries>>
    BY DEF Invalidate
  <1>3. run \in Run /\ WorkOK(w, run)
    BY DEF BulkInv, BulkShape
  <1>4. PICK after \in Run :
           /\ after = [run EXCEPT !.stage = "return"]
           /\ after.job = run.job /\ after.stage = "return" /\ after.next = run.next
           /\ after.processed = run.processed /\ after.errors = run.errors
    <2>1. PICK after : after = [run EXCEPT !.stage = "return"]
      OBVIOUS
    <2> QED
      BY <1>3, <2>1, Restaged DEF Stages
  <1>5. StageFits(after)
    BY <1>1, <1>3, <1>4 DEF WorkOK, StageFits, Over
  <1>6. Follows(run, after)
    BY <1>4, <1>5, RestagedFollows
  <1>7. runs' = [runs EXCEPT ![w] = {after}]
    BY <1>1, <1>4
  <1>8. /\ Quietly
        /\ \A v \in Workers : runs'[v] = IF v = w THEN {after} ELSE runs[v]
        /\ rows' \in [Jobs -> Row] /\ (\A k \in Jobs : RowOK(k)') => BulkInv'
    BY <1>2, <1>6, <1>7, RunMoves
  <1>9. ASSUME NEW k \in Jobs PROVE RowOK(k)'
    <2>1. ASSUME NEW v \in Workers, NEW any \in runs'[v], any.job = k
          PROVE  \E one \in runs[v] : one.job = k /\ (one.stage \in Over => any.stage \in Over)
      <3>1. CASE v = w
        <4>1. any = after /\ run \in runs[v] /\ run.job = k
          BY <1>4, <1>8, <2>1, <3>1
        <4>2. run.stage \in Over => after.stage \in Over
          BY <1>1, <1>4 DEF Over
        <4> QED
          BY <4>1, <4>2
      <3>2. CASE v # w
        BY <1>8, <2>1, <3>2
      <3> QED
        BY <3>1, <3>2
    <2> QED
      BY <1>2, <1>8, <2>1, RowKept
  <1>10. rows' \in [Jobs -> Row]
    BY <1>2 DEF BulkInv, BulkShape
  <1> QED
    BY <1>8, <1>9, <1>10

(* The counts of a chunk. *)
LEMMA ProgressInv ==
    ASSUME BulkInv, NEW w \in Workers, Progress(w)
    PROVE  BulkInv'
  <1>1. PICK run \in runs[w] :
           /\ run.stage = "progress"
           /\ rows' = [rows EXCEPT ![run.job] = [@ EXCEPT
                 !.processed = run.processed, !.failed = Cardinality(run.errors)]]
           /\ runs' = [runs EXCEPT ![w] = {[run EXCEPT !.stage =
                 IF run.next > Len(Lines[run.job]) THEN "finish" ELSE "lines"]}]
    BY DEF Progress
  <1>2. UNCHANGED <<levels, queue, applied, deliveries>>
    BY DEF Progress
  <1> DEFINE stage == IF run.next > Len(Lines[run.job]) THEN "finish" ELSE "lines"
  <1>3. /\ run \in Run /\ run.job \in Jobs /\ run.processed \in Nat /\ WorkOK(w, run)
        /\ run.processed <= AppliedLines(run.job) /\ Cardinality(run.errors) \in Nat
    BY RunCounts DEF Run
  <1>4. PICK after \in Run :
           /\ after = [run EXCEPT !.stage = stage]
           /\ after.job = run.job /\ after.stage = stage /\ after.next = run.next
           /\ after.processed = run.processed /\ after.errors = run.errors
    <2>1. stage \in Stages
      BY DEF Stages
    <2> HIDE DEF stage
    <2>2. PICK after : after = [run EXCEPT !.stage = stage]
      OBVIOUS
    <2> QED
      BY <1>3, <2>1, <2>2, Restaged
  <1>5. StageFits(after)
    BY <1>1, <1>3, <1>4, LinesFacts DEF WorkOK, StageFits, Over
  <1>6. Follows(run, after)
    BY <1>4, <1>5, RestagedFollows
  <1>7. runs' = [runs EXCEPT ![w] = {after}]
    BY <1>1, <1>4
  <1>8. /\ Quietly
        /\ \A v \in Workers : runs'[v] = IF v = w THEN {after} ELSE runs[v]
        /\ rows' \in [Jobs -> Row] /\ (\A k \in Jobs : RowOK(k)') => BulkInv'
    BY <1>2, <1>6, <1>7, RunMoves
  <1>9. /\ rows' \in [Jobs -> Row]
        /\ \A k \in Jobs \ {run.job} : rows'[k] = rows[k]
        /\ rows'[run.job].processed = run.processed
        /\ rows'[run.job].errors = rows[run.job].errors
        /\ rows'[run.job].status = rows[run.job].status
    BY <1>1, <1>3 DEF BulkInv, BulkShape, Row
  <1>10. RowOK(run.job)'
    <2>1. RowOK(run.job)
      BY <1>3 DEF BulkInv
    <2>2. ~(Finished(run.job) /\ deliveries[run.job] = 1)
      BY <1>1, <1>3, <2>1 DEF RowOK, Over
    <2> QED
      BY <1>2, <1>3, <1>9, <2>1, <2>2 DEF RowOK, Finished, Accounted, AppliedLines
  <1>11. ASSUME NEW k \in Jobs PROVE RowOK(k)'
    <2>1. CASE k = run.job
      BY <1>10, <2>1
    <2>2. CASE k # run.job
      BY <1>4, <1>8, <1>9, <2>2, RowKept
    <2> QED
      BY <2>1, <2>2
  <1> QED
    BY <1>8, <1>9, <1>11

(* The report: what is missing on it was cut off, and the counts are the     *)
(* run's, which are the ledger's if nobody else has worked on the job.       *)
LEMMA FinishInv ==
    ASSUME BulkInv, NEW w \in Workers, Finish(w)
    PROVE  BulkInv'
  <1>1. PICK run \in runs[w] :
           /\ run.stage = "finish"
           /\ rows' = [rows EXCEPT ![run.job] =
                [status |-> FinalStatus(run), processed |-> run.processed,
                 failed |-> Cardinality(run.errors), errors |-> Reported(run.errors)]]
           /\ runs' = [runs EXCEPT ![w] = {[run EXCEPT !.stage = "invalidate"]}]
    BY DEF Finish
  <1>2. UNCHANGED <<levels, queue, applied, deliveries>>
    BY DEF Finish
  <1> DEFINE j == run.job
             size == Len(Lines[j])
  <1>3. /\ run \in Run /\ j \in Jobs /\ WorkOK(w, run) /\ run.next = size + 1
        /\ run.processed \in Nat /\ Cardinality(run.errors) \in Nat /\ run.errors \in SUBSET Nat
        /\ run.processed <= AppliedLines(j)
        /\ deliveries[j] = 1 => run.processed = AppliedLines(j)
    BY <1>1, RunCounts DEF Run, WorkOK, StageFits
  <1>4. Cardinality(run.errors) = size - run.processed
    BY <1>3, RunCounts
  <1>5. PICK after \in Run :
           /\ after = [run EXCEPT !.stage = "invalidate"]
           /\ after.job = j /\ after.stage = "invalidate" /\ after.next = run.next
           /\ after.processed = run.processed /\ after.errors = run.errors
    <2>1. PICK after : after = [run EXCEPT !.stage = "invalidate"]
      OBVIOUS
    <2> QED
      BY <1>3, <2>1, Restaged DEF Stages
  <1>6. StageFits(after)
    BY <1>3, <1>5, LinesFacts DEF WorkOK, StageFits, Over
  <1>7. Follows(run, after)
    BY <1>5, <1>6, RestagedFollows
  <1>8. runs' = [runs EXCEPT ![w] = {after}]
    BY <1>1, <1>5
  <1>9. /\ Quietly
        /\ \A v \in Workers : runs'[v] = IF v = w THEN {after} ELSE runs[v]
        /\ rows' \in [Jobs -> Row] /\ (\A k \in Jobs : RowOK(k)') => BulkInv'
    BY <1>2, <1>7, <1>8, RunMoves
  <1>10. /\ \A k \in Jobs \ {j} : rows'[k] = rows[k]
         /\ rows'[j].processed = run.processed /\ rows'[j].failed = Cardinality(run.errors)
         /\ rows'[j].errors = Reported(run.errors)
         /\ rows' \in [Jobs -> Row]
    <2> DEFINE row == [status |-> FinalStatus(run), processed |-> run.processed,
                       failed |-> Cardinality(run.errors), errors |-> Reported(run.errors)]
    <2>1. FinalStatus(run) \in RowStatuses /\ Reported(run.errors) \in SUBSET Nat
      BY <1>3 DEF FinalStatus, RowStatuses, Reported
    <2>2. row \in Row
      BY <1>3, <2>1 DEF Row
    <2>3. rows' = [rows EXCEPT ![j] = row]
      BY <1>1
    <2>4. /\ row.processed = run.processed /\ row.failed = Cardinality(run.errors)
          /\ row.errors = Reported(run.errors)
      OBVIOUS
    <2> HIDE DEF row
    <2> QED
      BY <1>3, <2>2, <2>3, <2>4 DEF BulkInv, BulkShape
  <1>11. ASSUME NEW n \in Numbers(j), ~(applied[j][n] > 0), n \notin Reported(run.errors)
         PROVE  /\ Cardinality(Reported(run.errors)) = ReportLimit
                /\ \A m \in Reported(run.errors) : m < n
    <2>1. size \in Nat /\ n \in 1..size /\ run.errors \subseteq 1..size
      BY <1>3, LinesFacts DEF Numbers, WorkOK
    <2>2. n \notin Passed(run)
      BY <1>3, <1>11 DEF WorkOK
    <2>3. n \in run.errors
      BY <1>3, <2>1, <2>2 DEF Passed
    <2> HIDE DEF size, j
    <2> QED
      BY <1>11, <2>1, <2>3, ReportedCutAtEnd
  <1>12. Accounted(j)'
    BY <1>2, <1>10, <1>11 DEF Accounted
  <1>13. ASSUME deliveries[j] = 1, NEW v \in Workers, NEW any \in runs'[v], any.job = j
         PROVE  any.stage \in Over
    <2>1. CASE v = w
      BY <1>5, <1>9, <2>1 DEF Over
    <2>2. CASE v # w
      <3>1. RunningJob(v, j)
        BY <1>9, <1>13, <2>2 DEF RunningJob
      <3> QED
        BY <1>3, <1>13, <2>2, <3>1 DEF WorkOK
    <2> QED
      BY <2>1, <2>2
  <1>14. RowOK(j)'
    <2>1. AppliedLines(j)' = AppliedLines(j) /\ deliveries' = deliveries
      BY <1>2 DEF AppliedLines
    <2>2. deliveries[j] > 0
      BY <1>3 DEF WorkOK
    <2>3. deliveries[j] = 1 => Exact(j)'
      BY <1>3, <1>4, <1>10, <2>1 DEF Exact
    <2> HIDE DEF j
    <2> QED
      BY <1>3, <1>10, <1>12, <1>13, <2>1, <2>2, <2>3 DEF RowOK
  <1>15. ASSUME NEW k \in Jobs PROVE RowOK(k)'
    <2>1. CASE k = j
      BY <1>14, <2>1
    <2>2. CASE k # j
      BY <1>5, <1>9, <1>10, <2>2, RowKept
    <2> QED
      BY <2>1, <2>2
  <1> QED
    BY <1>9, <1>10, <1>15

(* The lines a run has applied are lines of its job. *)
LEMMA PassedNumbers ==
    ASSUME BulkInv, NEW w \in Workers, NEW run \in runs[w]
    PROVE  Passed(run) \subseteq Numbers(run.job)
  <1>1. WorkOK(w, run) /\ run.job \in Jobs
    BY DEF BulkInv, BulkShape, Run
  <1>2. Len(Lines[run.job]) \in Nat /\ run.next \in 1..(Len(Lines[run.job]) + 1)
    BY <1>1, LinesFacts DEF WorkOK, StageFits
  <1> QED
    BY <1>2 DEF Passed, Numbers

(* A line's transaction commits: one ledger row more, and one delivery fewer *)
(* that may still apply the line.                                            *)
LEMMA ApplyLineInv ==
    ASSUME BulkInv, NEW w \in Workers, ApplyLine(w)
    PROVE  BulkInv'
  <1>1. PICK run \in runs[w] :
           /\ run.stage = "lines"
           /\ levels' = [levels EXCEPT ![Lines[run.job][run.next].pair] =
                            RowAfter(ChangeOf(Lines[run.job][run.next]), @, @)]
           /\ applied' = [applied EXCEPT ![run.job][run.next] = @ + 1]
           /\ runs' = [runs EXCEPT ![w] = {AfterLine(run, TRUE)}]
    BY DEF ApplyLine
  <1>2. UNCHANGED <<rows, queue, deliveries>>
    BY DEF ApplyLine
  <1>3. PICK j \in Jobs : j = run.job
    BY DEF BulkInv, BulkShape, Run
  <1>4. PICK n \in Numbers(j) : n = run.next
    BY <1>1, <1>3, LinesFacts DEF BulkInv, WorkOK, StageFits, Numbers
  <1>5. run \in Run /\ WorkOK(w, run) /\ n \in Nat \ {0}
    BY LinesFacts DEF BulkInv, BulkShape, Numbers
  <1>6. PICK after \in Run :
           /\ after = AfterLine(run, TRUE)
           /\ after.job = j /\ after.next = n + 1 /\ after.stage = StageAfter(run)
           /\ after.processed = run.processed + 1 /\ after.errors = run.errors
    BY <1>3, <1>4, <1>5, AfterApplied
  <1>7. /\ \A v \in Workers : runs'[v] = IF v = w THEN {after} ELSE runs[v]
        /\ runs' \in [Workers -> SUBSET Run]
        /\ \A v \in Workers : AtMost(runs'[v], Run)
        /\ runs[w] = {run}
    <2>1. runs' = [runs EXCEPT ![w] = {after}]
      BY <1>1, <1>6
    <2>2. /\ \A v \in Workers : runs'[v] = IF v = w THEN {after} ELSE runs[v]
          /\ runs' \in [Workers -> SUBSET Run]
      BY <2>1 DEF BulkInv, BulkShape
    <2>3. \A v \in Workers : AtMost(runs[v], Run)
      BY DEF BulkInv, BulkShape
    <2> QED
      BY <2>2, <2>3 DEF AtMost
  <1>8. /\ DOMAIN applied' = Jobs /\ \A k \in Jobs : applied'[k] \in [Numbers(k) -> Nat]
        /\ \A k \in Jobs \ {j} : applied'[k] = applied[k]
        /\ \A m \in Numbers(j) \ {n} : applied'[j][m] = applied[j][m]
        /\ applied'[j][n] = applied[j][n] + 1
        /\ applied[j] \in [Numbers(j) -> Nat]
    BY <1>1, <1>3, <1>4 DEF BulkInv, BulkShape
  <1>9. BulkShape'
    <2>1. levels' \in [Pairs -> Level]
      <3>1. PICK line \in Correction : line = Lines[j][n]
        BY <1>3, <1>4, LinesFacts
      <3>2. line.pair \in Pairs /\ line.delta \in Int /\ levels[line.pair] \in Level
        BY DEF Correction, BulkInv, BulkShape
      <3>3. RowAfter(ChangeOf(line), levels[line.pair], levels[line.pair]) \in Level
        BY <3>2 DEF RowAfter, ChangeOf, Adjust, MovementOf, NextQuantity, NextReserved, Level
      <3>4. levels' = [levels EXCEPT ![line.pair] =
                          RowAfter(ChangeOf(line), levels[line.pair], levels[line.pair])]
        BY <1>1, <1>3, <1>4, <3>1
      <3> QED
        BY <3>2, <3>3, <3>4 DEF BulkInv, BulkShape
    <2> QED
      BY <1>2, <1>7, <1>8, <2>1 DEF BulkInv, BulkShape, AtMost
  <1>10. \A k \in Jobs : EntryFits(k, queue[k])'
    BY <1>2 DEF BulkInv, EntryFits
  <1>11. \A v \in Workers, k \in Jobs : RunningJob(v, k)' <=> RunningJob(v, k)
    BY <1>3, <1>6, <1>7 DEF RunningJob
  <1>12. /\ Passed(after) = Passed(run) \cup {n} /\ n \notin Passed(run)
         /\ after.errors \subseteq 1..(after.next - 1)
         /\ IsFiniteSet(Passed(run))
    <2>1. run.errors \subseteq 1..(n - 1) /\ after.next - 1 = n
      <3>1. run.errors \subseteq 1..(n - 1)
        BY <1>4, <1>5 DEF WorkOK
      <3>2. after.next = n + 1
        BY <1>6
      <3> QED
        BY <1>5, <3>1, <3>2
    <2>2. Passed(run) = (1..(n - 1)) \ run.errors /\ Passed(after) = (1..n) \ run.errors
      BY <1>4, <1>6, <2>1 DEF Passed
    <2>3. \A m : m \in 1..n <=> m \in 1..(n - 1) \/ m = n
      BY <1>5
    <2>4. n \notin 1..(n - 1)
      BY <1>5
    <2>5. IsFiniteSet(1..(n - 1))
      BY <1>5, FS_Interval
    <2>6. IsFiniteSet(Passed(run))
      BY <2>2, <2>5, FS_Subset
    <2> QED
      BY <1>6, <2>1, <2>2, <2>3, <2>4, <2>6
  <1>13. WorkOK(w, after)'
    <2>1. StageFits(after)
      BY <1>1, <1>3, <1>4, <1>6, StageAfterFits
    <2>2. after.processed = Cardinality(Passed(after))
      <3>1. run.processed = Cardinality(Passed(run))
        BY <1>5 DEF WorkOK
      <3>2. Cardinality(Passed(after)) = Cardinality(Passed(run)) + 1
        BY <1>12, FS_AddElement
      <3> QED
        BY <1>6, <3>1, <3>2
    <2>3. \A m \in Passed(after) : applied'[j][m] > 0
      <3>1. \A m \in Passed(run) : m \in Numbers(j) /\ applied[j][m] > 0
        <4>1. \A m \in Passed(run) : applied[j][m] > 0
          BY <1>3, <1>5 DEF WorkOK
        <4>2. run.next \in 1..Len(Lines[j]) /\ Len(Lines[j]) \in Nat
          BY <1>4, LinesFacts DEF Numbers
        <4>3. \A m \in Passed(run) : m \in Numbers(j)
          BY <4>2 DEF Passed, Numbers
        <4> QED
          BY <4>1, <4>3
      <3> QED
        BY <1>8, <1>12, <3>1
    <2>4. deliveries'[j] > 0
      BY <1>2, <1>3, <1>5 DEF WorkOK
    <2>5. ASSUME deliveries'[j] = 1
          PROVE  /\ \A m \in Numbers(j) : applied'[j][m] = IF m \in Passed(after) THEN 1 ELSE 0
                 /\ \A v \in Workers : RunningJob(v, j)' => v = w
      <3>1. /\ \A m \in Numbers(j) : applied[j][m] = IF m \in Passed(run) THEN 1 ELSE 0
            /\ \A v \in Workers : RunningJob(v, j) => v = w
        BY <1>2, <1>3, <1>5, <2>5 DEF WorkOK
      <3> QED
        BY <1>8, <1>11, <1>12, <3>1
    <2>6. StageFits(after)' /\ Passed(after)' = Passed(after)
      BY <2>1 DEF StageFits, Passed
    <2> HIDE DEF Passed
    <2> QED
      BY <1>6, <1>12, <2>2, <2>3, <2>4, <2>5, <2>6 DEF WorkOK
  <1>14. ASSUME NEW v \in Workers \ {w}, NEW any \in runs[v] PROVE WorkOK(v, any)'
    <2>1. any.job \in Jobs /\ WorkOK(v, any)
      BY DEF BulkInv, BulkShape, Run
    <2>2. \A m \in Passed(any) : applied'[any.job][m] > 0
      <3>1. \A m \in Passed(any) : applied[any.job][m] > 0
        BY <2>1 DEF WorkOK
      <3>2. CASE any.job = j
        BY <1>4, <1>8, <3>1, <3>2, PassedNumbers
      <3>3. CASE any.job # j
        BY <1>8, <2>1, <3>1, <3>3
      <3> QED
        BY <3>2, <3>3
    <2>3. deliveries'[any.job] = 1 => any.job # j
      BY <1>2, <1>3, <1>5, <2>1 DEF WorkOK, RunningJob
    <2>4. any.job # j => applied'[any.job] = applied[any.job]
      BY <1>8, <2>1
    <2>5. StageFits(any)' <=> StageFits(any)
      BY DEF StageFits
    <2>6. Passed(any)' = Passed(any)
      BY DEF Passed
    <2>7. \A u \in Workers : RunningJob(u, any.job)' => RunningJob(u, any.job)
      BY <1>11, <2>1
    <2> HIDE DEF Passed
    <2> QED
      BY <1>2, <2>1, <2>2, <2>3, <2>4, <2>5, <2>6, <2>7 DEF WorkOK
  <1>15. \A v \in Workers : \A any \in runs'[v] : WorkOK(v, any)'
    BY <1>7, <1>13, <1>14
  <1>16. ASSUME NEW k \in Jobs, NEW m \in Numbers(k) PROVE LineOK(k, m)'
    <2>1. LineOK(k, m) /\ applied[k][m] \in Nat /\ deliveries' = deliveries /\ m \in Nat
      BY <1>2, LinesFacts DEF BulkInv, BulkShape
    <2>2. deliveries[k] \in Nat
      BY DEF BulkInv, BulkShape
    <2>3. CASE k = j /\ m = n
      <3>1. Pending(k, m)' = Pending(k, m) \ {w} /\ w \in Pending(k, m)
        <4>1. w \in Pending(k, m)
          BY <1>3, <1>4, <1>5, <2>3 DEF Pending
        <4>2. w \notin Pending(k, m)'
          <5>1. runs'[w] = {after} /\ after.next = n + 1
            BY <1>6, <1>7
          <5>2. ~(n + 1 <= m)
            BY <1>5, <2>3
          <5> QED
            BY <5>1, <5>2 DEF Pending
        <4>3. \A v \in Workers \ {w} : v \in Pending(k, m)' <=> v \in Pending(k, m)
          BY <1>7 DEF Pending
        <4> QED
          BY <4>1, <4>2, <4>3 DEF Pending
      <3>2. /\ IsFiniteSet(Pending(k, m)')
            /\ Cardinality(Pending(k, m)') = Cardinality(Pending(k, m)) - 1
        BY <2>1, <3>1, FS_RemoveElement DEF LineOK
      <3>3. Cardinality(Pending(k, m)) \in Nat
        BY <2>1, FS_CardinalityType DEF LineOK
      <3>4. applied'[k][m] = applied[k][m] + 1
        BY <1>8, <2>3
      <3>5. applied[k][m] + Cardinality(Pending(k, m)) <= deliveries[k]
        BY <2>1 DEF LineOK
      <3>6. applied'[k][m] + Cardinality(Pending(k, m)') <= deliveries'[k]
        BY <2>1, <2>2, <3>2, <3>3, <3>4, <3>5
      <3> QED
        BY <3>2, <3>6 DEF LineOK
    <2>4. CASE ~(k = j /\ m = n)
      <3>1. Pending(k, m)' = Pending(k, m)
        <4>1. w \in Pending(k, m)' <=> w \in Pending(k, m)
          <5>1. w \in Pending(k, m) <=> run.job = k /\ run.next <= m
            BY <1>7 DEF Pending
          <5>2. w \in Pending(k, m)' <=> after.job = k /\ after.next <= m
            BY <1>7 DEF Pending
          <5>3. k = j => (n + 1 <= m <=> n <= m)
            BY <1>5, <2>1, <2>4
          <5> QED
            BY <1>3, <1>4, <1>6, <5>1, <5>2, <5>3
        <4>2. \A v \in Workers \ {w} : v \in Pending(k, m)' <=> v \in Pending(k, m)
          BY <1>7 DEF Pending
        <4> QED
          BY <4>1, <4>2 DEF Pending
      <3>2. applied'[k][m] = applied[k][m]
        BY <1>8, <2>4
      <3> QED
        BY <2>1, <3>1, <3>2 DEF LineOK
    <2> QED
      BY <2>3, <2>4
  <1>17. ASSUME NEW k \in Jobs PROVE RowOK(k)'
    <2>1. RowOK(k) /\ rows' = rows /\ deliveries' = deliveries
      BY <1>2 DEF BulkInv
    <2>2. CASE k = j
      <3>1. ~(Finished(j) /\ deliveries[j] = 1)
        BY <1>1, <1>3, <2>1, <2>2 DEF RowOK, Over
      <3>2. AppliedLines(j)' >= AppliedLines(j)
        <4>1. /\ AppliedLines(j) = SumFunctionOnSet(applied[j], Numbers(j))
              /\ AppliedLines(j) \in Nat
          BY AppliedLinesFacts DEF BulkInv
        <4>2. AppliedLines(j)' = SumFunctionOnSet(applied'[j], Numbers(j))
          BY <1>8 DEF AppliedLines, SumFunction
        <4>3. IsFiniteSet(Numbers(j))
          BY LinesFacts
        <4>4. /\ \A x \in Numbers(j) : applied[j][x] \in Int /\ applied'[j][x] \in Int
              /\ \A x \in Numbers(j) \ {n} : applied[j][x] = applied'[j][x]
          BY <1>8
        <4>5. SumFunctionOnSet(applied'[j], Numbers(j))
                 = SumFunctionOnSet(applied[j], Numbers(j)) - applied[j][n] + applied'[j][n]
          BY <4>3, <4>4, SumUpdate
        <4>6. applied'[j][n] = applied[j][n] + 1 /\ applied[j][n] \in Int
          BY <1>8, <4>4
        <4> QED
          BY <4>1, <4>2, <4>5, <4>6
      <3>3. rows[j].processed \in Int /\ AppliedLines(j) \in Int /\ AppliedLines(j)' \in Int
        <4>1. rows[j] \in Row /\ AppliedLines(j) \in Nat
          BY AppliedLinesFacts DEF BulkInv, BulkShape
        <4>2. AppliedLines(j)' \in Nat
          <5>1. AppliedLines(j)' = SumFunctionOnSet(applied'[j], Numbers(j))
            BY <1>8 DEF AppliedLines, SumFunction
          <5>2. IsFiniteSet(Numbers(j)) /\ \A x \in Numbers(j) : applied'[j][x] \in Nat
            BY <1>8, LinesFacts
          <5>3. SumFunctionOnSet(applied'[j], Numbers(j)) \in Nat
            BY <5>2, SumNat
          <5> QED
            BY <5>1, <5>3
        <4> QED
          BY <4>1, <4>2 DEF Row
      <3>4. Accounted(j) => Accounted(j)'
        BY <1>8, <2>1 DEF Accounted
      <3> QED
        BY <2>1, <2>2, <3>1, <3>2, <3>3, <3>4 DEF RowOK, Finished
    <2>3. CASE k # j
      <3>1. applied'[k] = applied[k]
        BY <1>8, <2>3
      <3>2. ASSUME NEW v \in Workers, NEW any \in runs'[v], any.job = k
            PROVE  any \in runs[v]
        BY <1>6, <1>7, <2>3, <3>2
      <3> QED
        BY <2>1, <3>1, <3>2 DEF RowOK, Finished, Accounted, Exact, AppliedLines
    <2> QED
      BY <2>2, <2>3
  <1> QED
    BY <1>9, <1>10, <1>15, <1>16, <1>17 DEF BulkInv

(* Nothing submitted, nothing delivered. *)
LEMMA BulkStarts ==
    ASSUME BulkInit
    PROVE  BulkInv
  <1>1. /\ levels = Opening /\ rows = [j \in Jobs |-> NoJob] /\ queue = [j \in Jobs |-> NoEntry]
        /\ runs = [w \in Workers |-> {}]
        /\ applied = [j \in Jobs |-> [n \in Numbers(j) |-> 0]]
        /\ deliveries = [j \in Jobs |-> 0]
    BY DEF BulkInit
  <1>2. BulkShape
    <2>1. NoJob \in Row /\ NoEntry \in Entry
      BY DEF NoJob, Row, NoEntry, Entry, QueueStates
    <2> QED
      BY <1>1, <2>1, BulkOpeningAssumption DEF BulkShape, AtMost
  <1>3. ASSUME NEW j \in Jobs PROVE EntryFits(j, queue[j])
    <2>1. MaxAttempts[j] \in Nat \ {0} /\ MaxStalls[j] \in Nat
      BY LimitsAssumption
    <2> QED
      BY <1>1, <2>1 DEF EntryFits, NoEntry
  <1>4. ASSUME NEW j \in Jobs, NEW n \in Numbers(j) PROVE LineOK(j, n)
    <2>1. Pending(j, n) = {} /\ applied[j][n] = 0 /\ deliveries[j] = 0
      BY <1>1 DEF Pending
    <2> QED
      BY <2>1, FS_EmptySet DEF LineOK
  <1>5. ASSUME NEW j \in Jobs PROVE RowOK(j)
    <2>1. rows[j].processed = 0 /\ ~Finished(j)
      BY <1>1 DEF NoJob, Finished
    <2>2. AppliedLines(j) \in Nat
      BY <1>2, AppliedLinesFacts
    <2> QED
      BY <2>1, <2>2 DEF RowOK
  <1> QED
    BY <1>1, <1>2, <1>3, <1>4, <1>5 DEF BulkInv

(* Every step of the system. *)
LEMMA BulkSteps == BulkInv /\ [Next]_vars => BulkInv'
  <1> SUFFICES ASSUME BulkInv, [Next]_vars PROVE BulkInv'
    OBVIOUS
  <1>1. CASE UNCHANGED bulkVars
    <2>1. UNCHANGED <<levels, rows, queue, runs, applied, deliveries>>
      BY <1>1 DEF bulkVars
    <2>2. BulkShape'
      BY <2>1 DEF BulkInv, BulkShape, AtMost
    <2>3. \A w \in Workers : \A run \in runs[w] : WorkOK(w, run)
      BY DEF BulkInv
    <2>4. Quietly
      <3>1. \A run : run \in Run => run.next >= run.next
        BY DEF Run
      <3> QED
        BY <2>1, <2>3, <3>1 DEF Quietly, BulkInv, BulkShape, Follows, WorkOK
    <2>5. \A j \in Jobs : RowOK(j)' /\ EntryFits(j, queue[j])'
      BY <2>1 DEF BulkInv, RowOK, Finished, Accounted, Exact, AppliedLines, EntryFits
    <2> QED
      BY <2>2, <2>4, <2>5, WorkKept DEF BulkInv
  <1>2. ASSUME NEW w \in Workers, WorkerStep(w) PROVE BulkInv'
    BY <1>1, <1>2, StartInv, FailLineInv, ProgressInv, FinishInv, ReturnInv, ApplyLineInv,
       InvalidateInv DEF WorkerStep
  <1>3. ASSUME NEW w \in Workers, WorkerLost(w) PROVE BulkInv'
    BY <1>3, ThrowInv, CrashInv DEF WorkerLost
  <1>4. ASSUME NEW j \in Jobs, Submit(j) \/ Deliver(j) \/ LockGone(j) \/ LoseLock(j)
        PROVE  BulkInv'
    BY <1>4, QueueSteps, TakeInv DEF Submit, Deliver, LockGone
  <1>5. UNCHANGED vars => UNCHANGED bulkVars
    BY DEF vars, bulkVars
  <1> QED
    BY <1>1, <1>2, <1>3, <1>4, <1>5 DEF Next, ServiceStep, ReaderStep, EntryExpires

-----------------------------------------------------------------------------
(* The results. *)

(* The jobs' part of the invariant, of every behaviour. *)
THEOREM BulkInvariant == Spec => []BulkInv
  <1>1. Init => BulkInv
    BY BulkStarts DEF Init
  <1> QED
    BY <1>1, BulkSteps, PTL DEF Spec

(* The types of jobs, queue, runs, ledger and cache, whichever jobs Beside  *)
(* lets run at once.                                                        *)
THEOREM TypeCorrect == Spec => []TypeOK
  <1>1. BulkInv /\ CacheInv => TypeOK
    BY BulkTypes, CacheTypes DEF TypeOK
  <1> QED
    BY <1>1, BulkInvariant, CacheInvariant, PTL

(* The report is complete: every line of a finished job is in the ledger or *)
(* on the row's list of errors, however often the job was delivered and     *)
(* whatever runs of it went on side by side.                                *)
THEOREM ReportComplete == Spec => []EveryLineAccounted
  <1>1. BulkInv => EveryLineAccounted
    BY DEF BulkInv, RowOK, Accounted, EveryLineAccounted
  <1> QED
    BY <1>1, BulkInvariant, PTL

(* The counts on the row never claim more than the ledger holds, no line is *)
(* applied more often than its job was delivered, and after one delivery    *)
(* the counts are exact.                                                    *)
THEOREM ReportCorrect == Spec => []ReportMatchesLedger
  <1>1. BulkInv => ReportMatchesLedger
    <2> SUFFICES ASSUME BulkInv, NEW j \in Jobs
                 PROVE  /\ rows[j].processed <= AppliedLines(j)
                        /\ \A n \in Numbers(j) : applied[j][n] <= deliveries[j]
                        /\ Finished(j) /\ deliveries[j] = 1 => Exact(j)
      BY DEF ReportMatchesLedger, Exact
    <2>1. RowOK(j)
      BY DEF BulkInv
    <2>2. ASSUME NEW n \in Numbers(j) PROVE applied[j][n] <= deliveries[j]
      <3>1. LineOK(j, n) /\ applied[j][n] \in Nat /\ deliveries[j] \in Nat
        BY DEF BulkInv, BulkShape
      <3>2. Cardinality(Pending(j, n)) \in Nat
        BY <3>1, FS_CardinalityType DEF LineOK
      <3> QED
        BY <3>1, <3>2 DEF LineOK
    <2> QED
      BY <2>1, <2>2 DEF RowOK
  <1> QED
    BY <1>1, BulkInvariant, PTL
=============================================================================
