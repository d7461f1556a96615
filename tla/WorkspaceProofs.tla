-------------------------- MODULE WorkspaceProofs --------------------------
(***************************************************************************)
(* Proofs about Workspace, for any rows, people, slots and bounds, any     *)
(* parts at work together included: first each part, then the whole.       *)
(***************************************************************************)
EXTENDS Workspace, FiniteSetTheorems, TLAPS

-----------------------------------------------------------------------------
(* The catalogue. *)

KeptKinds == {References, Categories, Suppliers, {}}

(* A removal that has not been crossed has nothing filed under its row, and *)
(* only that of a category or a supplier is ever crossed; only a warehouse  *)
(* or a product is archived; a bulk update keeps no field that it sets.     *)
ClerkOK(k) ==
    /\ k.kind = "delete" => IF k.crossed THEN k.row \in References
                            ELSE FiledUnder(k.row) = {}
    /\ k.kind = "archive" => k.row \in Warehouses \cup Products
    /\ k.kind = "bulk" => k.to \cap k.kept = {}

ClerksOK == \A c \in Clerks : ClerkOK(clerks[c])

CatalogueInv == CatalogueTypeOK /\ ClerksOK /\ ReferencesSurvive

(* The fields of a clerk, by its kind. *)
LEMMA ClerkFields ==
    ASSUME NEW k \in Clerk \cup {Free}
    PROVE  /\ k.kind \in {"delete", "archive", "bulk", "free"}
           /\ k.kind = "free" <=> k = Free
           /\ k.kind \in {"delete", "archive"} => k.row \in Rows /\ k.crossed \in BOOLEAN
           /\ k.kind = "bulk" => /\ k.left \in SUBSET Products
                                 /\ k.to \in Filings /\ k.kept \in KeptKinds
  BY DEF Clerk, Free, KeptKinds

(* A removal, and one that was crossed. *)
LEMMA ClerkRecords ==
    /\ \A kind \in {"delete", "archive"}, x \in Rows, b \in BOOLEAN :
          [kind |-> kind, row |-> x, crossed |-> b] \in Clerk
    /\ \A left \in SUBSET Products, to \in Filings, kept \in KeptKinds :
          [kind |-> "bulk", left |-> left, to |-> to, kept |-> kept] \in Clerk
  BY DEF Clerk, KeptKinds

(* What crossing makes of a clerk: the same, but that a deletion of one of   *)
(* the rows is crossed.                                                      *)
LEMMA CrossingFacts ==
    ASSUME CatalogueTypeOK, NEW to, NEW c \in Clerks
    PROVE  LET k == clerks[c] after == Crossing(to)[c] IN
           /\ after \in Clerk \cup {Free}
           /\ \/ after = k /\ ~(k.kind = "delete" /\ k.row \in to)
              \/ /\ k.kind = "delete" /\ k.row \in to
                 /\ after.kind = "delete" /\ after.row = k.row /\ after.crossed
  <1> DEFINE k == clerks[c]
  <1>1. k \in Clerk \cup {Free}
    BY DEF CatalogueTypeOK
  <1>2. CASE k.kind = "delete" /\ k.row \in to
    <2>1. PICK after : after = [clerks[c] EXCEPT !.crossed = TRUE]
      OBVIOUS
    <2>2. clerks[c] \in [kind : {"delete", "archive"}, row : Rows, crossed : BOOLEAN]
      BY <1>1, <1>2 DEF Clerk, Free
    <2>3. /\ after \in [kind : {"delete", "archive"}, row : Rows, crossed : BOOLEAN]
          /\ after.kind = "delete" /\ after.row = k.row /\ after.crossed
      BY <1>2, <2>1, <2>2
    <2>4. Crossing(to)[c] = after
      BY <1>2, <2>1 DEF Crossing
    <2> QED
      BY <1>2, <2>3, <2>4 DEF Clerk
  <1>3. CASE ~(k.kind = "delete" /\ k.row \in to)
    BY <1>1, <1>3 DEF Crossing
  <1> QED
    BY <1>2, <1>3

(* What a product is filed under when some fields of its file are replaced   *)
(* and others are kept.                                                      *)
LEMMA FilingsMerge ==
    ASSUME NEW f \in Filings, NEW to, NEW kept, Change(to, kept)
    PROVE  to \cup (f \cap kept) \in Filings
  <1>1. /\ to \subseteq References /\ f \subseteq References
        /\ to \cap kept = {}
        /\ kept = References \/ kept = Categories \/ kept = Suppliers \/ kept = {}
    BY DEF Change, Filings
  <1>2. Categories \cap Suppliers = {} /\ References = Categories \cup Suppliers
    BY RowsDistinct DEF References
  <1>3. ASSUME NEW kind \in {Categories, Suppliers},
               NEW r \in (to \cup (f \cap kept)) \cap kind,
               NEW t \in (to \cup (f \cap kept)) \cap kind
        PROVE  r = t
    <2>1. (r \in to /\ t \in to) \/ (r \in f /\ t \in f)
      BY <1>1, <1>2
    <2> QED
      BY <2>1 DEF Filings, Change
  <1> QED
    BY <1>1, <1>3 DEF Filings

(* A part of a file is a file. *)
LEMMA FilingsPart ==
    ASSUME NEW f \in Filings, NEW g, g \subseteq f
    PROVE  g \in Filings
  BY DEF Filings

(* What holds of the files once a product was refiled under rows that are    *)
(* there.                                                                    *)
LEMMA RefileFacts ==
    ASSUME CatalogueInv, NEW p \in Products, NEW to, NEW kept, Change(to, kept),
           to \subseteq present, Refile(p, to, kept)
    PROVE  /\ filing' \in [Products -> Filings] /\ asked' \in [Products -> Filings]
           /\ \A q \in Products : /\ filing'[q] = asked'[q]
                                  /\ filing'[q] \subseteq present
                                  /\ filing'[q] \subseteq filing[q] \cup to
  <1>1. filing \in [Products -> Filings] /\ asked \in [Products -> Filings]
    BY DEF CatalogueInv, CatalogueTypeOK
  <1>2. \A q \in Products : filing[q] = asked[q] /\ filing[q] \subseteq present
    BY DEF CatalogueInv, ReferencesSurvive
  <1>3. /\ filing' = [filing EXCEPT ![p] = to \cup (filing[p] \cap kept)]
        /\ asked' = [asked EXCEPT ![p] = to \cup (asked[p] \cap kept)]
    BY DEF Refile
  <1>4. to \cup (filing[p] \cap kept) \in Filings
    BY <1>1, FilingsMerge
  <1> QED
    BY <1>1, <1>2, <1>3, <1>4

(* The clerks after a product was filed under new rows. *)
LEMMA CrossedClerksOK ==
    ASSUME CatalogueInv, NEW to, to \subseteq References, NEW c \in Clerks,
           \A q \in Products : filing'[q] \subseteq filing[q] \cup to,
           clerks'[c] = Crossing(to)[c]
    PROVE  clerks'[c] \in Clerk \cup {Free} /\ ClerkOK(clerks[c])'
  <1>1. CatalogueTypeOK /\ ClerkOK(clerks[c])
    BY DEF CatalogueInv, ClerksOK
  <1>2. clerks'[c] \in Clerk \cup {Free}
    BY <1>1, CrossingFacts
  <1>3. CASE clerks'[c] = clerks[c] /\ ~(clerks[c].kind = "delete" /\ clerks[c].row \in to)
    BY <1>1, <1>2, <1>3 DEF ClerkOK, FiledUnder
  <1>4. CASE /\ clerks'[c].kind = "delete" /\ clerks'[c].crossed
             /\ clerks'[c].row \in References
    BY <1>2, <1>4 DEF ClerkOK
  <1> QED
    BY <1>1, <1>2, <1>3, <1>4, CrossingFacts

(* Clerks that stay as they are, over files that only shrink. *)
LEMMA UntouchedClerkOK ==
    ASSUME CatalogueInv, NEW c \in Clerks,
           \A q \in Products : filing'[q] \subseteq filing[q],
           clerks'[c] = clerks[c]
    PROVE  clerks'[c] \in Clerk \cup {Free} /\ ClerkOK(clerks[c])'
  BY DEF CatalogueInv, ClerksOK, ClerkOK, FiledUnder, CatalogueTypeOK

(* Nothing is filed, moved or in flight at first. *)
LEMMA CatalogueInitOK ==
    ASSUME NEW rows0, rows0 \subseteq Rows, CatalogueInit(rows0)
    PROVE  CatalogueInv
  <1>1. {} \in Filings
    BY DEF Filings
  <1>2. clerks = [c \in Clerks |-> Free] /\ Free.kind = "free"
    BY DEF CatalogueInit, Free
  <1> QED
    BY <1>1, <1>2 DEF CatalogueInit, CatalogueInv, CatalogueTypeOK, ClerksOK, ClerkOK,
                      ReferencesSurvive

-----------------------------------------------------------------------------
(* The steps of the catalogue. *)

(* A step that files nothing and removes nothing, by any change of the other *)
(* tables that keeps their types and their references. *)
LEMMA GrowthOK ==
    ASSUME CatalogueInv, UNCHANGED <<filing, asked>>,
           present \subseteq present', present' \subseteq used', used' \subseteq Rows,
           archived' \subseteq present' \cap (Warehouses \cup Products),
           levels' \subseteq Pair, movements' \subseteq Pair, documents' \subseteq Document,
           \A m \in movements' \cup levels' : {m[1], m[2]} \subseteq present',
           \A d \in documents' : d.refs \subseteq present',
           clerks' \in [Clerks -> Clerk \cup {Free}], ClerksOK'
    PROVE  CatalogueInv'
  BY DEF CatalogueInv, CatalogueTypeOK, ReferencesSurvive

(* ... and that leaves the clerks alone. *)
LEMMA SameClerks ==
    ASSUME CatalogueInv, UNCHANGED <<filing, clerks>>
    PROVE  clerks' \in [Clerks -> Clerk \cup {Free}] /\ ClerksOK'
  BY DEF CatalogueInv, CatalogueTypeOK, ClerksOK, ClerkOK, FiledUnder

(* One clerk takes something up or puts it down. *)
LEMMA OneClerk ==
    ASSUME CatalogueInv, NEW c \in Clerks, NEW k \in Clerk \cup {Free},
           clerks' = [clerks EXCEPT ![c] = k],
           \A q \in Products : filing'[q] \subseteq filing[q],
           ClerkOK(k)'
    PROVE  clerks' \in [Clerks -> Clerk \cup {Free}] /\ ClerksOK'
  <1>1. clerks \in [Clerks -> Clerk \cup {Free}]
    BY DEF CatalogueInv, CatalogueTypeOK
  <1>2. clerks' \in [Clerks -> Clerk \cup {Free}]
    BY <1>1
  <1>3. ASSUME NEW d \in Clerks
        PROVE  ClerkOK(clerks[d])'
    <2>1. CASE d = c
      BY <1>1, <2>1
    <2>2. CASE d # c
      BY <1>1, <2>2, UntouchedClerkOK
    <2> QED
      BY <2>1, <2>2
  <1> QED
    BY <1>2, <1>3 DEF ClerksOK

(* Somebody who has nothing in hand is fine. *)
LEMMA FreeOK == ClerkOK(Free)'
  BY DEF ClerkOK, Free

(* The parts of the invariant that most steps build on. *)
LEMMA CatalogueFacts ==
    ASSUME CatalogueInv
    PROVE  /\ present \subseteq used /\ used \subseteq Rows
           /\ archived \subseteq present \cap (Warehouses \cup Products)
           /\ filing \in [Products -> Filings] /\ asked \in [Products -> Filings]
           /\ levels \subseteq Pair /\ movements \subseteq Pair
           /\ documents \subseteq Document
           /\ clerks \in [Clerks -> Clerk \cup {Free}]
           /\ \A m \in movements \cup levels : {m[1], m[2]} \subseteq present
           /\ \A d \in documents : d.refs \subseteq present
           /\ \A p \in Products : filing[p] = asked[p] /\ filing[p] \subseteq present
  BY DEF CatalogueInv, CatalogueTypeOK, ReferencesSurvive

(* A row is added. *)
LEMMA CreateOK ==
    ASSUME CatalogueInv, NEW x \in Rows, Create(x)
    PROVE  CatalogueInv'
  <1> USE DEF Create
  <1>1. clerks' \in [Clerks -> Clerk \cup {Free}] /\ ClerksOK'
    BY SameClerks
  <1> QED
    BY <1>1, CatalogueFacts, GrowthOK

(* After a refiling, what is left to show is about the rows only. *)
LEMMA RefiledOK ==
    ASSUME CatalogueInv, NEW to,
           filing' \in [Products -> Filings], asked' \in [Products -> Filings],
           \A q \in Products : /\ filing'[q] = asked'[q] /\ filing'[q] \subseteq present'
                               /\ filing'[q] \subseteq filing[q] \cup to,
           present \subseteq present', present' \subseteq used', used' \subseteq Rows,
           clerks' \in [Clerks -> Clerk \cup {Free}], ClerksOK',
           UNCHANGED <<archived, levels, movements, documents>>
    PROVE  CatalogueInv'
  <1>1. CatalogueTypeOK'
    BY CatalogueFacts DEF CatalogueTypeOK
  <1>2. ReferencesSurvive'
    BY CatalogueFacts DEF ReferencesSurvive
  <1> QED
    BY <1>1, <1>2 DEF CatalogueInv

(* A product is made, and filed under rows that are there. *)
LEMMA CreateProductOK ==
    ASSUME CatalogueInv, NEW p \in Products, NEW to \in Filings, CreateProduct(p, to)
    PROVE  CatalogueInv'
  <1> USE DEF CreateProduct
  <1>1. \A q \in Products : /\ filing'[q] = asked'[q] /\ filing'[q] \subseteq present'
                            /\ filing'[q] \subseteq filing[q] \cup to
    BY CatalogueFacts
  <1>2. filing' \in [Products -> Filings] /\ asked' \in [Products -> Filings]
    BY CatalogueFacts
  <1>3. \A c \in Clerks : clerks'[c] \in Clerk \cup {Free} /\ ClerkOK(clerks[c])'
    BY <1>1, CrossedClerksOK DEF Filings
  <1>4. clerks' \in [Clerks -> Clerk \cup {Free}] /\ ClerksOK'
    BY <1>3 DEF ClerksOK, Crossing
  <1>5. present \subseteq present' /\ present' \subseteq used' /\ used' \subseteq Rows
    BY CatalogueFacts DEF Rows
  <1> QED
    BY <1>1, <1>2, <1>4, <1>5, RefiledOK

(* A product is filed anew, under rows that are there. *)
LEMMA UpdateProductOK ==
    ASSUME CatalogueInv, NEW p \in Products, NEW to, NEW kept, Change(to, kept),
           UpdateProduct(p, to, kept)
    PROVE  CatalogueInv'
  <1> USE DEF UpdateProduct
  <1>1. /\ filing' \in [Products -> Filings] /\ asked' \in [Products -> Filings]
        /\ \A q \in Products : /\ filing'[q] = asked'[q]
                               /\ filing'[q] \subseteq present
                               /\ filing'[q] \subseteq filing[q] \cup to
    BY RefileFacts
  <1>2. \A c \in Clerks : clerks'[c] \in Clerk \cup {Free} /\ ClerkOK(clerks[c])'
    BY <1>1, CrossedClerksOK DEF Change, Filings
  <1>3. clerks' \in [Clerks -> Clerk \cup {Free}] /\ ClerksOK'
    BY <1>2 DEF ClerksOK, Crossing
  <1> QED
    BY <1>1, <1>3, CatalogueFacts, RefiledOK

(* A row is archived or brought back. *)
LEMMA SetActiveOK ==
    ASSUME CatalogueInv, NEW x \in Warehouses \cup Products, NEW active, SetActive(x, active)
    PROVE  CatalogueInv'
  <1> USE DEF SetActive
  <1>1. clerks' \in [Clerks -> Clerk \cup {Free}] /\ ClerksOK'
    BY SameClerks
  <1>2. archived' \subseteq present' \cap (Warehouses \cup Products)
    BY CatalogueFacts
  <1> QED
    BY <1>1, <1>2, CatalogueFacts, GrowthOK

(* The pairs of other services. *)
LEMMA PairsOK ==
    ASSUME CatalogueInv, NEW p \in Products, NEW w \in Warehouses,
           SetReplenishmentRule(p, w) \/ RecordMovement(p, w)
    PROVE  CatalogueInv'
  <1>1. /\ UNCHANGED <<present, used, archived, filing, documents, clerks, asked>>
        /\ {p, w} \subseteq present
        /\ levels' = levels \cup {<<p, w>>}
        /\ movements' \in {movements, movements \cup {<<p, w>>}}
    BY DEF SetReplenishmentRule, RecordMovement
  <1>2. clerks' \in [Clerks -> Clerk \cup {Free}] /\ ClerksOK'
    BY <1>1, SameClerks
  <1>3. levels' \subseteq Pair /\ movements' \subseteq Pair
    BY <1>1, CatalogueFacts DEF Pair
  <1>4. \A m \in movements' \cup levels' : {m[1], m[2]} \subseteq present'
    BY <1>1, CatalogueFacts
  <1> QED
    BY <1>1, <1>2, <1>3, <1>4, CatalogueFacts, GrowthOK

(* A document is drafted, for rows that are there. *)
LEMMA DraftDocumentOK ==
    ASSUME CatalogueInv, NEW d \in Document, DraftDocument(d)
    PROVE  CatalogueInv'
  <1> USE DEF DraftDocument
  <1>1. clerks' \in [Clerks -> Clerk \cup {Free}] /\ ClerksOK'
    BY SameClerks
  <1>2. documents' \subseteq Document /\ \A e \in documents' : e.refs \subseteq present'
    BY CatalogueFacts
  <1> QED
    BY <1>1, <1>2, CatalogueFacts, GrowthOK

(* A document is closed. *)
LEMMA CloseDocumentOK ==
    ASSUME CatalogueInv, NEW d \in Document, CloseDocument(d)
    PROVE  CatalogueInv'
  <1>1. /\ UNCHANGED <<present, used, archived, filing, levels, movements, clerks, asked>>
        /\ d \in documents
        /\ documents' = (documents \ {d}) \cup {[d EXCEPT !.open = FALSE]}
    BY DEF CloseDocument
  <1>2. PICK closed : closed = [d EXCEPT !.open = FALSE]
    OBVIOUS
  <1>3. closed \in Document /\ closed.refs = d.refs
    BY <1>2 DEF Document
  <1>4. clerks' \in [Clerks -> Clerk \cup {Free}] /\ ClerksOK'
    BY <1>1, SameClerks
  <1>5. documents' \subseteq Document /\ \A e \in documents' : e.refs \subseteq present'
    BY <1>1, <1>2, <1>3, CatalogueFacts
  <1> QED
    BY <1>1, <1>4, <1>5, CatalogueFacts, GrowthOK

(* A bulk update begins: its kinds and what it files under are apart. *)
LEMMA StartBulkUpdateOK ==
    ASSUME CatalogueInv, NEW c \in Clerks, NEW ps \in SUBSET Products, NEW to, NEW kept,
           Change(to, kept), StartBulkUpdate(c, ps, to, kept)
    PROVE  CatalogueInv'
  <1>1. /\ UNCHANGED <<present, used, archived, filing, levels, movements, documents, asked>>
        /\ clerks' = [clerks EXCEPT ![c] = [kind |-> "bulk", left |-> ps \cap present,
                                            to |-> to, kept |-> kept]]
    BY DEF StartBulkUpdate
  <1>2. PICK k : k = [kind |-> "bulk", left |-> ps \cap present, to |-> to, kept |-> kept]
    OBVIOUS
  <1>3. k \in Clerk /\ k.kind = "bulk" /\ k.to \cap k.kept = {}
    BY <1>2, ClerkRecords DEF Change, KeptKinds
  <1>4. ClerkOK(k)'
    BY <1>3 DEF ClerkOK
  <1>5. clerks' \in [Clerks -> Clerk \cup {Free}] /\ ClerksOK'
    BY <1>1, <1>2, <1>3, <1>4, OneClerk
  <1> QED
    BY <1>1, <1>5, CatalogueFacts, GrowthOK

(* A bulk update files one product. *)
LEMMA BulkUpdateItemOK ==
    ASSUME CatalogueInv, NEW c \in Clerks, NEW p \in Products, BulkUpdateItem(c, p)
    PROVE  CatalogueInv'
  <1> DEFINE call == clerks[c]
  <1>1. PICK rest : rest = [call EXCEPT !.left = call.left \ {p}]
    OBVIOUS
  <1>2. PICK next : next = IF rest.left = {} THEN Free ELSE rest
    OBVIOUS
  <1>3. /\ call.kind = "bulk" /\ p \in call.left
        /\ UNCHANGED <<present, used, archived, levels, movements, documents>>
    BY DEF BulkUpdateItem
  <1>4. \/ /\ p \in present /\ call.to \subseteq present
           /\ clerks' = [Crossing(call.to) EXCEPT ![c] = next]
           /\ Refile(p, call.to, call.kept)
        \/ clerks' = [clerks EXCEPT ![c] = next] /\ UNCHANGED <<filing, asked>>
    BY <1>1, <1>2 DEF BulkUpdateItem
  <1>5. /\ call \in [kind : {"bulk"}, left : SUBSET Products, to : Filings, kept : KeptKinds]
        /\ call.to \cap call.kept = {}
    <2>1. call \in Clerk \cup {Free} /\ ClerkOK(call)
      BY CatalogueFacts DEF CatalogueInv, ClerksOK
    <2> QED
      BY <1>3, <2>1 DEF Clerk, Free, ClerkOK, KeptKinds
  <1>6. rest \in Clerk /\ rest.kind = "bulk" /\ rest.to \cap rest.kept = {}
    BY <1>1, <1>5 DEF Clerk, KeptKinds
  <1>7. next \in Clerk \cup {Free} /\ ClerkOK(next)'
    BY <1>2, <1>6, FreeOK DEF ClerkOK
  <1>8. CASE /\ p \in present /\ call.to \subseteq present
             /\ clerks' = [Crossing(call.to) EXCEPT ![c] = next]
             /\ Refile(p, call.to, call.kept)
    <2>1. Change(call.to, call.kept)
      BY <1>5 DEF Change, KeptKinds
    <2>2. /\ filing' \in [Products -> Filings] /\ asked' \in [Products -> Filings]
          /\ \A q \in Products : /\ filing'[q] = asked'[q]
                                 /\ filing'[q] \subseteq present
                                 /\ filing'[q] \subseteq filing[q] \cup call.to
      BY <1>8, <2>1, RefileFacts
    <2>3. /\ clerks' = [d \in Clerks |-> IF d = c THEN next ELSE Crossing(call.to)[d]]
      BY <1>8 DEF Crossing
    <2>4. \A d \in Clerks : clerks'[d] \in Clerk \cup {Free} /\ ClerkOK(clerks[d])'
      <3> SUFFICES ASSUME NEW d \in Clerks
                   PROVE  clerks'[d] \in Clerk \cup {Free} /\ ClerkOK(clerks[d])'
        OBVIOUS
      <3>1. CASE d = c
        BY <1>7, <2>3, <3>1
      <3>2. CASE d # c
        <4>1. call.to \subseteq References /\ clerks'[d] = Crossing(call.to)[d]
          BY <1>5, <2>3, <3>2 DEF Filings
        <4> QED
          BY <2>2, <4>1, CrossedClerksOK
      <3> QED
        BY <3>1, <3>2
    <2>5. clerks' \in [Clerks -> Clerk \cup {Free}] /\ ClerksOK'
      BY <2>3, <2>4 DEF ClerksOK
    <2> QED
      BY <1>3, <2>2, <2>5, CatalogueFacts, RefiledOK
  <1>9. CASE clerks' = [clerks EXCEPT ![c] = next] /\ UNCHANGED <<filing, asked>>
    <2>1. clerks' \in [Clerks -> Clerk \cup {Free}] /\ ClerksOK'
      BY <1>7, <1>9, OneClerk
    <2> QED
      BY <1>3, <1>9, <2>1, CatalogueFacts, GrowthOK
  <1> QED
    BY <1>4, <1>8, <1>9

(* A removal finds nothing under its row, or archives it. *)
LEMMA StartRemovalOK ==
    ASSUME CatalogueInv, NEW c \in Clerks, NEW x \in Rows, StartRemoval(c, x)
    PROVE  CatalogueInv'
  <1>1. PICK k : k = [kind |-> IF KeptByCount(x) THEN "archive" ELSE "delete",
                      row |-> x, crossed |-> FALSE]
    OBVIOUS
  <1>2. /\ UNCHANGED <<present, used, archived, filing, levels, movements, documents, asked>>
        /\ clerks' = [clerks EXCEPT ![c] = k] /\ ~RefusedByCount(x)
    BY <1>1 DEF StartRemoval
  <1>3. k \in Clerk /\ k.row = x /\ ~k.crossed
    BY <1>1, ClerkRecords
  <1>4. k.kind = "archive" => x \in Warehouses \cup Products
    BY <1>1 DEF KeptByCount
  <1>5. FiledUnder(x) = {}
    <2>1. CASE x \in References
      BY <1>2, <2>1 DEF RefusedByCount
    <2>2. CASE x \notin References
      BY <2>2, CatalogueFacts DEF FiledUnder, Filings
    <2> QED
      BY <2>1, <2>2
  <1>6. k.kind \in {"archive", "delete"}
    BY <1>1
  <1>7. ClerkOK(k)'
    BY <1>2, <1>3, <1>4, <1>5, <1>6 DEF ClerkOK, FiledUnder
  <1>8. clerks' \in [Clerks -> Clerk \cup {Free}] /\ ClerksOK'
    BY <1>2, <1>3, <1>7, OneClerk
  <1> QED
    BY <1>2, <1>8, CatalogueFacts, GrowthOK

(* A row is deleted: nothing refers to it, or the keys let go of it. *)
LEMMA DeleteOK ==
    ASSUME CatalogueInv, NEW c \in Clerks, Delete(c)
    PROVE  CatalogueInv'
  <1> DEFINE x == clerks[c].row
  <1>1. /\ clerks[c].kind = "delete" /\ clerks' = [clerks EXCEPT ![c] = Free]
        /\ UNCHANGED <<used, movements, documents>>
    BY DEF Delete
  <1>2. CASE x \in present /\ ~Restricted(x)
    <2>1. /\ present' = present \ {x} /\ archived' = archived \ {x}
          /\ levels' = {l \in levels : x \notin {l[1], l[2]}}
          /\ filing' = [p \in Products |-> IF p = x THEN {} ELSE filing[p] \ {x}]
          /\ asked' = [p \in Products |-> CASE p = x -> {}
                                            [] clerks[c].crossed -> asked[p] \ {x}
                                            [] OTHER -> asked[p]]
      BY <1>2 DEF Delete
    <2>2. \A q \in Products : filing'[q] \subseteq filing[q] /\ x \notin filing'[q] \cup {}
      BY <2>1, CatalogueFacts, RowsDistinct DEF Filings
    <2>3. IF clerks[c].crossed THEN x \notin Products
          ELSE \A p \in Products : x \notin filing[p]
      BY <1>1, RowsDistinct DEF CatalogueInv, ClerksOK, ClerkOK, FiledUnder
    <2>4. \A q \in Products : asked'[q] = filing'[q]
      <3> SUFFICES ASSUME NEW q \in Products
                   PROVE  asked'[q] = filing'[q]
        OBVIOUS
      <3>1. filing[q] = asked[q]
        BY CatalogueFacts
      <3>2. CASE clerks[c].crossed
        BY <2>1, <2>3, <3>1, <3>2
      <3>3. CASE ~clerks[c].crossed
        BY <2>1, <2>3, <3>1, <3>3
      <3> QED
        BY <3>2, <3>3
    <2>5. \A q \in Products : filing'[q] \subseteq present' /\ filing'[q] \in Filings
      BY <2>1, <2>2, CatalogueFacts, FilingsPart
    <2>6. filing' \in [Products -> Filings] /\ asked' \in [Products -> Filings]
      BY <2>1, <2>4, <2>5
    <2>7. \A m \in movements' \cup levels' : {m[1], m[2]} \subseteq present'
      BY <1>1, <1>2, <2>1, CatalogueFacts DEF Restricted, Moved
    <2>8. \A d \in documents' : d.refs \subseteq present'
      BY <1>1, <1>2, <2>1, CatalogueFacts DEF Restricted, Documented
    <2>9. clerks' \in [Clerks -> Clerk \cup {Free}] /\ ClerksOK'
      BY <1>1, <2>2, FreeOK, OneClerk
    <2>10. CatalogueTypeOK'
      BY <1>1, <2>1, <2>6, <2>9, CatalogueFacts DEF CatalogueTypeOK
    <2>11. ReferencesSurvive'
      BY <2>4, <2>5, <2>7, <2>8 DEF ReferencesSurvive
    <2> QED
      BY <2>9, <2>10, <2>11 DEF CatalogueInv
  <1>3. CASE ~(x \in present /\ ~Restricted(x))
    <2>1. UNCHANGED <<present, archived, levels, filing, asked>>
      BY <1>3 DEF Delete
    <2>2. clerks' \in [Clerks -> Clerk \cup {Free}] /\ ClerksOK'
      BY <1>1, <2>1, FreeOK, OneClerk
    <2> QED
      BY <1>1, <2>1, <2>2, CatalogueFacts, GrowthOK
  <1> QED
    BY <1>2, <1>3

(* A row that is in use is archived instead. *)
LEMMA ArchiveOK ==
    ASSUME CatalogueInv, NEW c \in Clerks, Archive(c)
    PROVE  CatalogueInv'
  <1> DEFINE x == clerks[c].row
  <1>1. /\ clerks[c].kind = "archive" /\ clerks' = [clerks EXCEPT ![c] = Free]
        /\ archived' = IF x \in present THEN archived \cup {x} ELSE archived
        /\ UNCHANGED <<present, used, filing, levels, movements, documents, asked>>
    BY DEF Archive
  <1>2. x \in Warehouses \cup Products
    BY <1>1 DEF CatalogueInv, ClerksOK, ClerkOK
  <1>3. clerks' \in [Clerks -> Clerk \cup {Free}] /\ ClerksOK'
    BY <1>1, FreeOK, OneClerk
  <1>4. archived' \subseteq present' \cap (Warehouses \cup Products)
    BY <1>1, <1>2, CatalogueFacts
  <1> QED
    BY <1>1, <1>3, <1>4, CatalogueFacts, GrowthOK

(* Every step of the catalogue. *)
LEMMA CatalogueStepOK ==
    ASSUME CatalogueInv, CatalogueNext
    PROVE  CatalogueInv'
  <1>1. ASSUME OtherRequest
        PROVE  CatalogueInv'
    BY <1>1, CreateOK, CreateProductOK, UpdateProductOK, SetActiveOK, PairsOK,
       DraftDocumentOK, CloseDocumentOK DEF OtherRequest
  <1>2. ASSUME NEW c \in Clerks, Request(c)
        PROVE  CatalogueInv'
    BY <1>2, StartRemovalOK, StartBulkUpdateOK DEF Request
  <1>3. ASSUME NEW c \in Clerks, ClerkStep(c)
        PROVE  CatalogueInv'
    BY <1>3, DeleteOK, ArchiveOK, BulkUpdateItemOK DEF ClerkStep
  <1> QED
    BY <1>1, <1>2, <1>3 DEF CatalogueNext

-----------------------------------------------------------------------------
(* Members and invitations. *)

(* The records of the requests in flight, by what they are about. *)
UpdateRequest ==
    [at : {"count", "write-role"}, id : Ids, loaded : Roles,
     to : Roles \cup {"same"}, warehouses : SUBSET Warehouses \cup {{"same"}},
     passed : BOOLEAN]
RemovalRequest ==
    [at : {"count-removed", "delete"}, id : Ids, loaded : Roles, passed : BOOLEAN]
AssignRequest == [at : {"assign"}, ids : SUBSET Ids, warehouse : Warehouses]
DraftRequest ==
    [at : {"look-pending", "create"}, who : People, role : Roles,
     warehouses : SUBSET Warehouses, passed : BOOLEAN]
LinkRequest == [at : {"revoke", "accept"}, id : InviteIds, passed : BOOLEAN]

MemberStages == {"count", "write-role", "count-removed", "delete"}
PassableStages == MemberStages \cup {"create", "revoke", "accept"}

(* A request about to take an admin away, having counted them. *)
TakesAdmin(r) ==
    /\ r.at \in {"write-role", "delete"} /\ r.loaded = "ADMIN"
    /\ r.at = "write-role" => r.to \notin {"same", "ADMIN"}

(* What a request knows, as long as nothing it read has changed: the role of *)
(* its member, that another admin remains, that nothing is pending for its   *)
(* address, that its invitation is open.                                     *)
RequestOK(r) ==
    /\ r.at \in MemberStages =>
          /\ r.id \in DOMAIN members
          /\ ~r.passed /\ members[r.id].live => members[r.id].role = r.loaded
    /\ ~r.passed /\ TakesAdmin(r) => \E a \in Admins : a # r.id
    /\ r.at \in {"look-pending", "create"} /\ r.role # "STAFF" => r.warehouses = {}
    /\ r.at = "create" /\ ~r.passed =>
          \A i \in DOMAIN invitations : invitations[i].who = r.who => ~Pending(i)
    /\ r.at \in {"revoke", "accept"} =>
          /\ r.id \in DOMAIN invitations
          /\ ~r.passed => ~invitations[r.id].accepted
          /\ ~r.passed /\ r.at = "accept" => ~invitations[r.id].revoked

RequestsOK == \A c \in Callers : RequestOK(requests[c])

(* Types, one live membership for each person, and memberships that come of  *)
(* invitations that exist; an invitation to a role that sees every warehouse *)
(* names none.                                                               *)
MembersShape ==
    /\ members \in Seq(Membership) /\ Len(members) <= MaxMembers
    /\ invitations \in Seq(Invitation) /\ Len(invitations) <= MaxInvitations
    /\ requests \in [Callers -> MemberRequest \cup {Idle}]
    /\ lapsed \in BOOLEAN /\ raced \subseteq DOMAIN invitations
    /\ \A m, n \in Live : members[m].who = members[n].who => m = n
    /\ \A m \in DOMAIN members : members[m].via \in {ByHand} \cup DOMAIN invitations
    /\ \A i \in DOMAIN invitations :
          invitations[i].role # "STAFF" => invitations[i].warehouses = {}

(* Assignments are of live members to warehouses that are there. *)
AssignmentsOK ==
    /\ assigned \subseteq Live \X (Warehouses \cap present)
    /\ lax \subseteq assigned

(* What InvitationsAdmitOnce needs of an invitation: while it is not        *)
(* accepted, it has made no membership.                                     *)
LinkOK(i) ==
    /\ \A m, n \in DOMAIN members : members[m].via = i /\ members[n].via = i => m = n
    /\ ~invitations[i].accepted => \A m \in DOMAIN members : members[m].via # i
    /\ ~(invitations[i].accepted /\ invitations[i].revoked)
    /\ Pending(i) => \A j \in DOMAIN invitations \ {i} :
            invitations[j].who = invitations[i].who => ~Pending(j) \/ j \in raced

LinksOK == \A i \in DOMAIN invitations \ raced : LinkOK(i)

MembersInv ==
    /\ MembersShape /\ AssignmentsOK /\ RequestsOK /\ LinksOK
    /\ AdminRemains /\ OnlyStaffAssigned

-----------------------------------------------------------------------------
(* Records and sequences. *)

(* The step a request is at tells what kind of record it is. *)
LEMMA RequestKinds ==
    ASSUME NEW r \in MemberRequest \cup {Idle}
    PROVE  /\ r = Idle \/ r.at \in PassableStages \cup {"assign", "look-pending"}
           /\ r.at \in {"count", "write-role"} => r \in UpdateRequest
           /\ r.at \in {"count-removed", "delete"} => r \in RemovalRequest
           /\ r.at = "assign" => r \in AssignRequest
           /\ r.at \in {"look-pending", "create"} => r \in DraftRequest
           /\ r.at \in {"revoke", "accept"} => r \in LinkRequest
           /\ r.at = "idle" <=> r = Idle
  BY DEF MemberRequest, Idle, UpdateRequest, RemovalRequest, AssignRequest, DraftRequest,
         LinkRequest, PassableStages, MemberStages

(* The requests by their stages. *)
LEMMA RequestsIn ==
    /\ UpdateRequest \subseteq MemberRequest /\ RemovalRequest \subseteq MemberRequest
    /\ AssignRequest \subseteq MemberRequest /\ DraftRequest \subseteq MemberRequest
    /\ LinkRequest \subseteq MemberRequest
  BY DEF MemberRequest, UpdateRequest, RemovalRequest, AssignRequest, DraftRequest, LinkRequest

(* A request whose knowledge was overtaken is the same request otherwise. *)
LEMMA PassedFacts ==
    ASSUME NEW r \in MemberRequest \cup {Idle}, r.at \in PassableStages,
           NEW q, q = [r EXCEPT !.passed = TRUE]
    PROVE  /\ q \in MemberRequest /\ q.at = r.at /\ q.passed
           /\ r.at \in MemberStages => q.id = r.id /\ q.loaded = r.loaded
           /\ r.at = "create" => q.role = r.role /\ q.warehouses = r.warehouses
           /\ r.at \in {"revoke", "accept"} => q.id = r.id
  <1>1. CASE r \in UpdateRequest
    BY <1>1, RequestsIn DEF UpdateRequest, MemberStages, PassableStages
  <1>2. CASE r \in RemovalRequest
    BY <1>2, RequestsIn DEF RemovalRequest, MemberStages, PassableStages
  <1>3. CASE r \in DraftRequest
    BY <1>3, RequestsIn DEF DraftRequest, MemberStages, PassableStages
  <1>4. CASE r \in LinkRequest
    BY <1>4, RequestsIn DEF LinkRequest, MemberStages, PassableStages
  <1> QED
    BY <1>1, <1>2, <1>3, <1>4, RequestKinds DEF PassableStages, MemberStages

(* A sequence with one more element. *)
LEMMA Appended ==
    ASSUME NEW S, NEW seq \in Seq(S), NEW e \in S, NEW t, t = Append(seq, e)
    PROVE  /\ t \in Seq(S) /\ Len(t) = Len(seq) + 1
           /\ DOMAIN t = DOMAIN seq \cup {Len(seq) + 1}
           /\ Len(seq) + 1 \notin DOMAIN seq
           /\ t[Len(seq) + 1] = e
           /\ \A i \in DOMAIN seq : t[i] = seq[i]
  OBVIOUS

(* A sequence with one element replaced. *)
LEMMA Replaced ==
    ASSUME NEW S, NEW seq \in Seq(S), NEW e \in S, NEW i \in DOMAIN seq,
           NEW t, t = [seq EXCEPT ![i] = e]
    PROVE  /\ t \in Seq(S) /\ Len(t) = Len(seq) /\ DOMAIN t = DOMAIN seq
           /\ t[i] = e
           /\ \A j \in DOMAIN seq \ {i} : t[j] = seq[j]
  <1>1. t \in [1..Len(seq) -> S] /\ Len(seq) \in Nat
    OBVIOUS
  <1> QED
    BY <1>1

(* The types of the rows and of their numbers. *)
LEMMA RowTypes ==
    ASSUME MembersShape
    PROVE  /\ \A m \in DOMAIN members : members[m] \in Membership
           /\ \A i \in DOMAIN invitations : invitations[i] \in Invitation
           /\ DOMAIN members = 1..Len(members) /\ Len(members) \in Nat
           /\ DOMAIN invitations = 1..Len(invitations) /\ Len(invitations) \in Nat
           /\ DOMAIN members \subseteq Ids /\ DOMAIN invitations \subseteq InviteIds
           /\ Live \subseteq DOMAIN members
  <1>1. members \in Seq(Membership) /\ invitations \in Seq(Invitation)
    BY DEF MembersShape
  <1>2. /\ DOMAIN members = 1..Len(members) /\ Len(members) \in Nat
        /\ DOMAIN invitations = 1..Len(invitations) /\ Len(invitations) \in Nat
    BY <1>1
  <1>3. DOMAIN members \subseteq Ids /\ DOMAIN invitations \subseteq InviteIds
    BY <1>2, MemberBounds DEF MembersShape, Ids, InviteIds
  <1> QED
    BY <1>1, <1>2, <1>3 DEF Live

-----------------------------------------------------------------------------
(* What every step of the people respects: rows keep what they are, members *)
(* do not come back, and an invitation is never opened again.               *)
Forward ==
    /\ DOMAIN members \subseteq DOMAIN members'
    /\ \A m \in DOMAIN members :
          /\ members'[m].who = members[m].who /\ members'[m].via = members[m].via
          /\ members'[m].live => members[m].live
    /\ DOMAIN invitations \subseteq DOMAIN invitations'
    /\ \A i \in DOMAIN invitations :
          /\ invitations'[i].who = invitations[i].who
          /\ invitations[i].accepted => invitations'[i].accepted
          /\ invitations[i].revoked => invitations'[i].revoked
          /\ invitations[i].expired => invitations'[i].expired

(* A step that a request need not know about. *)
Undisturbed(r) ==
    /\ r.at \in MemberStages => members'[r.id].role = members[r.id].role
    /\ r.at \in {"write-role", "delete"} => Admins \subseteq Admins'
    /\ r.at = "create" => \A i \in DOMAIN invitations' :
            i \in DOMAIN invitations \/ invitations'[i].who # r.who
    /\ r.at \in {"revoke", "accept"} =>
            /\ invitations'[r.id].accepted = invitations[r.id].accepted
            /\ invitations'[r.id].revoked = invitations[r.id].revoked

(* A request that is undisturbed keeps what it knows, ... *)
LEMMA RequestStays ==
    ASSUME NEW r \in MemberRequest \cup {Idle}, RequestOK(r), Forward, Undisturbed(r)
    PROVE  RequestOK(r)'
  <1>1. /\ r.at \in MemberStages =>
              /\ r.id \in DOMAIN members'
              /\ ~r.passed /\ members'[r.id].live => members'[r.id].role = r.loaded
    BY DEF RequestOK, Forward, Undisturbed
  <1>2. ~r.passed /\ TakesAdmin(r) => \E a \in Admins' : a # r.id
    BY DEF RequestOK, Undisturbed, TakesAdmin
  <1>3. r.at = "create" /\ ~r.passed =>
          \A i \in DOMAIN invitations' : invitations'[i].who = r.who => ~Pending(i)'
    BY DEF RequestOK, Undisturbed, Forward, Pending
  <1>4. r.at \in {"revoke", "accept"} =>
          /\ r.id \in DOMAIN invitations'
          /\ ~r.passed => ~invitations'[r.id].accepted
          /\ ~r.passed /\ r.at = "accept" => ~invitations'[r.id].revoked
    BY DEF RequestOK, Undisturbed, Forward
  <1>5. r.at \in {"look-pending", "create"} /\ r.role # "STAFF" => r.warehouses = {}
    BY DEF RequestOK
  <1> QED
    BY <1>1, <1>2, <1>3, <1>4, <1>5 DEF RequestOK, TakesAdmin

(* ... one that is overtaken claims nothing more, ... *)
LEMMA RequestOvertaken ==
    ASSUME NEW r \in MemberRequest \cup {Idle}, r.at \in PassableStages, RequestOK(r), Forward,
           NEW q, q = [r EXCEPT !.passed = TRUE]
    PROVE  q \in MemberRequest /\ RequestOK(q)'
  <1>1. /\ q \in MemberRequest /\ q.at = r.at /\ q.passed
        /\ r.at \in MemberStages => q.id = r.id /\ q.loaded = r.loaded
        /\ r.at = "create" => q.role = r.role /\ q.warehouses = r.warehouses
        /\ r.at \in {"revoke", "accept"} => q.id = r.id
    BY PassedFacts
  <1>2. q.at # "look-pending"
    BY <1>1 DEF PassableStages, MemberStages
  <1> HIDE DEF MemberStages
  <1>3. /\ q.at \in MemberStages => q.id \in DOMAIN members'
        /\ q.at \in {"look-pending", "create"} /\ q.role # "STAFF" => q.warehouses = {}
        /\ q.at \in {"revoke", "accept"} => q.id \in DOMAIN invitations'
    BY <1>1, <1>2 DEF RequestOK, Forward
  <1> QED
    BY <1>1, <1>3 DEF RequestOK

(* ... and an ended one nothing at all. *)
LEMMA IdleOK == RequestOK(Idle) /\ RequestOK(Idle)'
  BY DEF RequestOK, Idle, MemberStages, TakesAdmin

(* The requests after one has ended and told the others what it changed. *)
LEMMA OthersOK ==
    ASSUME MembersInv, Forward, NEW c \in Callers, NEW outdated, End(c, outdated),
           \A d \in outdated \cap Callers : requests[d].at \in PassableStages,
           \A d \in Callers \ {c} : d \in outdated \/ Undisturbed(requests[d])
    PROVE  requests' \in [Callers -> MemberRequest \cup {Idle}] /\ RequestsOK'
  <1>1. requests \in [Callers -> MemberRequest \cup {Idle}]
    BY DEF MembersInv, MembersShape
  <1>2. ASSUME NEW d \in Callers
        PROVE  requests'[d] \in MemberRequest \cup {Idle} /\ RequestOK(requests[d])'
    <2>0. RequestOK(requests[d]) /\ requests[d] \in MemberRequest \cup {Idle}
      BY <1>1 DEF MembersInv, RequestsOK
    <2>1. CASE d = c
      <3>1. requests'[d] = Idle
        BY <2>1 DEF End
      <3> QED
        BY <3>1, IdleOK
    <2>2. CASE d # c /\ d \in outdated
      <3>1. PICK q : q = [requests[d] EXCEPT !.passed = TRUE]
        OBVIOUS
      <3>2. requests'[d] = q
        BY <2>2, <3>1 DEF End
      <3>3. q \in MemberRequest /\ RequestOK(q)'
        BY <2>0, <2>2, <3>1, RequestOvertaken
      <3> QED
        BY <3>2, <3>3
    <2>3. CASE d # c /\ d \notin outdated
      <3>1. requests'[d] = requests[d]
        BY <2>3 DEF End
      <3>2. RequestOK(requests[d]) /\ Undisturbed(requests[d])
        BY <2>0, <2>3
      <3>3. PICK r \in MemberRequest \cup {Idle} : r = requests[d]
        BY <2>0
      <3>4. RequestOK(r)'
        BY <3>2, <3>3, RequestStays
      <3> QED
        BY <2>0, <3>1, <3>3, <3>4
    <2> QED
      BY <2>1, <2>2, <2>3
  <1>3. requests' = [d \in Callers |-> requests'[d]]
    BY DEF End
  <1> QED
    BY <1>2, <1>3 DEF RequestsOK

(* The requests after a step of somebody who has none in flight. *)
LEMMA AllStay ==
    ASSUME MembersInv, Forward, UNCHANGED requests,
           \A d \in Callers : Undisturbed(requests[d])
    PROVE  requests' \in [Callers -> MemberRequest \cup {Idle}] /\ RequestsOK'
  <1>1. requests \in [Callers -> MemberRequest \cup {Idle}]
    BY DEF MembersInv, MembersShape
  <1>2. ASSUME NEW d \in Callers
        PROVE  RequestOK(requests[d])'
    <2>1. PICK r \in MemberRequest \cup {Idle} : r = requests[d]
      BY <1>1
    <2>2. RequestOK(r) /\ Undisturbed(r)
      BY <2>1 DEF MembersInv, RequestsOK
    <2>3. RequestOK(r)'
      BY <2>2, RequestStays
    <2> QED
      BY <2>1, <2>3
  <1> QED
    BY <1>1, <1>2 DEF RequestsOK

(* An invitation that no step of interest concerns. *)
LEMMA LinkStays ==
    ASSUME NEW i \in DOMAIN invitations, LinkOK(i), Forward, raced \subseteq raced',
           \A m \in DOMAIN members' : m \in DOMAIN members \/ members'[m].via # i,
           invitations'[i].accepted = invitations[i].accepted,
           invitations'[i].revoked = invitations[i].revoked,
           \A j \in DOMAIN invitations' : \/ j \in DOMAIN invitations
                                          \/ invitations'[j].who # invitations[i].who
                                          \/ ~Pending(i)
                                          \/ j \in raced'
    PROVE  LinkOK(i)'
  <1>1. \A m, n \in DOMAIN members' : members'[m].via = i /\ members'[n].via = i => m = n
    BY DEF LinkOK, Forward
  <1>2. ~invitations'[i].accepted => \A m \in DOMAIN members' : members'[m].via # i
    BY DEF LinkOK, Forward
  <1>3. Pending(i)' => Pending(i)
    BY DEF Pending, Forward
  <1>4. \A j \in DOMAIN invitations : Pending(j)' => Pending(j)
    BY DEF Pending, Forward
  <1>5. ASSUME Pending(i)', NEW j \in DOMAIN invitations' \ {i},
               invitations'[j].who = invitations'[i].who
        PROVE  ~Pending(j)' \/ j \in raced'
    BY <1>3, <1>4, <1>5 DEF LinkOK, Forward
  <1> QED
    BY <1>1, <1>2, <1>5 DEF LinkOK

-----------------------------------------------------------------------------
(* The steps that change nothing but the requests in flight. *)

(* The rows that these steps leave alone. *)
MemberRows == <<members, assigned, invitations, lapsed, lax, raced, present>>

(* A step that changes requests only. *)
LEMMA SameRows ==
    ASSUME MembersInv, UNCHANGED MemberRows,
           requests' \in [Callers -> MemberRequest \cup {Idle}], RequestsOK'
    PROVE  MembersInv'
  <1>1. MembersShape' /\ AssignmentsOK'
    BY DEF MembersInv, MembersShape, AssignmentsOK, MemberRows, Live
  <1>2. LinksOK'
    BY DEF MembersInv, LinksOK, LinkOK, MemberRows, Pending
  <1>3. AdminRemains' /\ OnlyStaffAssigned'
    BY DEF MembersInv, AdminRemains, OnlyStaffAssigned, MemberRows, Admins, Live
  <1> QED
    BY <1>1, <1>2, <1>3 DEF MembersInv

(* What a request knows does not depend on the requests. *)
LEMMA SameKnowledge ==
    ASSUME UNCHANGED MemberRows, NEW r, RequestOK(r)
    PROVE  RequestOK(r)'
  BY DEF RequestOK, MemberRows, Admins, Live, Pending

(* One request begins or goes on. *)
LEMMA OneRequestOK ==
    ASSUME MembersInv, UNCHANGED MemberRows, NEW c \in Callers,
           NEW r \in MemberRequest \cup {Idle}, RequestOK(r),
           requests' = [requests EXCEPT ![c] = r]
    PROVE  MembersInv'
  <1>1. requests \in [Callers -> MemberRequest \cup {Idle}]
    BY DEF MembersInv, MembersShape
  <1>2. requests' \in [Callers -> MemberRequest \cup {Idle}]
    BY <1>1
  <1>3. ASSUME NEW d \in Callers
        PROVE  RequestOK(requests[d])'
    <2>1. PICK q : q = requests'[d]
      OBVIOUS
    <2>2. q = r \/ q = requests[d]
      BY <1>1, <2>1
    <2>3. RequestOK(q)
      BY <2>2 DEF MembersInv, RequestsOK
    <2>4. RequestOK(q)'
      BY <2>3, SameKnowledge
    <2> QED
      BY <2>1, <2>4
  <1> QED
    BY <1>2, <1>3, SameRows DEF RequestsOK

(* A request begins with what it has read. *)
LEMMA BeginOK ==
    ASSUME MembersInv, NEW c \in Callers, NEW r \in MemberRequest, RequestOK(r),
           Begin(c, r), UNCHANGED present
    PROVE  MembersInv'
  BY OneRequestOK DEF Begin, MemberRows

(* A request ends without having changed anything. *)
LEMMA GiveUpOK ==
    ASSUME MembersInv, NEW c \in Callers, End(c, {}), UNCHANGED MemberRows
    PROVE  MembersInv'
  <1>1. requests \in [Callers -> MemberRequest \cup {Idle}]
    BY DEF MembersInv, MembersShape
  <1>2. requests' = [requests EXCEPT ![c] = Idle]
    BY <1>1 DEF End
  <1> QED
    BY <1>2, IdleOK, OneRequestOK

(* An update of a member begins. *)
LEMMA LoadForUpdateOK ==
    ASSUME MembersInv, UNCHANGED present, NEW c \in Callers, NEW a, NEW m \in Live,
           NEW to \in Roles \cup {"same"},
           NEW ws \in SUBSET Warehouses \cup {{"same"}}, LoadForUpdate(c, a, m, to, ws)
    PROVE  MembersInv'
  <1> DEFINE loaded == members[m].role
  <1>1. PICK r : r = [at |-> IF to \notin {"same", loaded} /\ loaded = "ADMIN"
                             THEN "count" ELSE "write-role",
                      id |-> m, loaded |-> loaded, to |-> to, warehouses |-> ws,
                      passed |-> FALSE]
    OBVIOUS
  <1>2. Begin(c, r)
    BY <1>1 DEF LoadForUpdate
  <1>3. m \in DOMAIN members /\ m \in Ids /\ loaded \in Roles
    BY RowTypes DEF MembersInv, Membership
  <1>4. /\ r \in UpdateRequest /\ r.id = m /\ r.loaded = members[m].role /\ r.to = to
        /\ r.at = "count" \/ (r.at = "write-role" /\ (to \in {"same", loaded} \/ loaded # "ADMIN"))
    BY <1>1, <1>3 DEF UpdateRequest
  <1>5. ~TakesAdmin(r)
    BY <1>4 DEF TakesAdmin
  <1>6. r.at \in {"count", "write-role"}
    BY <1>4
  <1>7. RequestOK(r)
    BY <1>3, <1>4, <1>5, <1>6 DEF RequestOK
  <1> QED
    BY <1>2, <1>4, <1>7, BeginOK, RequestsIn

(* The removal of a member begins. *)
LEMMA LoadForRemovalOK ==
    ASSUME MembersInv, UNCHANGED present, NEW c \in Callers, NEW a, NEW m \in Live,
           LoadForRemoval(c, a, m)
    PROVE  MembersInv'
  <1> DEFINE loaded == members[m].role
  <1>1. PICK r : r = [at |-> IF loaded = "ADMIN" THEN "count-removed" ELSE "delete",
                      id |-> m, loaded |-> loaded, passed |-> FALSE]
    OBVIOUS
  <1>2. Begin(c, r)
    BY <1>1 DEF LoadForRemoval
  <1>3. m \in DOMAIN members /\ m \in Ids /\ loaded \in Roles
    BY RowTypes DEF MembersInv, Membership
  <1>4. /\ r \in RemovalRequest /\ r.id = m /\ r.loaded = members[m].role
        /\ r.at = "count-removed" \/ (r.at = "delete" /\ loaded # "ADMIN")
    BY <1>1, <1>3 DEF RemovalRequest
  <1>5. ~TakesAdmin(r)
    BY <1>4 DEF TakesAdmin
  <1>6. r.at \in {"count-removed", "delete"}
    BY <1>4
  <1>7. RequestOK(r)
    BY <1>3, <1>4, <1>5, <1>6 DEF RequestOK
  <1> QED
    BY <1>2, <1>4, <1>7, BeginOK, RequestsIn

(* Of two admins, one is another than the member in question. *)
LEMMA AnotherAdmin ==
    ASSUME MembersInv, AtLeastTwoAdmins, NEW m
    PROVE  \E a \in Admins : a # m
  <1>1. IsFiniteSet(Admins)
    <2>1. IsFiniteSet(1..Len(members))
      BY RowTypes, FS_Interval DEF MembersInv
    <2>2. Admins \subseteq 1..Len(members)
      BY RowTypes DEF MembersInv, Admins
    <2> QED
      BY <2>1, <2>2, FS_Subset
  <1>2. SUFFICES ASSUME Admins \subseteq {m}
                 PROVE  FALSE
    OBVIOUS
  <1>3. IsFiniteSet({m}) /\ Cardinality({m}) = 1
    BY FS_Singleton
  <1>4. Cardinality(Admins) <= 1 /\ Cardinality(Admins) \in Nat
    BY <1>1, <1>2, <1>3, FS_Subset, FS_CardinalityType
  <1> QED
    BY <1>4 DEF AtLeastTwoAdmins

(* A request counts the admins. *)
LEMMA CountAdminsOK ==
    ASSUME MembersInv, UNCHANGED present, NEW c \in Callers, CountAdmins(c)
    PROVE  MembersInv'
  <1> DEFINE r == requests[c]
  <1>1. r \in MemberRequest \cup {Idle} /\ RequestOK(r)
    BY DEF MembersInv, MembersShape, RequestsOK
  <1>2. r.at \in {"count", "count-removed"}
    BY DEF CountAdmins
  <1>3. CASE AtLeastTwoAdmins
    <2>1. PICK at : at = IF r.at = "count" THEN "write-role" ELSE "delete"
      OBVIOUS
    <2>2. PICK q : q = [r EXCEPT !.at = at]
      OBVIOUS
    <2>3. requests' = [requests EXCEPT ![c] = q] /\ UNCHANGED MemberRows
      BY <1>3, <2>1, <2>2 DEF CountAdmins, Proceed, MemberRows
    <2>4. /\ q \in MemberRequest /\ q.id = r.id /\ q.loaded = r.loaded
          /\ q.passed = r.passed /\ q.at \in {"write-role", "delete"}
      <3>1. CASE r.at = "count"
        <4>1. r \in UpdateRequest
          BY <1>1, <3>1, RequestKinds
        <4> QED
          BY <2>1, <2>2, <3>1, <4>1, RequestsIn DEF UpdateRequest
      <3>2. CASE r.at = "count-removed"
        <4>1. r \in RemovalRequest
          BY <1>1, <3>2, RequestKinds
        <4> QED
          BY <2>1, <2>2, <3>2, <4>1, RequestsIn DEF RemovalRequest
      <3> QED
        BY <1>2, <3>1, <3>2
    <2>5. \E a \in Admins : a # q.id
      BY <1>3, AnotherAdmin
    <2>6. r.at \in MemberStages
      BY <1>2 DEF MemberStages
    <2>7. RequestOK(q)
      BY <1>1, <2>4, <2>5, <2>6 DEF RequestOK
    <2> QED
      BY <2>3, <2>4, <2>7, OneRequestOK
  <1>4. CASE ~AtLeastTwoAdmins
    BY <1>4, GiveUpOK DEF CountAdmins, MemberRows
  <1> QED
    BY <1>3, <1>4

(* An assignment begins. *)
LEMMA LoadForAssignmentOK ==
    ASSUME MembersInv, UNCHANGED present, NEW c \in Callers, NEW a, NEW ms,
           NEW w \in Warehouses, LoadForAssignment(c, a, ms, w)
    PROVE  MembersInv'
  <1>1. PICK r : r = [at |-> "assign", ids |-> ms \cap Live, warehouse |-> w]
    OBVIOUS
  <1>2. ms \cap Live \subseteq Ids
    BY RowTypes DEF MembersInv
  <1>3. r \in AssignRequest /\ r.at = "assign"
    BY <1>1, <1>2 DEF AssignRequest
  <1>4. RequestOK(r)
    BY <1>3 DEF RequestOK, MemberStages, TakesAdmin
  <1>5. Begin(c, r)
    BY <1>1 DEF LoadForAssignment
  <1> QED
    BY <1>3, <1>4, <1>5, BeginOK, RequestsIn

(* The creation of an invitation begins. *)
LEMMA StartInvitationOK ==
    ASSUME MembersInv, UNCHANGED present, NEW c \in Callers, NEW a, NEW who \in People,
           NEW role \in InvitedRoles, NEW ws \in SUBSET Warehouses,
           StartInvitation(c, a, who, role, ws)
    PROVE  MembersInv'
  <1>1. PICK r : r = [at |-> "look-pending", who |-> who, role |-> role,
                      warehouses |-> IF role = "STAFF" THEN ws ELSE {}, passed |-> FALSE]
    OBVIOUS
  <1>2. role \in Roles
    BY MemberBounds
  <1>3. /\ r \in DraftRequest /\ r.at = "look-pending"
        /\ r.role # "STAFF" => r.warehouses = {}
    BY <1>1, <1>2 DEF DraftRequest
  <1>4. RequestOK(r)
    BY <1>3 DEF RequestOK, MemberStages, TakesAdmin
  <1>5. Begin(c, r)
    BY <1>1 DEF StartInvitation
  <1> QED
    BY <1>3, <1>4, <1>5, BeginOK, RequestsIn

(* A request looks for a pending invitation to the address. *)
LEMMA LookPendingOK ==
    ASSUME MembersInv, UNCHANGED present, NEW c \in Callers, LookPending(c)
    PROVE  MembersInv'
  <1> DEFINE r == requests[c]
  <1>1. r \in MemberRequest \cup {Idle} /\ RequestOK(r) /\ r.at = "look-pending"
    BY DEF MembersInv, MembersShape, RequestsOK, LookPending
  <1>2. r \in DraftRequest
    BY <1>1, RequestKinds
  <1>3. CASE \E i \in DOMAIN invitations : invitations[i].who = r.who /\ Pending(i)
    BY <1>3, GiveUpOK DEF LookPending, MemberRows
  <1>4. CASE ~ \E i \in DOMAIN invitations : invitations[i].who = r.who /\ Pending(i)
    <2>1. PICK q : q = [r EXCEPT !.at = "create"]
      OBVIOUS
    <2>2. requests' = [requests EXCEPT ![c] = q] /\ UNCHANGED MemberRows
      BY <1>4, <2>1 DEF LookPending, Proceed, MemberRows
    <2>3. /\ q \in DraftRequest /\ q.at = "create" /\ q.who = r.who /\ q.role = r.role
          /\ q.warehouses = r.warehouses
      BY <1>2, <2>1 DEF DraftRequest
    <2>4. RequestOK(q)
      BY <1>1, <1>4, <2>3 DEF RequestOK, MemberStages, TakesAdmin
    <2> QED
      BY <2>2, <2>3, <2>4, OneRequestOK, RequestsIn
  <1> QED
    BY <1>3, <1>4

(* A revocation begins. *)
LEMMA LoadForRevocationOK ==
    ASSUME MembersInv, UNCHANGED present, NEW c \in Callers, NEW a,
           NEW i \in DOMAIN invitations, LoadForRevocation(c, a, i)
    PROVE  MembersInv'
  <1>1. PICK r : r = [at |-> "revoke", id |-> i, passed |-> FALSE]
    OBVIOUS
  <1>2. i \in InviteIds
    BY RowTypes DEF MembersInv
  <1>3. r \in LinkRequest /\ r.at = "revoke" /\ r.id = i
    BY <1>1, <1>2 DEF LinkRequest
  <1>4. Begin(c, r) /\ ~invitations[i].accepted
    BY <1>1 DEF LoadForRevocation
  <1>5. RequestOK(r)
    BY <1>3, <1>4 DEF RequestOK, MemberStages, TakesAdmin
  <1> QED
    BY <1>3, <1>4, <1>5, BeginOK, RequestsIn

(* An acceptance begins. *)
LEMMA LoadRedeemableOK ==
    ASSUME MembersInv, UNCHANGED present, NEW c \in Callers,
           NEW i \in DOMAIN invitations, LoadRedeemable(c, i)
    PROVE  MembersInv'
  <1>1. PICK r : r = [at |-> "accept", id |-> i, passed |-> FALSE]
    OBVIOUS
  <1>2. i \in InviteIds
    BY RowTypes DEF MembersInv
  <1>3. r \in LinkRequest /\ r.at = "accept" /\ r.id = i
    BY <1>1, <1>2 DEF LinkRequest
  <1>4. Begin(c, r) /\ ~invitations[i].accepted /\ ~invitations[i].revoked
    BY <1>1 DEF LoadRedeemable, Pending
  <1>5. RequestOK(r)
    BY <1>3, <1>4 DEF RequestOK, MemberStages, TakesAdmin
  <1> QED
    BY <1>3, <1>4, <1>5, BeginOK, RequestsIn

-----------------------------------------------------------------------------
(* The steps that make members. *)

(* What a new membership changes, and what it does not. *)
LEMMA Joined ==
    ASSUME MembersInv, NEW row \in Membership, row.live,
           row.via \in {ByHand} \cup DOMAIN invitations,
           MemberOf(row.who) = {}, Len(members) < MaxMembers,
           members' = Append(members, row), DOMAIN invitations \subseteq DOMAIN invitations'
    PROVE  LET n == Len(members) + 1 IN
           /\ members' \in Seq(Membership) /\ Len(members') <= MaxMembers
           /\ DOMAIN members' = DOMAIN members \cup {n} /\ n \notin DOMAIN members
           /\ members'[n] = row /\ \A m \in DOMAIN members : members'[m] = members[m]
           /\ Live' = Live \cup {n} /\ Live \subseteq DOMAIN members
           /\ Admins \subseteq Admins'
           /\ \A m, k \in Live' : members'[m].who = members'[k].who => m = k
           /\ \A m \in DOMAIN members' :
                members'[m].via \in {ByHand} \cup DOMAIN invitations'
  <1> DEFINE n == Len(members) + 1
  <1>1. members \in Seq(Membership) /\ Len(members) \in Nat /\ Live \subseteq DOMAIN members
    BY RowTypes DEF MembersInv, MembersShape
  <1>2. /\ members' \in Seq(Membership) /\ Len(members') = Len(members) + 1
        /\ DOMAIN members' = DOMAIN members \cup {n} /\ n \notin DOMAIN members
        /\ members'[n] = row /\ \A m \in DOMAIN members : members'[m] = members[m]
    BY <1>1, Appended
  <1>3. Len(members') <= MaxMembers
    BY <1>1, <1>2, MemberBounds
  <1>4. Live' = Live \cup {n}
    BY <1>2 DEF Live
  <1>5. Admins \subseteq Admins'
    BY <1>1, <1>2, <1>4 DEF Admins
  <1>6. ASSUME NEW m \in Live', NEW k \in Live', members'[m].who = members'[k].who
        PROVE  m = k
    <2>1. \A j \in Live : members[j].who # row.who
      BY DEF MemberOf
    <2>2. \A j \in Live : members'[j] = members[j]
      BY <1>1, <1>2
    <2>3. CASE m \in Live /\ k \in Live
      BY <1>6, <2>2, <2>3 DEF MembersInv, MembersShape
    <2>4. CASE m \in Live /\ k = n
      BY <1>2, <1>6, <2>1, <2>2, <2>4
    <2>5. CASE m = n /\ k \in Live
      BY <1>2, <1>6, <2>1, <2>2, <2>5
    <2> QED
      BY <1>4, <2>3, <2>4, <2>5
  <1>7. \A m \in DOMAIN members' : members'[m].via \in {ByHand} \cup DOMAIN invitations'
    BY <1>2 DEF MembersInv, MembersShape
  <1> QED
    BY <1>1, <1>2, <1>3, <1>4, <1>5, <1>6, <1>7

(* Somebody joins while nothing else about the people changes. *)
LEMMA InviteMemberOK ==
    ASSUME MembersInv, UNCHANGED present, NEW a, NEW who \in People, NEW role \in Roles,
           NEW ws \in SUBSET Warehouses, InviteMember(a, who, role, ws)
    PROVE  MembersInv'
  <1> DEFINE n == Len(members) + 1
  <1>1. PICK row : row = [who |-> who, role |-> role, via |-> ByHand, live |-> TRUE]
    OBVIOUS
  <1>2. /\ MemberOf(who) = {} /\ Len(members) < MaxMembers /\ ws \subseteq present
        /\ members' = Append(members, row)
        /\ assigned' = IF role = "STAFF" THEN assigned \cup ({n} \X ws) ELSE assigned
        /\ UNCHANGED <<invitations, requests, lapsed, lax, raced>>
    BY <1>1 DEF InviteMember
  <1>3. /\ row \in Membership /\ row.live /\ row.via = ByHand /\ row.who = who
        /\ row.role = role
    BY <1>1 DEF Membership
  <1>4. /\ members' \in Seq(Membership) /\ Len(members') <= MaxMembers
        /\ DOMAIN members' = DOMAIN members \cup {n} /\ n \notin DOMAIN members
        /\ members'[n] = row /\ \A m \in DOMAIN members : members'[m] = members[m]
        /\ Live' = Live \cup {n} /\ Live \subseteq DOMAIN members
        /\ Admins \subseteq Admins'
        /\ \A m, k \in Live' : members'[m].who = members'[k].who => m = k
        /\ \A m \in DOMAIN members' :
             members'[m].via \in {ByHand} \cup DOMAIN invitations'
    BY <1>2, <1>3, Joined
  <1>5. Forward
    BY <1>2, <1>4 DEF Forward
  <1>6. \A c \in Callers : Undisturbed(requests[c])
    <2> SUFFICES ASSUME NEW c \in Callers PROVE Undisturbed(requests[c])
      OBVIOUS
    <2>1. requests[c].at \in MemberStages => requests[c].id \in DOMAIN members
      BY DEF MembersInv, RequestsOK, RequestOK
    <2> QED
      BY <1>2, <1>4, <2>1 DEF Undisturbed
  <1>7. requests' \in [Callers -> MemberRequest \cup {Idle}] /\ RequestsOK'
    BY <1>2, <1>5, <1>6, AllStay
  <1>8. MembersShape'
    BY <1>2, <1>4, <1>7 DEF MembersInv, MembersShape
  <1>9. AssignmentsOK'
    BY <1>2, <1>4 DEF MembersInv, AssignmentsOK
  <1>10. LinksOK'
    <2> SUFFICES ASSUME NEW i \in DOMAIN invitations \ raced PROVE LinkOK(i)'
      BY <1>2 DEF LinksOK
    <2>1. i # ByHand
      BY RowTypes DEF MembersInv, ByHand
    <2>2. LinkOK(i)
      BY DEF MembersInv, LinksOK
    <2> QED
      BY <1>2, <1>3, <1>4, <1>5, <2>1, <2>2, LinkStays
  <1>11. AdminRemains'
    BY <1>2, <1>4 DEF MembersInv, AdminRemains
  <1>12. OnlyStaffAssigned'
    <2> SUFFICES ASSUME NEW x \in assigned' PROVE members'[x[1]].role = "STAFF" \/ x \in lax'
      BY DEF OnlyStaffAssigned
    <2>1. CASE x \in assigned
      BY <1>2, <1>4, <2>1 DEF MembersInv, OnlyStaffAssigned, AssignmentsOK
    <2>2. CASE role = "STAFF" /\ x[1] = n
      BY <1>3, <1>4, <2>2
    <2> QED
      BY <1>2, <2>1, <2>2
  <1> QED
    BY <1>7, <1>8, <1>9, <1>10, <1>11, <1>12 DEF MembersInv

-----------------------------------------------------------------------------
(* The steps that change and end memberships. *)

(* What a change of one membership's role or its end does to the others. *)
LEMMA Rewritten ==
    ASSUME MembersInv, UNCHANGED invitations, NEW m \in Live, NEW row \in Membership,
           row.who = members[m].who, row.via = members[m].via,
           members' = [members EXCEPT ![m] = row]
    PROVE  /\ members' \in Seq(Membership) /\ Len(members') <= MaxMembers
           /\ DOMAIN members' = DOMAIN members /\ Live \subseteq DOMAIN members
           /\ members'[m] = row
           /\ \A k \in DOMAIN members \ {m} : members'[k] = members[k]
           /\ Live' = IF row.live THEN Live ELSE Live \ {m}
           /\ \A j, k \in Live' : members'[j].who = members'[k].who => j = k
           /\ \A k \in DOMAIN members' :
                members'[k].via \in {ByHand} \cup DOMAIN invitations'
           /\ Forward
  <1>1. members \in Seq(Membership) /\ Live \subseteq DOMAIN members
    BY RowTypes DEF MembersInv, MembersShape
  <1>2. /\ members' \in Seq(Membership) /\ Len(members') = Len(members)
        /\ DOMAIN members' = DOMAIN members
        /\ members'[m] = row
        /\ \A k \in DOMAIN members \ {m} : members'[k] = members[k]
    BY <1>1, Replaced
  <1>3. Len(members') <= MaxMembers
    BY <1>2 DEF MembersInv, MembersShape
  <1>4. Live' = IF row.live THEN Live ELSE Live \ {m}
    BY <1>1, <1>2 DEF Live
  <1>5. \A k \in DOMAIN members : members'[k].who = members[k].who
    BY <1>2
  <1>6. \A j, k \in Live' : members'[j].who = members'[k].who => j = k
    BY <1>1, <1>4, <1>5 DEF MembersInv, MembersShape
  <1>7. \A k \in DOMAIN members' : members'[k].via \in {ByHand} \cup DOMAIN invitations'
    BY <1>2 DEF MembersInv, MembersShape
  <1>8. Forward
    BY <1>2, <1>5 DEF Forward, Live
  <1> QED
    BY <1>1, <1>2, <1>3, <1>4, <1>6, <1>7, <1>8

(* The requests after a membership was rewritten, when those that had read   *)
(* what is no longer so are told. *)
LEMMA ToldOK ==
    ASSUME MembersInv, UNCHANGED invitations, NEW c \in Callers, NEW m \in Live, NEW is,
           Forward, \A k \in DOMAIN members \ {m} : members'[k] = members[k],
           End(c, Outdated(m, members[m].role, is)),
           is = members[m].role => UNCHANGED members,
           is # "ADMIN" \/ Admins \subseteq Admins',
           members[m].role # "ADMIN" => Admins \subseteq Admins'
    PROVE  requests' \in [Callers -> MemberRequest \cup {Idle}] /\ RequestsOK'
  <1> DEFINE was == members[m].role
             outdated == Outdated(m, was, is)
  <1>1. \A d \in outdated : requests[d].at \in PassableStages
    BY DEF Outdated, PassableStages, MemberStages
  <1>2. ASSUME NEW d \in Callers, d \notin outdated
        PROVE  Undisturbed(requests[d])
    <2>1. requests[d].at \in MemberStages => requests[d].id \in DOMAIN members
      BY DEF MembersInv, RequestsOK, RequestOK
    <2>2. requests[d].at \in MemberStages =>
            /\ requests[d].id # m \/ was = is
            /\ requests[d].at \in {"write-role", "delete"} => was # "ADMIN" \/ is = "ADMIN"
      BY <1>2 DEF Outdated, MemberStages
    <2>3. requests[d].at \in MemberStages =>
            members'[requests[d].id].role = members[requests[d].id].role
      BY <2>1, <2>2
    <2>4. requests[d].at \in {"write-role", "delete"} => Admins \subseteq Admins'
      BY <2>2 DEF MemberStages
    <2> QED
      BY <2>3, <2>4 DEF Undisturbed
  <1> HIDE DEF outdated
  <1>3. End(c, outdated)
    BY DEF outdated
  <1> QED
    BY <1>1, <1>2, <1>3, OthersOK

(* Invitations have nothing to do with it. *)
LEMMA LinksUntouched ==
    ASSUME MembersInv, UNCHANGED <<invitations, raced>>, Forward,
           DOMAIN members' = DOMAIN members
    PROVE  LinksOK'
  <1> SUFFICES ASSUME NEW i \in DOMAIN invitations \ raced PROVE LinkOK(i)'
    BY DEF LinksOK
  <1>1. LinkOK(i)
    BY DEF MembersInv, LinksOK
  <1> QED
    BY <1>1, LinkStays

(* A role is written: those who have read another are told. *)
LEMMA WriteRoleOK ==
    ASSUME MembersInv, UNCHANGED present, NEW c \in Callers, WriteRole(c)
    PROVE  MembersInv'
  <1>1. PICK r : r = requests[c]
    OBVIOUS
  <1> DEFINE m == r.id
             was == members[m].role
             is == IF r.to = "same" THEN was ELSE r.to
             links == AssignedAfter(r)
  <1>2. /\ r.at = "write-role" /\ UNCHANGED <<invitations, raced>>
    BY <1>1 DEF WriteRole
  <1>3. r \in UpdateRequest /\ RequestOK(r) /\ m \in DOMAIN members
    <2>1. r \in MemberRequest \cup {Idle} /\ RequestOK(r)
      BY <1>1 DEF MembersInv, MembersShape, RequestsOK
    <2> QED
      BY <1>2, <2>1, RequestKinds DEF RequestOK, MemberStages
  <1>4. CASE ~(m \in Live /\ (r.warehouses = {"same"} \/ r.warehouses \subseteq present))
    BY <1>1, <1>2, <1>4, GiveUpOK DEF WriteRole, MemberRows
  <1>5. CASE m \in Live /\ (r.warehouses = {"same"} \/ r.warehouses \subseteq present)
    <2>1. PICK row : row = [members[m] EXCEPT !.role = is]
      OBVIOUS
    <2>2. /\ members' = [members EXCEPT ![m] = row]
          /\ assigned' = links
          /\ lax' = (lax \cap links) \cup {x \in links \ assigned : is # "STAFF" /\ r.passed}
          /\ lapsed' = (lapsed \/ (r.passed /\ was = "ADMIN" /\ is # "ADMIN"))
          /\ End(c, Outdated(m, was, is))
      BY <1>1, <1>5, <2>1 DEF WriteRole
    <2>3. members[m] \in Membership /\ members[m].live /\ was \in Roles /\ is \in Roles
      BY <1>3, <1>5, RowTypes DEF MembersInv, Membership, Live, UpdateRequest
    <2>4. /\ row \in Membership /\ row.who = members[m].who /\ row.via = members[m].via
          /\ row.live /\ row.role = is
      BY <2>1, <2>3 DEF Membership
    <2>5. /\ members' \in Seq(Membership) /\ Len(members') <= MaxMembers
          /\ DOMAIN members' = DOMAIN members /\ Live \subseteq DOMAIN members
          /\ members'[m] = row
          /\ \A k \in DOMAIN members \ {m} : members'[k] = members[k]
          /\ Live' = IF row.live THEN Live ELSE Live \ {m}
          /\ \A j, k \in Live' : members'[j].who = members'[k].who => j = k
          /\ \A k \in DOMAIN members' :
               members'[k].via \in {ByHand} \cup DOMAIN invitations'
          /\ Forward
      BY <1>2, <1>5, <2>2, <2>4, Rewritten
    <2>6. Live' = Live
      BY <2>4, <2>5
    <2>7. /\ is = "ADMIN" \/ was # "ADMIN" => Admins \subseteq Admins'
          /\ \A a \in Admins : a # m => a \in Admins'
      BY <2>4, <2>5, <2>6 DEF Admins
    <2>8. is = was => UNCHANGED members
      <3> SUFFICES ASSUME is = was PROVE members' = members
        OBVIOUS
      <3>1. row = members[m]
        BY <2>1, <2>3 DEF Membership
      <3>2. members \in Seq(Membership)
        BY DEF MembersInv, MembersShape
      <3> QED
        BY <2>2, <3>1, <3>2
    <2>9. requests' \in [Callers -> MemberRequest \cup {Idle}] /\ RequestsOK'
      <3>1. PICK new : new = is
        OBVIOUS
      <3>2. End(c, Outdated(m, members[m].role, new))
        BY <2>2, <3>1
      <3>3. new = members[m].role => UNCHANGED members
        BY <2>8, <3>1
      <3>4. /\ new # "ADMIN" \/ Admins \subseteq Admins'
            /\ members[m].role # "ADMIN" => Admins \subseteq Admins'
        BY <2>7, <3>1
      <3>5. UNCHANGED invitations /\ m \in Live
        BY <1>2, <1>5
      <3> QED
        BY <2>5, <3>2, <3>3, <3>4, <3>5, ToldOK
    <2>10. MembersShape'
      <3>1. lapsed' \in BOOLEAN
        BY <2>2 DEF MembersInv, MembersShape
      <3> QED
        BY <1>2, <2>5, <2>9, <3>1 DEF MembersInv, MembersShape
    <2>11. /\ links \subseteq assigned \cup ({m} \X (Warehouses \cap present))
           /\ \A x \in links : x[1] = m => IF r.to = "same" THEN r.loaded = "STAFF"
                                            ELSE r.to = "STAFF"
      <3>1. CASE (IF r.to = "same" THEN r.loaded ELSE r.to) # "STAFF"
        BY <3>1 DEF AssignedAfter, Cleared
      <3>2. CASE /\ (IF r.to = "same" THEN r.loaded ELSE r.to) = "STAFF"
                 /\ r.warehouses # {"same"}
        <4>1. r.warehouses \subseteq Warehouses \cap present
          BY <1>3, <1>5, <3>2 DEF UpdateRequest
        <4> QED
          BY <3>2, <4>1 DEF AssignedAfter, Cleared
      <3>3. CASE /\ (IF r.to = "same" THEN r.loaded ELSE r.to) = "STAFF"
                 /\ r.warehouses = {"same"}
        BY <3>3 DEF AssignedAfter
      <3> QED
        BY <3>1, <3>2, <3>3
    <2> HIDE DEF links
    <2>12. AssignmentsOK'
      BY <1>5, <2>2, <2>6, <2>11 DEF MembersInv, AssignmentsOK
    <2>13. LinksOK'
      BY <1>2, <2>5, LinksUntouched
    <2>14. AdminRemains'
      <3>1. CASE is = "ADMIN" \/ was # "ADMIN"
        BY <2>2, <2>7, <3>1 DEF MembersInv, AdminRemains
      <3>2. CASE was = "ADMIN" /\ is # "ADMIN" /\ r.passed
        BY <2>2, <3>2 DEF AdminRemains
      <3>3. CASE was = "ADMIN" /\ is # "ADMIN" /\ ~r.passed
        <4>1. r.loaded = "ADMIN"
          BY <1>2, <1>3, <2>3, <3>3 DEF RequestOK, MemberStages
        <4>2. r.to \notin {"same", "ADMIN"}
          BY <3>3
        <4>3. TakesAdmin(r)
          BY <1>2, <4>1, <4>2 DEF TakesAdmin
        <4>4. \E a \in Admins : a # m
          BY <1>3, <3>3, <4>3 DEF RequestOK
        <4> QED
          BY <2>7, <4>4 DEF AdminRemains
      <3> QED
        BY <3>1, <3>2, <3>3
    <2>15. OnlyStaffAssigned'
      <3> SUFFICES ASSUME NEW x \in links
                   PROVE  members'[x[1]].role = "STAFF" \/ x \in lax'
        BY <2>2 DEF OnlyStaffAssigned
      <3>1. CASE x[1] # m
        <4>1. x \in assigned /\ x[1] \in DOMAIN members
          BY <2>5, <2>11, <3>1 DEF MembersInv, AssignmentsOK
        <4> QED
          BY <2>2, <2>5, <3>1, <4>1 DEF MembersInv, OnlyStaffAssigned
      <3>2. CASE x[1] = m /\ r.to # "same"
        BY <2>4, <2>5, <2>11, <3>2
      <3>3. CASE x[1] = m /\ r.to = "same" /\ x \in assigned
        <4>1. was = "STAFF" \/ x \in lax
          BY <3>3 DEF MembersInv, OnlyStaffAssigned
        <4> QED
          BY <2>2, <2>4, <2>5, <3>3, <4>1
      <3>4. CASE x[1] = m /\ r.to = "same" /\ x \notin assigned
        <4>1. r.loaded = "STAFF"
          BY <2>11, <3>4
        <4>2. r.passed \/ was = "STAFF"
          BY <1>2, <1>3, <2>3, <4>1 DEF RequestOK, MemberStages
        <4> QED
          BY <2>2, <2>4, <2>5, <3>4, <4>2
      <3> QED
        BY <3>1, <3>2, <3>3, <3>4
    <2> QED
      BY <2>9, <2>10, <2>12, <2>13, <2>14, <2>15 DEF MembersInv
  <1> QED
    BY <1>4, <1>5

(* A membership is deleted, and its assignments with it. *)
LEMMA DeleteMemberOK ==
    ASSUME MembersInv, UNCHANGED present, NEW c \in Callers, DeleteMember(c)
    PROVE  MembersInv'
  <1>1. PICK r : r = requests[c]
    OBVIOUS
  <1> DEFINE m == r.id
             was == members[m].role
  <1>2. /\ r.at = "delete" /\ UNCHANGED <<invitations, raced>>
    BY <1>1 DEF DeleteMember
  <1>3. r \in RemovalRequest /\ RequestOK(r) /\ m \in DOMAIN members
    <2>1. r \in MemberRequest \cup {Idle} /\ RequestOK(r)
      BY <1>1 DEF MembersInv, MembersShape, RequestsOK
    <2> QED
      BY <1>2, <2>1, RequestKinds DEF RequestOK, MemberStages
  <1>4. CASE m \notin Live
    BY <1>1, <1>2, <1>4, GiveUpOK DEF DeleteMember, MemberRows
  <1>5. CASE m \in Live
    <2>1. PICK row : row = [members[m] EXCEPT !.live = FALSE]
      OBVIOUS
    <2>2. /\ members' = [members EXCEPT ![m] = row]
          /\ assigned' = Cleared(m)
          /\ lax' = lax \cap Cleared(m)
          /\ lapsed' = (lapsed \/ (r.passed /\ was = "ADMIN"))
          /\ End(c, Outdated(m, was, "none"))
      BY <1>1, <1>5, <2>1 DEF DeleteMember
    <2>3. members[m] \in Membership /\ members[m].live /\ was \in Roles
      BY <1>3, <1>5, RowTypes DEF MembersInv, Membership, Live
    <2>4. /\ row \in Membership /\ row.who = members[m].who /\ row.via = members[m].via
          /\ ~row.live /\ row.role = was
      BY <2>1, <2>3 DEF Membership
    <2>5. /\ members' \in Seq(Membership) /\ Len(members') <= MaxMembers
          /\ DOMAIN members' = DOMAIN members /\ Live \subseteq DOMAIN members
          /\ members'[m] = row
          /\ \A k \in DOMAIN members \ {m} : members'[k] = members[k]
          /\ Live' = IF row.live THEN Live ELSE Live \ {m}
          /\ \A j, k \in Live' : members'[j].who = members'[k].who => j = k
          /\ \A k \in DOMAIN members' :
               members'[k].via \in {ByHand} \cup DOMAIN invitations'
          /\ Forward
      BY <1>2, <1>5, <2>2, <2>4, Rewritten
    <2>6. Live' = Live \ {m}
      BY <2>4, <2>5
    <2>7. /\ was # "ADMIN" => Admins \subseteq Admins'
          /\ \A a \in Admins : a # m => a \in Admins'
      BY <2>4, <2>5, <2>6 DEF Admins
    <2>8. requests' \in [Callers -> MemberRequest \cup {Idle}] /\ RequestsOK'
      <3>1. "none" # members[m].role /\ "none" # "ADMIN"
        BY <2>3 DEF Roles
      <3>2. UNCHANGED invitations /\ m \in Live
        BY <1>2, <1>5
      <3>3. members[m].role # "ADMIN" => Admins \subseteq Admins'
        BY <2>7
      <3>4. End(c, Outdated(m, members[m].role, "none"))
        BY <2>2
      <3> QED
        BY <2>5, <3>1, <3>2, <3>3, <3>4, ToldOK
    <2>9. MembersShape'
      <3>1. lapsed' \in BOOLEAN
        BY <2>2 DEF MembersInv, MembersShape
      <3> QED
        BY <1>2, <2>5, <2>8, <3>1 DEF MembersInv, MembersShape
    <2>10. AssignmentsOK'
      BY <2>2, <2>6 DEF MembersInv, AssignmentsOK, Cleared
    <2>11. LinksOK'
      BY <1>2, <2>5, LinksUntouched
    <2>12. AdminRemains'
      <3>1. CASE was # "ADMIN"
        BY <2>2, <2>7, <3>1 DEF MembersInv, AdminRemains
      <3>2. CASE was = "ADMIN" /\ r.passed
        BY <2>2, <3>2 DEF AdminRemains
      <3>3. CASE was = "ADMIN" /\ ~r.passed
        <4>1. r.loaded = "ADMIN"
          BY <1>2, <1>3, <2>3, <3>3 DEF RequestOK, MemberStages
        <4>2. TakesAdmin(r)
          BY <1>2, <4>1 DEF TakesAdmin
        <4>3. \E a \in Admins : a # m
          BY <1>3, <3>3, <4>2 DEF RequestOK
        <4> QED
          BY <2>7, <4>3 DEF AdminRemains
      <3> QED
        BY <3>1, <3>2, <3>3
    <2>13. OnlyStaffAssigned'
      <3> SUFFICES ASSUME NEW x \in assigned'
                   PROVE  members'[x[1]].role = "STAFF" \/ x \in lax'
        BY DEF OnlyStaffAssigned
      <3>1. x \in assigned /\ x[1] # m /\ x[1] \in DOMAIN members
        BY <2>2, <2>5 DEF Cleared, MembersInv, AssignmentsOK
      <3> QED
        BY <2>2, <2>5, <3>1 DEF MembersInv, OnlyStaffAssigned, Cleared
    <2> QED
      BY <2>8, <2>9, <2>10, <2>11, <2>12, <2>13 DEF MembersInv
  <1> QED
    BY <1>4, <1>5

(* Steps that leave memberships and invitations as they are disturb nobody. *)
LEMMA CalmFacts ==
    ASSUME UNCHANGED <<members, invitations>>
    PROVE  Forward /\ \A r : Undisturbed(r)
  BY DEF Forward, Undisturbed, Admins, Live

(* A warehouse gets its members, who may not be STAFF. *)
LEMMA AssignOK ==
    ASSUME MembersInv, UNCHANGED present, NEW c \in Callers, Assign(c)
    PROVE  MembersInv'
  <1>1. PICK r : r = requests[c]
    OBVIOUS
  <1> DEFINE rest == {x \in assigned : x[2] # r.warehouse} \cup (r.ids \X {r.warehouse})
  <1>2. r.at = "assign" /\ End(c, {}) /\ UNCHANGED <<members, invitations, lapsed, raced>>
    BY <1>1 DEF Assign
  <1>3. r \in AssignRequest
    BY <1>1, <1>2, RequestKinds DEF MembersInv, MembersShape
  <1>4. requests' \in [Callers -> MemberRequest \cup {Idle}] /\ RequestsOK'
    BY <1>2, CalmFacts, OthersOK
  <1>5. MembersShape'
    BY <1>2, <1>4 DEF MembersInv, MembersShape, Live
  <1>6. LinksOK'
    BY <1>2, CalmFacts, LinksUntouched
  <1>7. AdminRemains'
    BY <1>2 DEF MembersInv, AdminRemains, Admins, Live
  <1>8. CASE ~(r.ids \subseteq Live /\ r.warehouse \in present)
    <2>1. UNCHANGED <<assigned, lax>>
      BY <1>1, <1>8 DEF Assign
    <2>2. AssignmentsOK' /\ OnlyStaffAssigned'
      BY <1>2, <2>1 DEF MembersInv, AssignmentsOK, OnlyStaffAssigned, Live
    <2> QED
      BY <1>4, <1>5, <1>6, <1>7, <2>2 DEF MembersInv
  <1>9. CASE r.ids \subseteq Live /\ r.warehouse \in present
    <2>1. /\ assigned' = rest
          /\ lax' = (lax \cap rest) \cup {x \in rest \ assigned : members[x[1]].role # "STAFF"}
      BY <1>1, <1>9 DEF Assign
    <2>2. rest \subseteq Live \X (Warehouses \cap present)
      BY <1>3, <1>9 DEF MembersInv, AssignmentsOK, AssignRequest
    <2> HIDE DEF rest
    <2>3. AssignmentsOK'
      BY <1>2, <2>1, <2>2 DEF AssignmentsOK, Live
    <2>4. OnlyStaffAssigned'
      BY <1>2, <2>1 DEF MembersInv, OnlyStaffAssigned
    <2> QED
      BY <1>4, <1>5, <1>6, <1>7, <2>3, <2>4 DEF MembersInv
  <1> QED
    BY <1>8, <1>9

(* Deleted warehouses take their assignments with them. *)
LEMMA MembersFollowOK ==
    ASSUME MembersInv, MembersFollow
    PROVE  MembersInv'
  <1> USE DEF MembersFollow
  <1>1. requests' \in [Callers -> MemberRequest \cup {Idle}] /\ RequestsOK'
    BY CalmFacts, AllStay
  <1>2. MembersShape'
    BY DEF MembersInv, MembersShape, Live
  <1>3. LinksOK'
    BY CalmFacts, LinksUntouched
  <1>4. AdminRemains'
    BY DEF MembersInv, AdminRemains, Admins, Live
  <1>5. AssignmentsOK' /\ OnlyStaffAssigned'
    BY DEF MembersInv, AssignmentsOK, OnlyStaffAssigned, Live
  <1> QED
    BY <1>1, <1>2, <1>3, <1>4, <1>5 DEF MembersInv

-----------------------------------------------------------------------------
(* The steps of invitations. *)

(* Members and assignments, when only invitations change. *)
LEMMA PeopleStay ==
    ASSUME MembersInv, UNCHANGED <<members, assigned, lax, lapsed, present>>
    PROVE  AssignmentsOK' /\ AdminRemains' /\ OnlyStaffAssigned'
  BY DEF MembersInv, AssignmentsOK, AdminRemains, OnlyStaffAssigned, Admins, Live

(* An invitation is made: those who look for one are told. *)
LEMMA CreateInvitationOK ==
    ASSUME MembersInv, UNCHANGED present, NEW c \in Callers, CreateInvitation(c)
    PROVE  MembersInv'
  <1>1. PICK r : r = requests[c]
    OBVIOUS
  <1> DEFINE n == Len(invitations) + 1
  <1>2. PICK row : row = [who |-> r.who, role |-> r.role, warehouses |-> r.warehouses,
                          accepted |-> FALSE, revoked |-> FALSE, expired |-> FALSE]
    OBVIOUS
  <1>3. /\ r.at = "create" /\ Len(invitations) < MaxInvitations
        /\ invitations' = Append(invitations, row)
        /\ raced' = IF r.passed THEN raced \cup {n} ELSE raced
        /\ End(c, SameAddress(r.who))
        /\ UNCHANGED <<members, assigned, lapsed, lax>>
    BY <1>1, <1>2 DEF CreateInvitation
  <1>4. r \in DraftRequest /\ RequestOK(r)
    <2>1. r \in MemberRequest \cup {Idle} /\ RequestOK(r)
      BY <1>1 DEF MembersInv, MembersShape, RequestsOK
    <2> QED
      BY <1>3, <2>1, RequestKinds
  <1>5. /\ row \in Invitation /\ row.who = r.who
        /\ ~row.accepted /\ ~row.revoked
        /\ row.role # "STAFF" => row.warehouses = {}
    BY <1>2, <1>3, <1>4 DEF Invitation, DraftRequest, RequestOK
  <1>6. /\ invitations' \in Seq(Invitation) /\ Len(invitations') = Len(invitations) + 1
        /\ DOMAIN invitations' = DOMAIN invitations \cup {n}
        /\ n \notin DOMAIN invitations
        /\ invitations'[n] = row
        /\ \A i \in DOMAIN invitations : invitations'[i] = invitations[i]
    <2>1. invitations \in Seq(Invitation)
      BY DEF MembersInv, MembersShape
    <2> QED
      BY <1>3, <1>5, <2>1, Appended
  <1>7. Len(invitations') <= MaxInvitations
    BY <1>3, <1>6, MemberBounds, RowTypes DEF MembersInv
  <1>8. Forward
    BY <1>3, <1>6 DEF Forward
  <1>9. requests' \in [Callers -> MemberRequest \cup {Idle}] /\ RequestsOK'
    <2>1. \A d \in SameAddress(r.who) : requests[d].at \in PassableStages
      BY DEF SameAddress, PassableStages
    <2>2. ASSUME NEW d \in Callers, d \notin SameAddress(r.who)
          PROVE  Undisturbed(requests[d])
      <3>1. requests[d].at = "create" => requests[d].who # r.who
        BY <2>2 DEF SameAddress
      <3>2. requests[d].at \in {"revoke", "accept"} => requests[d].id \in DOMAIN invitations
        BY DEF MembersInv, RequestsOK, RequestOK
      <3> QED
        BY <1>3, <1>5, <1>6, <3>1, <3>2 DEF Undisturbed, Admins, Live
    <2> QED
      BY <1>3, <1>8, <2>1, <2>2, OthersOK
  <1>10. MembersShape'
    <2>1. \A i \in DOMAIN invitations' :
            invitations'[i].role # "STAFF" => invitations'[i].warehouses = {}
      BY <1>5, <1>6 DEF MembersInv, MembersShape
    <2>2. raced' \subseteq DOMAIN invitations'
      BY <1>3, <1>6 DEF MembersInv, MembersShape
    <2> QED
      BY <1>3, <1>6, <1>7, <1>9, <2>1, <2>2 DEF MembersInv, MembersShape, Live
  <1>11. LinksOK'
    <2> SUFFICES ASSUME NEW i \in DOMAIN invitations' \ raced' PROVE LinkOK(i)'
      BY DEF LinksOK
    <2>1. \A j \in DOMAIN invitations : Pending(j)' <=> Pending(j)
      BY <1>6 DEF Pending
    <2>2. \A j \in DOMAIN invitations :
            ~r.passed /\ invitations[j].who = r.who => ~Pending(j)
      BY <1>3, <1>4 DEF RequestOK
    <2>3. CASE i \in DOMAIN invitations
      <3>1. LinkOK(i) /\ raced \subseteq raced'
        BY <1>3, <2>3 DEF MembersInv, LinksOK
      <3>2. \A j \in DOMAIN invitations' : \/ j \in DOMAIN invitations
                                           \/ invitations'[j].who # invitations[i].who
                                           \/ ~Pending(i)
                                           \/ j \in raced'
        BY <1>3, <1>5, <1>6, <2>2, <2>3
      <3> QED
        BY <1>3, <1>6, <1>8, <2>3, <3>1, <3>2, LinkStays
    <2>4. CASE i = n
      <3>1. ~r.passed
        BY <1>3, <2>4
      <3>2. \A m \in DOMAIN members : members[m].via # n
        BY <1>6, RowTypes DEF MembersInv, MembersShape, ByHand
      <3>3. ~invitations'[n].accepted
        BY <1>5, <1>6
      <3>4. \A j \in DOMAIN invitations' \ {n} :
              invitations'[j].who = invitations'[n].who => ~Pending(j)'
        BY <1>5, <1>6, <2>1, <2>2, <3>1
      <3> QED
        BY <1>3, <2>4, <3>2, <3>3, <3>4 DEF LinkOK
    <2> QED
      BY <1>6, <2>3, <2>4
  <1> QED
    BY <1>3, <1>9, <1>10, <1>11, PeopleStay DEF MembersInv

(* What a change of one invitation leaves of the others. *)
LEMMA Marked ==
    ASSUME MembersInv, NEW i \in DOMAIN invitations, NEW row \in Invitation,
           row.who = invitations[i].who, row.role = invitations[i].role,
           row.warehouses = invitations[i].warehouses,
           invitations[i].accepted => row.accepted, invitations[i].revoked => row.revoked,
           invitations[i].expired => row.expired,
           invitations' = [invitations EXCEPT ![i] = row]
    PROVE  /\ invitations' \in Seq(Invitation) /\ Len(invitations') <= MaxInvitations
           /\ DOMAIN invitations' = DOMAIN invitations
           /\ invitations'[i] = row
           /\ \A j \in DOMAIN invitations \ {i} : invitations'[j] = invitations[j]
           /\ \A j \in DOMAIN invitations :
                /\ invitations'[j].who = invitations[j].who
                /\ invitations[j].accepted => invitations'[j].accepted
                /\ invitations[j].revoked => invitations'[j].revoked
                /\ invitations[j].expired => invitations'[j].expired
           /\ \A j \in DOMAIN invitations' :
                invitations'[j].role # "STAFF" => invitations'[j].warehouses = {}
  <1>1. invitations \in Seq(Invitation) /\ Len(invitations) <= MaxInvitations
    BY DEF MembersInv, MembersShape
  <1>2. /\ invitations' \in Seq(Invitation) /\ Len(invitations') = Len(invitations)
        /\ DOMAIN invitations' = DOMAIN invitations
        /\ invitations'[i] = row
        /\ \A j \in DOMAIN invitations \ {i} : invitations'[j] = invitations[j]
    BY <1>1, Replaced
  <1>3. \A j \in DOMAIN invitations' :
          invitations'[j].role # "STAFF" => invitations'[j].warehouses = {}
    BY <1>2 DEF MembersInv, MembersShape
  <1> QED
    BY <1>1, <1>2, <1>3

(* The requests after an invitation was written and those about it told. *)
LEMMA ToldOfInvitation ==
    ASSUME MembersInv, Forward, NEW c \in Callers, NEW i \in DOMAIN invitations,
           End(c, SameInvitation(i)), DOMAIN invitations' = DOMAIN invitations,
           \A j \in DOMAIN invitations \ {i} : invitations'[j] = invitations[j],
           \A m \in DOMAIN members : members'[m] = members[m], Admins \subseteq Admins'
    PROVE  requests' \in [Callers -> MemberRequest \cup {Idle}] /\ RequestsOK'
  <1>1. \A d \in SameInvitation(i) : requests[d].at \in PassableStages
    BY DEF SameInvitation, PassableStages
  <1>2. ASSUME NEW d \in Callers, d \notin SameInvitation(i)
        PROVE  Undisturbed(requests[d])
    <2>1. /\ requests[d].at \in MemberStages => requests[d].id \in DOMAIN members
          /\ requests[d].at \in {"revoke", "accept"} => requests[d].id \in DOMAIN invitations \ {i}
      BY <1>2 DEF SameInvitation, MembersInv, RequestsOK, RequestOK
    <2> QED
      BY <2>1 DEF Undisturbed
  <1> QED
    BY <1>1, <1>2, OthersOK

(* An invitation is revoked. *)
LEMMA RevokeOK ==
    ASSUME MembersInv, UNCHANGED present, NEW c \in Callers, Revoke(c)
    PROVE  MembersInv'
  <1>1. PICK r : r = requests[c]
    OBVIOUS
  <1> DEFINE i == r.id
  <1>2. PICK row : row = [invitations[i] EXCEPT !.revoked = TRUE]
    OBVIOUS
  <1>3. /\ r.at = "revoke"
        /\ invitations' = [invitations EXCEPT ![i] = row]
        /\ raced' = IF r.passed THEN raced \cup {i} ELSE raced
        /\ End(c, SameInvitation(i))
        /\ UNCHANGED <<members, assigned, lapsed, lax>>
    BY <1>1, <1>2 DEF Revoke
  <1>4. RequestOK(r) /\ i \in DOMAIN invitations
    BY <1>1, <1>3 DEF MembersInv, RequestsOK, RequestOK
  <1>5. invitations[i] \in Invitation
    BY <1>4, RowTypes DEF MembersInv
  <1>6. /\ row \in Invitation /\ row.who = invitations[i].who
        /\ row.role = invitations[i].role /\ row.warehouses = invitations[i].warehouses
        /\ row.accepted = invitations[i].accepted /\ row.revoked
        /\ row.expired = invitations[i].expired
    BY <1>2, <1>5 DEF Invitation
  <1>7. /\ invitations' \in Seq(Invitation) /\ Len(invitations') <= MaxInvitations
        /\ DOMAIN invitations' = DOMAIN invitations
        /\ invitations'[i] = row
        /\ \A j \in DOMAIN invitations \ {i} : invitations'[j] = invitations[j]
        /\ \A j \in DOMAIN invitations :
             /\ invitations'[j].who = invitations[j].who
             /\ invitations[j].accepted => invitations'[j].accepted
             /\ invitations[j].revoked => invitations'[j].revoked
             /\ invitations[j].expired => invitations'[j].expired
        /\ \A j \in DOMAIN invitations' :
             invitations'[j].role # "STAFF" => invitations'[j].warehouses = {}
    BY <1>3, <1>4, <1>6, Marked
  <1>8. Forward
    BY <1>3, <1>7 DEF Forward
  <1>9. requests' \in [Callers -> MemberRequest \cup {Idle}] /\ RequestsOK'
    <2>1. Admins \subseteq Admins'
      BY <1>3 DEF Admins, Live
    <2> QED
      BY <1>3, <1>4, <1>7, <1>8, <2>1, ToldOfInvitation
  <1>10. MembersShape'
    BY <1>3, <1>4, <1>7, <1>9 DEF MembersInv, MembersShape, Live
  <1>11. LinksOK'
    <2> SUFFICES ASSUME NEW j \in DOMAIN invitations' \ raced' PROVE LinkOK(j)'
      BY DEF LinksOK
    <2>1. LinkOK(j) /\ raced \subseteq raced' /\ j \in DOMAIN invitations
      BY <1>3, <1>7 DEF MembersInv, LinksOK
    <2>2. CASE j # i
      BY <1>3, <1>7, <1>8, <2>1, <2>2, LinkStays
    <2>3. CASE j = i
      <3>1. ~r.passed /\ ~invitations'[i].accepted
        BY <1>3, <1>4, <1>6, <1>7, <2>3 DEF RequestOK
      <3>2. ~Pending(i)'
        BY <1>6, <1>7 DEF Pending
      <3> QED
        BY <1>3, <1>4, <1>6, <1>7, <2>1, <2>3, <3>1, <3>2 DEF LinkOK
    <2> QED
      BY <2>2, <2>3
  <1> QED
    BY <1>3, <1>9, <1>10, <1>11, PeopleStay DEF MembersInv

(* An invitation expires. *)
LEMMA ExpireOK ==
    ASSUME MembersInv, UNCHANGED present, NEW i \in DOMAIN invitations, Expire(i)
    PROVE  MembersInv'
  <1>1. PICK row : row = [invitations[i] EXCEPT !.expired = TRUE]
    OBVIOUS
  <1>2. /\ invitations' = [invitations EXCEPT ![i] = row]
        /\ UNCHANGED <<members, assigned, requests, lapsed, lax, raced>>
    BY <1>1 DEF Expire
  <1>3. invitations[i] \in Invitation
    BY RowTypes DEF MembersInv
  <1>4. /\ row \in Invitation /\ row.who = invitations[i].who
        /\ row.role = invitations[i].role /\ row.warehouses = invitations[i].warehouses
        /\ row.accepted = invitations[i].accepted /\ row.revoked = invitations[i].revoked
        /\ row.expired
    BY <1>1, <1>3 DEF Invitation
  <1>5. /\ invitations' \in Seq(Invitation) /\ Len(invitations') <= MaxInvitations
        /\ DOMAIN invitations' = DOMAIN invitations
        /\ invitations'[i] = row
        /\ \A j \in DOMAIN invitations \ {i} : invitations'[j] = invitations[j]
        /\ \A j \in DOMAIN invitations :
             /\ invitations'[j].who = invitations[j].who
             /\ invitations[j].accepted => invitations'[j].accepted
             /\ invitations[j].revoked => invitations'[j].revoked
             /\ invitations[j].expired => invitations'[j].expired
        /\ \A j \in DOMAIN invitations' :
             invitations'[j].role # "STAFF" => invitations'[j].warehouses = {}
    BY <1>2, <1>4, Marked
  <1>6. Forward
    BY <1>2, <1>5 DEF Forward
  <1>7. \A j \in DOMAIN invitations : /\ invitations'[j].accepted = invitations[j].accepted
                                      /\ invitations'[j].revoked = invitations[j].revoked
    BY <1>4, <1>5
  <1>8. requests' \in [Callers -> MemberRequest \cup {Idle}] /\ RequestsOK'
    <2>1. ASSUME NEW d \in Callers
          PROVE  Undisturbed(requests[d])
      <3>1. requests[d].at \in {"revoke", "accept"} => requests[d].id \in DOMAIN invitations
        BY DEF MembersInv, RequestsOK, RequestOK
      <3> QED
        BY <1>2, <1>5, <1>7, <3>1 DEF Undisturbed, Admins, Live
    <2> QED
      BY <1>2, <1>6, <2>1, AllStay
  <1>9. MembersShape'
    BY <1>2, <1>5, <1>8 DEF MembersInv, MembersShape, Live
  <1>10. LinksOK'
    <2> SUFFICES ASSUME NEW j \in DOMAIN invitations' \ raced' PROVE LinkOK(j)'
      BY DEF LinksOK
    <2>1. LinkOK(j) /\ raced \subseteq raced' /\ j \in DOMAIN invitations
      BY <1>2, <1>5 DEF MembersInv, LinksOK
    <2> QED
      BY <1>2, <1>5, <1>6, <1>7, <2>1, LinkStays
  <1> QED
    BY <1>2, <1>8, <1>9, <1>10, PeopleStay DEF MembersInv

(* An invitation is accepted: a membership is made, once. *)
LEMMA AcceptOK ==
    ASSUME MembersInv, UNCHANGED present, NEW c \in Callers, Accept(c)
    PROVE  MembersInv'
  <1>1. PICK r : r = requests[c]
    OBVIOUS
  <1> DEFINE i == r.id
             offer == invitations[i]
             n == Len(members) + 1
  <1>2. r.at = "accept" /\ UNCHANGED <<lapsed, lax>>
    BY <1>1 DEF Accept
  <1>3. r \in LinkRequest /\ RequestOK(r) /\ i \in DOMAIN invitations
    <2>1. r \in MemberRequest \cup {Idle} /\ RequestOK(r)
      BY <1>1 DEF MembersInv, MembersShape, RequestsOK
    <2> QED
      BY <1>2, <2>1, RequestKinds DEF RequestOK
  <1>4. CASE ~(MemberOf(offer.who) = {} /\ offer.warehouses \subseteq present)
    BY <1>1, <1>2, <1>4, GiveUpOK DEF Accept, MemberRows
  <1>5. CASE MemberOf(offer.who) = {} /\ offer.warehouses \subseteq present
    <2>1. PICK row : row = [who |-> offer.who, role |-> offer.role, via |-> i, live |-> TRUE]
      OBVIOUS
    <2>2. PICK marked : marked = [invitations[i] EXCEPT !.accepted = TRUE]
      OBVIOUS
    <2>3. /\ Len(members) < MaxMembers
          /\ members' = Append(members, row)
          /\ assigned' = assigned \cup ({n} \X offer.warehouses)
          /\ invitations' = [invitations EXCEPT ![i] = marked]
          /\ raced' = IF r.passed THEN raced \cup {i} ELSE raced
          /\ End(c, SameInvitation(i))
      BY <1>1, <1>5, <2>1, <2>2 DEF Accept, MarkAccepted
    <2>4. offer \in Invitation /\ (offer.role # "STAFF" => offer.warehouses = {})
      BY <1>3, RowTypes DEF MembersInv, MembersShape
    <2>5. /\ row \in Membership /\ row.live /\ row.via = i /\ row.who = offer.who
          /\ row.role = offer.role
      BY <1>3, <2>1, <2>4, RowTypes DEF Membership, Invitation, LinkRequest
    <2>6. /\ marked \in Invitation /\ marked.who = offer.who
          /\ marked.role = offer.role /\ marked.warehouses = offer.warehouses
          /\ marked.revoked = offer.revoked /\ marked.accepted
          /\ marked.expired = offer.expired
      BY <2>2, <2>4 DEF Invitation
    <2>7. /\ invitations' \in Seq(Invitation) /\ Len(invitations') <= MaxInvitations
          /\ DOMAIN invitations' = DOMAIN invitations
          /\ invitations'[i] = marked
          /\ \A j \in DOMAIN invitations \ {i} : invitations'[j] = invitations[j]
          /\ \A j \in DOMAIN invitations :
               /\ invitations'[j].who = invitations[j].who
               /\ invitations[j].accepted => invitations'[j].accepted
               /\ invitations[j].revoked => invitations'[j].revoked
               /\ invitations[j].expired => invitations'[j].expired
          /\ \A j \in DOMAIN invitations' :
               invitations'[j].role # "STAFF" => invitations'[j].warehouses = {}
      BY <1>3, <2>3, <2>6, Marked
    <2>8. /\ members' \in Seq(Membership) /\ Len(members') <= MaxMembers
          /\ DOMAIN members' = DOMAIN members \cup {n} /\ n \notin DOMAIN members
          /\ members'[n] = row /\ \A m \in DOMAIN members : members'[m] = members[m]
          /\ Live' = Live \cup {n} /\ Live \subseteq DOMAIN members
          /\ Admins \subseteq Admins'
          /\ \A m, k \in Live' : members'[m].who = members'[k].who => m = k
          /\ \A m \in DOMAIN members' :
               members'[m].via \in {ByHand} \cup DOMAIN invitations'
      BY <1>3, <1>5, <2>3, <2>5, <2>7, Joined
    <2>9. Forward
      BY <2>7, <2>8 DEF Forward
    <2>10. requests' \in [Callers -> MemberRequest \cup {Idle}] /\ RequestsOK'
      BY <1>3, <2>3, <2>7, <2>8, <2>9, ToldOfInvitation
    <2>11. MembersShape'
      <3>1. raced' \subseteq DOMAIN invitations'
        BY <1>3, <2>3, <2>7 DEF MembersInv, MembersShape
      <3> QED
        BY <1>2, <2>7, <2>8, <2>10, <3>1 DEF MembersInv, MembersShape
    <2>12. AssignmentsOK'
      <3>1. offer.warehouses \subseteq Warehouses \cap present
        BY <1>5, <2>4 DEF Invitation
      <3> QED
        BY <1>2, <2>3, <2>8, <3>1 DEF MembersInv, AssignmentsOK
    <2>13. LinksOK'
      <3> SUFFICES ASSUME NEW j \in DOMAIN invitations' \ raced' PROVE LinkOK(j)'
        BY DEF LinksOK
      <3>1. LinkOK(j) /\ raced \subseteq raced' /\ j \in DOMAIN invitations
        BY <2>3, <2>7 DEF MembersInv, LinksOK
      <3>2. CASE j # i
        <4>1. \A m \in DOMAIN members' : m \in DOMAIN members \/ members'[m].via # j
          BY <2>5, <2>8, <3>2
        <4>2. invitations'[j] = invitations[j] /\ DOMAIN invitations' = DOMAIN invitations
          BY <2>7, <3>1, <3>2
        <4> QED
          BY <2>9, <3>1, <4>1, <4>2, LinkStays
      <3>3. CASE j = i
        <4>1. ~r.passed
          BY <2>3, <3>3
        <4>2. ~offer.accepted /\ ~offer.revoked
          BY <1>2, <1>3, <4>1 DEF RequestOK
        <4>3. \A m \in DOMAIN members : members[m].via # i
          BY <3>1, <3>3, <4>2 DEF LinkOK
        <4>4. \A m, k \in DOMAIN members' :
                members'[m].via = i /\ members'[k].via = i => m = k
          BY <2>8, <4>3
        <4>5. invitations'[i].accepted /\ ~invitations'[i].revoked
          BY <2>6, <2>7, <4>2
        <4> QED
          BY <3>3, <4>4, <4>5 DEF LinkOK, Pending
      <3> QED
        BY <3>2, <3>3
    <2>14. AdminRemains'
      BY <1>2, <2>8 DEF MembersInv, AdminRemains
    <2>15. OnlyStaffAssigned'
      <3> SUFFICES ASSUME NEW x \in assigned'
                   PROVE  members'[x[1]].role = "STAFF" \/ x \in lax'
        BY DEF OnlyStaffAssigned
      <3>1. CASE x \in assigned
        BY <1>2, <2>8, <3>1 DEF MembersInv, OnlyStaffAssigned, AssignmentsOK
      <3>2. CASE x \in {n} \X offer.warehouses
        BY <2>4, <2>5, <2>8, <3>2
      <3> QED
        BY <2>3, <3>1, <3>2
    <2> QED
      BY <2>10, <2>11, <2>12, <2>13, <2>14, <2>15 DEF MembersInv
  <1> QED
    BY <1>4, <1>5

-----------------------------------------------------------------------------
(* The owner is the only member at first, and an admin. *)
LEMMA MembersInitOK ==
    ASSUME MembersInit
    PROVE  MembersInv
  <1>1. PICK row : row = [who |-> Owner, role |-> "ADMIN", via |-> ByHand, live |-> TRUE]
    OBVIOUS
  <1>2. /\ members = <<row>> /\ assigned = {} /\ invitations = <<>>
        /\ requests = [c \in Callers |-> Idle]
        /\ lapsed = FALSE /\ lax = {} /\ raced = {}
    BY <1>1 DEF MembersInit
  <1>3. row \in Membership /\ row.live /\ row.role = "ADMIN" /\ row.via = ByHand
    BY <1>1, MemberBounds DEF Membership, Roles
  <1>4. /\ members \in Seq(Membership) /\ Len(members) = 1
        /\ DOMAIN members = {1} /\ members[1] = row
    BY <1>2, <1>3
  <1>5. /\ invitations \in Seq(Invitation) /\ Len(invitations) = 0
        /\ DOMAIN invitations = {}
    BY <1>2
  <1>6. MembersShape
    <2>1. Len(members) <= MaxMembers /\ Len(invitations) <= MaxInvitations
      BY <1>4, <1>5, MemberBounds
    <2>2. requests \in [Callers -> MemberRequest \cup {Idle}]
      BY <1>2
    <2>3. \A m, n \in Live : members[m].who = members[n].who => m = n
      BY <1>4 DEF Live
    <2>4. \A m \in DOMAIN members : members[m].via \in {ByHand} \cup DOMAIN invitations
      BY <1>3, <1>4
    <2> QED
      BY <1>2, <1>4, <1>5, <2>1, <2>2, <2>3, <2>4 DEF MembersShape
  <1>7. 1 \in Admins
    BY <1>3, <1>4 DEF Admins, Live
  <1>8. RequestsOK
    BY <1>2, IdleOK DEF RequestsOK
  <1> QED
    BY <1>2, <1>5, <1>6, <1>7, <1>8
       DEF MembersInv, AssignmentsOK, LinksOK, AdminRemains, OnlyStaffAssigned

(* What the requests on roles and removals do once they have begun. *)
LEMMA RemovalsOK ==
    ASSUME MembersInv, UNCHANGED present, NEW c \in Callers, Removals(c)
    PROVE  MembersInv'
  BY LoadForRemovalOK, CountAdminsOK, DeleteMemberOK DEF Removals

(* Every step of members and roles. *)
LEMMA RolesStepOK ==
    ASSUME MembersInv, UNCHANGED present, RolesNext
    PROVE  MembersInv'
  <1>1. ASSUME NEW a \in Live, NEW who \in People, NEW role \in Roles,
               NEW ws \in SUBSET Warehouses, InviteMember(a, who, role, ws)
        PROVE  MembersInv'
    BY <1>1, InviteMemberOK
  <1>2. ASSUME NEW c \in Callers, NEW a \in Live, NEW m \in Live,
               NEW to \in Roles \cup {"same"},
               NEW ws \in SUBSET Warehouses \cup {{"same"}}, LoadForUpdate(c, a, m, to, ws)
        PROVE  MembersInv'
    BY <1>2, LoadForUpdateOK
  <1>3. ASSUME NEW c \in Callers, NEW a \in Live, NEW ms \in SUBSET Live,
               NEW w \in Warehouses, LoadForAssignment(c, a, ms, w)
        PROVE  MembersInv'
    BY <1>3, LoadForAssignmentOK
  <1>4. ASSUME NEW c \in Callers, Removals(c) \/ WriteRole(c) \/ Assign(c)
        PROVE  MembersInv'
    BY <1>4, RemovalsOK, WriteRoleOK, AssignOK
  <1> QED
    BY <1>1, <1>2, <1>3, <1>4 DEF RolesNext

(* Every step of invitations. *)
LEMMA InvitationsStepOK ==
    ASSUME MembersInv, UNCHANGED present, InvitationsNext
    PROVE  MembersInv'
  <1>1. ASSUME NEW c \in Callers, NEW a \in Live, NEW who \in People,
               NEW role \in InvitedRoles, NEW ws \in SUBSET Warehouses,
               StartInvitation(c, a, who, role, ws)
        PROVE  MembersInv'
    BY <1>1, StartInvitationOK
  <1>2. ASSUME NEW c \in Callers, NEW a \in Live, NEW i \in DOMAIN invitations,
               LoadForRevocation(c, a, i) \/ LoadRedeemable(c, i)
        PROVE  MembersInv'
    BY <1>2, LoadForRevocationOK, LoadRedeemableOK
  <1>3. ASSUME NEW c \in Callers, NEW i \in DOMAIN invitations, LoadRedeemable(c, i)
        PROVE  MembersInv'
    BY <1>3, LoadRedeemableOK
  <1>4. ASSUME NEW c \in Callers,
               \/ LookPending(c) \/ CreateInvitation(c) \/ Revoke(c) \/ Accept(c)
               \/ Removals(c)
        PROVE  MembersInv'
    BY <1>4, LookPendingOK, CreateInvitationOK, RevokeOK, AcceptOK, RemovalsOK
  <1>5. ASSUME NEW i \in DOMAIN invitations, Expire(i)
        PROVE  MembersInv'
    BY <1>5, ExpireOK
  <1> QED
    BY <1>1, <1>2, <1>3, <1>4, <1>5 DEF InvitationsNext

(* A set without two elements has one at most. *)
LEMMA NoTwo ==
    ASSUME NEW S, \A m, n \in S : m = n
    PROVE  Cardinality(S) <= 1
  <1>1. S = {} \/ \E m : S = {m}
    OBVIOUS
  <1>2. CASE S = {}
    <2>1. Cardinality(S) = 0
      BY <1>2, FS_EmptySet
    <2> QED
      BY <2>1
  <1>3. CASE \E m : S = {m}
    <2>1. Cardinality(S) = 1
      BY <1>3, FS_Singleton
    <2> QED
      BY <2>1
  <1> QED
    BY <1>1, <1>2, <1>3

(* An invitation that made no two memberships made at most one. *)
LEMMA AdmitsOnce ==
    ASSUME MembersInv
    PROVE  InvitationsAdmitOnce
  <1> SUFFICES ASSUME NEW i \in DOMAIN invitations \ raced
               PROVE  Cardinality({m \in DOMAIN members : members[m].via = i}) <= 1
    BY DEF MembersInv, LinksOK, LinkOK, InvitationsAdmitOnce
  <1> DEFINE made == {m \in DOMAIN members : members[m].via = i}
  <1>1. \A m, n \in made : m = n
    BY DEF MembersInv, LinksOK, LinkOK
  <1> HIDE DEF made
  <1>2. Cardinality(made) <= 1
    BY <1>1, NoTwo
  <1> QED
    BY <1>2 DEF made

(* The types of Members. *)
LEMMA MembersTypes ==
    ASSUME MembersInv
    PROVE  MembersTypeOK
  <1>1. ASSUME NEW who \in People
        PROVE  Cardinality(MemberOf(who)) <= 1
    <2>1. \A m, n \in MemberOf(who) : m = n
      BY DEF MemberOf, MembersInv, MembersShape
    <2> QED
      BY <2>1, NoTwo
  <1> QED
    BY <1>1 DEF MembersInv, MembersShape, AssignmentsOK, MembersTypeOK

-----------------------------------------------------------------------------
(* Exports. *)

(* The rows that come before a row, and how many they are: for a row with a *)
(* key of its own, its place in every query.                                *)
Ahead(r) == {s \in There : Before(s, r)}
Place(r) == Cardinality(Ahead(r))

(* The rows that an export is held to.                                      *)
Sure == {r \in stayed : OwnKey(r)}
At(n) == {r \in Sure : Place(r) = n}

(* The rows that the offset has passed without writing them, and those that *)
(* were written twice or will be written again.                             *)
Missed == {r \in Sure : written[r] = 0 /\ Place(r) < export.skip}
Doubled == {r \in Sure : written[r] > 1 \/ (written[r] > 0 /\ Place(r) >= export.skip)}

(* Each row that the offset passed over is owed to a row that was removed or *)
(* renamed, each one it meets again to a row that was added or renamed.      *)
ExportInv ==
    /\ ExportsTypeOK /\ IsFiniteSet(There)
    /\ table # "movements" => \A r, s \in There : rows[r] = rows[s] => r = s
    /\ export.at = "idle" => \A r \in Records : written[r] = 0
    /\ export.at = "streaming" =>
          Cardinality(Missed) <= shrunk /\ Cardinality(Doubled) <= grown
    /\ ExportIsComplete

-----------------------------------------------------------------------------
(* Orders, places and counting. *)

(* The keys of the rows that are there are numbers. *)
LEMMA KeysOfRows ==
    ASSUME ExportsTypeOK
    PROVE  \A r \in There : rows[r] \in Int
  BY DEF ExportsTypeOK, Keys

(* Before is a strict order, and a row with a key of its own has a place.   *)
LEMMA BeforeFacts ==
    ASSUME ExportsTypeOK
    PROVE  /\ \A r \in There : ~Before(r, r)
           /\ \A r, s, t \in There : Before(r, s) /\ Before(s, t) => Before(r, t)
           /\ \A r, s \in There : ~(Before(r, s) /\ Before(s, r))
           /\ \A r, s \in There : r # s /\ OwnKey(r) => Before(r, s) \/ Before(s, r)
  <1>1. \A r \in There : rows[r] \in Int
    BY KeysOfRows
  <1>2. \A r, s \in There : r # s /\ OwnKey(r) => rows[r] # rows[s]
    BY DEF OwnKey
  <1> QED
    BY <1>1, <1>2 DEF Before

(* Counting the parts of a finite set. *)
LEMMA Parts ==
    ASSUME NEW S, IsFiniteSet(S), NEW T, T \subseteq S
    PROVE  /\ IsFiniteSet(T) /\ Cardinality(T) \in Nat /\ Cardinality(S) \in Nat
           /\ Cardinality(T) <= Cardinality(S)
           /\ T # S => Cardinality(T) < Cardinality(S)
  <1>1. IsFiniteSet(T) /\ Cardinality(T) <= Cardinality(S)
    BY FS_Subset
  <1>2. Cardinality(T) \in Nat /\ Cardinality(S) \in Nat
    BY <1>1, FS_CardinalityType
  <1>3. T # S => Cardinality(T) # Cardinality(S)
    BY FS_Subset
  <1> QED
    BY <1>1, <1>2, <1>3

(* At most one more element makes a set larger by one at most. *)
LEMMA OneMore ==
    ASSUME NEW S, IsFiniteSet(S), NEW T, \A x, y \in T : x = y,
           NEW U, U \subseteq S \cup T
    PROVE  Cardinality(U) <= Cardinality(S) + 1
  <1>1. IsFiniteSet(S) /\ Cardinality(S) \in Nat
    BY FS_CardinalityType
  <1>2. CASE U \subseteq S
    <2>1. Cardinality(U) <= Cardinality(S) /\ Cardinality(U) \in Nat
      BY <1>2, Parts
    <2> QED
      BY <1>1, <2>1
  <1>3. CASE ~(U \subseteq S)
    <2>1. PICK x \in T : x \in U /\ x \notin S
      BY <1>3
    <2>2. U \subseteq S \cup {x}
      BY <2>1
    <2>3. IsFiniteSet(S \cup {x}) /\ Cardinality(S \cup {x}) = Cardinality(S) + 1
      BY <2>1, FS_AddElement
    <2>4. Cardinality(U) <= Cardinality(S \cup {x})
      BY <2>2, <2>3, Parts
    <2> QED
      BY <2>3, <2>4
  <1> QED
    BY <1>2, <1>3

(* The places of rows are numbers. *)
LEMMA PlaceType ==
    ASSUME ExportInv, NEW r
    PROVE  IsFiniteSet(Ahead(r)) /\ Place(r) \in Nat
  <1>1. Ahead(r) \subseteq There /\ IsFiniteSet(There)
    BY DEF Ahead, ExportInv
  <1> QED
    BY <1>1, Parts DEF Place

(* No two rows that the export is held to have the same place. *)
LEMMA PlacesDiffer ==
    ASSUME ExportInv, NEW n
    PROVE  \A r, s \in At(n) : r = s
  <1> SUFFICES ASSUME NEW r \in At(n), NEW s \in At(n), r # s PROVE FALSE
    OBVIOUS
  <1>1. ExportsTypeOK /\ r \in There /\ s \in There /\ OwnKey(r) /\ OwnKey(s)
    BY DEF ExportInv, ExportsTypeOK, At, Sure
  <1>2. \A x, y \in There : Before(x, y) => Place(x) < Place(y)
    <2> SUFFICES ASSUME NEW x \in There, NEW y \in There, Before(x, y)
                 PROVE  Place(x) < Place(y)
      OBVIOUS
    <2>1. Ahead(x) \subseteq Ahead(y)
      BY <1>1, BeforeFacts DEF Ahead
    <2>2. x \in Ahead(y) /\ x \notin Ahead(x)
      BY <1>1, BeforeFacts DEF Ahead
    <2>3. IsFiniteSet(Ahead(y))
      BY PlaceType
    <2> QED
      BY <2>1, <2>2, <2>3, Parts DEF Place
  <1>3. Before(r, s) \/ Before(s, r)
    BY <1>1, BeforeFacts
  <1>4. Place(r) = n /\ Place(s) = n /\ Place(r) \in Nat
    BY PlaceType DEF At
  <1> QED
    BY <1>1, <1>2, <1>3, <1>4

(* A place moves by one at most when one row comes or goes, and only back    *)
(* when it goes, only on when it comes.                                      *)
LEMMA PlaceMoves ==
    ASSUME NEW P, IsFiniteSet(P), NEW Q, NEW x, P \ {x} \subseteq Q, Q \subseteq P \cup {x}
    PROVE  /\ Cardinality(P) \in Nat /\ Cardinality(Q) \in Nat
           /\ Cardinality(Q) <= Cardinality(P) + 1
           /\ Cardinality(P) <= Cardinality(Q) + 1
           /\ P \subseteq Q => Cardinality(P) <= Cardinality(Q)
           /\ Q \subseteq P => Cardinality(Q) <= Cardinality(P)
  <1>1. IsFiniteSet(P \cup {x})
    BY FS_AddElement
  <1>2. IsFiniteSet(Q)
    BY <1>1, Parts
  <1>3. Cardinality(P) \in Nat /\ Cardinality(Q) \in Nat
    BY <1>2, FS_CardinalityType
  <1>4. Cardinality(Q) <= Cardinality(P) + 1
    BY OneMore
  <1>5. Cardinality(P) <= Cardinality(Q) + 1
    <2>1. P \subseteq Q \cup {x}
      OBVIOUS
    <2> QED
      BY <1>2, <2>1, OneMore
  <1>6. P \subseteq Q => Cardinality(P) <= Cardinality(Q)
    BY <1>2, Parts
  <1>7. Q \subseteq P => Cardinality(Q) <= Cardinality(P)
    BY Parts
  <1> QED
    BY <1>3, <1>4, <1>5, <1>6, <1>7

-----------------------------------------------------------------------------
(* The batches. *)

(* Where a row stands whose place is before, in or after a batch. *)
LEMMA BatchPlaces ==
    ASSUME ExportInv, NEW B, B \in Batches(export.skip), NEW r \in Sure
    PROVE  /\ r \in B => /\ export.skip <= Place(r)
                         /\ Place(r) < export.skip + Cardinality(B)
           /\ r \notin B => \/ Place(r) < export.skip
                            \/ /\ Place(r) >= export.skip + BatchSize
                               /\ Cardinality(B) = BatchSize
  <1> DEFINE skip == export.skip
  <1>1. /\ ExportsTypeOK /\ IsFiniteSet(There) /\ r \in There /\ OwnKey(r)
        /\ skip \in Nat /\ BatchSize \in Nat
    BY ExportBounds DEF ExportInv, ExportsTypeOK, Sure
  <1>2. PICK S \in SUBSET (There \ B) :
            /\ Leading(S) /\ Leading(S \cup B)
            /\ Cardinality(S) = skip \/ (Cardinality(S) < skip /\ S = There)
            /\ Cardinality(B) = BatchSize
                  \/ (Cardinality(B) < BatchSize /\ S \cup B = There)
    BY DEF Batches
  <1>3. B \subseteq There /\ S \cup B \subseteq There /\ S \cap B = {}
    BY <1>2 DEF Batches
  <1>4. /\ IsFiniteSet(S) /\ IsFiniteSet(B) /\ IsFiniteSet(S \cup B)
        /\ Cardinality(S) \in Nat /\ Cardinality(B) \in Nat
        /\ Cardinality(S \cup B) = Cardinality(S) + Cardinality(B)
    <2>1. IsFiniteSet(S) /\ IsFiniteSet(B) /\ Cardinality(S) \in Nat /\ Cardinality(B) \in Nat
      BY <1>1, <1>3, Parts
    <2>2. /\ IsFiniteSet(S \cup B)
          /\ Cardinality(S \cup B) = Cardinality(S) + Cardinality(B) - Cardinality({})
      BY <1>3, <2>1, FS_Union
    <2> QED
      BY <2>1, <2>2, FS_EmptySet
  <1>5. IsFiniteSet(Ahead(r)) /\ Place(r) \in Nat
    BY PlaceType
  <1>6. ASSUME NEW T, Leading(T), IsFiniteSet(T), T \subseteq There, r \in T
        PROVE  Place(r) < Cardinality(T)
    <2>1. Ahead(r) \subseteq T /\ r \notin Ahead(r)
      BY <1>1, <1>6, BeforeFacts DEF Ahead, Leading
    <2> QED
      BY <1>6, <2>1, Parts DEF Place
  <1>7. ASSUME NEW T, Leading(T), T \subseteq There, r \notin T
        PROVE  Cardinality(T) <= Place(r)
    <2>1. \A s \in T : ~Before(r, s) /\ s # r
      BY <1>1, <1>7 DEF Leading
    <2>2. T \subseteq Ahead(r)
      BY <1>1, <1>7, <2>1, BeforeFacts DEF Ahead
    <2> QED
      BY <1>5, <2>2, Parts DEF Place
  <1>8. CASE r \in B
    <2>1. Cardinality(S) = skip
      BY <1>1, <1>2, <1>8
    <2>2. Cardinality(S) <= Place(r)
      BY <1>2, <1>3, <1>7, <1>8
    <2>3. Place(r) < Cardinality(S \cup B)
      BY <1>2, <1>3, <1>4, <1>6, <1>8
    <2> QED
      BY <1>4, <1>8, <2>1, <2>2, <2>3
  <1>9. CASE r \in S
    <2>1. Place(r) < Cardinality(S)
      BY <1>2, <1>3, <1>4, <1>6, <1>9
    <2> QED
      BY <1>1, <1>2, <1>3, <1>4, <1>5, <1>9, <2>1
  <1>10. CASE r \notin S \cup B
    <2>1. Cardinality(S) = skip /\ Cardinality(B) = BatchSize
      BY <1>1, <1>2, <1>10
    <2>2. Cardinality(S \cup B) <= Place(r)
      BY <1>2, <1>3, <1>7, <1>10
    <2> QED
      BY <1>4, <1>10, <2>1, <2>2
  <1> QED
    BY <1>8, <1>9, <1>10

-----------------------------------------------------------------------------
(* The steps of an export, and those of others while it runs. *)

(* The rows that an export is held to are finitely many. *)
LEMMA SureFinite ==
    ASSUME ExportInv
    PROVE  /\ IsFiniteSet(Sure)
           /\ IsFiniteSet(Missed) /\ Cardinality(Missed) \in Nat
           /\ IsFiniteSet(Doubled) /\ Cardinality(Doubled) \in Nat
  <1>1. IsFiniteSet(There) /\ Sure \subseteq There
    BY DEF ExportInv, ExportsTypeOK, Sure
  <1>2. IsFiniteSet(Sure)
    BY <1>1, Parts
  <1>3. Missed \subseteq Sure /\ Doubled \subseteq Sure
    BY DEF Missed, Doubled
  <1> QED
    BY <1>2, <1>3, Parts

(* ExportIsComplete in terms of the rows that an export is held to. *)
LEMMA CompleteMeans ==
    ASSUME export.at = "ended" =>
              /\ Cardinality({r \in Sure : written[r] = 0}) <= shrunk
              /\ Cardinality({r \in Sure : written[r] > 1}) <= grown
    PROVE  ExportIsComplete
  BY DEF ExportIsComplete, Sure

(* Nothing is exported at first, so nothing is owed. *)
LEMMA ExportsInitOK ==
    ASSUME NEW t \in Tables, ExportsInit(t)
    PROVE  ExportInv
  <1>1. There = {} /\ IsFiniteSet(There)
    BY FS_EmptySet DEF ExportsInit, There
  <1>2. ExportsTypeOK
    BY <1>1, ExportBounds DEF ExportsInit, ExportsTypeOK, There
  <1> QED
    BY <1>1, <1>2 DEF ExportInv, ExportsInit, ExportIsComplete

(* An export begins before the first row, having written none. *)
LEMMA StartOK ==
    ASSUME ExportInv, Start
    PROVE  ExportInv'
  <1>1. There' = There
    BY DEF Start, There
  <1>2. ExportsTypeOK'
    BY <1>1 DEF ExportInv, ExportsTypeOK, Start, Keys
  <1>3. export' = [at |-> "streaming", skip |-> 0]
    BY DEF Start
  <1>4. \A r \in Sure' : written'[r] = 0 /\ Place(r)' \in Nat
    <2> SUFFICES ASSUME NEW r \in Sure' PROVE written'[r] = 0 /\ Place(r)' \in Nat
      OBVIOUS
    <2>1. r \in Records
      BY <1>1 DEF Sure, Start, ExportInv, ExportsTypeOK
    <2>2. Ahead(r)' = Ahead(r)
      BY <1>1 DEF Ahead, Before, Start
    <2>3. Place(r)' = Place(r)
      BY <2>2 DEF Place
    <2> QED
      BY <2>1, <2>3, PlaceType DEF Start, ExportInv
  <1>5. Missed' = {} /\ Doubled' = {}
    BY <1>3, <1>4 DEF Missed, Doubled
  <1>6. Cardinality(Missed)' = 0 /\ Cardinality(Doubled)' = 0
    BY <1>5, FS_EmptySet
  <1>7. shrunk' >= 0 /\ grown' >= 0
    BY <1>2 DEF ExportsTypeOK
  <1>8. ExportIsComplete'
    BY <1>3 DEF ExportIsComplete
  <1>9. /\ IsFiniteSet(There')
        /\ (table # "movements" => \A r, s \in There : rows[r] = rows[s] => r = s)'
    BY <1>1 DEF ExportInv, Start
  <1> QED
    BY <1>2, <1>3, <1>6, <1>7, <1>8, <1>9 DEF ExportInv

(* A batch writes the rows whose places it covers, and no other row of a key *)
(* of its own: nothing more is owed after it.                                *)
LEMMA StreamOK ==
    ASSUME ExportInv, Stream
    PROVE  ExportInv'
  <1>1. PICK B \in Batches(export.skip) :
            /\ written' = [r \in Records |->
                              IF r \in B THEN written[r] + 1 ELSE written[r]]
            /\ export' = IF Last(B) THEN [export EXCEPT !.at = "ended"]
                         ELSE [export EXCEPT !.skip = @ + BatchSize]
    BY DEF Stream
  <1>2. /\ export.at = "streaming" /\ rows' = rows /\ stayed' = stayed
        /\ grown' = grown /\ shrunk' = shrunk /\ table' = table
    BY DEF Stream
  <1>3. /\ ExportsTypeOK /\ BatchSize \in Nat \ {0}
        /\ export.skip \in Nat /\ Cardinality(Missed) <= shrunk
        /\ Cardinality(Doubled) <= grown /\ grown \in Nat /\ shrunk \in Nat
    BY <1>2, ExportBounds DEF ExportInv, ExportsTypeOK
  <1>4. There' = There
    BY <1>2 DEF There
  <1>5. Sure' = Sure /\ \A r : Place(r)' = Place(r)
    <2>1. Sure' = Sure
      BY <1>2, <1>4 DEF Sure, OwnKey
    <2>2. \A r : Ahead(r)' = Ahead(r)
      BY <1>2, <1>4 DEF Ahead, Before
    <2> QED
      BY <2>1, <2>2 DEF Place
  <1>6. export' \in [at : {"idle", "streaming", "ended"}, skip : Nat]
    <2>1. PICK e \in [at : {"idle", "streaming", "ended"}, skip : Nat] : e = export
      BY <1>3 DEF ExportsTypeOK
    <2> QED
      BY <1>1, <1>3, <2>1
  <1>7. written' \in [Records -> Nat]
    BY <1>1, <1>3 DEF ExportsTypeOK
  <1>8. ExportsTypeOK'
    BY <1>2, <1>3, <1>4, <1>6, <1>7 DEF ExportsTypeOK, Keys
  <1>9. \A r \in Sure : r \in Records /\ Place(r) \in Nat /\ written[r] \in Nat
    BY <1>3, PlaceType DEF Sure, ExportsTypeOK
  <1>10. /\ IsFiniteSet(There')
         /\ (table # "movements" => \A r, s \in There : rows[r] = rows[s] => r = s)'
    BY <1>2, <1>4 DEF ExportInv
  <1>11. Cardinality(B) \in Nat /\ Cardinality(B) <= BatchSize
    <2>1. B \subseteq There /\ IsFiniteSet(There)
      BY DEF Batches, ExportInv
    <2>2. Cardinality(B) \in Nat
      BY <2>1, Parts
    <2>3. Cardinality(B) = BatchSize \/ Cardinality(B) < BatchSize
      BY <1>1 DEF Batches
    <2> QED
      BY <1>3, <2>2, <2>3
  <1>12. \A r \in Sure : /\ r \in B => /\ written'[r] = written[r] + 1
                                       /\ export.skip <= Place(r)
                                       /\ Place(r) < export.skip + Cardinality(B)
                         /\ r \notin B => /\ written'[r] = written[r]
                                          /\ \/ Place(r) < export.skip
                                             \/ /\ Place(r) >= export.skip + BatchSize
                                                /\ Cardinality(B) = BatchSize
    BY <1>1, <1>9, BatchPlaces
  <1>13. CASE ~Last(B)
    <2>1. export' = [export EXCEPT !.skip = @ + BatchSize] /\ Cardinality(B) = BatchSize
      BY <1>1, <1>3, <1>11, <1>13 DEF Last
    <2>2. export'.at = "streaming" /\ export'.skip = export.skip + BatchSize
      <3>1. PICK e \in [at : {"idle", "streaming", "ended"}, skip : Nat] : e = export
        BY <1>3 DEF ExportsTypeOK
      <3> QED
        BY <1>2, <2>1, <3>1
    <2>3. Missed' \subseteq Missed
      <3> SUFFICES ASSUME NEW r \in Missed' PROVE r \in Missed
        OBVIOUS
      <3>1. r \in Sure /\ written'[r] = 0 /\ Place(r) < export.skip + BatchSize
        BY <1>5, <2>2 DEF Missed
      <3>2. r \notin B
        BY <1>9, <1>12, <3>1
      <3> QED
        BY <1>3, <1>9, <1>12, <3>1, <3>2 DEF Missed
    <2>4. Doubled' \subseteq Doubled
      <3> SUFFICES ASSUME NEW r \in Doubled' PROVE r \in Doubled
        OBVIOUS
      <3>1. /\ r \in Sure
            /\ written'[r] > 1 \/ (written'[r] > 0 /\ Place(r) >= export.skip + BatchSize)
        BY <1>5, <2>2 DEF Doubled
      <3>2. CASE r \in B
        <4>1. written'[r] > 1
          BY <1>3, <1>9, <1>12, <2>1, <3>1, <3>2
        <4> QED
          BY <1>9, <1>12, <3>1, <3>2, <4>1 DEF Doubled
      <3>3. CASE r \notin B
        BY <1>3, <1>9, <1>12, <3>1, <3>3 DEF Doubled
      <3> QED
        BY <3>2, <3>3
    <2>5. /\ Cardinality(Missed') <= Cardinality(Missed)
          /\ Cardinality(Doubled') <= Cardinality(Doubled)
          /\ Cardinality(Missed') \in Nat /\ Cardinality(Doubled') \in Nat
      BY <2>3, <2>4, SureFinite, Parts
    <2>6. Cardinality(Missed') <= shrunk' /\ Cardinality(Doubled') <= grown'
      BY <1>2, <1>3, <2>5, SureFinite
    <2>7. ExportIsComplete'
      BY <2>2 DEF ExportIsComplete
    <2> QED
      BY <1>8, <1>10, <2>2, <2>6, <2>7 DEF ExportInv
  <1>14. CASE Last(B)
    <2>1. export' = [export EXCEPT !.at = "ended"] /\ Cardinality(B) < BatchSize
      BY <1>1, <1>14 DEF Last
    <2>2. export'.at = "ended"
      <3>1. PICK e \in [at : {"idle", "streaming", "ended"}, skip : Nat] : e = export
        BY <1>3 DEF ExportsTypeOK
      <3> QED
        BY <2>1, <3>1
    <2>3. {r \in Sure' : written'[r] = 0} \subseteq Missed
      <3> SUFFICES ASSUME NEW r \in Sure, written'[r] = 0 PROVE r \in Missed
        BY <1>5
      <3>1. r \notin B
        BY <1>9, <1>12
      <3> QED
        BY <1>3, <1>11, <1>12, <2>1, <3>1 DEF Missed
    <2>4. {r \in Sure' : written'[r] > 1} \subseteq Doubled
      <3> SUFFICES ASSUME NEW r \in Sure, written'[r] > 1 PROVE r \in Doubled
        BY <1>5
      <3> QED
        BY <1>3, <1>9, <1>12 DEF Doubled
    <2>5. /\ Cardinality({r \in Sure' : written'[r] = 0}) <= Cardinality(Missed)
          /\ Cardinality({r \in Sure' : written'[r] > 1}) <= Cardinality(Doubled)
          /\ Cardinality({r \in Sure' : written'[r] = 0}) \in Nat
          /\ Cardinality({r \in Sure' : written'[r] > 1}) \in Nat
      BY <2>3, <2>4, SureFinite, Parts
    <2>6. /\ Cardinality({r \in Sure' : written'[r] = 0}) <= shrunk'
          /\ Cardinality({r \in Sure' : written'[r] > 1}) <= grown'
      BY <1>2, <1>3, <2>5, SureFinite
    <2>7. ExportIsComplete'
      BY <2>6 DEF ExportIsComplete, Sure
    <2> QED
      BY <1>8, <1>10, <2>2, <2>7 DEF ExportInv
  <1> QED
    BY <1>13, <1>14

(* What one row that comes, goes or is renamed does to the places of those   *)
(* that the export is held to, and to what it owes.                          *)
LEMMA OneRowMoves ==
    ASSUME ExportInv, NEW x, export' = export, written' = written,
           export.at = "streaming",
           \A r \in Sure' : /\ r \in Sure
                            /\ Ahead(r) \ {x} \subseteq Ahead(r)'
                            /\ Ahead(r)' \subseteq Ahead(r) \cup {x}
    PROVE  /\ Cardinality(Missed') \in Nat /\ Cardinality(Doubled') \in Nat
           /\ Cardinality(Missed') <= shrunk + 1
           /\ Cardinality(Doubled') <= grown + 1
           /\ (\A r \in Sure' : Ahead(r) \subseteq Ahead(r)') => Cardinality(Missed') <= shrunk
           /\ (\A r \in Sure' : Ahead(r)' \subseteq Ahead(r)) => Cardinality(Doubled') <= grown
  <1>1. /\ export.skip \in Nat /\ grown \in Nat /\ shrunk \in Nat
        /\ Cardinality(Missed) <= shrunk /\ Cardinality(Doubled) <= grown
        /\ Cardinality(Missed) \in Nat /\ Cardinality(Doubled) \in Nat
        /\ IsFiniteSet(Missed) /\ IsFiniteSet(Doubled)
    BY ExportBounds, SureFinite DEF ExportInv, ExportsTypeOK
  <1>2. \A r \in Sure' : /\ Place(r) \in Nat /\ Place(r)' \in Nat
                         /\ Place(r) <= Place(r)' + 1 /\ Place(r)' <= Place(r) + 1
                         /\ Ahead(r) \subseteq Ahead(r)' => Place(r) <= Place(r)'
                         /\ Ahead(r)' \subseteq Ahead(r) => Place(r)' <= Place(r)
    <2> SUFFICES ASSUME NEW r \in Sure'
                 PROVE  /\ Place(r) \in Nat /\ Place(r)' \in Nat
                        /\ Place(r) <= Place(r)' + 1 /\ Place(r)' <= Place(r) + 1
                        /\ Ahead(r) \subseteq Ahead(r)' => Place(r) <= Place(r)'
                        /\ Ahead(r)' \subseteq Ahead(r) => Place(r)' <= Place(r)
      OBVIOUS
    <2>1. /\ IsFiniteSet(Ahead(r)) /\ Ahead(r) \ {x} \subseteq Ahead(r)'
          /\ Ahead(r)' \subseteq Ahead(r) \cup {x}
      BY PlaceType
    <2> QED
      BY <2>1, PlaceMoves DEF Place
  <1>3. \A r \in Sure' : written[r] \in Nat
    BY DEF Sure, ExportInv, ExportsTypeOK
  <1>4. Missed' \subseteq Missed \cup At(export.skip)
    BY <1>1, <1>2 DEF Missed, At
  <1>5. Doubled' \subseteq Doubled \cup At(export.skip - 1)
    BY <1>1, <1>2, <1>3 DEF Doubled, At
  <1>6. Cardinality(Missed') <= Cardinality(Missed) + 1
    BY <1>1, <1>4, PlacesDiffer, OneMore
  <1>7. Cardinality(Doubled') <= Cardinality(Doubled) + 1
    BY <1>1, <1>5, PlacesDiffer, OneMore
  <1>8. Cardinality(Missed') \in Nat /\ Cardinality(Doubled') \in Nat
    <2>1. Missed' \subseteq Sure /\ Doubled' \subseteq Sure
      BY DEF Missed, Doubled
    <2> QED
      BY <2>1, SureFinite, Parts
  <1>9. ASSUME \A r \in Sure' : Ahead(r) \subseteq Ahead(r)'
        PROVE  Cardinality(Missed') <= shrunk
    <2>1. Missed' \subseteq Missed
      BY <1>1, <1>2, <1>9 DEF Missed
    <2>2. Cardinality(Missed') <= Cardinality(Missed)
      BY <1>1, <2>1, Parts
    <2> QED
      BY <1>1, <1>8, <2>2
  <1>10. ASSUME \A r \in Sure' : Ahead(r)' \subseteq Ahead(r)
         PROVE  Cardinality(Doubled') <= grown
    <2>1. Doubled' \subseteq Doubled
      BY <1>1, <1>2, <1>3, <1>10 DEF Doubled
    <2>2. Cardinality(Doubled') <= Cardinality(Doubled)
      BY <1>1, <2>1, Parts
    <2> QED
      BY <1>1, <1>8, <2>2
  <1>11. Cardinality(Missed') <= shrunk + 1 /\ Cardinality(Doubled') <= grown + 1
    BY <1>1, <1>6, <1>7, <1>8
  <1> QED
    BY <1>8, <1>9, <1>10, <1>11

(* A row that is added is not one that the export is held to; the others     *)
(* move one place on at most.                                                *)
LEMMA InsertOK ==
    ASSUME ExportInv, NEW x \in Records, NEW key \in Keys, Insert(x, key)
    PROVE  ExportInv'
  <1>1. /\ x \notin There /\ ExportsTypeOK
        /\ rows' = [s \in There \cup {x} |-> IF s = x THEN key ELSE rows[s]]
        /\ grown' = IF Running THEN grown + 1 ELSE grown
        /\ export' = export /\ written' = written /\ stayed' = stayed
        /\ shrunk' = shrunk /\ table' = table
        /\ Running => grown < MaxChanges
    BY DEF Insert, ExportInv
  <1>2. There' = There \cup {x} /\ \A s \in There : rows'[s] = rows[s]
    BY <1>1 DEF There
  <1>3. grown \in Nat /\ grown' \in 0..MaxChanges
    BY <1>1, ExportBounds DEF ExportsTypeOK
  <1>4. ExportsTypeOK'
    BY <1>1, <1>2, <1>3 DEF ExportsTypeOK, Keys
  <1>5. IsFiniteSet(There')
    BY <1>2, FS_AddElement DEF ExportInv
  <1>6. (table # "movements" => \A r, s \in There : rows[r] = rows[s] => r = s)'
    <2> SUFFICES ASSUME table # "movements", NEW r \in There', NEW s \in There',
                        rows'[r] = rows'[s]
                 PROVE  r = s
      BY <1>1
    <2>1. Untaken(key) /\ rows'[x] = key
      BY <1>1, <1>2 DEF Insert
    <2> QED
      BY <1>1, <1>2, <2>1 DEF Untaken, ExportInv
  <1>7. \A r \in Sure' : /\ r \in Sure
                         /\ Ahead(r) \ {x} \subseteq Ahead(r)'
                         /\ Ahead(r) \subseteq Ahead(r)'
                         /\ Ahead(r)' \subseteq Ahead(r) \cup {x}
    <2> SUFFICES ASSUME NEW r \in Sure'
                 PROVE  /\ r \in Sure /\ Ahead(r) \subseteq Ahead(r)'
                        /\ Ahead(r)' \subseteq Ahead(r) \cup {x}
      OBVIOUS
    <2>1. r \in stayed /\ r \in There /\ OwnKey(r)'
      BY <1>1 DEF Sure, ExportsTypeOK
    <2>2. OwnKey(r)
      BY <1>2, <2>1 DEF OwnKey
    <2>3. Ahead(r) \subseteq Ahead(r)' /\ Ahead(r)' \subseteq Ahead(r) \cup {x}
      BY <1>1, <1>2, <2>1 DEF Ahead, Before
    <2> QED
      BY <2>1, <2>2, <2>3 DEF Sure
  <1>8. CASE export.at = "streaming"
    <2>1. Cardinality(Missed') <= shrunk /\ Cardinality(Doubled') <= grown + 1
      BY <1>1, <1>7, <1>8, OneRowMoves
    <2>2. Cardinality(Missed') <= shrunk' /\ Cardinality(Doubled') <= grown'
      BY <1>1, <1>8, <2>1 DEF Running
    <2> QED
      BY <1>1, <1>4, <1>5, <1>6, <1>8, <2>2 DEF ExportInv, ExportIsComplete
  <1>9. CASE export.at = "ended"
    <2>1. Sure' \subseteq Sure
      BY <1>7
    <2>2. /\ Cardinality({r \in Sure : written[r] = 0}) <= shrunk
          /\ Cardinality({r \in Sure : written[r] > 1}) <= grown
      BY <1>9 DEF ExportInv, ExportIsComplete, Sure
    <2>3. /\ {r \in Sure' : written'[r] = 0} \subseteq {r \in Sure : written[r] = 0}
          /\ {r \in Sure' : written'[r] > 1} \subseteq {r \in Sure : written[r] > 1}
      BY <1>1, <2>1
    <2>4. /\ IsFiniteSet({r \in Sure : written[r] = 0})
          /\ IsFiniteSet({r \in Sure : written[r] > 1})
      BY SureFinite, Parts
    <2>5. /\ Cardinality({r \in Sure' : written'[r] = 0})
                <= Cardinality({r \in Sure : written[r] = 0})
          /\ Cardinality({r \in Sure' : written'[r] > 1})
                <= Cardinality({r \in Sure : written[r] > 1})
          /\ Cardinality({r \in Sure' : written'[r] = 0}) \in Nat
          /\ Cardinality({r \in Sure' : written'[r] > 1}) \in Nat
          /\ Cardinality({r \in Sure : written[r] = 0}) \in Nat
          /\ Cardinality({r \in Sure : written[r] > 1}) \in Nat
      BY <2>3, <2>4, Parts
    <2>6. shrunk \in Nat /\ grown \in Nat /\ shrunk' = shrunk /\ grown' = grown
      BY <1>1, <1>3, <1>9, ExportBounds DEF Running, ExportsTypeOK
    <2>7. /\ Cardinality({r \in Sure' : written'[r] = 0}) <= shrunk'
          /\ Cardinality({r \in Sure' : written'[r] > 1}) <= grown'
      BY <2>2, <2>5, <2>6
    <2>8. ExportIsComplete'
      BY <2>7 DEF ExportIsComplete, Sure
    <2> QED
      BY <1>1, <1>4, <1>5, <1>6, <1>9, <2>8 DEF ExportInv
  <1>10. CASE export.at = "idle"
    BY <1>1, <1>4, <1>5, <1>6, <1>10 DEF ExportInv, ExportIsComplete
  <1> QED
    BY <1>1, <1>8, <1>9, <1>10 DEF ExportsTypeOK

(* When a row is removed the others move one place back at most: one of them *)
(* may slip past the offset.                                                 *)
LEMMA RemoveOK ==
    ASSUME ExportInv, NEW x \in Records, Remove(x)
    PROVE  ExportInv'
  <1>1. /\ x \in There /\ ExportsTypeOK /\ table # "movements"
        /\ export.at = "streaming"
        /\ rows' = [s \in There \ {x} |-> rows[s]]
        /\ grown' = grown /\ shrunk' = shrunk + 1 /\ shrunk < MaxChanges
        /\ export' = export /\ written' = written /\ stayed' = stayed \ {x}
        /\ table' = table
    BY DEF Remove, Running, ExportInv
  <1>2. There' = There \ {x} /\ \A s \in There \ {x} : rows'[s] = rows[s]
    BY <1>1 DEF There
  <1>3. shrunk \in Nat /\ shrunk' \in 0..MaxChanges
    BY <1>1, ExportBounds DEF ExportsTypeOK
  <1>4. ExportsTypeOK'
    BY <1>1, <1>2, <1>3 DEF ExportsTypeOK, Keys
  <1>5. IsFiniteSet(There')
    BY <1>2, Parts DEF ExportInv
  <1>6. \A r, s \in There : rows[r] = rows[s] => r = s
    BY <1>1 DEF ExportInv
  <1>7. (table # "movements" => \A r, s \in There : rows[r] = rows[s] => r = s)'
    BY <1>2, <1>6
  <1>8. \A r \in Sure' : /\ r \in Sure
                         /\ Ahead(r) \ {x} \subseteq Ahead(r)'
                         /\ Ahead(r)' \subseteq Ahead(r)
                         /\ Ahead(r)' \subseteq Ahead(r) \cup {x}
    <2> SUFFICES ASSUME NEW r \in Sure'
                 PROVE  /\ r \in Sure /\ Ahead(r) \ {x} \subseteq Ahead(r)'
                        /\ Ahead(r)' \subseteq Ahead(r)
      OBVIOUS
    <2>1. r \in stayed /\ r \in There \ {x}
      BY <1>1 DEF Sure, ExportsTypeOK
    <2>2. OwnKey(r)
      BY <1>6, <2>1 DEF OwnKey
    <2>3. Ahead(r) \ {x} \subseteq Ahead(r)' /\ Ahead(r)' \subseteq Ahead(r)
      BY <1>1, <1>2, <2>1 DEF Ahead, Before
    <2> QED
      BY <2>1, <2>2, <2>3 DEF Sure
  <1>9. Cardinality(Missed') <= shrunk + 1 /\ Cardinality(Doubled') <= grown
    BY <1>1, <1>8, OneRowMoves
  <1>10. Cardinality(Missed') <= shrunk' /\ Cardinality(Doubled') <= grown'
    BY <1>1, <1>9
  <1> QED
    BY <1>1, <1>4, <1>5, <1>7, <1>10 DEF ExportInv, ExportIsComplete

(* A row that is renamed may move to either side of any other. *)
LEMMA RenameOK ==
    ASSUME ExportInv, NEW x \in Records, NEW key \in Keys, Rename(x, key)
    PROVE  ExportInv'
  <1>1. /\ x \in There /\ ExportsTypeOK /\ table # "movements" /\ Untaken(key)
        /\ export.at = "streaming"
        /\ rows' = [rows EXCEPT ![x] = key]
        /\ grown' = grown + 1 /\ grown < MaxChanges
        /\ shrunk' = shrunk + 1 /\ shrunk < MaxChanges
        /\ export' = export /\ written' = written /\ stayed' = stayed \ {x}
        /\ table' = table
    BY DEF Rename, Running, ExportInv
  <1>2. /\ There' = There /\ \A s \in There \ {x} : rows'[s] = rows[s]
        /\ rows'[x] = key /\ rows' \in [There -> Keys]
    BY <1>1 DEF There, ExportsTypeOK
  <1>3. /\ shrunk \in Nat /\ shrunk' \in 0..MaxChanges
        /\ grown \in Nat /\ grown' \in 0..MaxChanges
    BY <1>1, ExportBounds DEF ExportsTypeOK
  <1>4. ExportsTypeOK'
    BY <1>1, <1>2, <1>3 DEF ExportsTypeOK, Keys
  <1>5. IsFiniteSet(There')
    BY <1>2 DEF ExportInv
  <1>6. \A r, s \in There : rows[r] = rows[s] => r = s
    BY <1>1 DEF ExportInv
  <1>7. (table # "movements" => \A r, s \in There : rows[r] = rows[s] => r = s)'
    BY <1>1, <1>2, <1>6 DEF Untaken
  <1>8. \A r \in Sure' : /\ r \in Sure
                         /\ Ahead(r) \ {x} \subseteq Ahead(r)'
                         /\ Ahead(r)' \subseteq Ahead(r) \cup {x}
    <2> SUFFICES ASSUME NEW r \in Sure'
                 PROVE  /\ r \in Sure /\ Ahead(r) \ {x} \subseteq Ahead(r)'
                        /\ Ahead(r)' \subseteq Ahead(r) \cup {x}
      OBVIOUS
    <2>1. r \in stayed /\ r \in There \ {x}
      BY <1>1 DEF Sure, ExportsTypeOK
    <2>2. OwnKey(r)
      BY <1>6, <2>1 DEF OwnKey
    <2>3. Ahead(r) \ {x} \subseteq Ahead(r)' /\ Ahead(r)' \subseteq Ahead(r) \cup {x}
      BY <1>1, <1>2, <2>1 DEF Ahead, Before
    <2> QED
      BY <2>1, <2>2, <2>3 DEF Sure
  <1>9. Cardinality(Missed') <= shrunk + 1 /\ Cardinality(Doubled') <= grown + 1
    BY <1>1, <1>8, OneRowMoves
  <1>10. Cardinality(Missed') <= shrunk' /\ Cardinality(Doubled') <= grown'
    BY <1>1, <1>9
  <1> QED
    BY <1>1, <1>4, <1>5, <1>7, <1>10 DEF ExportInv, ExportIsComplete

(* Each step of an export, and of the requests beside it, keeps ExportInv.   *)
LEMMA ExportsStepOK ==
    ASSUME ExportInv, ExportsNext
    PROVE  ExportInv'
  BY StartOK, StreamOK, InsertOK, RemoveOK, RenameOK DEF ExportsNext

-----------------------------------------------------------------------------
(* The dashboard: its tables against those of the API. *)

(* What makes a control honest: its route asks for the permission that the   *)
(* control asks for and no other, and takes a document in the statuses, and  *)
(* the bulk transitions, that the control offers.                            *)
Honest(control) ==
    /\ Routes[control.route[1]][control.route[2]] = {control.asks}
    /\ control.rows # {} =>
          /\ "no row" \notin control.rows
          /\ control.rows \subseteq Transitions[control.route[1]][control.route[2]].from
    /\ control.bulk # "none" => control.bulk \in BulkTransitions[control.route[1]]

(* What a page that is on its way was offered for; nothing offered has been  *)
(* refused.                                                                  *)
DashboardInv ==
    /\ DashboardTypeOK
    /\ screen.at = "page" /\ screen.offeredTo # NoLink =>
          Navigation[screen.page] \in PermissionsFor(screen.offeredTo)
    /\ OffersAreHonoured

(* Every role may do what STAFF may, and nobody else may do anything. *)
LEMMA EveryRole ==
    /\ \A role \in Roles : StaffPermissions \subseteq PermissionsFor(role)
    /\ PermissionsFor("none") = {}
  BY DEF Roles, PermissionsFor, AdminPermissions, ManagerPermissions

(* Every page may be read by every role. *)
LEMMA PagesReadable ==
    ASSUME NEW p \in Pages, NEW role \in Roles, NEW r \in PageReads[p]
    PROVE  Permits(role, r)
  <1>1. r \in {<<"reports", "dashboard">>, <<"warehouses", "list">>, <<"products", "list">>,
               <<"categories", "list">>, <<"suppliers", "list">>, <<"stock", "listLevels">>,
               <<"stock", "lowStock">>, <<"stock", "listMovements">>, <<"transfers", "list">>,
               <<"purchaseOrders", "list">>, <<"salesOrders", "list">>,
               <<"organization", "listMembers">>, <<"jobs", "list">>}
    BY DEF Pages, Navigation, PageReads, Lists
  <1>2. /\ Routes["reports"]["dashboard"] = {"report:read"}
        /\ Routes["warehouses"]["list"] = {"warehouse:read"}
        /\ Routes["products"]["list"] = {"product:read"}
        /\ Routes["categories"]["list"] = {"category:read"}
        /\ Routes["suppliers"]["list"] = {"supplier:read"}
    BY DEF Routes, ReportRoutes, WarehouseRoutes, ProductRoutes, CategoryRoutes,
           SupplierRoutes
  <1>3. /\ Routes["stock"]["listLevels"] = {"stock:read"}
        /\ Routes["stock"]["lowStock"] = {"replenishment:read"}
        /\ Routes["stock"]["listMovements"] = {"movement:read"}
        /\ Routes["transfers"]["list"] = {"stock:read"}
        /\ Routes["purchaseOrders"]["list"] = {"purchase_order:read"}
        /\ Routes["salesOrders"]["list"] = {"sales_order:read"}
        /\ Routes["organization"]["listMembers"] = {"member:read"}
        /\ Routes["jobs"]["list"] = {"job:read"}
    BY DEF Routes, StockRoutes, TransferRoutes, PurchaseOrderRoutes, SalesOrderRoutes,
           OrganizationRoutes, JobRoutes
  <1>4. Routes[r[1]][r[2]] \subseteq StaffPermissions
    BY <1>1, <1>2, <1>3 DEF StaffPermissions
  <1> QED
    BY <1>4, EveryRole DEF Permits

(* A button is honest if its route asks for what it asks for. *)
LEMMA ControlHonest ==
    ASSUME NEW asks, NEW c, NEW h, Routes[c][h] = {asks}
    PROVE  Honest(Control(asks, c, h))
  BY DEF Honest, Control

(* A button of a row is, if its route also takes the statuses it needs. *)
LEMMA RowControlHonest ==
    ASSUME NEW asks, NEW c, NEW h, NEW statuses, Routes[c][h] = {asks},
           statuses \subseteq Transitions[c][h].from, "no row" \notin statuses
    PROVE  Honest(RowControl(asks, c, h, statuses))
  <1>1. PICK k : k = RowControl(asks, c, h, statuses)
    OBVIOUS
  <1>2. k.asks = asks /\ k.route = <<c, h>> /\ k.rows = statuses /\ k.bulk = "none"
    BY <1>1 DEF RowControl, Control
  <1>3. k.route[1] = c /\ k.route[2] = h
    <2>1. <<c, h>>[1] = c /\ <<c, h>>[2] = h
      OBVIOUS
    <2> QED
      BY <1>2, <2>1, Zenon
  <1>4. Honest(k)
    BY <1>2, <1>3 DEF Honest
  <1> QED
    BY <1>1, <1>4

(* A bulk bar is, if its route asks for the same and runs its transitions. *)
LEMMA BulkBarHonest ==
    ASSUME NEW asks, NEW c, NEW ts, Routes[c]["bulk"] = {asks},
           ts \subseteq BulkTransitions[c],
           NEW k \in BulkBar(asks, c, ts)
    PROVE  Honest(k)
  <1>1. PICK t \in ts : k = [Control(asks, c, "bulk") EXCEPT !.bulk = t]
    BY DEF BulkBar
  <1>2. k.asks = asks /\ k.route = <<c, "bulk">> /\ k.rows = {} /\ k.bulk = t
    BY <1>1 DEF Control
  <1> QED
    BY <1>2 DEF Honest

(* The buttons and the bulk bar of the transfers. *)
LEMMA TransfersHonest == \A k \in TransferControls : Honest(k)
  <1>1. \A h \in {"create", "dispatch", "receive", "cancel", "bulk"} :
            Routes["transfers"][h] = {"stock:transfer"}
    BY DEF Routes, TransferRoutes
  <1>2. /\ Transitions["transfers"]["dispatch"].from = {"DRAFT"}
        /\ Transitions["transfers"]["receive"].from = {"IN_TRANSIT"}
        /\ Transitions["transfers"]["cancel"].from = {"DRAFT", "IN_TRANSIT"}
        /\ BulkTransitions["transfers"] = {"dispatch", "receive", "cancel"}
    BY DEF Transitions, BulkTransitions
  <1>3. Honest(Control("stock:transfer", "transfers", "create"))
    BY <1>1, ControlHonest
  <1>4. /\ Honest(RowControl("stock:transfer", "transfers", "dispatch", {"DRAFT"}))
        /\ Honest(RowControl("stock:transfer", "transfers", "receive", {"IN_TRANSIT"}))
        /\ Honest(RowControl("stock:transfer", "transfers", "cancel", {"DRAFT", "IN_TRANSIT"}))
    BY <1>1, <1>2, RowControlHonest
  <1>5. \A k \in BulkBar("stock:transfer", "transfers", {"dispatch", "receive", "cancel"}) :
            Honest(k)
    BY <1>1, <1>2, BulkBarHonest
  <1> QED
    BY <1>3, <1>4, <1>5 DEF TransferControls

(* The buttons and the bulk bar of the purchase orders. *)
LEMMA PurchaseOrdersHonest == \A k \in PurchaseOrderControls : Honest(k)
  <1>1. /\ \A h \in {"create", "submit", "cancel", "bulk"} :
               Routes["purchaseOrders"][h] = {"purchase_order:manage"}
        /\ Routes["purchaseOrders"]["receive"] = {"purchase_order:receive"}
    BY DEF Routes, PurchaseOrderRoutes
  <1>2. /\ Transitions["purchaseOrders"]["submit"].from = {"DRAFT"}
        /\ Transitions["purchaseOrders"]["receive"].from
              = {"SUBMITTED", "PARTIALLY_RECEIVED"}
        /\ Transitions["purchaseOrders"]["cancel"].from = {"DRAFT", "SUBMITTED"}
        /\ BulkTransitions["purchaseOrders"] = {"submit", "receive", "cancel"}
    BY DEF Transitions, BulkTransitions
  <1>3. Honest(Control("purchase_order:manage", "purchaseOrders", "create"))
    BY <1>1, ControlHonest
  <1>4. /\ Honest(RowControl("purchase_order:manage", "purchaseOrders", "submit", {"DRAFT"}))
        /\ Honest(RowControl("purchase_order:manage", "purchaseOrders", "cancel", {"DRAFT"}))
        /\ Honest(RowControl("purchase_order:receive", "purchaseOrders", "receive",
                             {"SUBMITTED", "PARTIALLY_RECEIVED"}))
    BY <1>1, <1>2, RowControlHonest
  <1>5. \A k \in BulkBar("purchase_order:manage", "purchaseOrders",
                         {"submit", "receive", "cancel"}) : Honest(k)
    BY <1>1, <1>2, BulkBarHonest
  <1> QED
    BY <1>3, <1>4, <1>5 DEF PurchaseOrderControls

(* The buttons and the bulk bar of the sales orders. *)
LEMMA SalesOrdersHonest == \A k \in SalesOrderControls : Honest(k)
  <1>1. /\ \A h \in {"create", "allocate", "cancel", "bulk"} :
               Routes["salesOrders"][h] = {"sales_order:manage"}
        /\ Routes["salesOrders"]["fulfill"] = {"sales_order:fulfill"}
    BY DEF Routes, SalesOrderRoutes
  <1>2. /\ Transitions["salesOrders"]["allocate"].from = {"DRAFT"}
        /\ Transitions["salesOrders"]["fulfill"].from = {"ALLOCATED", "PARTIALLY_FULFILLED"}
        /\ Transitions["salesOrders"]["cancel"].from
              = {"DRAFT", "ALLOCATED", "PARTIALLY_FULFILLED"}
        /\ BulkTransitions["salesOrders"] = {"allocate", "fulfill", "cancel"}
    BY DEF Transitions, BulkTransitions
  <1>3. Honest(Control("sales_order:manage", "salesOrders", "create"))
    BY <1>1, ControlHonest
  <1>4. /\ Honest(RowControl("sales_order:manage", "salesOrders", "allocate", {"DRAFT"}))
        /\ Honest(RowControl("sales_order:fulfill", "salesOrders", "fulfill",
                             {"ALLOCATED", "PARTIALLY_FULFILLED"}))
        /\ Honest(RowControl("sales_order:manage", "salesOrders", "cancel",
                             {"DRAFT", "ALLOCATED", "PARTIALLY_FULFILLED"}))
    BY <1>1, <1>2, RowControlHonest
  <1>5. \A k \in BulkBar("sales_order:manage", "salesOrders",
                         {"allocate", "fulfill", "cancel"}) : Honest(k)
    BY <1>1, <1>2, BulkBarHonest
  <1> QED
    BY <1>3, <1>4, <1>5 DEF SalesOrderControls

(* No control of any page offers what its route refuses. *)
LEMMA ControlsHonest ==
    ASSUME NEW p \in Pages
    PROVE  \A k \in Controls[p] : Honest(k)
  <1>1. \A k \in WarehouseControls : Honest(k)
    <2>1. /\ Routes["warehouses"]["create"] = {"warehouse:create"}
          /\ Routes["warehouses"]["remove"] = {"warehouse:delete"}
      BY DEF Routes, WarehouseRoutes
    <2> QED
      BY <2>1, ControlHonest DEF WarehouseControls
  <1>2. \A k \in ProductControls : Honest(k)
    <2>1. /\ Routes["products"]["create"] = {"product:create"}
          /\ Routes["products"]["bulkUpdate"] = {"product:update"}
      BY DEF Routes, ProductRoutes
    <2> QED
      BY <2>1, ControlHonest DEF ProductControls
  <1>3. \A k \in InventoryControls : Honest(k)
    <2>1. /\ Routes["stock"]["recordMovement"] = {"movement:record"}
          /\ Routes["stock"]["adjust"] = {"stock:adjust"}
          /\ Routes["stock"]["setReplenishmentRule"] = {"replenishment:manage"}
      BY DEF Routes, StockRoutes
    <2> QED
      BY <2>1, ControlHonest DEF InventoryControls
  <1>4. Controls[p] \in {WarehouseControls, ProductControls, InventoryControls,
                         TransferControls, PurchaseOrderControls, SalesOrderControls, {}}
    BY DEF Controls
  <1> QED
    BY <1>1, <1>2, <1>3, <1>4, TransfersHonest, PurchaseOrdersHonest, SalesOrdersHonest

-----------------------------------------------------------------------------
(* The dashboard: its steps. *)

(* A screen is blank or shows a page. *)
LEMMA ScreenKinds ==
    ASSUME DashboardTypeOK
    PROVE  \/ screen \in Screen /\ screen.at = "page" /\ screen.page \in Pages
              /\ screen.role \in Roles \cup {"none"}
              /\ screen.offeredTo \in Roles \cup {NoLink}
           \/ screen = Blank /\ screen.awaits = {} /\ screen.at = "blank"
  <1>1. \A s \in Screen : /\ s.at = "page" /\ s.page \in Pages
                          /\ s.role \in Roles \cup {"none"}
                          /\ s.offeredTo \in Roles \cup {NoLink}
    BY DEF Screen
  <1>2. Blank.awaits = {} /\ Blank.at = "blank"
    BY DEF Blank
  <1> QED
    BY <1>1, <1>2 DEF DashboardTypeOK

(* The viewer's role is one of the roles, or none. *)
LEMMA RoleType ==
    ASSUME MembersInv
    PROVE  Role \in Roles \cup {"none"} /\ Scope \subseteq Warehouses
  <1>1. \A m \in DOMAIN members : members[m].role \in Roles
    BY RowTypes DEF MembersInv, Membership
  <1>2. MemberOf(Viewer) \subseteq DOMAIN members
    BY DEF MemberOf, Live
  <1> QED
    BY <1>1, <1>2 DEF Role, Scope

(* A page that is asked for. *)
LEMMA RequestedOK ==
    ASSUME NEW p \in Pages, NEW role \in Roles \cup {NoLink}
    PROVE  /\ Requested(p, role) \in Screen /\ Requested(p, role).at = "page"
           /\ Requested(p, role).page = p /\ Requested(p, role).offeredTo = role
  BY DEF Requested, Screen, Answers

(* A page one answer of which has come: the link to it is gone with the last. *)
LEMMA AnsweredOK ==
    ASSUME NEW part, NEW page \in Screen, screen \in Screen
    PROVE  /\ Answered(part, page) \in Screen /\ Answered(part, page).at = "page"
           /\ Answered(part, page).page = page.page
           /\ Answered(part, page).offeredTo \in {page.offeredTo, NoLink}
  <1>1. PICK rest : rest = screen.awaits \ {part}
    OBVIOUS
  <1>2. rest \in SUBSET Answers
    BY <1>1 DEF Screen
  <1>3. Answered(part, page) =
          [page EXCEPT !.awaits = rest, !.offeredTo = IF rest = {} THEN NoLink ELSE @]
    BY <1>1 DEF Answered
  <1> QED
    BY <1>2, <1>3 DEF Screen

(* A screen whose link, if it has one, the offered role was entitled to.     *)
Entitled(s) ==
    s.at = "page" /\ s.offeredTo # NoLink =>
        Navigation[s.page] \in PermissionsFor(s.offeredTo)

(* The dashboard starts blank, with a draft. *)
LEMMA DashboardInitOK ==
    ASSUME NEW kind \in Kinds, DashboardInit(kind)
    PROVE  DashboardInv
  <1>1. "DRAFT" \in Statuses
    <2>1. "transfers" \in Kinds
      BY DEF Kinds, Transitions
    <2>2. /\ "dispatch" \in DOMAIN Transitions["transfers"]
          /\ "DRAFT" \in Transitions["transfers"]["dispatch"].from
      BY DEF Transitions
    <2> QED
      BY <2>1, <2>2 DEF Statuses
  <1>2. screen = Blank /\ screen.at = "blank"
    BY DEF DashboardInit, Blank
  <1>3. DashboardTypeOK
    BY <1>1, <1>2 DEF DashboardInit, DashboardTypeOK
  <1>4. OffersAreHonoured
    BY DEF DashboardInit, OffersAreHonoured
  <1> QED
    BY <1>2, <1>3, <1>4 DEF DashboardInv

(* A step that refuses nothing keeps DashboardInv with its new screen. *)
LEMMA ScreenChanges ==
    ASSUME DashboardInv, screen' \in Screen \cup {Blank}, Entitled(screen'),
           document' \in [kind : Kinds, status : Statuses], betrayed' = betrayed
    PROVE  DashboardInv'
  BY DEF DashboardInv, DashboardTypeOK, OffersAreHonoured, Entitled

(* Asking for a page, by its address or by its link.  The link was shown to  *)
(* a role that has its permission.                                           *)
LEMMA OpenOK ==
    ASSUME DashboardInv, NEW p \in Pages, Open(p) \/ Follow(p)
    PROVE  DashboardInv'
  <1>1. document' = document /\ document \in [kind : Kinds, status : Statuses]
    BY DEF Open, Follow, DashboardInv, DashboardTypeOK
  <1>2. CASE Open(p)
    <2>1. screen' = Requested(p, NoLink)
      BY <1>2 DEF Open
    <2>2. screen' \in Screen /\ Entitled(screen')
      BY <2>1, RequestedOK DEF Entitled
    <2> QED
      BY <1>1, <1>2, <2>2, ScreenChanges DEF Open
  <1>3. CASE Follow(p)
    <2>1. screen' = Requested(p, screen.role) /\ Navigation[p] \in PermissionsFor(screen.role)
      BY <1>3 DEF Follow
    <2>2. screen.at = "page"
      BY <1>3 DEF Follow, Shown
    <2>3. screen.role \in Roles
      <3>1. screen.role \in Roles \cup {"none"}
        BY <2>2, ScreenKinds DEF DashboardInv
      <3> QED
        BY <2>1, <3>1, EveryRole
    <2>4. screen' \in Screen /\ Entitled(screen')
      BY <2>1, <2>3, RequestedOK DEF Entitled
    <2> QED
      BY <1>1, <1>3, <2>4, ScreenChanges DEF Follow
  <1> QED
    BY <1>2, <1>3

(* An answer that comes in leaves the link as it was, or takes it away. *)
LEMMA AnswerOK ==
    ASSUME DashboardInv, screen \in Screen, NEW part, NEW page \in Screen,
           page.page = screen.page, page.offeredTo = screen.offeredTo,
           screen' = Answered(part, page), UNCHANGED <<document, betrayed>>
    PROVE  DashboardInv'
  <1>1. /\ screen' \in Screen /\ screen'.page = screen.page
        /\ screen'.offeredTo \in {screen.offeredTo, NoLink}
    BY AnsweredOK
  <1>2. screen.at = "page"
    BY DEF Screen
  <1>3. Entitled(screen')
    BY <1>1, <1>2 DEF Entitled, DashboardInv
  <1> QED
    BY <1>1, <1>3, ScreenChanges DEF DashboardInv, DashboardTypeOK

(* The session is answered. *)
LEMMA ReadSessionOK ==
    ASSUME MembersInv, DashboardInv, ReadSession
    PROVE  DashboardInv'
  <1>1. screen \in Screen
    BY ScreenKinds DEF ReadSession, DashboardInv
  <1>2. PICK page : page = [screen EXCEPT !.role = Role]
    OBVIOUS
  <1>3. PICK role \in Roles \cup {"none"} : role = Role
    BY RoleType
  <1>4. page \in Screen /\ page.page = screen.page /\ page.offeredTo = screen.offeredTo
    BY <1>1, <1>2, <1>3 DEF Screen
  <1> QED
    BY <1>1, <1>2, <1>4, AnswerOK DEF ReadSession

(* The lists are answered; a person whose role still is the one that the     *)
(* link was shown for is refused none of them.                               *)
LEMMA ReadListsOK ==
    ASSUME MembersInv, DashboardInv, ReadLists
    PROVE  DashboardInv'
  <1>1. /\ screen \in Screen /\ screen.at = "page" /\ screen.page \in Pages
        /\ screen.offeredTo \in Roles \cup {NoLink}
    BY ScreenKinds DEF ReadLists, DashboardInv
  <1>2. document \in [kind : Kinds, status : Statuses] /\ document' = document
    BY DEF ReadLists, DashboardInv, DashboardTypeOK
  <1>3. CASE \A r \in PageReads[screen.page] : Permits(Role, r)
    <2>1. PICK listed \in Statuses \cup {"no row"} :
              listed = IF document.kind = screen.page THEN document.status
                       ELSE screen.listed
      BY <1>1, <1>2 DEF Screen
    <2>2. PICK sites \in SUBSET Warehouses : sites = Scope
      BY RoleType
    <2>3. PICK page : page = [screen EXCEPT !.listed = listed, !.sites = sites]
      OBVIOUS
    <2>4. page \in Screen /\ page.page = screen.page /\ page.offeredTo = screen.offeredTo
      BY <1>1, <2>1, <2>2, <2>3 DEF Screen
    <2>5. screen' = Answered("lists", page) /\ UNCHANGED <<document, betrayed>>
      BY <1>3, <2>1, <2>2, <2>3 DEF ReadLists
    <2> QED
      BY <1>1, <2>4, <2>5, AnswerOK
  <1>4. CASE ~(\A r \in PageReads[screen.page] : Permits(Role, r))
    <2>1. screen' = Blank /\ betrayed' = (betrayed \/ screen.offeredTo = Role)
      BY <1>4 DEF ReadLists
    <2>2. Role \notin Roles
      BY <1>1, <1>4, PagesReadable
    <2>3. screen.offeredTo # Role
      <3>1. Role = "none"
        BY <2>2, RoleType
      <3> QED
        BY <1>1, <3>1 DEF Roles, NoLink
    <2>4. betrayed' = betrayed
      BY <2>1, <2>3 DEF DashboardInv, DashboardTypeOK
    <2>5. Entitled(Blank)
      BY DEF Entitled, Blank
    <2> QED
      BY <1>2, <2>1, <2>4, <2>5, ScreenChanges
  <1> QED
    BY <1>3, <1>4

(* Where a transition may take a document is among the statuses. *)
LEMMA TransitionsStay ==
    ASSUME DashboardInv, NEW t \in DOMAIN Transitions[document.kind],
           NEW s \in Transitions[document.kind][t].to
    PROVE  [document EXCEPT !.status = s] \in [kind : Kinds, status : Statuses]
  <1>1. document \in [kind : Kinds, status : Statuses] /\ document.kind \in Kinds
    BY DEF DashboardInv, DashboardTypeOK
  <1>2. s \in Statuses
    BY <1>1 DEF Statuses
  <1> QED
    BY <1>1, <1>2

(* A control that is pressed: the API accepts it if the role, the warehouses *)
(* and the status still are those that the page had read.                    *)
LEMMA PressOK ==
    ASSUME MembersInv, DashboardInv, NEW w \in Warehouses, Shown,
           NEW control \in Controls[screen.page], Press(control, w)
    PROVE  DashboardInv'
  <1>1. /\ screen \in Screen /\ screen.page \in Pages
        /\ screen.role \in Roles \cup {"none"}
    BY ScreenKinds DEF Shown, DashboardInv
  <1>2. Honest(control)
    BY <1>1, ControlsHonest
  <1>3. document \in [kind : Kinds, status : Statuses] /\ betrayed \in BOOLEAN
    BY DEF DashboardInv, DashboardTypeOK
  <1>4. CASE Accepts(control, w)
    <2>1. /\ document' \in {document} \cup After(control)
          /\ screen' = Requested(screen.page, NoLink) /\ betrayed' = betrayed
      BY <1>4 DEF Press
    <2>2. document' \in [kind : Kinds, status : Statuses]
      <3>1. CASE document' = document
        BY <1>3, <3>1
      <3>2. CASE document' \in After(control)
        <4>1. PICK t \in DOMAIN Transitions[document.kind] :
                  \E s \in Transitions[document.kind][t].to :
                     document' = [document EXCEPT !.status = s]
          BY <3>2 DEF After
        <4> QED
          BY <4>1, TransitionsStay
      <3> QED
        BY <2>1, <3>1, <3>2
    <2>3. screen' \in Screen /\ Entitled(screen')
      BY <1>1, <2>1, RequestedOK DEF Entitled
    <2> QED
      BY <2>1, <2>2, <2>3, ScreenChanges
  <1>5. CASE ~Accepts(control, w)
    <2>1. /\ screen' = screen /\ document' = document
          /\ betrayed' = (betrayed \/ (/\ screen.role = Role
                                       /\ screen.sites = Scope
                                       /\ screen.listed \in {document.status, "no row"}))
      BY <1>5 DEF Press
    <2>2. ASSUME screen.role = Role, screen.sites = Scope,
                 screen.listed \in {document.status, "no row"}
          PROVE  FALSE
      <3>1. /\ control.asks \in PermissionsFor(Role)
            /\ control.rows = {} \/ screen.listed \in control.rows
            /\ w \in Scope
        BY <2>2 DEF Press, Offered
      <3>2. Permits(Role, control.route)
        BY <1>2, <3>1 DEF Honest, Permits
      <3>3. control.rows # {} =>
               document.status \in Transitions[control.route[1]][control.route[2]].from
        BY <1>2, <2>2, <3>1 DEF Honest
      <3>4. control.bulk # "none" => control.bulk \in BulkTransitions[control.route[1]]
        BY <1>2 DEF Honest
      <3> QED
        BY <1>5, <3>1, <3>2, <3>3, <3>4 DEF Accepts
    <2>3. betrayed' = betrayed
      BY <1>3, <2>1, <2>2
    <2>4. screen' \in Screen /\ Entitled(screen')
      BY <1>1, <2>1 DEF DashboardInv, Entitled
    <2> QED
      BY <1>3, <2>1, <2>3, <2>4, ScreenChanges
  <1> QED
    BY <1>4, <1>5

(* Somebody else moves the document on. *)
LEMMA ElsewhereOK ==
    ASSUME DashboardInv, NEW t \in DOMAIN Transitions[document.kind], Elsewhere(t)
    PROVE  DashboardInv'
  <1>1. document' \in [kind : Kinds, status : Statuses]
    BY TransitionsStay DEF Elsewhere
  <1>2. screen' = screen /\ betrayed' = betrayed
    BY DEF Elsewhere
  <1> QED
    BY <1>1, <1>2 DEF DashboardInv, DashboardTypeOK, OffersAreHonoured, Screen, Blank

(* Each step at the dashboard keeps DashboardInv. *)
LEMMA DashboardStepOK ==
    ASSUME MembersInv, DashboardInv, DashboardNext
    PROVE  DashboardInv'
  <1>1. CASE \E p \in Pages : Open(p) \/ Follow(p)
    BY <1>1, OpenOK
  <1>2. CASE ReadSession \/ ReadLists
    BY <1>2, ReadSessionOK, ReadListsOK
  <1>3. CASE \E w \in Warehouses :
                Shown /\ \E control \in Controls[screen.page] : Press(control, w)
    BY <1>3, PressOK
  <1>4. CASE \E t \in DOMAIN Transitions[document.kind] : Elsewhere(t)
    BY <1>4, ElsewhereOK
  <1> QED
    BY <1>1, <1>2, <1>3, <1>4 DEF DashboardNext

-----------------------------------------------------------------------------
(* The whole. *)

(* The parts together. *)
WorkspaceInv ==
    /\ CatalogueInv /\ MembersInv /\ DashboardInv /\ ExportInv
    /\ focus \in Focuses

(* Each part begins as its invariant says. *)
LEMMA WorkspaceInitOK ==
    ASSUME Init
    PROVE  WorkspaceInv
  <1>1. CatalogueInv
    BY CatalogueInitOK DEF Init, Rows
  <1>2. MembersInv
    BY MembersInitOK DEF Init
  <1>3. DashboardInv
    <2>1. PICK kind \in IF "dashboard" \in focus THEN Kinds ELSE {"transfers"} :
              DashboardInit(kind)
      BY DEF Init
    <2>2. "transfers" \in Kinds
      BY DEF Kinds, Transitions
    <2> QED
      BY <2>1, <2>2, DashboardInitOK
  <1>4. ExportInv
    <2>1. PICK t \in IF "exports" \in focus THEN Tables ELSE {"products"} : ExportsInit(t)
      BY DEF Init
    <2> QED
      BY <2>1, ExportsInitOK DEF Tables
  <1> QED
    BY <1>1, <1>2, <1>3, <1>4 DEF WorkspaceInv, Init

(* Parts that a step leaves alone stay as their invariants say. *)
LEMMA CatalogueRests ==
    ASSUME CatalogueInv, UNCHANGED catalogueVars
    PROVE  CatalogueInv'
  <1>1. CatalogueTypeOK' /\ ReferencesSurvive'
    BY DEF CatalogueInv, catalogueVars, CatalogueTypeOK, ReferencesSurvive, FiledUnder
  <1>2. ClerksOK'
    BY SameClerks DEF catalogueVars
  <1> QED
    BY <1>1, <1>2 DEF CatalogueInv

(* The same of the members. *)
LEMMA MembersRest ==
    ASSUME MembersInv, UNCHANGED <<memberVars, present>>
    PROVE  MembersInv'
  <1>1. Forward /\ \A r : Undisturbed(r)
    BY CalmFacts DEF memberVars
  <1>2. requests' \in [Callers -> MemberRequest \cup {Idle}] /\ RequestsOK'
    BY <1>1, AllStay DEF memberVars
  <1> QED
    BY <1>2, SameRows DEF memberVars, MemberRows

(* The same of the dashboard. *)
LEMMA DashboardRests ==
    ASSUME DashboardInv, UNCHANGED dashboardVars
    PROVE  DashboardInv'
  BY DEF DashboardInv, dashboardVars, DashboardTypeOK, OffersAreHonoured, Screen, Blank

(* The same of the exports. *)
LEMMA ExportRests ==
    ASSUME ExportInv, UNCHANGED exportVars
    PROVE  ExportInv'
  <1>1. There' = There
    BY DEF exportVars, There
  <1>2. Sure' = Sure /\ \A r : Place(r)' = Place(r)
    BY <1>1 DEF exportVars, Sure, OwnKey, Place, Ahead, Before
  <1>3. Missed' = Missed /\ Doubled' = Doubled
    BY <1>2 DEF exportVars, Missed, Doubled
  <1>4. ExportsTypeOK'
    BY <1>1 DEF ExportInv, ExportsTypeOK, exportVars, Keys
  <1>5. ExportIsComplete'
    BY <1>1 DEF ExportInv, ExportIsComplete, exportVars, OwnKey
  <1> QED
    BY <1>1, <1>3, <1>4, <1>5 DEF ExportInv, exportVars

(* What the services of the catalogue do, and the members' rows with them. *)
LEMMA CatalogueWorkOK ==
    ASSUME WorkspaceInv, CatalogueWork
    PROVE  WorkspaceInv'
  <1>1. CatalogueInv'
    BY CatalogueStepOK DEF WorkspaceInv, CatalogueWork
  <1>2. MembersInv'
    BY MembersFollowOK DEF WorkspaceInv, CatalogueWork
  <1> QED
    BY <1>1, <1>2, DashboardRests, ExportRests DEF WorkspaceInv, CatalogueWork

(* Roles and removals, and invitations, beside a catalogue that rests. *)
LEMMA MembersWorkOK ==
    ASSUME WorkspaceInv, MembersWork \/ InvitationsWork
    PROVE  WorkspaceInv'
  <1>1. UNCHANGED <<catalogueVars, dashboardVars, exportVars, focus, present>>
    BY DEF MembersWork, InvitationsWork, catalogueVars
  <1>2. MembersInv'
    BY <1>1, RolesStepOK, InvitationsStepOK DEF WorkspaceInv, MembersWork, InvitationsWork
  <1> QED
    BY <1>1, <1>2, CatalogueRests, DashboardRests, ExportRests DEF WorkspaceInv

(* A warehouse is removed while an invitation to it is out. *)
LEMMA WarehouseGoesOK ==
    ASSUME WorkspaceInv, WarehouseGoes
    PROVE  WorkspaceInv'
  <1>1. CatalogueInv'
    <2>1. CASE \E c \in Clerks : Delete(c)
      BY <2>1, DeleteOK DEF WorkspaceInv
    <2>2. CASE \E c \in Clerks, w \in Warehouses : StartRemoval(c, w)
      BY <2>2, StartRemovalOK DEF WorkspaceInv, Rows
    <2> QED
      BY <2>1, <2>2 DEF WarehouseGoes
  <1>2. MembersInv'
    BY MembersFollowOK DEF WorkspaceInv, WarehouseGoes
  <1> QED
    BY <1>1, <1>2, DashboardRests, ExportRests DEF WorkspaceInv, WarehouseGoes

(* What the viewer does. *)
LEMMA DashboardWorkOK ==
    ASSUME WorkspaceInv, DashboardWork
    PROVE  WorkspaceInv'
  <1>1. UNCHANGED <<catalogueVars, memberVars, exportVars, focus, present>>
    BY DEF DashboardWork, catalogueVars
  <1>2. DashboardInv'
    BY DashboardStepOK DEF WorkspaceInv, DashboardWork
  <1> QED
    BY <1>1, <1>2, CatalogueRests, MembersRest, ExportRests DEF WorkspaceInv

(* What others do to the viewer's membership. *)
LEMMA ViewerOK ==
    ASSUME WorkspaceInv, ViewerJoins \/ ViewerChanges
    PROVE  WorkspaceInv'
  <1>1. UNCHANGED <<catalogueVars, dashboardVars, exportVars, focus, present>>
    BY DEF ViewerJoins, ViewerChanges, catalogueVars
  <1>2. MembersInv
    BY DEF WorkspaceInv
  <1>3. MemberOf(Viewer) \subseteq Live
    BY DEF MemberOf
  <1>4. MembersInv'
    <2>1. CASE ViewerJoins
      BY <1>1, <1>2, <2>1, ViewerBound, InviteMemberOK DEF ViewerJoins
    <2>2. CASE \E c \in Callers, a \in Live, m \in MemberOf(Viewer) :
                  \E to \in Roles, ws \in SUBSET Warehouses : LoadForUpdate(c, a, m, to, ws)
      BY <1>1, <1>2, <1>3, <2>2, LoadForUpdateOK
    <2>3. CASE \E c \in Callers, a \in Live, m \in MemberOf(Viewer) :
                  LoadForRemoval(c, a, m)
      BY <1>1, <1>2, <1>3, <2>3, LoadForRemovalOK
    <2>4. CASE \E c \in Callers : CountAdmins(c) \/ WriteRole(c) \/ DeleteMember(c)
      BY <1>1, <1>2, <2>4, CountAdminsOK, WriteRoleOK, DeleteMemberOK
    <2> QED
      BY <2>1, <2>2, <2>3, <2>4 DEF ViewerJoins, ViewerChanges
  <1> QED
    BY <1>1, <1>4, CatalogueRests, DashboardRests, ExportRests DEF WorkspaceInv

(* An export, and those who change its table. *)
LEMMA ExportWorkOK ==
    ASSUME WorkspaceInv, ExportWork
    PROVE  WorkspaceInv'
  <1>1. UNCHANGED <<catalogueVars, memberVars, dashboardVars, focus, present>>
    BY DEF ExportWork, catalogueVars
  <1>2. ExportInv'
    BY ExportsStepOK DEF WorkspaceInv, ExportWork
  <1> QED
    BY <1>1, <1>2, CatalogueRests, MembersRest, DashboardRests DEF WorkspaceInv

-----------------------------------------------------------------------------
(* The theorems. *)

(* Whatever the services of the catalogue, of the members, the dashboard and *)
(* the exports do, WorkspaceInv holds.                                       *)
THEOREM Invariant == Spec => []WorkspaceInv
  <1>1. Init => WorkspaceInv
    BY WorkspaceInitOK
  <1>2. WorkspaceInv /\ [Next]_vars => WorkspaceInv'
    <2> SUFFICES ASSUME WorkspaceInv, [Next]_vars PROVE WorkspaceInv'
      OBVIOUS
    <2>1. CASE UNCHANGED vars
      <3>1. UNCHANGED <<catalogueVars, memberVars, dashboardVars, exportVars, focus, present>>
        BY <2>1 DEF vars, catalogueVars
      <3> QED
        BY <3>1, CatalogueRests, MembersRest, DashboardRests, ExportRests DEF WorkspaceInv
    <2>2. CASE Next
      BY <2>2, CatalogueWorkOK, MembersWorkOK, WarehouseGoesOK, DashboardWorkOK, ViewerOK,
         ExportWorkOK DEF Next
    <2> QED
      BY <2>1, <2>2
  <1> QED
    BY <1>1, <1>2, PTL DEF Spec

(* Every variable of the organisation's records keeps its type.              *)
THEOREM TypeCorrect == Spec => []TypeOK
  <1>1. WorkspaceInv => TypeOK
    BY MembersTypes DEF WorkspaceInv, TypeOK, CatalogueInv, DashboardInv, ExportInv
  <1> QED
    BY <1>1, Invariant, PTL

(* What a product, a document, a stock level or a movement refers to is not  *)
(* deleted under it, and a product is filed where it was asked to be, for    *)
(* any number of rows and of removals and bulk updates in flight, each       *)
(* between its checks and its writes (products, categories, suppliers and    *)
(* warehouses services).                                                     *)
THEOREM ReferencesKept == Spec => []ReferencesSurvive
  <1>1. WorkspaceInv => ReferencesSurvive
    BY DEF WorkspaceInv, CatalogueInv
  <1> QED
    BY <1>1, Invariant, PTL

(* An organisation loses its last admin only on an answer that another       *)
(* request has overtaken, for any number of members and of requests in       *)
(* flight (organizations.service updateMember, removeMember).                *)
THEOREM AnAdminRemains == Spec => []AdminRemains
  <1>1. WorkspaceInv => AdminRemains
    BY DEF WorkspaceInv, MembersInv
  <1> QED
    BY <1>1, Invariant, PTL

(* A member with an assigned warehouse is STAFF, but for the assignments     *)
(* that were made for others (organizations.service updateMember,            *)
(* warehouses.service assignMembers, invitations.service accept).            *)
THEOREM AssignedAreStaff == Spec => []OnlyStaffAssigned
  <1>1. WorkspaceInv => OnlyStaffAssigned
    BY DEF WorkspaceInv, MembersInv
  <1> QED
    BY <1>1, Invariant, PTL

(* An invitation makes one membership at most and none once it was revoked,  *)
(* and an address has one pending invitation, but where requests overlapped  *)
(* on one (invitations.service create, revoke, accept).                      *)
THEOREM InvitationsAdmit == Spec => []InvitationsAdmitOnce
  <1>1. WorkspaceInv => InvitationsAdmitOnce
    BY AdmitsOnce DEF WorkspaceInv
  <1> QED
    BY <1>1, Invariant, PTL

(* What the dashboard offers the API refuses only when the role, the         *)
(* warehouses or the document changed after the page had read them           *)
(* (permissions.ts, sidebar.tsx, the pages' controls).                       *)
THEOREM OffersKept == Spec => []OffersAreHonoured
  <1>1. WorkspaceInv => OffersAreHonoured
    BY DEF WorkspaceInv, DashboardInv
  <1> QED
    BY <1>1, Invariant, PTL

(* An export misses no more rows than were removed or renamed while it ran,  *)
(* and repeats no more than were added or renamed, for batches and tables of *)
(* any size; movements of one time are excepted (exports.service stream).    *)
THEOREM ExportsComplete == Spec => []ExportIsComplete
  <1>1. WorkspaceInv => ExportIsComplete
    BY DEF WorkspaceInv, ExportInv
  <1> QED
    BY <1>1, Invariant, PTL
=============================================================================
