----------------------------- MODULE Catalogue ------------------------------
(***************************************************************************)
(* What the stock is kept of and where: the rows of WarehousesService,     *)
(* ProductsService, CategoriesService and SuppliersService, and their      *)
(* removal.  A removal first counts what refers to its row and then, in a  *)
(* second query, deletes or archives it; between the two any other request *)
(* may add a reference, and what happens to it is up to the foreign keys.  *)
(*                                                                         *)
(* A creation or an update also looks its references up before it writes,  *)
(* but an identifier is never used twice, so that the foreign keys refuse  *)
(* at the write all that the look-up refuses: the two are one step here.   *)
(***************************************************************************)
EXTENDS Naturals, FiniteSets

CONSTANTS Warehouses, Products, Categories, Suppliers,
          Clerks,    \* the slots of removals and bulk updates in flight
          MaxDocuments  \* bound: orders and transfers there are at a time

References == Categories \cup Suppliers
Rows == Warehouses \cup Products \cup References

ASSUME RowsDistinct ==
    /\ Warehouses \cap (Products \cup References) = {}
    /\ Products \cap References = {}
    /\ Categories \cap Suppliers = {}
ASSUME CatalogueBounds == MaxDocuments \in Nat

VARIABLES
    present,    \* the rows that exist
    used,       \* the identifiers that were ever given out
    archived,   \* the warehouses and products whose isActive is false
    filing,     \* for each product: its category and its supplier
    levels,     \* the stock_levels rows: pairs of a product and a warehouse
    movements,  \* the pairs that the movement ledger has a row about
    documents,  \* the orders and transfers: what they refer to
    clerks,     \* the removals and the bulk updates in flight
    asked       \* history: the filing that the last requests asked for

catalogueVars == <<present, used, archived, filing, levels, movements,
                   documents, clerks, asked>>

Pair == Products \X Warehouses

(* At most one category and one supplier. *)
Filings == {f \in SUBSET References :
                \A kind \in {Categories, Suppliers} : \A r, t \in f \cap kind : r = t}

(* An order or a transfer.  Only an open purchase order keeps a warehouse   *)
(* from being deleted by the count; the foreign keys hold for all of them.  *)
PurchaseOrderRefs == {{p, w, s} : p \in Products, w \in Warehouses, s \in Suppliers}
SalesOrderRefs == {{p, w} : p \in Products, w \in Warehouses}
TransferRefs == {{p, w, v} : p \in Products, w \in Warehouses, v \in Warehouses}
                    \ SalesOrderRefs
Document == [kind : {"purchase"}, refs : PurchaseOrderRefs, open : BOOLEAN]
       \cup [kind : {"sales"}, refs : SalesOrderRefs, open : BOOLEAN]
       \cup [kind : {"transfer"}, refs : TransferRefs, open : BOOLEAN]

(* A removal that has counted, or a bulk update that has items left.        *)
(* `crossed` is history: the row was filed under since the count.           *)
Free == [kind |-> "free"]
Clerk == [kind : {"delete", "archive"}, row : Rows, crossed : BOOLEAN]
    \cup [kind : {"bulk"}, left : SUBSET Products, to : Filings,
          kept : {References, Categories, Suppliers, {}}]

CatalogueTypeOK ==
    /\ present \subseteq used /\ used \subseteq Rows
    /\ archived \subseteq present \cap (Warehouses \cup Products)
    /\ filing \in [Products -> Filings] /\ asked \in [Products -> Filings]
    /\ levels \subseteq Pair /\ movements \subseteq Pair
    /\ documents \subseteq Document
    /\ clerks \in [Clerks -> Clerk \cup {Free}]

CatalogueInit(rows) ==
    /\ present = rows /\ used = rows
    /\ archived = {} /\ levels = {} /\ movements = {} /\ documents = {}
    /\ filing = [p \in Products |-> {}]
    /\ asked = [p \in Products |-> {}]
    /\ clerks = [c \in Clerks |-> Free]

FiledUnder(r) == {p \in Products : r \in filing[p]}
Moved(x) == \E m \in movements : x \in {m[1], m[2]}
Documented(x) == \E d \in documents : x \in d.refs

-----------------------------------------------------------------------------
(* Creations.                                                               *)

Create(x) ==
    /\ x \notin used \cup Products
    /\ present' = present \cup {x} /\ used' = used \cup {x}
    /\ UNCHANGED <<archived, filing, levels, movements, documents, clerks, asked>>

(* A removal under way is crossed by each product filed under its row.      *)
Crossing(to) == [c \in Clerks |->
    IF clerks[c].kind = "delete" /\ clerks[c].row \in to
    THEN [clerks[c] EXCEPT !.crossed = TRUE] ELSE clerks[c]]

CreateProduct(p, to) ==
    /\ p \notin used
    /\ to \subseteq present
    /\ present' = present \cup {p} /\ used' = used \cup {p}
    /\ filing' = [filing EXCEPT ![p] = to]
    /\ asked' = [asked EXCEPT ![p] = to]
    /\ clerks' = Crossing(to)
    /\ UNCHANGED <<archived, levels, movements, documents>>

(* The write of a product update.  The fields in `kept` are left out of the *)
(* request and keep what they hold.                                         *)
Refile(p, to, kept) ==
    /\ filing' = [filing EXCEPT ![p] = to \cup (@ \cap kept)]
    /\ asked' = [asked EXCEPT ![p] = to \cup (@ \cap kept)]

Change(to, kept) ==
    /\ to \in Filings
    /\ kept \in {References, Categories, Suppliers, {}}
    /\ to \cap kept = {}

UpdateProduct(p, to, kept) ==
    /\ p \in present
    /\ to \subseteq present
    /\ Refile(p, to, kept)
    /\ clerks' = Crossing(to)
    /\ UNCHANGED <<present, used, archived, levels, movements, documents>>

(* The isActive of a product or a warehouse is a field of its update.       *)
SetActive(x, active) ==
    /\ x \in present
    /\ archived' = IF active THEN archived \ {x} ELSE archived \cup {x}
    /\ UNCHANGED <<present, used, filing, levels, movements, documents, clerks, asked>>

(* A bulk update checks its references once and keeps the products it       *)
(* finds; then it updates one after the other, and an update that fails is  *)
(* reported as the outcome of that product only.                            *)
StartBulkUpdate(c, ps, to, kept) ==
    /\ clerks[c] = Free
    /\ to \subseteq present /\ ps \cap present # {}
    /\ clerks' = [clerks EXCEPT ![c] = [kind |-> "bulk", left |-> ps \cap present,
                                        to |-> to, kept |-> kept]]
    /\ UNCHANGED <<present, used, archived, filing, levels, movements, documents, asked>>

BulkUpdateItem(c, p) ==
    LET call == clerks[c]
        rest == [call EXCEPT !.left = @ \ {p}]
    IN
    /\ call.kind = "bulk" /\ p \in call.left
    /\ clerks' = [IF p \in present /\ call.to \subseteq present
                  THEN Crossing(call.to) ELSE clerks
                  EXCEPT ![c] = IF rest.left = {} THEN Free ELSE rest]
    /\ IF p \in present /\ call.to \subseteq present
       THEN Refile(p, call.to, call.kept)
       ELSE UNCHANGED <<filing, asked>>
    /\ UNCHANGED <<present, used, archived, levels, movements, documents>>

-----------------------------------------------------------------------------
(* What other services add that refers to these rows.                       *)

SetReplenishmentRule(p, w) ==
    /\ {p, w} \subseteq present
    /\ levels' = levels \cup {<<p, w>>}
    /\ UNCHANGED <<present, used, archived, filing, movements, documents, clerks, asked>>

(* The ledger makes the stock_levels row that is missing and records a      *)
(* movement in one transaction.  It does not look at isActive.              *)
RecordMovement(p, w) ==
    /\ {p, w} \subseteq present
    /\ levels' = levels \cup {<<p, w>>}
    /\ movements' = movements \cup {<<p, w>>}
    /\ UNCHANGED <<present, used, archived, filing, documents, clerks, asked>>

DraftDocument(d) ==
    /\ d.open /\ d.refs \subseteq present
    /\ Cardinality(documents) < MaxDocuments
    /\ documents' = documents \cup {d}
    /\ UNCHANGED <<present, used, archived, filing, levels, movements, clerks, asked>>

CloseDocument(d) ==
    /\ d \in documents /\ d.open
    /\ documents' = (documents \ {d}) \cup {[d EXCEPT !.open = FALSE]}
    /\ UNCHANGED <<present, used, archived, filing, levels, movements, clerks, asked>>

-----------------------------------------------------------------------------
(* Removals.  The counts of one removal are sent together and are one step. *)
(* The units on hand that are counted too are never there without a         *)
(* movement (StockLedger, LedgerReconciles).                                *)

KeptByCount(x) ==
    \/ x \in Warehouses /\ (Moved(x) \/ \E d \in documents :
                                d.kind = "purchase" /\ d.open /\ x \in d.refs)
    \/ x \in Products /\ Moved(x)

(* Mutant of RefusedByCount: the products are not counted. *)
CountsOrdersOnly(x) ==
    x \in Suppliers /\ \E d \in documents : d.kind = "purchase" /\ x \in d.refs

RefusedByCount(x) ==
    \/ x \in References /\ FiledUnder(x) # {}
    \/ x \in Suppliers /\ \E d \in documents : d.kind = "purchase" /\ x \in d.refs

StartRemoval(c, x) ==
    /\ clerks[c] = Free
    /\ x \in present
    /\ ~RefusedByCount(x)
    /\ clerks' = [clerks EXCEPT ![c] =
            [kind |-> IF KeptByCount(x) THEN "archive" ELSE "delete",
             row |-> x, crossed |-> FALSE]]
    /\ UNCHANGED <<present, used, archived, filing, levels, movements, documents, asked>>

(* The onDelete rules: movements and documents keep a row from being        *)
(* deleted, stock_levels go with it, and a product is taken off its file.   *)
Restricted(x) == Moved(x) \/ Documented(x)

Delete(c) ==
    LET x == clerks[c].row IN
    /\ clerks[c].kind = "delete"
    /\ clerks' = [clerks EXCEPT ![c] = Free]
    /\ IF x \in present /\ ~Restricted(x)
       THEN /\ present' = present \ {x}
            /\ archived' = archived \ {x}
            /\ levels' = {l \in levels : x \notin {l[1], l[2]}}
            /\ filing' = [p \in Products |-> IF p = x THEN {} ELSE filing[p] \ {x}]
            /\ asked' = [p \in Products |->
                            CASE p = x -> {}
                              [] clerks[c].crossed -> asked[p] \ {x}
                              [] OTHER -> asked[p]]
       ELSE UNCHANGED <<present, archived, levels, filing, asked>>
    /\ UNCHANGED <<used, movements, documents>>

Archive(c) ==
    LET x == clerks[c].row IN
    /\ clerks[c].kind = "archive"
    /\ clerks' = [clerks EXCEPT ![c] = Free]
    /\ archived' = IF x \in present THEN archived \cup {x} ELSE archived
    /\ UNCHANGED <<present, used, filing, levels, movements, documents, asked>>

-----------------------------------------------------------------------------
ClerkStep(c) ==
    \/ Delete(c)
    \/ Archive(c)
    \/ \E p \in Products : BulkUpdateItem(c, p)

Request(c) ==
    \/ \E x \in Rows : StartRemoval(c, x)
    \/ \E ps \in (SUBSET Products) \ {{}}, to \in Filings, kept \in SUBSET References :
          Change(to, kept) /\ StartBulkUpdate(c, ps, to, kept)

OtherRequest ==
    \/ \E x \in Rows : Create(x)
    \/ \E p \in Products, to \in Filings : CreateProduct(p, to)
    \/ \E p \in Products, to \in Filings, kept \in SUBSET References :
          Change(to, kept) /\ UpdateProduct(p, to, kept)
    \/ \E x \in Warehouses \cup Products, active \in BOOLEAN : SetActive(x, active)
    \/ \E p \in Products, w \in Warehouses :
          SetReplenishmentRule(p, w) \/ RecordMovement(p, w)
    \/ \E d \in Document : DraftDocument(d) \/ CloseDocument(d)

CatalogueNext == OtherRequest \/ \E c \in Clerks : Request(c) \/ ClerkStep(c)

(* ReferencesSurvive: whatever removals and requests overlap, a movement,   *)
(* an order or a transfer never loses the product, warehouse or supplier it *)
(* names, a stock level is never left without its two ends, and a product   *)
(* is filed under what its last request asked for, unless the category or   *)
(* supplier was removed by a request that had counted its products before   *)
(* that one was filed there (warehouses.service remove, products.service    *)
(* remove, categories.service and suppliers.service remove).                *)
ReferencesSurvive ==
    /\ \A m \in movements \cup levels : {m[1], m[2]} \subseteq present
    /\ \A d \in documents : d.refs \subseteq present
    /\ \A p \in Products : filing[p] = asked[p] /\ filing[p] \subseteq present
=============================================================================
