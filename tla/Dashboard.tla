----------------------------- MODULE Dashboard ------------------------------
(***************************************************************************)
(* The dashboard of the web server, as one signed-in person sees it.  A    *)
(* page is rendered from the session (GET /auth/me) and from lists, read   *)
(* with requests of their own; what it offers comes from the permissions   *)
(* and statuses read then.  Whether an offer is accepted is decided by the *)
(* API when it is taken up, by the membership and the status of that time. *)
(***************************************************************************)
EXTENDS Members

CONSTANT Viewer      \* the person who looks

ASSUME ViewerBound == Viewer \in People

VARIABLES
    screen,     \* what the viewer's browser shows
    document,   \* an order or a transfer: its kind and its status
    betrayed    \* history: an offer was refused though nothing had changed

dashboardVars == <<screen, document, betrayed>>

(* The sidebar: the permission that each entry asks for.                    *)
Navigation == [
    dashboard |-> "report:read", warehouses |-> "warehouse:read",
    products |-> "product:read", inventory |-> "stock:read",
    lowStock |-> "replenishment:read", movements |-> "movement:read",
    transfers |-> "stock:read", purchaseOrders |-> "purchase_order:read",
    salesOrders |-> "sales_order:read", team |-> "member:read",
    jobs |-> "job:read"]

Pages == DOMAIN Navigation

Lists(controllers) == {<<c, "list">> : c \in controllers}

(* The routes that a page reads.                                            *)
PageReads == [
    dashboard |-> {<<"reports", "dashboard">>},
    warehouses |-> Lists({"warehouses"}),
    products |-> Lists({"products", "categories", "suppliers", "warehouses"}),
    inventory |-> {<<"stock", "listLevels">>} \cup Lists({"warehouses", "products"}),
    lowStock |-> {<<"stock", "lowStock">>} \cup Lists({"warehouses"}),
    movements |-> {<<"stock", "listMovements">>} \cup Lists({"warehouses"}),
    transfers |-> Lists({"transfers", "products", "warehouses"}),
    purchaseOrders |-> Lists({"purchaseOrders", "products", "warehouses", "suppliers"}),
    salesOrders |-> Lists({"salesOrders", "products", "warehouses"}),
    team |-> {<<"organization", "listMembers">>},
    jobs |-> Lists({"jobs"})]

(* A control asks for a permission and sends a request.  The controls of a  *)
(* document's row also ask for a status; the bulk bar of a page offers some *)
(* transitions for the rows that are ticked, whatever their status.         *)
Control(permission, controller, handler) ==
    [asks |-> permission, route |-> <<controller, handler>>, rows |-> {},
     bulk |-> "none"]
RowControl(permission, controller, handler, statuses) ==
    [Control(permission, controller, handler) EXCEPT !.rows = statuses]
BulkBar(permission, controller, transitions) ==
    {[Control(permission, controller, "bulk") EXCEPT !.bulk = t] : t \in transitions}

WarehouseControls == {
    Control("warehouse:create", "warehouses", "create"),
    Control("warehouse:delete", "warehouses", "remove")}

ProductControls == {
    Control("product:create", "products", "create"),
    Control("product:update", "products", "bulkUpdate")}

InventoryControls == {
    Control("movement:record", "stock", "recordMovement"),
    Control("stock:adjust", "stock", "adjust"),
    Control("replenishment:manage", "stock", "setReplenishmentRule")}

TransferControls == {
    Control("stock:transfer", "transfers", "create"),
    RowControl("stock:transfer", "transfers", "dispatch", {"DRAFT"}),
    RowControl("stock:transfer", "transfers", "receive", {"IN_TRANSIT"}),
    RowControl("stock:transfer", "transfers", "cancel", {"DRAFT", "IN_TRANSIT"})}
    \cup BulkBar("stock:transfer", "transfers", {"dispatch", "receive", "cancel"})

PurchaseOrderControls == {
    Control("purchase_order:manage", "purchaseOrders", "create"),
    RowControl("purchase_order:manage", "purchaseOrders", "submit", {"DRAFT"}),
    RowControl("purchase_order:manage", "purchaseOrders", "cancel", {"DRAFT"}),
    RowControl("purchase_order:receive", "purchaseOrders", "receive",
               {"SUBMITTED", "PARTIALLY_RECEIVED"})}
    \cup BulkBar("purchase_order:manage", "purchaseOrders", {"submit", "receive", "cancel"})

SalesOrderControls == {
    Control("sales_order:manage", "salesOrders", "create"),
    RowControl("sales_order:manage", "salesOrders", "allocate", {"DRAFT"}),
    RowControl("sales_order:fulfill", "salesOrders", "fulfill",
               {"ALLOCATED", "PARTIALLY_FULFILLED"}),
    RowControl("sales_order:manage", "salesOrders", "cancel",
               {"DRAFT", "ALLOCATED", "PARTIALLY_FULFILLED"})}
    \cup BulkBar("sales_order:manage", "salesOrders", {"allocate", "fulfill", "cancel"})

Controls == [p \in Pages |->
    CASE p = "warehouses" -> WarehouseControls
      [] p = "products" -> ProductControls
      [] p = "inventory" -> InventoryControls
      [] p = "transfers" -> TransferControls
      [] p = "purchaseOrders" -> PurchaseOrderControls
      [] p = "salesOrders" -> SalesOrderControls
      [] OTHER -> {}]

Kinds == DOMAIN Transitions
Statuses == UNION {UNION {Transitions[k][t].from \cup Transitions[k][t].to :
                             t \in DOMAIN Transitions[k]} : k \in Kinds}

(* The viewer's role and warehouses, as the guards find them now.           *)
Role == IF MemberOf(Viewer) = {} THEN "none"
        ELSE members[CHOOSE m \in MemberOf(Viewer) : TRUE].role
Scope == IF Role = "STAFF" THEN {w \in Warehouses : MemberOf(Viewer) \X {w} \subseteq assigned}
         ELSE Warehouses \cap present

(* `offeredTo` is the role for which the link to the page was shown, until  *)
(* the page is there; `role` is the one of the session, `listed` and        *)
(* `sites` what the lists said, and `awaits` the answers still to come.      *)
Blank == [at |-> "blank", awaits |-> {}]
NoLink == "no link"
Answers == {"session", "lists"}
Screen == [at : {"page"}, page : Pages, offeredTo : Roles \cup {NoLink},
           awaits : SUBSET Answers, role : Roles \cup {"none"},
           listed : Statuses \cup {"no row"}, sites : SUBSET Warehouses]
Shown == screen.at = "page" /\ screen.awaits = {}

DashboardTypeOK ==
    /\ screen \in Screen \cup {Blank}
    /\ document \in [kind : Kinds, status : Statuses]
    /\ betrayed \in BOOLEAN

DashboardInit(kind) ==
    /\ screen = Blank
    /\ document = [kind |-> kind, status |-> "DRAFT"]
    /\ betrayed = FALSE

-----------------------------------------------------------------------------
(* The browser asks for a page: by an address nobody offered, or, after a   *)
(* sign-in or a request of its own, for the page again.                     *)
Requested(p, role) ==
    [at |-> "page", page |-> p, offeredTo |-> role, awaits |-> Answers,
     role |-> "none", listed |-> "no row", sites |-> {}]

Open(p) ==
    /\ screen.awaits = {}
    /\ screen' = Requested(p, NoLink)
    /\ UNCHANGED <<document, betrayed>>

Follow(p) ==
    /\ Shown
    /\ Navigation[p] \in PermissionsFor(screen.role)
    /\ screen' = Requested(p, screen.role)
    /\ UNCHANGED <<document, betrayed>>

(* The session and the lists are asked for together, and answered in either *)
(* order.  A list that is refused ends in the error page.                   *)
Answered(part, page) ==
    LET rest == screen.awaits \ {part} IN
    [page EXCEPT !.awaits = rest, !.offeredTo = IF rest = {} THEN NoLink ELSE @]

ReadSession ==
    /\ "session" \in screen.awaits
    /\ screen' = Answered("session", [screen EXCEPT !.role = Role])
    /\ UNCHANGED <<document, betrayed>>

ReadLists ==
    /\ "lists" \in screen.awaits
    /\ IF \A r \in PageReads[screen.page] : Permits(Role, r)
       THEN /\ screen' = Answered("lists", [screen EXCEPT
                  !.listed = IF document.kind = screen.page THEN document.status ELSE @,
                  !.sites = Scope])
            /\ UNCHANGED betrayed
       ELSE /\ screen' = Blank
            /\ betrayed' = (betrayed \/ screen.offeredTo = Role)
    /\ UNCHANGED document

Offered(control) ==
    /\ control.asks \in PermissionsFor(screen.role)
    /\ control.rows = {} \/ screen.listed \in control.rows

(* What the API does with the request of a control, for a warehouse w that  *)
(* was chosen from the list: the guards, the scope of recordMovement,       *)
(* adjust and setReplenishmentRule, the status of a transition.             *)
Accepts(control, w) ==
    /\ Permits(Role, control.route)
    /\ control.route[1] = "stock" => w \in Scope
    /\ control.rows # {} =>
          document.status \in Transitions[control.route[1]][control.route[2]].from
    /\ control.bulk # "none" => control.bulk \in BulkTransitions[control.route[1]]

(* Where a transition may take the document.  In a bulk request it may be   *)
(* among the rows, and a row that is in another status only fails itself.   *)
After(control) ==
    LET t == IF control.bulk = "none" THEN control.route[2] ELSE control.bulk IN
    IF /\ control.route[1] = document.kind
       /\ t \in DOMAIN Transitions[document.kind]
       /\ document.status \in Transitions[document.kind][t].from
    THEN {[document EXCEPT !.status = s] : s \in Transitions[document.kind][t].to}
    ELSE {}

(* Stock that is missing, or a form that is wrong, may still fail a request *)
(* that is accepted here: the document then stays as it is.  The page is    *)
(* rendered again when the request has succeeded.                           *)
Press(control, w) ==
    /\ Offered(control) /\ w \in screen.sites
    /\ IF Accepts(control, w)
       THEN /\ document' \in {document} \cup After(control)
            /\ screen' = Requested(screen.page, NoLink)
            /\ UNCHANGED betrayed
       ELSE /\ betrayed' = (betrayed \/ (/\ screen.role = Role
                                         /\ screen.sites = Scope
                                         /\ screen.listed \in {document.status, "no row"}))
            /\ UNCHANGED <<screen, document>>

(* Somebody else moves the document on.                                     *)
Elsewhere(t) ==
    /\ t \in DOMAIN Transitions[document.kind]
    /\ document.status \in Transitions[document.kind][t].from
    /\ document' \in {[document EXCEPT !.status = s] : s \in Transitions[document.kind][t].to}
    /\ UNCHANGED <<screen, betrayed>>

DashboardNext ==
    \/ \E p \in Pages : Open(p) \/ Follow(p)
    \/ ReadSession \/ ReadLists
    \/ \E w \in Warehouses :
          Shown /\ \E control \in Controls[screen.page] : Press(control, w)
    \/ \E t \in DOMAIN Transitions[document.kind] : Elsewhere(t)

(* OffersAreHonoured: what the dashboard offers - a page in the sidebar, a  *)
(* button of a page, a transition of a document in it - the API refuses     *)
(* only when the role, the assigned warehouses or the document changed      *)
(* after the page had read them (permissions.ts 104-108, sidebar.tsx 76-82, *)
(* auth.controller me).                                                     *)
OffersAreHonoured == ~betrayed
=============================================================================
