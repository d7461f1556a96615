--------------------------- MODULE AccessControl ---------------------------
(***************************************************************************)
(* Who may call what: the permissions of each role, and what each route of *)
(* the API asks for.  A route is named by its controller and its handler.  *)
(* Routes marked @Public and @SkipOrgContext ask for nothing and are left  *)
(* out: sign-in and its relatives, accepting an invitation, health.        *)
(***************************************************************************)

Roles == {"ADMIN", "MANAGER", "STAFF"}

(* Mutant of StaffPermissions: suppliers are left to managers. *)
StaffWithoutSuppliers == {
    "org:read", "member:read", "warehouse:read", "category:read",
    "product:read", "stock:read", "movement:read", "movement:record",
    "replenishment:read", "purchase_order:read", "sales_order:read",
    "report:read", "job:read"}

StaffPermissions == {
    "org:read", "member:read", "warehouse:read", "category:read",
    "supplier:read", "product:read", "stock:read", "movement:read",
    "movement:record", "replenishment:read", "purchase_order:read",
    "sales_order:read", "report:read", "job:read"}

ManagerPermissions == StaffPermissions \cup {
    "warehouse:create", "warehouse:update", "category:manage",
    "supplier:manage", "product:create", "product:update", "product:delete",
    "stock:adjust", "stock:transfer", "replenishment:manage",
    "purchase_order:manage", "purchase_order:receive", "sales_order:manage",
    "sales_order:fulfill", "job:create"}

(* Every permission there is. *)
AdminPermissions == ManagerPermissions \cup {
    "org:update", "member:invite", "member:manage", "warehouse:delete",
    "warehouse:assign"}

PermissionsFor(role) ==
    CASE role = "ADMIN" -> AdminPermissions
      [] role = "MANAGER" -> ManagerPermissions
      [] role = "STAFF" -> StaffPermissions
      [] OTHER -> {}

-----------------------------------------------------------------------------
PurchaseOrderRoutes == [
    list |-> {"purchase_order:read"}, findOne |-> {"purchase_order:read"},
    create |-> {"purchase_order:manage"}, update |-> {"purchase_order:manage"},
    replaceLines |-> {"purchase_order:manage"},
    submit |-> {"purchase_order:manage"}, receive |-> {"purchase_order:receive"},
    bulk |-> {"purchase_order:manage"}, cancel |-> {"purchase_order:manage"}]

SalesOrderRoutes == [
    list |-> {"sales_order:read"}, findOne |-> {"sales_order:read"},
    create |-> {"sales_order:manage"}, update |-> {"sales_order:manage"},
    replaceLines |-> {"sales_order:manage"},
    allocate |-> {"sales_order:manage"}, fulfill |-> {"sales_order:fulfill"},
    bulk |-> {"sales_order:manage"}, cancel |-> {"sales_order:manage"}]

TransferRoutes == [
    list |-> {"stock:read"}, findOne |-> {"stock:read"},
    create |-> {"stock:transfer"}, dispatch |-> {"stock:transfer"},
    receive |-> {"stock:transfer"}, bulk |-> {"stock:transfer"},
    cancel |-> {"stock:transfer"}]

StockRoutes == [
    listLevels |-> {"stock:read"}, listMovements |-> {"movement:read"},
    recordMovement |-> {"movement:record"}, adjust |-> {"stock:adjust"},
    setReplenishmentRule |-> {"replenishment:manage"},
    lowStock |-> {"replenishment:read"}]

WarehouseRoutes == [
    list |-> {"warehouse:read"}, findOne |-> {"warehouse:read"},
    create |-> {"warehouse:create"}, update |-> {"warehouse:update"},
    remove |-> {"warehouse:delete"}, assignMembers |-> {"warehouse:assign"}]

ProductRoutes == [
    list |-> {"product:read"}, findOne |-> {"product:read"},
    create |-> {"product:create"}, update |-> {"product:update"},
    bulkUpdate |-> {"product:update"}, remove |-> {"product:delete"}]

CategoryRoutes == [
    list |-> {"category:read"}, create |-> {"category:manage"},
    update |-> {"category:manage"}, remove |-> {"category:manage"}]

SupplierRoutes == [
    list |-> {"supplier:read"}, create |-> {"supplier:manage"},
    update |-> {"supplier:manage"}, remove |-> {"supplier:manage"}]

OrganizationRoutes == [
    current |-> {"org:read"}, update |-> {"org:update"},
    listMembers |-> {"member:read"}, inviteMember |-> {"member:invite"},
    updateMember |-> {"member:manage"}, removeMember |-> {"member:manage"}]

InvitationRoutes == [
    list |-> {"member:read"}, create |-> {"member:invite"},
    revoke |-> {"member:invite"}]

JobRoutes == [
    enqueueBulkStock |-> {"job:create", "stock:adjust"},
    enqueueBulkStockCsv |-> {"job:create", "stock:adjust"},
    list |-> {"job:read"}, findOne |-> {"job:read"}]

ExportRoutes == [
    products |-> {"product:read"}, stockLevels |-> {"stock:read"},
    movements |-> {"movement:read"}]

ReportRoutes == [dashboard |-> {"report:read"}]

Routes == [
    purchaseOrders |-> PurchaseOrderRoutes, salesOrders |-> SalesOrderRoutes,
    transfers |-> TransferRoutes, stock |-> StockRoutes,
    warehouses |-> WarehouseRoutes, products |-> ProductRoutes,
    categories |-> CategoryRoutes, suppliers |-> SupplierRoutes,
    organization |-> OrganizationRoutes, invitations |-> InvitationRoutes,
    jobs |-> JobRoutes, exports |-> ExportRoutes, reports |-> ReportRoutes]

(* The permissions guard: a role lacks none of the permissions asked for.   *)
Permits(role, route) == Routes[route[1]][route[2]] \subseteq PermissionsFor(role)

(* The statuses in which a transition is accepted, and those it may end in. *)
Transitions == [
    transfers |-> [
        dispatch |-> [from |-> {"DRAFT"}, to |-> {"IN_TRANSIT"}],
        receive |-> [from |-> {"IN_TRANSIT"}, to |-> {"COMPLETED"}],
        cancel |-> [from |-> {"DRAFT", "IN_TRANSIT"}, to |-> {"CANCELLED"}]],
    purchaseOrders |-> [
        submit |-> [from |-> {"DRAFT"}, to |-> {"SUBMITTED"}],
        receive |-> [from |-> {"SUBMITTED", "PARTIALLY_RECEIVED"},
                     to |-> {"PARTIALLY_RECEIVED", "RECEIVED"}],
        cancel |-> [from |-> {"DRAFT", "SUBMITTED"}, to |-> {"CANCELLED"}]],
    salesOrders |-> [
        allocate |-> [from |-> {"DRAFT"}, to |-> {"ALLOCATED"}],
        fulfill |-> [from |-> {"ALLOCATED", "PARTIALLY_FULFILLED"},
                     to |-> {"PARTIALLY_FULFILLED", "FULFILLED"}],
        cancel |-> [from |-> {"DRAFT", "ALLOCATED", "PARTIALLY_FULFILLED"},
                    to |-> {"CANCELLED"}]]]

(* The transitions that a bulk route runs, one document after the other,    *)
(* each by its own handler; it asks for the permission of the bulk route    *)
(* only.  Any other is a bad request.                                       *)
BulkTransitions == [
    transfers |-> {"dispatch", "receive", "cancel"},
    purchaseOrders |-> {"submit", "receive", "cancel"},
    salesOrders |-> {"allocate", "fulfill", "cancel"}]
=============================================================================
