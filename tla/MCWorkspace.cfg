CONSTANTS
    w = w
    p = p
    k = k
    s = s
    clerk1 = clerk1
    clerk2 = clerk2
    owner = owner
    ann = ann
    c1 = c1
    c2 = c2
    r1 = r1
    r2 = r2
    r3 = r3
    r4 = r4
    Warehouses = {w}
    Products = {p}
    Categories = {k}
    Suppliers = {s}
    Clerks = {clerk1, clerk2}
    MaxDocuments = 2
    People = {owner, ann}
    Owner = owner
    Viewer = ann
    Callers = {c1, c2}
    MaxMembers = 3
    MaxInvitations = 2
    InvitedRoles = {"ADMIN", "STAFF"}
    MaxColleagues = 2
    Focuses = {{"catalogue"}, {"members"}, {"invitations"}, {"dashboard"}, {"exports"}}
    BatchSize = 2
    Records = {r1, r2, r3, r4}
    MaxKey = 4
    MaxChanges = 2

SPECIFICATION Spec

SYMMETRY MCSymmetry

INVARIANTS
    AdminRemains
    OnlyStaffAssigned
    InvitationsAdmitOnce
    OffersAreHonoured
    ReferencesSurvive
    ExportIsComplete

CHECK_DEADLOCK FALSE
