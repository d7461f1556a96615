----------------------------- MODULE Workspace ------------------------------
(***************************************************************************)
(* The organisation around the stock: Catalogue, Members, Dashboard and    *)
(* Exports together.  Their requests meet where they share rows: a deleted *)
(* warehouse takes its assignments with it and makes an invitation to it   *)
(* unacceptable; a change of a membership takes offers of the dashboard    *)
(* back.                                                                   *)
(***************************************************************************)
EXTENDS Dashboard, Exports

CONSTANTS Focuses,        \* bound: the sets of parts that a behaviour is about
          MaxColleagues   \* bound: memberships, in those about roles and screens

VARIABLE focus     \* the parts whose requests this behaviour is about

vars == <<catalogueVars, memberVars, dashboardVars, exportVars, focus>>

(* With Focuses = {Areas} everything is at work in every behaviour. *)
Areas == {"catalogue", "members", "invitations", "dashboard", "exports"}

ASSUME WorkspaceBounds ==
    /\ Focuses \subseteq SUBSET Areas
    /\ MaxColleagues \in Nat

TypeOK ==
    /\ CatalogueTypeOK /\ MembersTypeOK /\ DashboardTypeOK /\ ExportsTypeOK
    /\ focus \in Focuses

Init ==
    /\ focus \in Focuses
    /\ CatalogueInit(Warehouses)
    /\ MembersInit
    /\ \E kind \in IF "dashboard" \in focus THEN Kinds ELSE {"transfers"} : DashboardInit(kind)
    /\ \E t \in IF "exports" \in focus THEN Tables ELSE {"products"} : ExportsInit(t)

(* What the services of the catalogue do.                                   *)
CatalogueWork ==
    /\ "catalogue" \in focus
    /\ CatalogueNext
    /\ MembersFollow
    /\ UNCHANGED <<dashboardVars, exportVars, focus>>

(* Members and their roles, when there are few of them.                     *)
MembersWork ==
    /\ "members" \in focus
    /\ RolesNext
    /\ Len(members') <= MaxColleagues
    /\ UNCHANGED <<catalogueVars, dashboardVars, exportVars, focus>>

(* Invitations, while members and warehouses are removed.                   *)
InvitationsWork ==
    /\ "invitations" \in focus
    /\ InvitationsNext
    /\ UNCHANGED <<catalogueVars, dashboardVars, exportVars, focus>>

WarehouseGoes ==
    /\ "invitations" \in focus
    /\ \E c \in Clerks : Delete(c) \/ \E w \in Warehouses : StartRemoval(c, w)
    /\ MembersFollow
    /\ UNCHANGED <<dashboardVars, exportVars, focus>>

(* What the viewer does, while others change the viewer's membership.  The  *)
(* dashboard sees nothing of a change until it is written, so that where it *)
(* is the only part its steps need not run between the queries of one.      *)
NoRequest == \A c \in Callers : requests[c] = Idle

DashboardWork ==
    /\ "dashboard" \in focus /\ (focus = {"dashboard"} => NoRequest)
    /\ DashboardNext
    /\ UNCHANGED <<catalogueVars, memberVars, exportVars, focus>>

ViewerJoins ==
    /\ "dashboard" \in focus /\ Len(members) < MaxColleagues
    /\ \E a \in Live, role \in Roles, ws \in SUBSET Warehouses :
          InviteMember(a, Viewer, role, ws)
    /\ UNCHANGED <<catalogueVars, dashboardVars, exportVars, focus>>

ViewerChanges ==
    /\ "dashboard" \in focus
    /\ \/ NoRequest /\ \E c \in Callers, a \in Live, m \in MemberOf(Viewer) :
             \/ \E to \in Roles, ws \in SUBSET Warehouses : LoadForUpdate(c, a, m, to, ws)
             \/ LoadForRemoval(c, a, m)
       \/ \E c \in Callers : CountAdmins(c) \/ WriteRole(c) \/ DeleteMember(c)
    /\ UNCHANGED <<catalogueVars, dashboardVars, exportVars, focus>>

ExportWork ==
    /\ "exports" \in focus
    /\ ExportsNext
    /\ UNCHANGED <<catalogueVars, memberVars, dashboardVars, focus>>

Next ==
    \/ CatalogueWork
    \/ MembersWork
    \/ InvitationsWork
    \/ WarehouseGoes
    \/ DashboardWork
    \/ ViewerJoins
    \/ ViewerChanges
    \/ ExportWork

Spec == Init /\ [][Next]_vars
=============================================================================
