------------------------------ MODULE Members -------------------------------
(***************************************************************************)
(* The people of one organisation: OrganizationsService,                   *)
(* InvitationsService and the assignment of members to warehouses in       *)
(* WarehousesService.  A request that reads before it writes does so in    *)
(* separate queries, and other requests run between them.                  *)
(*                                                                         *)
(* The guards load the caller's membership at the beginning of a request   *)
(* and never again; that read and the handler's first one are one step.    *)
(* The warehouses are the rows of Catalogue.                               *)
(***************************************************************************)
EXTENDS Catalogue, AccessControl, Sequences

CONSTANTS People,          \* the accounts, each known by its email address
          Owner,           \* who registered the organisation
          Callers,         \* the slots of requests in flight
          MaxMembers,      \* bound: membership rows ever made
          MaxInvitations,  \* bound: invitations ever made
          InvitedRoles     \* bound: the roles that people are invited to

ASSUME MemberBounds ==
    /\ Owner \in People
    /\ MaxMembers \in Nat \ {0} /\ MaxInvitations \in Nat
    /\ InvitedRoles \subseteq Roles

VARIABLES
    members,      \* the memberships, in the order they were made
    assigned,     \* the warehouse_members: pairs of a membership and a warehouse
    invitations,  \* the invitations, in the order they were made
    requests,     \* the requests in flight
    lapsed,       \* history: an admin was lost on an answer that no longer held
    lax,          \* history: the assignments that were made for members not known
                  \*   to be STAFF when they were written
    raced         \* history: the invitations that overlapping requests worked on

memberVars == <<members, assigned, invitations, requests, lapsed, lax, raced>>

Ids == 1..MaxMembers
InviteIds == 1..MaxInvitations
ByHand == 0       \* a membership that no invitation has made

Membership == [who : People, role : Roles, via : {ByHand} \cup InviteIds,
               live : BOOLEAN]
Invitation == [who : People, role : Roles, warehouses : SUBSET Warehouses,
               accepted : BOOLEAN, revoked : BOOLEAN, expired : BOOLEAN]

Live == {m \in DOMAIN members : members[m].live}
MemberOf(who) == {m \in Live : members[m].who = who}
Admins == {m \in Live : members[m].role = "ADMIN"}

(* The guards of a route, for the caller's membership.                      *)
May(a, route) == a \in Live /\ Permits(members[a].role, route)

(* A request in flight: `at` names the query that comes next, `id` the row  *)
(* of `members` or `invitations` it is about, `loaded` the role it read.    *)
(* `passed` is history: what it read was changed by another since.          *)
Idle == [at |-> "idle"]
MemberRequest ==
    [at : {"count", "write-role"}, id : Ids, loaded : Roles,
     to : Roles \cup {"same"}, warehouses : SUBSET Warehouses \cup {{"same"}},
     passed : BOOLEAN]
    \cup [at : {"count-removed", "delete"}, id : Ids, loaded : Roles, passed : BOOLEAN]
    \cup [at : {"assign"}, ids : SUBSET Ids, warehouse : Warehouses]
    \cup [at : {"look-pending", "create"}, who : People, role : Roles,
          warehouses : SUBSET Warehouses, passed : BOOLEAN]
    \cup [at : {"revoke", "accept"}, id : InviteIds, passed : BOOLEAN]

MembersTypeOK ==
    /\ members \in Seq(Membership) /\ Len(members) <= MaxMembers
    /\ assigned \subseteq Live \X (Warehouses \cap present)
    /\ invitations \in Seq(Invitation) /\ Len(invitations) <= MaxInvitations
    /\ requests \in [Callers -> MemberRequest \cup {Idle}]
    /\ lapsed \in BOOLEAN /\ lax \subseteq assigned
    /\ raced \subseteq DOMAIN invitations
    /\ \A who \in People : Cardinality(MemberOf(who)) <= 1

MembersInit ==
    /\ members = <<[who |-> Owner, role |-> "ADMIN", via |-> ByHand, live |-> TRUE]>>
    /\ assigned = {} /\ invitations = <<>>
    /\ requests = [c \in Callers |-> Idle]
    /\ lapsed = FALSE /\ lax = {} /\ raced = {}

Begin(c, request) ==
    /\ requests[c] = Idle
    /\ requests' = [requests EXCEPT ![c] = request]
    /\ UNCHANGED <<members, assigned, invitations, lapsed, lax, raced>>

Proceed(c, at) ==
    /\ requests' = [requests EXCEPT ![c].at = at]
    /\ UNCHANGED <<members, assigned, invitations, lapsed, lax, raced>>

(* The request c ends; what the requests of the slots in `outdated` have    *)
(* read has changed since.                                                  *)
End(c, outdated) ==
    requests' = [d \in Callers |->
        CASE d = c -> Idle
          [] d \in outdated \ {c} -> [requests[d] EXCEPT !.passed = TRUE]
          [] OTHER -> requests[d]]

-----------------------------------------------------------------------------
(* Members.                                                                 *)

(* inviteMember looks the membership up and then creates one in a           *)
(* transaction.  The unique key refuses at the create what the look-up      *)
(* refuses, so the two are one step; so do the foreign keys for warehouses. *)
InviteMember(a, who, role, ws) ==
    /\ May(a, <<"organization", "inviteMember">>)
    /\ MemberOf(who) = {}
    /\ Len(members) < MaxMembers
    /\ ws \subseteq present
    /\ members' = Append(members, [who |-> who, role |-> role, via |-> ByHand,
                                   live |-> TRUE])
    /\ assigned' = IF role = "STAFF"
                   THEN assigned \cup ({Len(members) + 1} \X ws) ELSE assigned
    /\ UNCHANGED <<invitations, requests, lapsed, lax, raced>>

(* updateMember loads the membership.  A change of role is followed by the  *)
(* count of admins, when the role it loaded is ADMIN.                       *)
LoadForUpdate(c, a, m, to, ws) ==
    LET loaded == members[m].role IN
    /\ May(a, <<"organization", "updateMember">>) /\ m \in Live
    /\ Begin(c, [at |-> IF to \notin {"same", loaded} /\ loaded = "ADMIN"
                        THEN "count" ELSE "write-role",
                 id |-> m, loaded |-> loaded, to |-> to, warehouses |-> ws,
                 passed |-> FALSE])

(* Mutant of AtLeastTwoAdmins: the member itself is enough. *)
CountsOneTooMany == Cardinality(Admins) > 0

AtLeastTwoAdmins == Cardinality(Admins) > 1

CountAdmins(c) ==
    /\ requests[c].at \in {"count", "count-removed"}
    /\ IF AtLeastTwoAdmins
       THEN Proceed(c, IF requests[c].at = "count" THEN "write-role" ELSE "delete")
       ELSE /\ End(c, {})
            /\ UNCHANGED <<members, assigned, invitations, lapsed, lax, raced>>

(* A request knows what it read no longer once another takes an admin away  *)
(* after it counted them, or changes the role of the member it is about.    *)
Outdated(m, was, is) ==
    {d \in Callers :
        LET r == requests[d] IN
        /\ r.at \in {"count", "write-role", "count-removed", "delete"}
        /\ \/ r.id = m /\ was # is
           \/ was = "ADMIN" /\ is # "ADMIN" /\ r.at \in {"write-role", "delete"}}

Cleared(m) == {x \in assigned : x[1] # m}

(* Mutant of AssignedAfter: a promotion leaves the rows. *)
KeepsOnPromotion(r) ==
    IF r.warehouses = {"same"} THEN assigned
    ELSE Cleared(r.id) \cup ({r.id} \X r.warehouses)

(* The rows after an update: none for a role that sees every warehouse, the *)
(* requested ones, or those there were.  It goes by the role that was       *)
(* loaded when the request has none.                                        *)
AssignedAfter(r) ==
    LET nextRole == IF r.to = "same" THEN r.loaded ELSE r.to IN
    CASE nextRole # "STAFF" -> Cleared(r.id)
      [] nextRole = "STAFF" /\ r.warehouses # {"same"} ->
            Cleared(r.id) \cup ({r.id} \X r.warehouses)
      [] OTHER -> assigned

(* The look-up of the warehouses and the transaction.                       *)
WriteRole(c) ==
    LET r == requests[c]
        m == r.id
        was == members[m].role
        is == IF r.to = "same" THEN was ELSE r.to
        rows == AssignedAfter(r)
    IN
    /\ r.at = "write-role"
    /\ IF m \in Live /\ (r.warehouses = {"same"} \/ r.warehouses \subseteq present)
       THEN /\ members' = [members EXCEPT ![m].role = is]
            /\ assigned' = rows
            /\ lax' = (lax \cap rows) \cup
                      {x \in rows \ assigned : is # "STAFF" /\ r.passed}
            /\ lapsed' = (lapsed \/ (r.passed /\ was = "ADMIN" /\ is # "ADMIN"))
            /\ End(c, Outdated(m, was, is))
       ELSE /\ End(c, {})
            /\ UNCHANGED <<members, assigned, lax, lapsed>>
    /\ UNCHANGED <<invitations, raced>>

(* removeMember loads the membership, refuses the caller's own, counts the  *)
(* admins when the role it loaded is ADMIN, and deletes.                    *)
LoadForRemoval(c, a, m) ==
    LET loaded == members[m].role IN
    /\ May(a, <<"organization", "removeMember">>) /\ m \in Live
    /\ m # a
    /\ Begin(c, [at |-> IF loaded = "ADMIN" THEN "count-removed" ELSE "delete",
                 id |-> m, loaded |-> loaded, passed |-> FALSE])

DeleteMember(c) ==
    LET r == requests[c]
        was == members[r.id].role
    IN
    /\ r.at = "delete"
    /\ IF r.id \in Live
       THEN /\ members' = [members EXCEPT ![r.id].live = FALSE]
            /\ assigned' = Cleared(r.id)
            /\ lax' = lax \cap Cleared(r.id)
            /\ lapsed' = (lapsed \/ (r.passed /\ was = "ADMIN"))
            /\ End(c, Outdated(r.id, was, "none"))
       ELSE /\ End(c, {})
            /\ UNCHANGED <<members, assigned, lax, lapsed>>
    /\ UNCHANGED <<invitations, raced>>

(* assignMembers keeps the memberships of the organisation, whatever their  *)
(* role, and then replaces the rows of the warehouse in one transaction; a  *)
(* membership or warehouse deleted in between makes it fail.                *)
LoadForAssignment(c, a, ms, w) ==
    /\ May(a, <<"warehouses", "assignMembers">>) /\ w \in present
    /\ Begin(c, [at |-> "assign", ids |-> ms \cap Live, warehouse |-> w])

Assign(c) ==
    LET r == requests[c]
        rows == {x \in assigned : x[2] # r.warehouse} \cup (r.ids \X {r.warehouse})
    IN
    /\ r.at = "assign"
    /\ IF r.ids \subseteq Live /\ r.warehouse \in present
       THEN /\ assigned' = rows
            /\ lax' = (lax \cap rows) \cup
                      {x \in rows \ assigned : members[x[1]].role # "STAFF"}
       ELSE UNCHANGED <<assigned, lax>>
    /\ End(c, {})
    /\ UNCHANGED <<members, invitations, lapsed, raced>>

-----------------------------------------------------------------------------
(* Invitations.                                                             *)

Pending(i) == ~invitations[i].accepted /\ ~invitations[i].revoked
                /\ ~invitations[i].expired

(* create checks that the person is no member, in a second query that none  *)
(* is pending for the address, and then creates.  Nothing unique backs this *)
(* up, and the warehouses are not looked at.                                *)
StartInvitation(c, a, who, role, ws) ==
    /\ May(a, <<"invitations", "create">>)
    /\ MemberOf(who) = {}
    /\ Begin(c, [at |-> "look-pending", who |-> who, role |-> role,
                 warehouses |-> IF role = "STAFF" THEN ws ELSE {}, passed |-> FALSE])

LookPending(c) ==
    /\ requests[c].at = "look-pending"
    /\ IF \E i \in DOMAIN invitations : invitations[i].who = requests[c].who /\ Pending(i)
       THEN /\ End(c, {})
            /\ UNCHANGED <<members, assigned, invitations, lapsed, lax, raced>>
       ELSE Proceed(c, "create")

SameAddress(who) ==
    {d \in Callers : requests[d].at = "create" /\ requests[d].who = who}

CreateInvitation(c) ==
    LET r == requests[c] IN
    /\ r.at = "create"
    /\ Len(invitations) < MaxInvitations
    /\ invitations' = Append(invitations,
            [who |-> r.who, role |-> r.role, warehouses |-> r.warehouses,
             accepted |-> FALSE, revoked |-> FALSE, expired |-> FALSE])
    /\ raced' = IF r.passed THEN raced \cup {Len(invitations) + 1} ELSE raced
    /\ End(c, SameAddress(r.who))
    /\ UNCHANGED <<members, assigned, lapsed, lax>>

SameInvitation(i) ==
    {d \in Callers : requests[d].at \in {"revoke", "accept"} /\ requests[d].id = i}

(* revoke loads the invitation, refuses one that is accepted, and writes.   *)
LoadForRevocation(c, a, i) ==
    /\ May(a, <<"invitations", "revoke">>)
    /\ ~invitations[i].accepted
    /\ Begin(c, [at |-> "revoke", id |-> i, passed |-> FALSE])

Revoke(c) ==
    LET r == requests[c] IN
    /\ r.at = "revoke"
    /\ invitations' = [invitations EXCEPT ![r.id].revoked = TRUE]
    /\ raced' = IF r.passed THEN raced \cup {r.id} ELSE raced
    /\ End(c, SameInvitation(r.id))
    /\ UNCHANGED <<members, assigned, lapsed, lax>>

(* accept loads the invitation by its token, and then makes the account,    *)
(* the membership and the mark on the invitation in one transaction, which  *)
(* fails when the person is a member or a warehouse is no more.             *)
LoadRedeemable(c, i) ==
    /\ Pending(i)
    /\ Begin(c, [at |-> "accept", id |-> i, passed |-> FALSE])

(* Mutant of MarkAccepted: the invitation stays open. *)
ForgetsTheMark(i) == invitations

MarkAccepted(i) == [invitations EXCEPT ![i].accepted = TRUE]

Accept(c) ==
    LET r == requests[c]
        offer == invitations[r.id]
    IN
    /\ r.at = "accept"
    /\ IF MemberOf(offer.who) = {} /\ offer.warehouses \subseteq present
       THEN /\ Len(members) < MaxMembers
            /\ members' = Append(members, [who |-> offer.who, role |-> offer.role,
                                           via |-> r.id, live |-> TRUE])
            /\ assigned' = assigned \cup ({Len(members) + 1} \X offer.warehouses)
            /\ invitations' = MarkAccepted(r.id)
            /\ raced' = IF r.passed THEN raced \cup {r.id} ELSE raced
            /\ End(c, SameInvitation(r.id))
       ELSE /\ End(c, {})
            /\ UNCHANGED <<members, assigned, invitations, raced>>
    /\ UNCHANGED <<lapsed, lax>>

(* The seven days of an invitation pass.                                    *)
Expire(i) ==
    /\ ~invitations[i].expired
    /\ invitations' = [invitations EXCEPT ![i].expired = TRUE]
    /\ UNCHANGED <<members, assigned, requests, lapsed, lax, raced>>

-----------------------------------------------------------------------------
Removals(c) ==
    \/ \E a \in Live, m \in Live : LoadForRemoval(c, a, m)
    \/ CountAdmins(c) \/ DeleteMember(c)

RolesNext ==
    \/ \E a \in Live, who \in People, role \in Roles, ws \in SUBSET Warehouses :
          InviteMember(a, who, role, ws)
    \/ \E c \in Callers :
          \/ \E a \in Live, m \in Live, to \in Roles \cup {"same"},
                ws \in SUBSET Warehouses \cup {{"same"}} : LoadForUpdate(c, a, m, to, ws)
          \/ \E a \in Live, ms \in SUBSET Live, w \in Warehouses :
                LoadForAssignment(c, a, ms, w)
          \/ Removals(c) \/ WriteRole(c) \/ Assign(c)

InvitationsNext ==
    \/ \E c \in Callers :
          \/ \E a \in Live, who \in People, role \in InvitedRoles, ws \in SUBSET Warehouses :
                StartInvitation(c, a, who, role, ws)
          \/ \E a \in Live, i \in DOMAIN invitations : LoadForRevocation(c, a, i)
          \/ \E i \in DOMAIN invitations : LoadRedeemable(c, i)
          \/ LookPending(c) \/ CreateInvitation(c) \/ Revoke(c) \/ Accept(c)
          \/ Removals(c)
    \/ \E i \in DOMAIN invitations : Expire(i)

(* The rows that a deleted warehouse takes with it.                         *)
MembersFollow ==
    /\ assigned' = {x \in assigned : x[2] \in present'}
    /\ lax' = {x \in lax : x[2] \in present'}
    /\ UNCHANGED <<members, invitations, requests, lapsed, raced>>

-----------------------------------------------------------------------------
(* AdminRemains: an organisation keeps an admin through every sequence of   *)
(* role changes and removals, unless two of them overlap so that one acts   *)
(* on a role or a count of admins that the other has changed                *)
(* (organizations.service assertNotLastAdmin).                              *)
AdminRemains == Admins # {} \/ lapsed

(* OnlyStaffAssigned: a member who may see every warehouse is assigned to   *)
(* none, so that a later demotion does not bring old assignments back,      *)
(* except for what assignMembers writes, which does not look at roles, and  *)
(* for an update whose member was promoted by another in the meantime       *)
(* (organizations.service updateMember, inviteMember; invitations accept).  *)
OnlyStaffAssigned == \A x \in assigned : members[x[1]].role = "STAFF" \/ x \in lax

(* InvitationsAdmitOnce: an invitation makes at most one membership, even   *)
(* when the person is removed and uses the link again, none once it was     *)
(* revoked, and an address has one pending invitation, unless two requests  *)
(* worked on it at the same time (invitations.service create, revoke,       *)
(* accept).                                                                 *)
InvitationsAdmitOnce ==
    \A i \in DOMAIN invitations \ raced :
        /\ Cardinality({m \in DOMAIN members : members[m].via = i}) <= 1
        /\ ~(invitations[i].accepted /\ invitations[i].revoked)
        /\ Pending(i) => \A j \in DOMAIN invitations \ {i} :
                invitations[j].who = invitations[i].who => ~Pending(j) \/ j \in raced
=============================================================================
