---------------------------- MODULE Permissions -----------------------------
(***************************************************************************)
(* Who may do what in a firm: the rights of each role, the firm's own      *)
(* overrides of them, who holds which role, and a matter that may be       *)
(* restricted to its team (src/src/core/permissions.ts,                    *)
(* src/src/engines/all-engines/permissions/service.ts).                    *)
(*                                                                         *)
(* Nine of the forty-odd rights stand for the rules the catalogue and the  *)
(* decisions tell apart.  The overrides table may hold rows its own check  *)
(* would refuse today; they are judged when a right is evaluated.  A       *)
(* change is read and written by one request at a time.                    *)
(***************************************************************************)
EXTENDS Naturals, FiniteSets

CONSTANTS
    Users,      \* the firm's active staff accounts
    BaseRoles,  \* per user, the roles that come from the account (baseRolesFor)
    FirstOwners, \* the users of whom one may hold the owner role at first
    FirstRows,  \* the overrides of which one may have been saved before
    Screened,   \* the users behind an ethical screen on the matter
    MatterStaff \* bound: who comes to be on the matter's team

Roles == {"owner", "admin", "lawyer", "conflicts_attorney", "bookkeeper", "client"}
StaffRoles == Roles \ {"client"}

PermissionsAssumption ==
    /\ BaseRoles \in [Users -> SUBSET {"admin", "lawyer", "bookkeeper"}]
    /\ FirstOwners \subseteq Users /\ Screened \subseteq Users /\ MatterStaff \subseteq Users
    /\ {"none", "taken"} \cap Users = {}

VARIABLES
    overrides, \* permission_overrides: rows of a role, a right and its effect
    assigned,  \* per user, the roles assigned on top of the account's
    access     \* the matter: [restricted, team, lawyer, blocked], who is on its team by a
               \* row, its lawyer ("taken" after one was lost) and who may never be it

vars == <<overrides, assigned, access>>

-----------------------------------------------------------------------------
(* The catalogue of rights.                                                *)

Keys == {"accessAll", "edit", "manage", "openMatter", "decideConflict", "reconcile",
         "flags", "privileged", "portal"}
Locked == {"decideConflict", "reconcile", "portal"}
Decisions == {"openMatter", "decideConflict"}
AttorneyOnly == Decisions
ClientOnly == {"portal"}

Defaults(right) ==
    CASE right \in {"accessAll", "flags"} -> StaffRoles
      [] right = "edit" -> {"owner", "admin", "lawyer"}
      [] right = "privileged" -> {"owner", "lawyer", "conflicts_attorney"}
      [] right = "manage" -> {"owner", "admin"}
      [] right = "openMatter" -> {"lawyer"}
      [] right = "decideConflict" -> {"conflicts_attorney"}
      [] right = "reconcile" -> {"owner", "bookkeeper"}
      [] right = "portal" -> {"client"}

\* The roles that may be given the right at all.
Eligible(right) ==
    CASE right = "openMatter" -> {"lawyer", "conflicts_attorney", "owner"}
      [] right = "edit" -> StaffRoles
      [] right = "privileged" -> Defaults(right) \cup {"admin"}
      [] OTHER -> Defaults(right)

Rows == [role : Roles, right : Keys, effect : {"grant", "deny"}]

\* validateOverride.
ValidOverride(row) ==
    /\ row.role # "client" /\ row.right \notin Locked \cup ClientOnly
    /\ row.effect = "grant" => row.role \in Eligible(row.right)
    /\ ~(row.effect = "deny" /\ row.role = "owner" /\ row.right = "manage")

\* overrideFor and roleHolds; the table holds one row per role and right.
RoleHolds(role, right, rows) ==
    LET valid == {row \in rows : row.role = role /\ row.right = right /\ ValidOverride(row)}
    IN  \/ \E row \in valid : row.effect = "grant"
        \/ role \in Defaults(right) /\ ~\E row \in valid : row.effect = "deny"

\* effectiveRights of a staff account, of a client and of the system; the AI has none.
StaffRights(roles, rows) ==
    IF "client" \in roles /\ roles # {"client"} THEN {}
    ELSE {k \in Keys \ ClientOnly : /\ k \in AttorneyOnly => "lawyer" \in roles
                                    /\ \E role \in roles : RoleHolds(role, k, rows)}
ClientRights(rows) == {k \in ClientOnly : RoleHolds("client", k, rows)}
SystemRights == Keys \ (Decisions \cup ClientOnly)

RolesOf(u) == BaseRoles[u] \cup assigned[u]
RightsOf(u) == StaffRights(RolesOf(u), overrides)

Init ==
    /\ \/ overrides = {}
       \/ \E row \in FirstRows : overrides = {row}
    \* A firm may still have to name its first owner.
    /\ \E owners \in {{}} \cup {{u} : u \in FirstOwners} :
           assigned = [u \in Users |-> IF u \in owners THEN {"owner"} ELSE {}]
    /\ access = [restricted |-> FALSE, team |-> {}, lawyer |-> "none", blocked |-> {}]
    \* Whoever saved the row could still manage permissions (setPermissionOverride).
    /\ \E u \in Users : "manage" \in RightsOf(u)

-----------------------------------------------------------------------------
(* Deciding (decide): a right, on what, by whom.                           *)

Team == access.team \cup ({access.lawyer} \cap Users)

\* The kinds of resource; all but the firm belong to the matter.
Resources == {"firm", "matter", "client_flag", "internal_flag", "client_task", "internal_task",
              "shared_document", "unshared_document", "privileged_document"}

Staff(u) == [kind |-> "staff", user |-> u]
Others == {[kind |-> "client", ours |-> TRUE], [kind |-> "client", ours |-> FALSE],
           [kind |-> "system"], [kind |-> "ai"]}

RightsOfActor(a) ==
    CASE a.kind = "staff" -> RightsOf(a.user)
      [] a.kind = "client" -> ClientRights(overrides)
      [] a.kind = "system" -> SystemRights
      [] a.kind = "ai" -> {}

\* checkMatter: a screen comes before the team, the restriction and the role.
MayOnMatter(a, rights) ==
    /\ a.kind = "client" => a.ours
    /\ a.kind = "staff" =>
           /\ a.user \notin Screened
           /\ a.user \in Team \/ (~access.restricted /\ "accessAll" \in rights)

MayOnItem(a, rights, resource) ==
    /\ a.kind = "client" => resource \notin {"internal_flag", "internal_task",
                                             "unshared_document", "privileged_document"}
    /\ a.kind = "staff" /\ resource = "internal_flag" => "flags" \in rights
    /\ a.kind = "staff" /\ resource = "privileged_document" => "privileged" \in rights

Allows(a, rights, resource) ==
    /\ resource # "firm" => MayOnMatter(a, rights)
    /\ MayOnItem(a, rights, resource)

Decide(a, right, resource) ==
    LET rights == RightsOfActor(a) IN right \in rights /\ Allows(a, rights, resource)

\* What filterAllowed leaves of the resources, whichever right is asked for.
Reach(a) ==
    LET rights == RightsOfActor(a) IN {resource \in Resources : rights # {} /\ Allows(a, rights, resource)}

-----------------------------------------------------------------------------
(* Changing the matrix.                                                    *)

\* planOverrideChange: an effect equal to the default clears the override.
Planned(role, right, effect) ==
    LET rest == {row \in overrides : ~(row.role = role /\ row.right = right)}
        isDefault == (effect = "grant") = (role \in Defaults(right))
    IN  IF effect = "clear" \/ isDefault THEN rest
        ELSE rest \cup {[role |-> role, right |-> right, effect |-> effect]}

OverrideOf(role, right, rows) ==
    {row.effect : row \in {r \in rows : r.role = role /\ r.right = right /\ ValidOverride(r)}}

\* Seeded bug: a manager may take the right to manage from their own role.
SetOverrideOnOneself(u, role, right, effect) ==
    /\ "manage" \in RightsOf(u)
    /\ effect # "clear" => ValidOverride([role |-> role, right |-> right, effect |-> effect])
    /\ overrides' = Planned(role, right, effect)
    /\ OverrideOf(role, right, overrides') # OverrideOf(role, right, overrides)
    /\ UNCHANGED <<assigned, access>>

SetOverride(u, role, right, effect) ==
    /\ "manage" \in RightsOf(u)
    /\ effect # "clear" => ValidOverride([role |-> role, right |-> right, effect |-> effect])
    /\ overrides' = Planned(role, right, effect)
    /\ OverrideOf(role, right, overrides') # OverrideOf(role, right, overrides)
    /\ "manage" \in StaffRights(RolesOf(u), overrides')
    /\ UNCHANGED <<assigned, access>>

-----------------------------------------------------------------------------
(* Giving and taking roles.                                                *)

Owners == {u \in Users : "owner" \in assigned[u]}

\* validateRoleGrant: the first owner may be named by whoever manages permissions;
\* the lawyer role comes with the account alone.
MayGrant(u, v, role) ==
    /\ "manage" \in RightsOf(u) /\ u # v
    /\ role \notin RolesOf(v) \cup {"client", "lawyer"}
    /\ role = "owner" => "owner" \in RolesOf(u) \/ Owners = {}
    /\ role = "conflicts_attorney" => "lawyer" \in RolesOf(v)

GrantRole(u, v, role) ==
    /\ MayGrant(u, v, role)
    /\ assigned' = [assigned EXCEPT ![v] = @ \cup {role}]
    /\ UNCHANGED <<overrides, access>>

\* validateRoleRevoke; nobody is kept from giving up a role of their own.
MayRevoke(u, v, role) ==
    /\ "manage" \in RightsOf(u)
    /\ role \in assigned[v]
    /\ role = "owner" => "owner" \in RolesOf(u) /\ Cardinality(Owners) > 1

RevokeRole(u, v, role) ==
    /\ MayRevoke(u, v, role)
    /\ assigned' = [assigned EXCEPT ![v] = @ \ {role}]
    /\ UNCHANGED <<overrides, access>>

-----------------------------------------------------------------------------
(* Who works on the matter.                                                *)

\* requireMatter: managing permissions, or editing this very matter.
MayManageAccess(u) == "manage" \in RightsOf(u) \/ Decide(Staff(u), "edit", "matter")

SetMatterRestricted(u, yes) ==
    /\ MayManageAccess(u)
    /\ yes => Team # {}
    /\ access.restricted # yes
    /\ access' = [access EXCEPT !.restricted = yes]
    /\ UNCHANGED <<overrides, assigned>>

AddTeamMember(u, v) ==
    /\ MayManageAccess(u) /\ v \notin Team
    /\ access' = [access EXCEPT !.team = @ \cup {v}]
    /\ UNCHANGED <<overrides, assigned>>

\* The assigned lawyer is on the team without a row and is not taken off it here.
RemoveTeamMember(u, v) ==
    /\ MayManageAccess(u) /\ v \in access.team
    /\ access.restricted => Team \ {v} # {}
    /\ access' = [access EXCEPT !.team = @ \ {v}]
    /\ UNCHANGED <<overrides, assigned>>

\* overrideAssignment; it asks for the blocks of intake, not for screens.
AssignLawyer(v) ==
    /\ v \notin access.blocked \cup {access.lawyer}
    /\ access' = [access EXCEPT !.lawyer = v]
    /\ UNCHANGED <<overrides, assigned>>

\* recordAssignmentBlock: the matter is taken from a lawyer who may no longer
\* work on it, without a look at its restriction.
BlockLawyer(v) ==
    /\ v \notin access.blocked
    /\ access' = [access EXCEPT !.blocked = @ \cup {v}, !.lawyer = IF @ = v THEN "taken" ELSE @]
    /\ UNCHANGED <<overrides, assigned>>

Next == \E u \in Users :
    \/ \E role \in {"owner", "admin", "lawyer"}, right \in {"manage", "openMatter"}, effect \in {"grant", "deny", "clear"} :
           SetOverride(u, role, right, effect)
    \/ \E v \in Users, role \in {"owner", "conflicts_attorney"} : GrantRole(u, v, role) \/ RevokeRole(u, v, role)
    \/ \E yes \in BOOLEAN : SetMatterRestricted(u, yes)
    \/ \E v \in MatterStaff : AddTeamMember(u, v) \/ RemoveTeamMember(u, v)
    \/ "lawyer" \in BaseRoles[u] /\ (AssignLawyer(u) \/ BlockLawyer(u))

Spec == Init /\ [][Next]_vars

-----------------------------------------------------------------------------
TypeOK ==
    /\ overrides \subseteq Rows /\ assigned \in [Users -> SUBSET StaffRoles]
    /\ access \in [restricted : BOOLEAN, team : SUBSET Users,
                   lawyer : Users \cup {"none", "taken"}, blocked : SUBSET Users]

\* "No firm override can break these": whatever rows the table holds, also
\* ones saved before the rules were what they are, only a lawyer opens a
\* matter or decides a conflict, the system never does, a right fixed for
\* safety stays with its own roles and a client holds portal rights alone
\* (effectiveRights).
OverridesKeepTheFloor ==
    /\ \A u \in Users : LET rights == RightsOf(u) IN \A k \in rights :
           /\ k \in AttorneyOnly => "lawyer" \in RolesOf(u)
           /\ k \in Locked => RolesOf(u) \cap Defaults(k) # {}
           /\ RolesOf(u) \cap Eligible(k) # {}
    /\ ClientRights(overrides) = {"portal"}
    /\ SystemRights \cap Decisions = {}

\* A screen beats every role and every place on a team, a restriction every
\* role: neither a right somebody was granted nor being added to the team gets
\* a screened person to anything of the matter, and a client gets to nothing
\* internal or privileged (decide, addTeamMember).
ScreensBeatRoles ==
    /\ \A u \in Users : Reach(Staff(u)) \ {"firm"} # {} =>
           u \notin Screened /\ (access.restricted => u \in Team)
    /\ \A a \in Others : a.kind = "client" =>
           Reach(a) \subseteq {"firm"} \cup (IF a.ours THEN {"matter", "client_flag", "client_task", "shared_document"} ELSE {})
    /\ Reach([kind |-> "ai"]) = {}

\* However overrides are set and roles given and taken away, one change after
\* another, somebody in the firm can still manage permissions
\* (setPermissionOverride, validateRoleRevoke, and the owner's fixed right).
SomebodyManages == \E u \in Users : "manage" \in RightsOf(u)

\* No step leaves a restricted matter with nobody on its team, but the one that
\* takes it from the lawyer who alone was on it; the team may be made of screened
\* people all the same (setMatterRestricted, removeTeamMember).
RestrictedHasATeam == access.restricted /\ Team = {} => access.lawyer = "taken"

\* A restriction shuts out nobody of the team: only a screen does, or a role with
\* no right at all, whichever overrides were set and roles taken (decide).
TeamGetsIn == access.restricted =>
    \A u \in Team \ Screened : RightsOf(u) # {} => "matter" \in Reach(Staff(u))

RightsAreSound ==
    OverridesKeepTheFloor /\ ScreensBeatRoles /\ SomebodyManages /\ RestrictedHasATeam /\ TeamGetsIn
=============================================================================
