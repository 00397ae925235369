---------------------------- MODULE AccessRules -----------------------------
(***************************************************************************)
(* The access rules as pure operators on rows: governance/models.py        *)
(* (effective mode), governance/services.py (detail access of a holding)   *)
(* and access/resolvers.py (the decision on one tenant).                   *)
(*                                                                         *)
(* A row of a membership or an access is a record [role, active]; the row  *)
(* that does not exist is NoRow, which is not active.                      *)
(***************************************************************************)
EXTENDS Integers

CONSTANTS NoRole      \* the role of a row that does not exist

Modes == {"blocked", "aggregate_only", "full"}
ManagingRoles == {"owner", "admin"}      \* of GroupMembership

ASSUME NoRoleAssumption == NoRole \notin ManagingRoles

NoRow == [role |-> NoRole, active |-> FALSE]
Rows(roles) == {NoRow} \cup [role : roles, active : BOOLEAN]

GroupRows  == [active : BOOLEAN, mode : Modes]    \* CorporateGroup
LinkRows   == [active : BOOLEAN, mode : Modes]    \* GroupTenantLink
TenantRows == [active : BOOLEAN, allow : BOOLEAN] \* tenants.Client

(* Mutants of the effective mode: the kill switch of the company is        *)
(* ignored; a blocked link is forgotten and falls through to the last line.*)
EffectiveModeNoKillSwitch(g, l, t) ==
  IF ~l.active \/ ~g.active \/ "blocked" \in {g.mode, l.mode}
  THEN "blocked"
  ELSE IF "aggregate_only" \in {g.mode, l.mode} THEN "aggregate_only" ELSE "full"

EffectiveModeFallsThrough(g, l, t) ==
  IF ~l.active \/ ~g.active \/ ~t.allow \/ g.mode = "blocked"
  THEN "blocked"
  ELSE IF "aggregate_only" \in {g.mode, l.mode} THEN "aggregate_only" ELSE "full"

(* GroupTenantLink.effective_mode, of a holding g, a link l, a company t.  *)
EffectiveMode(g, l, t) ==
  IF ~l.active \/ ~g.active \/ ~t.allow \/ "blocked" \in {g.mode, l.mode}
  THEN "blocked"
  ELSE IF "aggregate_only" \in {g.mode, l.mode} THEN "aggregate_only" ELSE "full"

(* GroupMembership.can_manage_group.                                       *)
CanManageGroup(m) == m.active /\ m.role \in ManagingRoles

(* resolve_group_tenant_detail_access for a user who is not a superuser.   *)
(* workRoles are the roles whose tenant policy lists the permission asked; *)
(* perm is "access" for tenant.access and "work" for that permission.      *)
RoleAllows(row, perm, workRoles) ==
  row.active /\ (perm = "access" \/ row.role \in workRoles)

DetailAllowed(g, l, t, m, a, perm, workRoles) ==
  /\ m.active
  /\ EffectiveMode(g, l, t) = "full"
  /\ CanManageGroup(m) \/ RoleAllows(a, perm, workRoles)

(* RequestAccessResolver.resolve with a consolidated context: the holding  *)
(* and the tenant are active, and the detail access is granted.            *)
GroupAllowed(g, l, t, m, a, perm, workRoles) ==
  /\ m.active /\ g.active
  /\ l.active /\ t.active
  /\ DetailAllowed(g, l, t, m, a, perm, workRoles)

-----------------------------------------------------------------------------
(* The reference the code is compared with: each layer is a level of       *)
(* openness, and the effective mode is the least open of the five.         *)
Level(mode) == CASE mode = "blocked" -> 0
                 [] mode = "aggregate_only" -> 1
                 [] mode = "full" -> 2

Switch(on) == IF on THEN 2 ELSE 0

Layers(g, l, t) ==
  {Switch(l.active), Switch(g.active), Switch(t.allow),
   Level(g.mode), Level(l.mode)}

IsLeast(n, S) == n \in S /\ \A m \in S : n <= m

(* One row is at most as open as another.                                  *)
GroupLeq(g, h)  == (g.active => h.active) /\ Level(g.mode) <= Level(h.mode)
LinkLeq(k, l)   == (k.active => l.active) /\ Level(k.mode) <= Level(l.mode)
TenantLeq(t, u) == (t.active => u.active) /\ (t.allow => u.allow)
RowLeq(r, s)    == r = s \/ ~r.active
=============================================================================
