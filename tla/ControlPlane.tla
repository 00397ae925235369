---------------------------- MODULE ControlPlane ----------------------------
(***************************************************************************)
(* The rows of the public schema that decide what one user may open, and   *)
(* the administration handlers that write them: governance/views.py and    *)
(* tenants/views.py.  Every handler here reaches its rows with one save or *)
(* one update_or_create, so each is one step; the limits on seats,         *)
(* managers and local users that may refuse one are in module Quota and    *)
(* its instances.  The user is any one that is not a superuser.            *)
(***************************************************************************)
EXTENDS AccessRules

CONSTANTS Tenants,      \* the companies of the holding
          GroupRoles,   \* roles of GroupMembership
          TenantRoles,  \* roles of GroupTenantAccess and TenantMembership
          WorkRoles     \* those whose role policy lists the permission asked

ASSUME RolesAssumption ==
  /\ WorkRoles \subseteq TenantRoles
  /\ NoRole \notin GroupRoles \cup TenantRoles

VARIABLES group,    \* the holding: status and consolidation mode
          member,   \* the user's GroupMembership
          tenant,   \* each company: is_active and allow_consolidation
          link,     \* each company's GroupTenantLink
          access,   \* the user's GroupTenantAccess in each company
          direct    \* the user's TenantMembership in each company

policyVars == <<group, member, tenant, link, access, direct>>

PolicyTypeOK ==
  /\ group \in GroupRows
  /\ member \in Rows(GroupRoles)
  /\ tenant \in [Tenants -> TenantRows]
  /\ link \in [Tenants -> LinkRows]
  /\ access \in [Tenants -> Rows(TenantRoles)]
  /\ direct \in [Tenants -> Rows(TenantRoles)]

(* A holding as it is created: active, aggregates only, nothing linked.    *)
PolicyInit ==
  /\ group = [active |-> TRUE, mode |-> "aggregate_only"]
  /\ member = NoRow
  /\ tenant = [t \in Tenants |-> [active |-> TRUE, allow |-> TRUE]]
  /\ link = [t \in Tenants |-> [active |-> FALSE, mode |-> "blocked"]]
  /\ access = [t \in Tenants |-> NoRow]
  /\ direct = [t \in Tenants |-> NoRow]

-----------------------------------------------------------------------------
(* CorporateGroupEditView: the form saves every field of the holding.      *)
GroupEdit(row) ==
  /\ group' = row
  /\ UNCHANGED <<member, tenant, link, access, direct>>

(* CorporateGroupMembershipUpsertView.                                     *)
MembershipUpsert(role, on) ==
  /\ member' = [role |-> role, active |-> on]
  /\ UNCHANGED <<group, tenant, link, access, direct>>

(* CorporateGroupTenantLinkUpsertView: the form offers active companies.   *)
LinkUpsert(t, row) ==
  /\ tenant[t].active
  /\ link' = [link EXCEPT ![t] = row]
  /\ UNCHANGED <<group, member, tenant, access, direct>>

(* CorporateGroupTenantAccessUpsertView: the form asks for an active       *)
(* member of the holding and an active link to an active company.          *)
AccessUpsert(t, role, on) ==
  /\ member.active
  /\ link[t].active /\ tenant[t].active
  /\ access' = [access EXCEPT ![t] = [role |-> role, active |-> on]]
  /\ UNCHANGED <<group, member, tenant, link, direct>>

(* Mutant: the toggle does not ask whether the row exists.                 *)
AccessToggleAnyRow(t) ==
  /\ access' = [access EXCEPT ![t].active = ~@]
  /\ UNCHANGED <<group, member, tenant, link, direct>>

(* GroupTenantAccessToggleView: neither the member nor the link is asked.  *)
AccessToggle(t) ==
  /\ access[t] # NoRow
  /\ access' = [access EXCEPT ![t].active = ~@]
  /\ UNCHANGED <<group, member, tenant, link, direct>>

(* GroupTenantAccessDeleteView.                                            *)
AccessDelete(t) ==
  /\ access[t] # NoRow
  /\ access' = [access EXCEPT ![t] = NoRow]
  /\ UNCHANGED <<group, member, tenant, link, direct>>

(* TenantEditView saves both flags of the company; TenantToggleActiveView  *)
(* flips one of them.                                                      *)
TenantEdit(t, row) ==
  /\ tenant' = [tenant EXCEPT ![t] = row]
  /\ UNCHANGED <<group, member, link, access, direct>>

TenantToggleActive(t) ==
  /\ tenant' = [tenant EXCEPT ![t].active = ~@]
  /\ UNCHANGED <<group, member, link, access, direct>>

(* assign_tenant_membership, MembershipToggleView, MembershipDeleteView.   *)
(* TenantAccessAdminView asks for an active company, TenantDetailView, the *)
(* other way to assign, does not.                                          *)
DirectAssign(t, role) ==
  /\ direct' = [direct EXCEPT ![t] = [role |-> role, active |-> TRUE]]
  /\ UNCHANGED <<group, member, tenant, link, access>>

DirectToggle(t) ==
  /\ direct[t] # NoRow
  /\ direct' = [direct EXCEPT ![t].active = ~@]
  /\ UNCHANGED <<group, member, tenant, link, access>>

DirectDelete(t) ==
  /\ direct[t] # NoRow
  /\ direct' = [direct EXCEPT ![t] = NoRow]
  /\ UNCHANGED <<group, member, tenant, link, access>>

HoldingAdmin ==
  \/ \E row \in GroupRows : GroupEdit(row)
  \/ \E role \in GroupRoles, on \in BOOLEAN : MembershipUpsert(role, on)
  \/ \E t \in Tenants :
       \/ \E row \in LinkRows : LinkUpsert(t, row)
       \/ \E role \in TenantRoles, on \in BOOLEAN : AccessUpsert(t, role, on)
       \/ AccessToggle(t)
       \/ AccessDelete(t)

TenantAdmin ==
  \E t \in Tenants :
    \/ \E row \in TenantRows : TenantEdit(t, row)
    \/ TenantToggleActive(t)
    \/ \E role \in TenantRoles : DirectAssign(t, role)
    \/ DirectToggle(t)
    \/ DirectDelete(t)

Admin == HoldingAdmin \/ TenantAdmin

PolicySpec == PolicyInit /\ [][Admin]_policyVars

-----------------------------------------------------------------------------
(* The mode in force is the least open of the five layers that govern it,  *)
(* whatever order the administrators set them in: no layer can be overruled*)
(* by a more open one.                                                     *)
EffectiveModeIsLeast ==
  \A t \in Tenants :
    IsLeast(Level(EffectiveMode(group, link[t], tenant[t])),
            Layers(group, link[t], tenant[t]))

Opens(t, perm) ==
  GroupAllowed(group, link[t], tenant[t], member, access[t], perm, WorkRoles)

OnlyTightens ==
  /\ GroupLeq(group', group)
  /\ RowLeq(member', member)
  /\ \A t \in Tenants : /\ TenantLeq(tenant'[t], tenant[t])
                        /\ LinkLeq(link'[t], link[t])
                        /\ RowLeq(access'[t], access[t])

(* An administrator who only closes things (suspends, blocks, lowers a     *)
(* mode, deactivates a row) never opens a company to the user: the cascade *)
(* of the rules has no branch where less policy means more access.         *)
TighteningNeverOpens ==
  [][OnlyTightens => \A t \in Tenants, perm \in {"access", "work"} :
                        Opens(t, perm)' => Opens(t, perm)]_policyVars
=============================================================================
