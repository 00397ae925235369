----------------------------- MODULE Governance -----------------------------
(***************************************************************************)
(* The races of the views of governance, side by side: the limits of a     *)
(* holding or a company, the primary link of a holding, and the            *)
(* operational grants of a member.  They write different tables and share  *)
(* no state, so a behaviour is about one of them, which scene names.       *)
(***************************************************************************)
EXTENDS Allocation, Sequences

CONSTANTS Tenants, NoTenant,   \* of HoldingLinks,
          Posts,               \*    and the requests served at a time there
          Never, Expiries,     \* of OperationalGrants,
          MaxGrants, MaxTime   \*    with its bounds

(* NoTenant is no company; the expiry of a form may be left empty.         *)
ASSUME GovernanceAssumption ==
  /\ NoTenant \notin Tenants
  /\ Never \in Expiries
  /\ MaxGrants \in Nat /\ MaxTime \in Nat

VARIABLES scene,                                      \* it never changes
          linked, primary, pending, promoted, lost,   \* of HoldingLinks
          grants, eligible, now, asks, expired        \* of OperationalGrants

linkVars == <<linked, primary, pending, promoted, lost>>
grantVars == <<grants, eligible, now, asks, expired>>

Links == INSTANCE HoldingLinks WITH Workers <- Posts
Grants == INSTANCE OperationalGrants WITH req <- asks

GovernanceInit ==
  /\ scene \in {"limits", "links", "grants"}
  /\ Init
  /\ Links!Init
  /\ Grants!Init

GovernanceNext ==
  /\ \/ scene = "limits" /\ Next /\ UNCHANGED <<linkVars, grantVars>>
     \/ scene = "links" /\ Links!Next /\ UNCHANGED <<vars, grantVars>>
     \/ scene = "grants" /\ Grants!Next /\ UNCHANGED <<vars, linkVars>>
  /\ UNCHANGED scene

GovernanceSpec ==
  GovernanceInit /\ [][GovernanceNext]_<<scene, vars, linkVars, grantVars>>

-----------------------------------------------------------------------------
(* Once the latest promotion of a company has cleared its rivals, no other *)
(* company is the primary of the holding; it may have none, when an older  *)
(* clear came last (CorporateGroupTenantLink).                             *)
LatestPromotionWins == Links!LatestPromotionWins

(* ... and at rest the holding has at most one primary.                    *)
OnePrimaryAtRest == Links!OnePrimaryAtRest

(* A member gets as many undecided grants in a row as requests crossed the *)
(* check together (create_operational_access_request).                     *)
WaitingBounded == Grants!WaitingBounded
=============================================================================
