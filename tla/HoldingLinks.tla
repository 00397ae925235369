---------------------------- MODULE HoldingLinks ----------------------------
(***************************************************************************)
(* The tenant links of one holding and its primary flag:                   *)
(* governance/views.py, CorporateGroupTenantLinkUpsertView.post.           *)
(*                                                                         *)
(* A superuser posts the link form.  The handler first runs                *)
(* update_or_create on the link row (one transaction of its own) and then, *)
(* when the row it wrote is primary, issues a second statement that clears *)
(* is_primary on every other link of the holding.  There is no transaction *)
(* around the two and no database constraint on is_primary, so requests    *)
(* interleave between them and a process may die between them.             *)
(*                                                                         *)
(* Only the existence of a link and its primary flag are kept; the mode    *)
(* and the active flag of the row are in module AccessPipeline.            *)
(***************************************************************************)
EXTENDS FiniteSets

CONSTANTS Tenants,   \* the active companies the form offers
          Workers,   \* the requests served at the same time
          NoTenant   \* a value that is no company

(* What the theorems about this module assume.                             *)
NoTenantAssumption == NoTenant \notin Tenants

VARIABLES linked,    \* companies that have a link row in the holding
          primary,   \* companies whose link row has is_primary = True
          pending,   \* the company whose rivals a worker still has to clear
          promoted,  \* history: the company of the latest primary upsert
          lost       \* history: the clear owed by that upsert died with it

vars == <<linked, primary, pending, promoted, lost>>

TypeOK ==
  /\ linked \subseteq Tenants
  /\ primary \subseteq linked
  /\ pending \in [Workers -> Tenants \cup {NoTenant}]
  /\ promoted \in Tenants \cup {NoTenant}
  /\ lost \in BOOLEAN

Init ==
  /\ linked = {}
  /\ primary = {}
  /\ pending = [w \in Workers |-> NoTenant]
  /\ promoted = NoTenant
  /\ lost = FALSE

Idle(w) == pending[w] = NoTenant

-----------------------------------------------------------------------------
(* Mutant: the clear is owed only by a request that created the link.      *)
SavePrimaryOwesIfCreated(w, t) ==
  /\ Idle(w)
  /\ linked' = linked \cup {t}
  /\ primary' = primary \cup {t}
  /\ pending' = [pending EXCEPT ![w] = IF t \in linked THEN NoTenant ELSE t]
  /\ promoted' = t
  /\ lost' = FALSE

(* The first statement, with is_primary checked in the form.               *)
SavePrimary(w, t) ==
  /\ Idle(w)
  /\ linked' = linked \cup {t}
  /\ primary' = primary \cup {t}
  /\ pending' = [pending EXCEPT ![w] = t]
  /\ promoted' = t
  /\ lost' = FALSE

(* The first statement with is_primary unset: the handler is then done.    *)
SaveSecondary(w, t) ==
  /\ Idle(w)
  /\ linked' = linked \cup {t}
  /\ primary' = primary \ {t}
  /\ UNCHANGED <<pending, promoted, lost>>

(* Mutant: the clear spares the rows of other requests in flight.          *)
ClearSparesInFlight(w) ==
  /\ ~Idle(w)
  /\ primary' = primary \cap {pending[v] : v \in Workers}
  /\ pending' = [pending EXCEPT ![w] = NoTenant]
  /\ UNCHANGED <<linked, promoted, lost>>

(* The second statement: filter(group).exclude(pk).update(is_primary=False). *)
ClearOthers(w) ==
  /\ ~Idle(w)
  /\ primary' = primary \cap {pending[w]}
  /\ pending' = [pending EXCEPT ![w] = NoTenant]
  /\ UNCHANGED <<linked, promoted, lost>>

(* The process dies, or loses the database, between the two statements.    *)
Die(w) ==
  /\ ~Idle(w)
  /\ pending' = [pending EXCEPT ![w] = NoTenant]
  /\ lost' = (lost \/ pending[w] = promoted)
  /\ UNCHANGED <<linked, primary, promoted>>

Next ==
  \E w \in Workers :
    \/ \E t \in Tenants : SavePrimary(w, t) \/ SaveSecondary(w, t)
    \/ ClearOthers(w)
    \/ Die(w)

Spec == Init /\ [][Next]_vars

-----------------------------------------------------------------------------
(* However the requests interleave, once the latest promotion has cleared  *)
(* its rivals no company but the one it promoted carries the flag: older   *)
(* promotions that were still in flight cannot bring a second primary      *)
(* back.  They may leave none: the clear of an older one strips the flag   *)
(* of the latest.  Views read the primary first                            *)
(* (order_by("-is_primary", ...)).                                         *)
LatestPromotionWins ==
  (~lost /\ \A w \in Workers : pending[w] # promoted)
     => primary \subseteq {promoted}

(* At rest, and unless a request died half way, a holding has at most one  *)
(* primary link.                                                           *)
OnePrimaryAtRest ==
  (~lost /\ \A w \in Workers : Idle(w)) => \A s, t \in primary : s = t

(* What LatestPromotionWins needs to be inductive: another primary is      *)
(* always owed a clear by the request of the latest promotion, or that     *)
(* request died.                                                           *)
RivalsAreOwedAClear ==
  \A t \in primary :
     t # promoted => lost \/ \E w \in Workers : pending[w] = promoted

NonePromotedNonePrimary == promoted = NoTenant => primary = {}

IInv == TypeOK /\ RivalsAreOwedAClear /\ NonePromotedNonePrimary
=============================================================================
