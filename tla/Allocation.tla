----------------------------- MODULE Allocation -----------------------------
(***************************************************************************)
(* The three limits of Binn, each counted and then taken without a lock:   *)
(*   "seats"     the active GroupMembership rows of a holding, one for     *)
(*               each user, against seat_limit;                            *)
(*   "managers"  the active GroupTenantAccess rows of a holding with a     *)
(*               managing role, one for each company and user, against     *)
(*               manager_limit;                                            *)
(*   "users"     the active TenantMembership rows of a company, one for    *)
(*               each user, against max_users.                             *)
(* A behaviour is about one of them, which kind names.                     *)
(*                                                                         *)
(* A request of an authorised manager reads the row it is about and what   *)
(* limits it, counts the active rows when it needs room, and writes: each  *)
(* is a query of its own, and other requests come between them.            *)
(***************************************************************************)
EXTENDS Integers, FiniteSets

CONSTANTS Slots,     \* the users, or pairs of company and user, with a row
          Workers, NoSlot,
          Limits     \* bound: the limits the forms are given

ASSUME AllocationAssumption ==
  /\ IsFiniteSet(Slots) /\ NoSlot \notin Slots
  /\ IsFiniteSet(Workers) /\ Workers # {}
  /\ Limits \subseteq Nat

VARIABLES kind,     \* which of the three: it never changes
          rows,     \* the row of each slot
          account,  \* the limit, and enforce_limits of a holding
          req,      \* the request each worker serves, with what it has read
          ceiling,  \* history: the highest limit so far
          waived,   \* history: enforce_limits has been off
          toggled   \* history: accesses of a holding the toggle switched on

history == <<ceiling, waived, toggled>>
vars == <<kind, rows, account, req, history>>

Kinds == {"seats", "managers", "users"}

(* Every membership counts; an access counts with the role of owner or     *)
(* manager, and not with one of the others.                                *)
Roles == IF kind = "managers" THEN {"counted", "uncounted"} ELSE {"counted"}
NoRow == [role |-> "none", active |-> FALSE]

Counted(row) == row.active /\ row.role = "counted"
Held == {s \in Slots : Counted(rows[s])}

Steps == {"idle", "billing", "count", "write", "flip"}
Idle == [step |-> "idle", slot |-> NoSlot, role |-> "none", on |-> FALSE,
         current |-> FALSE, then |-> "write", limit |-> 0]

TypeOK ==
  /\ kind \in Kinds
  /\ rows \in [Slots -> {NoRow} \cup [role : Roles, active : BOOLEAN]]
  /\ account \in [limit : Limits, enforce : BOOLEAN]
  /\ req \in [Workers ->
       [step : Steps, slot : Slots \cup {NoSlot}, role : Roles \cup {"none"},
        on : BOOLEAN, current : BOOLEAN, then : {"write", "flip"},
        limit : Limits \cup {0}]]
  /\ ceiling \in Nat
  /\ waived \in BOOLEAN
  /\ toggled \subseteq Slots

Init ==
  /\ kind \in Kinds
  /\ rows = [s \in Slots |-> NoRow]
  /\ account \in [limit : Limits, enforce : {TRUE}]
  /\ req = [w \in Workers |-> Idle]
  /\ ceiling = account.limit
  /\ waived = FALSE
  /\ toggled = {}

-----------------------------------------------------------------------------
(* The requests that begin, with the first row they read.                  *)
Begin(w, q) ==
  /\ req[w].step = "idle"
  /\ req' = [req EXCEPT ![w] = q]
  /\ UNCHANGED <<kind, rows, account, history>>

(* Mutant: an existing membership is taken for an active one.              *)
StartMembershipAnyRow(w, s, on) ==
  /\ kind = "seats"
  /\ Begin(w, [Idle EXCEPT !.slot = s, !.role = "counted", !.on = on,
                           !.current = rows[s] # NoRow,
                           !.step = IF on THEN "billing" ELSE "write"])

(* CorporateGroupMembershipUpsertView: only a row to be active needs room. *)
StartMembership(w, s, on) ==
  /\ kind = "seats"
  /\ Begin(w, [Idle EXCEPT !.slot = s, !.role = "counted", !.on = on,
                           !.current = Counted(rows[s]),
                           !.step = IF on THEN "billing" ELSE "write"])

(* CorporateGroupTenantAccessUpsertView: only an active row with a         *)
(* managing role needs room, unless it is one already.                     *)
StartAccess(w, s, role, on) ==
  /\ kind = "managers"
  /\ role \in Roles
  /\ Begin(w, [Idle EXCEPT !.slot = s, !.role = role, !.on = on,
                           !.current = Counted(rows[s]),
                           !.step = IF on /\ role = "counted" THEN "billing" ELSE "write"])

(* assign_tenant_membership: the company came with max_users; an active    *)
(* membership needs no room.                                               *)
StartAssign(w, s) ==
  /\ kind = "users"
  /\ Begin(w, [Idle EXCEPT !.slot = s, !.role = "counted", !.on = TRUE,
                           !.limit = account.limit,
                           !.step = IF Counted(rows[s]) THEN "write" ELSE "count"])

(* GroupTenantAccessToggleView asks for no room.                           *)
ToggleAccess(w, s) ==
  /\ kind = "managers"
  /\ rows[s] # NoRow
  /\ Begin(w, [Idle EXCEPT !.slot = s, !.role = rows[s].role,
                           !.on = ~rows[s].active, !.step = "flip"])

(* MembershipToggleView asks for room to activate.                         *)
ToggleUser(w, s) ==
  /\ kind = "users"
  /\ rows[s] # NoRow
  /\ Begin(w, [Idle EXCEPT !.slot = s, !.role = "counted",
                           !.on = ~rows[s].active, !.limit = account.limit,
                           !.then = "flip",
                           !.step = IF rows[s].active THEN "flip" ELSE "count"])

-----------------------------------------------------------------------------
(* can_allocate_group_seat and can_allocate_manager_assignment: the        *)
(* account, ...                                                            *)
ReadBilling(w) ==
  /\ req[w].step = "billing"
  /\ req' = [req EXCEPT
       ![w].limit = account.limit,
       ![w].step = IF ~account.enforce \/ req[w].current THEN "write" ELSE "count"]
  /\ UNCHANGED <<kind, rows, account, history>>

(* Mutant: the last place is given twice.                                  *)
CountAtMost(w) ==
  /\ req[w].step = "count"
  /\ req' = [req EXCEPT ![w] =
       IF Cardinality(Held) <= @.limit THEN [@ EXCEPT !.step = req[w].then] ELSE Idle]
  /\ UNCHANGED <<kind, rows, account, history>>

(* ... and the count; a request refused ends with an error in its form.    *)
Count(w) ==
  /\ req[w].step = "count"
  /\ req' = [req EXCEPT ![w] =
       IF Cardinality(Held) < @.limit THEN [@ EXCEPT !.step = req[w].then] ELSE Idle]
  /\ UNCHANGED <<kind, rows, account, history>>

(* update_or_create, or get_or_create with the save of what differs:       *)
(* whatever has happened to the row since it was read.                     *)
Write(w) ==
  /\ req[w].step = "write"
  /\ rows' = [rows EXCEPT ![req[w].slot] = [role |-> req[w].role, active |-> req[w].on]]
  /\ req' = [req EXCEPT ![w] = Idle]
  /\ UNCHANGED <<kind, account, history>>

(* The toggles save the opposite of what they read in is_active alone; the *)
(* save of a row deleted meanwhile fails.                                  *)
Flip(w) ==
  /\ req[w].step = "flip"
  /\ LET s == req[w].slot IN
       \/ /\ rows[s] = NoRow
          /\ UNCHANGED <<rows, toggled>>
       \/ /\ rows[s] # NoRow
          /\ rows' = [rows EXCEPT ![s].active = req[w].on]
          /\ toggled' = IF kind = "managers" /\ req[w].on THEN toggled \cup {s} ELSE toggled
  /\ req' = [req EXCEPT ![w] = Idle]
  /\ UNCHANGED <<kind, account, ceiling, waived>>

(* GroupTenantAccessDeleteView, MembershipDeleteView.                      *)
Delete(s) ==
  /\ kind \in {"managers", "users"}
  /\ rows[s] # NoRow
  /\ rows' = [rows EXCEPT ![s] = NoRow]
  /\ UNCHANGED <<kind, account, req, history>>

-----------------------------------------------------------------------------
(* No form compares a new limit with what is held.                         *)
Relimit(limit, enforce) ==
  /\ account' = [limit |-> limit, enforce |-> enforce]
  /\ ceiling' = IF limit > ceiling THEN limit ELSE ceiling
  /\ waived' = (waived \/ ~enforce)
  /\ UNCHANGED <<kind, rows, req, toggled>>

(* CorporateGroupBillingUpdateView                                         *)
BillingUpdate(limit, enforce) == kind # "users" /\ Relimit(limit, enforce)

(* TenantEditView: the limit of a company is always enforced.              *)
LimitEdit(limit) == kind = "users" /\ Relimit(limit, TRUE)

Next ==
  \/ \E w \in Workers :
       \/ \E s \in Slots :
            \/ \E on \in BOOLEAN : StartMembership(w, s, on)
            \/ \E role \in {"counted", "uncounted"}, on \in BOOLEAN :
                 StartAccess(w, s, role, on)
            \/ StartAssign(w, s)
            \/ ToggleAccess(w, s)
            \/ ToggleUser(w, s)
       \/ ReadBilling(w)
       \/ Count(w)
       \/ Write(w)
       \/ Flip(w)
  \/ \E s \in Slots : Delete(s)
  \/ \E limit \in Limits, enforce \in BOOLEAN : BillingUpdate(limit, enforce)
  \/ \E limit \in Limits : LimitEdit(limit)

Spec == Init /\ [][Next]_vars

-----------------------------------------------------------------------------
(* The slot and the role of a request in flight are known; the ceiling is  *)
(* the highest limit, also of those a request has read; waived records     *)
(* that a limit not enforced may have let a request through.               *)
ReadsAreRecorded ==
  /\ \A w \in Workers :
       /\ req[w].step # "idle" => req[w].slot \in Slots /\ req[w].role \in Roles
       /\ req[w].limit <= ceiling
  /\ account.limit <= ceiling
  /\ ~account.enforce => waived

(* What the step-by-step refinement below rests on: it is inductive.       *)
IInv == TypeOK /\ ReadsAreRecorded

(* A request may take a place from the moment nothing can refuse it.  The  *)
(* toggle of an access never asked, and takes none that counts here.       *)
Allowed(q) ==
  /\ q.on /\ q.role = "counted"
  /\ \/ q.step = "write"
     \/ q.step = "billing" /\ q.current
     \/ q.step = "flip" /\ kind # "managers"

Vetted == Held \ toggled
VettedClaims == [w \in Workers |->
  IF Allowed(req[w]) /\ req[w].slot \notin toggled THEN req[w].slot ELSE NoSlot]

Places == INSTANCE Quota WITH held <- Vetted, claim <- VettedClaims

(* Seats, managers and local users keep the promise of a quota, step by    *)
(* step: memberships and accesses are taken only by a request whose count  *)
(* (or own row) allowed it, except the accesses the toggle switched on.    *)
ImplementsQuota == Places!Spec

(* Requests served at the same time exceed the highest limit there has     *)
(* been by less than their number, whatever is deactivated or deleted      *)
(* between a count and its write; further above it there are only managers *)
(* that GroupTenantAccessToggleView switched back on.                      *)
OnlyTogglesOvershoot ==
  ~waived => Cardinality(Vetted) < ceiling + Cardinality(Workers)

(* The help text of the billing form, governance/forms.py:86: manager_limit *)
(* is how many managers can be assigned to the companies of the group.     *)
WithinLimit == ~waived => Cardinality(Held) <= ceiling
=============================================================================
