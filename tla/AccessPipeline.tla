--------------------------- MODULE AccessPipeline ---------------------------
(***************************************************************************)
(* The requests of one signed-in session of one user, against the control  *)
(* plane that administrators change meanwhile.                             *)
(*                                                                         *)
(* A page of a company crosses the middleware chain: the company is loaded *)
(* with its active flag, then the session's access context, then the gate  *)
(* (TenantAccessMiddleware) and the view's permission check each resolve a *)
(* decision with one query per layer.  A switch decides on a company or on *)
(* the holding and saves the access context, and then its mirror in the    *)
(* global session.  No transaction spans two of these steps, and the tabs  *)
(* of one browser run them at the same time.                               *)
(***************************************************************************)
EXTENDS ControlPlane, FiniteSets

CONSTANTS Requests,   \* the requests in flight at the same time
          NoTenant,   \* the public site; a context on no company
          FirstRoles, \* bound: roles of the accesses at the start
          MaxWrites   \* bound: administration writes in a behaviour

ASSUME PipelineAssumption ==
  NoTenant \notin Tenants /\ FirstRoles \subseteq TenantRoles /\ MaxWrites \in Nat

VARIABLES registered, \* the session has its GlobalSession row
          context,    \* its ActiveAccessContext row
          mirror,     \* the scope copied in its GlobalSession row
          req,        \* the requests, with what each has read
          writes,     \* administration writes so far
          ever,       \* history: the layers of each company ever open
          together    \* history: two requests have been in flight at a time

sessionVars == <<registered, context, mirror>>
vars == <<policyVars, sessionVars, req, writes, ever, together>>

Scopes == {"strict", "consolidated"}
Contexts == [scope : Scopes, tenant : Tenants \cup {NoTenant}]
NoContext == [scope |-> "none", tenant |-> NoTenant]
Strict(t) == [scope |-> "strict", tenant |-> t]
Consolidated(t) == [scope |-> "consolidated", tenant |-> t]

Kinds == {"page", "group_switch", "drilldown", "tenant_switch", "return"}
PageSteps == {"local", "resolve", "link", "assign"}
SwitchSteps == {"target", "own", "holding", "dashboard", "company", "member", "assigned"}
Steps == {"idle", "arrived", "boot", "handoff", "save", "sync",
          "served", "denied"} \cup PageSteps \cup SwitchSteps

Idle == [step |-> "idle", kind |-> "page", at |-> NoTenant, on |-> TRUE,
         context |-> NoContext, phase |-> "gate", role |-> NoRole,
         holding |-> [active |-> FALSE, mode |-> "blocked"],
         next |-> NoContext, seen |-> {}, writes |-> 0]

-----------------------------------------------------------------------------
(* The layers of policy between the user and company t.                    *)
LayerNames ==
  {"company", "membership", "holding", "link", "entry", "assigned", "local"}

LayerOn(name, t) ==
  CASE name = "company"    -> tenant[t].active
    [] name = "membership" -> member.active
    [] name = "holding"    -> group.active /\ group.mode = "full"
    [] name = "link"       -> link[t].active /\ link[t].mode = "full" /\ tenant[t].allow
    [] name = "entry"      -> CanManageGroup(member) \/ access[t].active
    [] name = "assigned"   -> CanManageGroup(member) \/ RoleAllows(access[t], "work", WorkRoles)
    [] name = "local"      -> RoleAllows(direct[t], "work", WorkRoles)

StandingOf == [t \in Tenants |-> {name \in LayerNames : LayerOn(name, t)}]

(* The layers a page needs, by either way in, and those of a context on a  *)
(* company by way of the holding.                                          *)
LocalPath == {"company", "local"}
GroupPath == {"company", "membership", "holding", "link", "entry", "assigned"}
EntryPath == GroupPath \ {"assigned"}

-----------------------------------------------------------------------------
Request ==
  [step : Steps, kind : Kinds, at : Tenants \cup {NoTenant}, on : BOOLEAN,
   context : Contexts \cup {NoContext}, phase : {"gate", "view"},
   role : GroupRoles \cup {NoRole}, holding : GroupRows,
   next : Contexts \cup {NoContext}, seen : SUBSET SUBSET LayerNames,
   writes : 0..MaxWrites]

TypeOK ==
  /\ PolicyTypeOK
  /\ registered \in BOOLEAN
  /\ context \in Contexts \cup {NoContext}
  /\ mirror \in Scopes
  /\ writes \in 0..MaxWrites
  /\ ever \in [Tenants -> SUBSET LayerNames]
  /\ together \in BOOLEAN
  /\ req \in [Requests -> Request]

(* A holding at work: full detail everywhere, the user a member with any   *)
(* role, and with or without local and assigned accesses, just signed in.  *)
Init ==
  /\ group = [active |-> TRUE, mode |-> "full"]
  /\ member \in [role : GroupRoles, active : {TRUE}]
  /\ tenant = [t \in Tenants |-> [active |-> TRUE, allow |-> TRUE]]
  /\ link = [t \in Tenants |-> [active |-> TRUE, mode |-> "full"]]
  /\ access \in [Tenants -> {NoRow} \cup [role : FirstRoles, active : {TRUE}]]
  /\ direct \in [Tenants -> {NoRow} \cup [role : FirstRoles, active : {TRUE}]]
  /\ registered \in BOOLEAN
  /\ context = NoContext
  /\ mirror = "strict"
  /\ req = [r \in Requests |-> Idle]
  /\ writes = 0
  /\ ever = StandingOf
  /\ together = FALSE

(* Request r goes to another step, with the fields it read.                *)
Goto(r, step) == req' = [req EXCEPT ![r].step = step]

Proceed(r, phase) ==
  req' = [req EXCEPT ![r].phase = phase, ![r].step = "resolve"]

-----------------------------------------------------------------------------
(* TenantMainMiddleware loads the company of the host; a switch is asked   *)
(* for on the public site.                                                 *)
Arrive(r, kind, t) ==
  /\ req[r].step = "idle"
  /\ (t = NoTenant) <=> (kind \in {"group_switch", "return"})
  /\ req' = [req EXCEPT ![r] =
       [Idle EXCEPT !.step = "arrived", !.kind = kind, !.at = t,
                    !.on = IF t = NoTenant THEN TRUE ELSE tenant[t].active,
                    !.seen = IF t = NoTenant THEN {} ELSE {StandingOf[t]}]]
  /\ together' = (together \/ \E q \in Requests \ {r} : req[q].step # "idle")
  /\ UNCHANGED <<policyVars, sessionVars, writes, ever>>

(* Where the middleware chain leads once the context is known.             *)
AfterLoad(q) ==
  CASE q.kind = "page"          -> IF q.on THEN "local" ELSE "denied"
    [] q.kind = "tenant_switch" -> "target"
    [] q.kind \in {"group_switch", "drilldown"} -> "holding"
    [] q.kind = "return"        -> "save"

(* ActiveAccessContextMiddleware: ensure_active_access_context makes the   *)
(* row when the session has none, on the company of the first request.     *)
Load(r) ==
  /\ req[r].step = "arrived"
  /\ LET fresh == Strict(IF req[r].kind = "page" THEN req[r].at ELSE NoTenant)
         makes == registered /\ context = NoContext
         ctx   == IF makes THEN fresh ELSE context
     IN  /\ context' = ctx
         /\ req' = [req EXCEPT ![r].context = ctx,
                      ![r].step = IF makes THEN "boot" ELSE AfterLoad(req[r])]
  /\ UNCHANGED <<policyVars, registered, mirror, writes, ever, together>>

(* ... and then copies the scope of the row it made.                       *)
Boot(r) ==
  /\ req[r].step = "boot"
  /\ mirror' = req[r].context.scope
  /\ Goto(r, AfterLoad(req[r]))
  /\ UNCHANGED <<policyVars, registered, context, writes, ever, together>>

-----------------------------------------------------------------------------
(* TenantAccessMiddleware reads the direct membership first.  A session    *)
(* without a context is decided on it alone, at the gate and in the view.  *)
Local(r) ==
  /\ req[r].step = "local"
  /\ IF req[r].context # NoContext
     THEN Goto(r, "resolve")
     ELSE Goto(r, IF RoleAllows(direct[req[r].at], "work", WorkRoles)
                  THEN "served" ELSE "denied")
  /\ UNCHANGED <<policyVars, sessionVars, writes, ever, together>>

Permission(r) == IF req[r].phase = "gate" THEN "access" ELSE "work"

(* Mutant: a context of any scope is handed over to the company.           *)
PassHandsOffAnyScope(r) ==
  CASE req[r].phase = "view" -> Goto(r, "served")
    [] req[r].phase = "gate"
         /\ req[r].context.tenant # req[r].at -> Goto(r, "handoff")
    [] OTHER -> Proceed(r, "view")

(* A decision that allows: the view is served; at the gate, a consolidated *)
(* context on another company is first handed over to this one.            *)
Pass(r) ==
  CASE req[r].phase = "view" -> Goto(r, "served")
    [] req[r].phase = "gate" /\ req[r].context.scope = "consolidated"
         /\ req[r].context.tenant # req[r].at -> Goto(r, "handoff")
    [] OTHER -> Proceed(r, "view")

(* Mutant: the view asks for no more than the gate did.                    *)
ResolveStrictEntryOnly(r) ==
  /\ req[r].step = "resolve"
  /\ req[r].context.scope = "strict"
  /\ IF /\ req[r].context.tenant \in {NoTenant, req[r].at}
        /\ RoleAllows(direct[req[r].at], "access", WorkRoles)
     THEN Pass(r) ELSE Goto(r, "denied")
  /\ UNCHANGED <<policyVars, sessionVars, writes, ever, together>>

(* RequestAccessResolver.resolve in strict isolation: one read.            *)
ResolveStrict(r) ==
  /\ req[r].step = "resolve"
  /\ req[r].context.scope = "strict"
  /\ IF /\ req[r].context.tenant \in {NoTenant, req[r].at}
        /\ RoleAllows(direct[req[r].at], Permission(r), WorkRoles)
     THEN Pass(r) ELSE Goto(r, "denied")
  /\ UNCHANGED <<policyVars, sessionVars, writes, ever, together>>

(* Consolidated, first read: get_active_group_membership.                  *)
ResolveMembership(r) ==
  /\ req[r].step = "resolve"
  /\ req[r].context.scope = "consolidated"
  /\ req' = [req EXCEPT
       ![r].role = IF member.active /\ group.active THEN member.role ELSE NoRole,
       ![r].step = "link"]
  /\ UNCHANGED <<policyVars, sessionVars, writes, ever, together>>

LinkOpen(t, holding) ==
  /\ link[t].active /\ tenant[t].active
  /\ EffectiveMode(holding, link[t], tenant[t]) = "full"

(* Mutant: the mode of the link is taken for the effective mode.           *)
ResolveLinkOwnMode(r) ==
  /\ req[r].step = "link"
  /\ LET t == req[r].at IN
     IF req[r].role = NoRole
          \/ ~(link[t].active /\ tenant[t].active /\ link[t].mode = "full")
     THEN Goto(r, "denied")
     ELSE IF req[r].role \in ManagingRoles THEN Pass(r) ELSE Goto(r, "assign")
  /\ UNCHANGED <<policyVars, sessionVars, writes, ever, together>>

(* Second read: get_group_tenant_link, with the company and the holding.   *)
ResolveLink(r) ==
  /\ req[r].step = "link"
  /\ IF req[r].role = NoRole \/ ~LinkOpen(req[r].at, group)
     THEN Goto(r, "denied")
     ELSE IF req[r].role \in ManagingRoles THEN Pass(r) ELSE Goto(r, "assign")
  /\ UNCHANGED <<policyVars, sessionVars, writes, ever, together>>

(* Third read, for a member who does not manage the holding.               *)
ResolveAssign(r) ==
  /\ req[r].step = "assign"
  /\ IF RoleAllows(access[req[r].at], Permission(r), WorkRoles)
     THEN Pass(r) ELSE Goto(r, "denied")
  /\ UNCHANGED <<policyVars, sessionVars, writes, ever, together>>

-----------------------------------------------------------------------------
(* The switches.  Each read turns the user away or leads to the next.      *)
Turn(r, pass, step) ==
  /\ Goto(r, IF pass THEN step ELSE "denied")
  /\ UNCHANGED <<policyVars, sessionVars, writes, ever, together>>

(* The context the switch has granted, to be saved.                        *)
Grant(r, ctx) ==
  /\ req' = [req EXCEPT ![r].next = ctx, ![r].step = "save"]
  /\ UNCHANGED <<policyVars, sessionVars, writes, ever, together>>

(* TenantSwitchView: the company, then the user's own membership in it;    *)
(* without one, the holding of the loaded context.                         *)
SwitchTarget(r) ==
  /\ req[r].step = "target"
  /\ Turn(r, tenant[req[r].at].active, "own")

SwitchOwn(r) ==
  /\ req[r].step = "own"
  /\ IF direct[req[r].at].active
     THEN Grant(r, Strict(req[r].at))
     ELSE Turn(r, req[r].context.scope = "consolidated", "holding")

(* The three group views read the holding first and keep it.               *)
SwitchHolding(r) ==
  /\ req[r].step = "holding"
  /\ req' = [req EXCEPT
       ![r].holding = group,
       ![r].step = IF ~group.active THEN "denied"
                   ELSE IF req[r].kind = "tenant_switch" THEN "company"
                   ELSE "dashboard"]
  /\ UNCHANGED <<policyVars, sessionVars, writes, ever, together>>

(* get_group_dashboard_access, or the same read in CorporateGroupSwitchView:*)
(* the holding as a whole asks for no more.                                *)
SwitchDashboard(r) ==
  /\ req[r].step = "dashboard"
  /\ IF ~(member.active /\ group.active) THEN Turn(r, FALSE, "denied")
     ELSE IF req[r].kind = "group_switch" THEN Grant(r, Consolidated(NoTenant))
     ELSE Turn(r, TRUE, "company")

(* The link and the company, with the holding read before.  The mode is    *)
(* computed here, from these rows, and consulted after the membership.     *)
SwitchCompany(r) ==
  /\ req[r].step = "company"
  /\ Turn(r, LinkOpen(req[r].at, req[r].holding), "member")

(* Mutant: any member may open any company.                                *)
SwitchMemberSuffices(r) ==
  /\ req[r].step = "member"
  /\ IF member.active THEN Grant(r, Consolidated(req[r].at))
     ELSE Turn(r, FALSE, "assigned")

(* resolve_group_tenant_detail_access reads the membership again, ...      *)
SwitchMember(r) ==
  /\ req[r].step = "member"
  /\ IF CanManageGroup(member) THEN Grant(r, Consolidated(req[r].at))
     ELSE Turn(r, member.active, "assigned")

(* ... and the access of a member who does not manage.                     *)
SwitchAssigned(r) ==
  /\ req[r].step = "assigned"
  /\ IF access[req[r].at].active THEN Grant(r, Consolidated(req[r].at))
     ELSE Turn(r, FALSE, "denied")

-----------------------------------------------------------------------------
(* What a request saves: a page hands the holding's context over to its    *)
(* company, ReturnToPlatformView clears it, a switch saves what it granted.*)
NextContext(q) ==
  CASE q.kind = "page"   -> Consolidated(q.at)
    [] q.kind = "return" -> Strict(NoTenant)
    [] OTHER             -> q.next

(* set_strict_tenant_context, set_consolidated_context and                 *)
(* clear_active_access_context save the context row with all its fields,   *)
(* whatever another request saved since this one loaded it, ...            *)
SaveContext(r) ==
  /\ req[r].step \in {"handoff", "save"}
  /\ IF registered
     THEN /\ context' = NextContext(req[r])
          /\ req' = [req EXCEPT ![r].next = NextContext(req[r]), ![r].step = "sync"]
     ELSE /\ Goto(r, "served")
          /\ UNCHANGED context
  /\ UNCHANGED <<policyVars, registered, mirror, writes, ever, together>>

(* Mutant: leaving the companies forgets the copy.                         *)
SyncExceptReturn(r) ==
  /\ req[r].step = "sync"
  /\ mirror' = IF req[r].kind = "return" THEN mirror ELSE req[r].next.scope
  /\ IF req[r].kind = "page" THEN Proceed(r, "view") ELSE Goto(r, "served")
  /\ UNCHANGED <<policyVars, registered, context, writes, ever, together>>

(* ... and _sync_global_session_from_context then saves the copy.          *)
SyncMirror(r) ==
  /\ req[r].step = "sync"
  /\ mirror' = req[r].next.scope
  /\ IF req[r].kind = "page" THEN Proceed(r, "view") ELSE Goto(r, "served")
  /\ UNCHANGED <<policyVars, registered, context, writes, ever, together>>

Finish(r) ==
  /\ req[r].step \in {"served", "denied"}
  /\ req' = [req EXCEPT ![r] = Idle]
  /\ UNCHANGED <<policyVars, sessionVars, writes, ever, together>>

-----------------------------------------------------------------------------
(* History: a request that is not decided yet sees the policy change.      *)
Watch(q, standing) ==
  IF q.step \in {"idle", "served", "denied"} \/ q.at = NoTenant THEN q
  ELSE [q EXCEPT !.seen = @ \cup {standing[q.at]}, !.writes = @ + 1]

AdminWrite ==
  /\ writes < MaxWrites
  /\ writes' = writes + 1
  /\ Admin
  /\ req' = [r \in Requests |-> Watch(req[r], StandingOf')]
  /\ ever' = [t \in Tenants |-> ever[t] \cup StandingOf'[t]]
  /\ UNCHANGED <<sessionVars, together>>

PageStep(r) ==
  \/ \E t \in Tenants : Arrive(r, "page", t)
  \/ Load(r) \/ Boot(r) \/ Local(r)
  \/ ResolveStrict(r) \/ ResolveMembership(r) \/ ResolveLink(r) \/ ResolveAssign(r)
  \/ Finish(r)

SwitchStep(r) ==
  \/ \E t \in Tenants, kind \in {"drilldown", "tenant_switch"} : Arrive(r, kind, t)
  \/ \E kind \in {"group_switch", "return"} : Arrive(r, kind, NoTenant)
  \/ SwitchTarget(r) \/ SwitchOwn(r) \/ SwitchHolding(r) \/ SwitchDashboard(r)
  \/ SwitchCompany(r) \/ SwitchMember(r) \/ SwitchAssigned(r)
  \/ SaveContext(r) \/ SyncMirror(r)

Next == AdminWrite \/ \E r \in Requests : PageStep(r) \/ SwitchStep(r)

Spec == Init /\ [][Next]_vars

-----------------------------------------------------------------------------
(* A page is decided as some single instant of the policy would decide it, *)
(* although its layers are read one by one: with at most one administration*)
(* write since it arrived, no mixture of the old and the new policy lets a *)
(* page in that neither would let in, or turns away one that both would    *)
(* let in.  (Two writes can: the reads are not one snapshot.)              *)
PathOf(q) == IF q.context.scope = "consolidated" THEN GroupPath ELSE LocalPath

Misdirected(q) ==
  q.context.scope = "strict" /\ q.context.tenant \notin {NoTenant, q.at}

DecisionsAreSnapshots ==
  \A r \in Requests :
    LET q == req[r] IN
    (q.kind = "page" /\ q.writes <= 1) =>
      /\ q.step = "served" =>
           ~Misdirected(q) /\ \E s \in q.seen : PathOf(q) \subseteq s
      /\ q.step = "denied" =>
           Misdirected(q) \/ \E s \in q.seen : ~(PathOf(q) \subseteq s)

(* However tabs, switches and handoffs interleave, the session never stands*)
(* on a company by way of the holding unless every layer of that entry has *)
(* been open to the user.                                                  *)
ContextIsEarned ==
  \A t \in Tenants : context = Consolidated(t) => EntryPath \subseteq ever[t]

(* As long as requests are served one at a time, only a switch changes the *)
(* scope of a session (a page's handoff only moves it within the holding), *)
(* and the copy in the global session agrees with the context at rest.     *)
OnlySwitchesChangeScope ==
  [][(~together /\ context # NoContext /\ context'.scope # context.scope) =>
       \E r \in Requests : req[r].step = "save"]_vars

MirrorAtRest ==
  (~together /\ context # NoContext /\ \A r \in Requests : req[r].step = "idle")
    => mirror = context.scope

(* Every page refines the contract: a session's page is let in only through*)
(* layers that were open at some instant since it arrived.                 *)
DoorOf(q) ==
  IF q.kind # "page" \/ q.step \in {"idle", "denied"}
  THEN [state |-> "outside", at |-> NoTenant, seen |-> {}]
  ELSE [state |-> IF q.step = "served" THEN "in" ELSE "asking",
        at |-> q.at, seen |-> UNION q.seen]

Contract == INSTANCE AccessContract
  WITH Paths <- {LocalPath, GroupPath},
       standing <- StandingOf,
       door <- [r \in Requests |-> DoorOf(req[r])]

ImplementsContract == Contract!ContractSpec
=============================================================================
