------------------------ MODULE AccessPipelineProofs ------------------------
(* The access rules over the rows of the control plane, and the requests   *)
(* of a session that read them one by one: for any companies, any roles,   *)
(* any sequence of administration and any number of tabs.                  *)
EXTENDS AccessPipeline, TLAPS

(* Each handler leaves rows of the right kind behind.                      *)
LEMMA StepKeepsTypes ==
  ASSUME PolicyTypeOK, [Admin]_policyVars
  PROVE  PolicyTypeOK'
<1> USE DEF PolicyTypeOK, Rows, NoRow, GroupRows, LinkRows, TenantRows
<1>1. CASE UNCHANGED policyVars
  BY <1>1 DEF policyVars
<1>2. ASSUME NEW row \in GroupRows, GroupEdit(row)
      PROVE  PolicyTypeOK'
  BY <1>2 DEF GroupEdit
<1>3. ASSUME NEW role \in GroupRoles, NEW on \in BOOLEAN, MembershipUpsert(role, on)
      PROVE  PolicyTypeOK'
  BY <1>3 DEF MembershipUpsert
<1>4. ASSUME NEW t \in Tenants, NEW row \in LinkRows, LinkUpsert(t, row)
      PROVE  PolicyTypeOK'
  BY <1>4 DEF LinkUpsert
<1>5. ASSUME NEW t \in Tenants, NEW role \in TenantRoles, NEW on \in BOOLEAN,
             AccessUpsert(t, role, on)
      PROVE  PolicyTypeOK'
  BY <1>5 DEF AccessUpsert
<1>6. ASSUME NEW t \in Tenants, AccessToggle(t)
      PROVE  PolicyTypeOK'
  BY <1>6 DEF AccessToggle
<1>7. ASSUME NEW t \in Tenants, AccessDelete(t)
      PROVE  PolicyTypeOK'
  BY <1>7 DEF AccessDelete
<1>8. ASSUME NEW t \in Tenants, NEW row \in TenantRows, TenantEdit(t, row)
      PROVE  PolicyTypeOK'
  BY <1>8 DEF TenantEdit
<1>9. ASSUME NEW t \in Tenants, TenantToggleActive(t)
      PROVE  PolicyTypeOK'
  BY <1>9 DEF TenantToggleActive
<1>10. ASSUME NEW t \in Tenants, NEW role \in TenantRoles, DirectAssign(t, role)
       PROVE  PolicyTypeOK'
  BY <1>10 DEF DirectAssign
<1>11. ASSUME NEW t \in Tenants, DirectToggle(t)
       PROVE  PolicyTypeOK'
  BY <1>11 DEF DirectToggle
<1>12. ASSUME NEW t \in Tenants, DirectDelete(t)
       PROVE  PolicyTypeOK'
  BY <1>12 DEF DirectDelete
<1> HIDE DEF PolicyTypeOK, Rows, NoRow, GroupRows, LinkRows, TenantRows
<1> QED
  BY <1>1, <1>2, <1>3, <1>4, <1>5, <1>6, <1>7, <1>8, <1>9, <1>10, <1>11, <1>12
  DEF Admin, HoldingAdmin, TenantAdmin

(* The rows of the control plane are always of the right kind.             *)
THEOREM PolicyTypeCorrect == PolicySpec => []PolicyTypeOK
<1>1. PolicyInit => PolicyTypeOK
  BY DEF PolicyInit, PolicyTypeOK, Rows, NoRow, GroupRows, LinkRows, TenantRows, Modes
<1> QED
  BY <1>1, StepKeepsTypes, PTL DEF PolicySpec

-----------------------------------------------------------------------------
(* The mode the code computes is the least open of its five layers.        *)
LEMMA ModeIsLeast ==
  ASSUME NEW g \in GroupRows, NEW l \in LinkRows, NEW t \in TenantRows
  PROVE  IsLeast(Level(EffectiveMode(g, l, t)), Layers(g, l, t))
BY DEF GroupRows, LinkRows, TenantRows, Modes, IsLeast, Level, EffectiveMode,
       Layers, Switch

(* Whatever the administrators do, the mode in force is the least open of  *)
(* the layers.                                                             *)
THEOREM EffectiveModeIsLeastThm == PolicySpec => []EffectiveModeIsLeast
<1>1. PolicyTypeOK => EffectiveModeIsLeast
  BY ModeIsLeast DEF PolicyTypeOK, EffectiveModeIsLeast
<1> QED
  BY <1>1, PolicyTypeCorrect, PTL

(* Rows that are at most as open compute a mode at most as open.           *)
LEMMA ModeIsMonotone ==
  ASSUME NEW g \in GroupRows, NEW h \in GroupRows, GroupLeq(g, h),
         NEW k \in LinkRows, NEW l \in LinkRows, LinkLeq(k, l),
         NEW t \in TenantRows, NEW u \in TenantRows, TenantLeq(t, u),
         EffectiveMode(g, k, t) = "full"
  PROVE  EffectiveMode(h, l, u) = "full"
BY DEF GroupRows, LinkRows, TenantRows, Modes, EffectiveMode,
       GroupLeq, LinkLeq, TenantLeq, Level

(* ... and open a company for no more of its users.                        *)
LEMMA OpeningIsMonotone ==
  ASSUME NEW g \in GroupRows, NEW h \in GroupRows, GroupLeq(g, h),
         NEW k \in LinkRows, NEW l \in LinkRows, LinkLeq(k, l),
         NEW t \in TenantRows, NEW u \in TenantRows, TenantLeq(t, u),
         NEW m, NEW n, RowLeq(m, n), NEW a, NEW b, RowLeq(a, b), NEW perm,
         GroupAllowed(g, k, t, m, a, perm, WorkRoles)
  PROVE  GroupAllowed(h, l, u, n, b, perm, WorkRoles)
<1>1. EffectiveMode(h, l, u) = "full"
  BY ModeIsMonotone DEF GroupAllowed, DetailAllowed
<1>2. m = n
  BY DEF GroupAllowed, RowLeq
<1>3. CanManageGroup(m) \/ RoleAllows(b, perm, WorkRoles)
  BY DEF GroupAllowed, DetailAllowed, RowLeq, RoleAllows
<1>4. n.active /\ h.active /\ l.active /\ u.active
  BY <1>2 DEF GroupAllowed, GroupLeq, LinkLeq, TenantLeq
<1> QED
  BY <1>1, <1>2, <1>3, <1>4 DEF GroupAllowed, DetailAllowed

(* A step that only closes layers opens no company to the user.            *)
THEOREM TighteningNeverOpensThm == PolicySpec => TighteningNeverOpens
<1>1. ASSUME PolicyTypeOK, PolicyTypeOK', OnlyTightens,
             NEW t \in Tenants, NEW perm, Opens(t, perm)'
      PROVE  Opens(t, perm)
  BY <1>1, OpeningIsMonotone DEF Opens, OnlyTightens, PolicyTypeOK
<1>2. PolicyTypeOK /\ PolicyTypeOK'
        => [OnlyTightens => \A t \in Tenants, perm \in {"access", "work"} :
                              Opens(t, perm)' => Opens(t, perm)]_policyVars
  BY <1>1
<1> QED
  BY <1>2, PolicyTypeCorrect, PTL DEF TighteningNeverOpens

-----------------------------------------------------------------------------
(* What a request has seen open.                                           *)
Saw(q) == UNION q.seen

Switches == {"group_switch", "drilldown", "tenant_switch"}
Decided == {"idle", "served", "denied"}

(* What a request at each step has read, and seen open when it did.        *)
AtRest(q) ==
  /\ q.step = "idle" => q = Idle
  /\ q.step # "idle" => (q.at = NoTenant <=> q.kind \in {"group_switch", "return"})

PageEvidence(q) ==
  /\ q.kind = "page" /\ q.on /\ q.step # "idle" => "company" \in Saw(q)
  /\ q.step \in PageSteps \cup {"handoff"} => q.kind = "page" /\ q.on
  /\ q.step \in {"boot", "resolve"} => q.context \in Contexts
  /\ q.step \in {"link", "assign", "handoff"} => q.context.scope = "consolidated"
  /\ q.step = "link" /\ q.role # NoRole => "membership" \in Saw(q)
  /\ q.step = "link" /\ q.role \in ManagingRoles => {"entry", "assigned"} \subseteq Saw(q)
  /\ q.step = "assign" => {"membership", "holding", "link"} \subseteq Saw(q)
  /\ q.step = "handoff" => q.phase = "gate" /\ EntryPath \subseteq Saw(q)
  /\ q.step = "sync" /\ q.kind = "page" => q.on /\ q.context \in Contexts

SwitchEvidence(q) ==
  /\ q.step \in SwitchSteps => q.kind \in Switches
  /\ q.step \in {"target", "own"} => q.kind = "tenant_switch"
  /\ q.step \in {"dashboard", "company", "member", "assigned"} /\ q.at # NoTenant
        /\ q.holding.active /\ q.holding.mode = "full" => "holding" \in Saw(q)
  /\ q.step \in {"company", "member", "assigned"} => q.kind # "group_switch"
  /\ q.step \in {"member", "assigned"} => {"company", "holding", "link"} \subseteq Saw(q)
  /\ q.step = "assigned" => "membership" \in Saw(q)
  /\ q.step = "save" => q.kind # "page"
  /\ q.step = "save" /\ q.kind \in Switches =>
       /\ q.next \in Contexts
       /\ \A t \in Tenants : q.next = Consolidated(t) => t = q.at /\ EntryPath \subseteq Saw(q)
  /\ q.step = "sync" => q.next \in Contexts

Evidence(q) == AtRest(q) /\ PageEvidence(q) /\ SwitchEvidence(q)

(* ... and what it has seen was open.                                      *)
Witnessed(q) ==
  q.at # NoTenant =>
    /\ Saw(q) \subseteq ever[q.at]
    /\ q.step \notin Decided => StandingOf[q.at] \in q.seen

RequestsAreSound ==
  \A r \in Requests :
    Evidence(req[r]) /\ Witnessed(req[r]) /\ req[r].writes <= writes

EverCoversStanding == \A t \in Tenants : StandingOf[t] \subseteq ever[t]

IInv == TypeOK /\ RequestsAreSound /\ EverCoversStanding /\ ContextIsEarned

RequestFits(q) ==
  q \in Request /\ Evidence(q) /\ Witnessed(q) /\ q.writes <= writes

(* The policy stays, and with it what is open.                             *)
LEMMA StandingStays ==
  ASSUME UNCHANGED policyVars
  PROVE  StandingOf' = StandingOf
BY DEF policyVars, StandingOf, LayerOn, CanManageGroup, RoleAllows

(* A layer that is open is seen by every request under way in the company. *)
LEMMA OpenIsSeen ==
  ASSUME IInv, NEW r \in Requests, req[r].at # NoTenant, req[r].step \notin Decided,
         NEW name \in LayerNames, LayerOn(name, req[r].at)
  PROVE  name \in Saw(req[r])
<1>1. req[r].at \in Tenants
  BY DEF IInv, TypeOK, Request
<1>2. StandingOf[req[r].at] \in req[r].seen
  BY DEF IInv, RequestsAreSound, Witnessed
<1>3. name \in StandingOf[req[r].at]
  BY <1>1 DEF StandingOf
<1> QED
  BY <1>2, <1>3 DEF Saw

(* The layers of the rows that a request reads open.                       *)
LEMMA RowsOpenLayers ==
  ASSUME IInv, NEW r \in Requests, req[r].at # NoTenant, req[r].step \notin Decided
  PROVE  LET t == req[r].at  S == Saw(req[r]) IN
         /\ tenant[t].active => "company" \in S
         /\ member.active => "membership" \in S
         /\ group.active /\ group.mode = "full" => "holding" \in S
         /\ link[t].active /\ link[t].mode = "full" /\ tenant[t].allow => "link" \in S
         /\ access[t].active => "entry" \in S
         /\ RoleAllows(access[t], "work", WorkRoles) => "assigned" \in S
         /\ CanManageGroup(member) => {"entry", "assigned"} \subseteq S
         /\ RoleAllows(direct[t], "work", WorkRoles) => "local" \in S
<1>1. \A name \in LayerNames : LayerOn(name, req[r].at) => name \in Saw(req[r])
  BY OpenIsSeen
<1>2. LayerNames = {"company", "membership", "holding", "link", "entry", "assigned", "local"}
  BY DEF LayerNames
<1> QED
  BY <1>1, <1>2 DEF LayerOn

(* A link is open at full detail only if each of its layers is.            *)
LEMMA OpenLinks ==
  ASSUME IInv, NEW t \in Tenants, NEW h \in GroupRows, LinkOpen(t, h)
  PROVE  /\ tenant[t].active /\ link[t].active /\ link[t].mode = "full"
         /\ tenant[t].allow /\ h.active /\ h.mode = "full"
<1>1. link[t] \in LinkRows /\ h.mode \in Modes
  BY DEF IInv, TypeOK, PolicyTypeOK, GroupRows
<1> QED
  BY <1>1 DEF LinkOpen, EffectiveMode, LinkRows, Modes

(* A request that is not decided takes a step: it has seen the same.       *)
LEMMA StepFits ==
  ASSUME IInv, NEW r \in Requests, req[r].step \notin Decided,
         NEW q \in Request, Evidence(q),
         q.at = req[r].at, q.seen = req[r].seen, q.writes = req[r].writes
  PROVE  RequestFits(q)
BY DEF IInv, RequestsAreSound, RequestFits, Witnessed, Saw

LEMMA MoveKeepsIInv ==
  ASSUME IInv, NEW r \in Requests, NEW q, RequestFits(q), req' = [req EXCEPT ![r] = q],
         UNCHANGED <<policyVars, registered, writes, ever>>, together' \in BOOLEAN,
         context' \in Contexts \cup {NoContext}, mirror' \in Scopes, ContextIsEarned'
  PROVE  IInv'
<1>1. StandingOf' = StandingOf
  BY StandingStays
<1>2. PolicyTypeOK'
  BY DEF IInv, TypeOK, PolicyTypeOK, policyVars
<1>3. TypeOK'
  BY <1>2 DEF IInv, TypeOK, RequestFits
<1>4. \A p \in Requests : req'[p] = IF p = r THEN q ELSE req[p]
  BY DEF IInv, TypeOK
<1>5. \A p \in Requests : Evidence(req'[p]) /\ Witnessed(req'[p]) /\ req'[p].writes <= writes
  BY <1>4 DEF IInv, RequestsAreSound, RequestFits
<1>6. RequestsAreSound'
  BY <1>1, <1>5 DEF RequestsAreSound, Witnessed
<1>7. EverCoversStanding'
  BY <1>1 DEF IInv, EverCoversStanding
<1> QED
  BY <1>3, <1>6, <1>7 DEF IInv

Moves(r, q) == req' = [req EXCEPT ![r] = q] /\ RequestFits(q)

(* A request that only changes step.                                       *)
LEMMA GotoFits ==
  ASSUME IInv, NEW r \in Requests, req[r].step \notin Decided,
         NEW step \in Steps \ {"idle"}, Goto(r, step),
         PageEvidence([req[r] EXCEPT !.step = step]),
         SwitchEvidence([req[r] EXCEPT !.step = step])
  PROVE  \E q : Moves(r, q)
<1> DEFINE q == [req[r] EXCEPT !.step = step]
<1>1. req[r] \in Request
  BY DEF IInv, TypeOK
<1>2. /\ q \in Request /\ q.step = step /\ q.kind = req[r].kind
      /\ q.at = req[r].at /\ q.seen = req[r].seen /\ q.writes = req[r].writes
  BY <1>1 DEF Request
<1>3. AtRest(req[r]) /\ req[r].step # "idle"
  BY DEF IInv, RequestsAreSound, Evidence, Decided
<1>4. AtRest(q)
  BY <1>2, <1>3 DEF AtRest
<1>5. RequestFits(q)
  <2> HIDE DEF q
  <2> QED
    BY <1>2, <1>4, StepFits DEF q, Evidence
<1> QED
  BY <1>5 DEF Moves, Goto

(* Requests under way that are turned away or served need no evidence.     *)
LEMMA DecidedFits ==
  ASSUME IInv, NEW r \in Requests, req[r].step \notin Decided,
         NEW step \in {"served", "denied"}, Goto(r, step)
  PROVE  \E q : Moves(r, q)
<1> DEFINE q == [req[r] EXCEPT !.step = step]
<1>1. req[r] \in Request /\ step \in Steps \ {"idle"}
  BY DEF IInv, TypeOK, Steps
<1>2. /\ q.step = step /\ q.kind = req[r].kind /\ q.on = req[r].on
      /\ q.seen = req[r].seen
  BY <1>1 DEF Request
<1>3. req[r].kind = "page" /\ req[r].on => "company" \in Saw(req[r])
  BY DEF IInv, RequestsAreSound, Evidence, PageEvidence, Decided
<1>4. PageEvidence(q) /\ SwitchEvidence(q)
  BY <1>2, <1>3 DEF PageEvidence, SwitchEvidence, Saw, PageSteps, SwitchSteps
<1> QED
  BY <1>1, <1>4, GotoFits

(* Arrivals: the company of the host is loaded with its active flag.       *)
LEMMA ArriveFits ==
  ASSUME IInv, NEW r \in Requests, NEW kind \in Kinds, NEW t \in Tenants \cup {NoTenant},
         Arrive(r, kind, t)
  PROVE  \E q : Moves(r, q)
<1> DEFINE q == [Idle EXCEPT !.step = "arrived", !.kind = kind, !.at = t,
                    !.on = IF t = NoTenant THEN TRUE ELSE tenant[t].active,
                    !.seen = IF t = NoTenant THEN {} ELSE {StandingOf[t]}]
<1>1. req' = [req EXCEPT ![r] = q]
  BY DEF Arrive
<1>2. /\ q.step = "arrived" /\ q.kind = kind /\ q.at = t /\ q.writes = 0
      /\ q.on = (IF t = NoTenant THEN TRUE ELSE tenant[t].active)
      /\ q.seen = (IF t = NoTenant THEN {} ELSE {StandingOf[t]})
  BY DEF Idle
<1>3. t # NoTenant => StandingOf[t] \subseteq LayerNames /\ tenant[t].active \in BOOLEAN
  BY DEF StandingOf, IInv, TypeOK, PolicyTypeOK, TenantRows
<1>4. q \in Request
  <2>1. Idle \in Request
    BY PipelineAssumption DEF Idle, Request, Steps, Kinds, GroupRows, Modes
  <2>2. /\ "arrived" \in Steps
        /\ (IF t = NoTenant THEN TRUE ELSE tenant[t].active) \in BOOLEAN
        /\ (IF t = NoTenant THEN {} ELSE {StandingOf[t]}) \in SUBSET SUBSET LayerNames
    BY <1>3 DEF Steps
  <2> QED
    BY <2>1, <2>2 DEF Request
<1>5. AtRest(q)
  BY <1>2, PipelineAssumption DEF AtRest, Arrive
<1>6. kind = "page" => t # NoTenant
  BY DEF Arrive
<1>7. t # NoTenant /\ tenant[t].active => "company" \in StandingOf[t]
  BY DEF StandingOf, LayerNames, LayerOn
<1>8. PageEvidence(q) /\ SwitchEvidence(q)
  <2> HIDE DEF q
  <2> QED
    BY <1>2, <1>6, <1>7 DEF PageEvidence, SwitchEvidence, Saw, PageSteps, SwitchSteps
<1>9. Witnessed(q) /\ q.writes <= writes
  <2>1. t # NoTenant => StandingOf[t] \subseteq ever[t]
    BY DEF IInv, EverCoversStanding
  <2>2. writes \in Nat
    BY PipelineAssumption DEF IInv, TypeOK
  <2> HIDE DEF q
  <2> QED
    BY <1>2, <2>1, <2>2 DEF Witnessed, Saw
<1> QED
  BY <1>1, <1>4, <1>5, <1>8, <1>9 DEF Moves, RequestFits, Evidence

(* What is read once the context is known.                                 *)
LEMMA LoadFits ==
  ASSUME IInv, NEW r \in Requests, NEW ctx \in Contexts \cup {NoContext},
         req[r].step \in {"arrived", "boot"}, NEW step \in {"boot", AfterLoad(req[r])},
         step = "boot" => ctx \in Contexts,
         req' = [req EXCEPT ![r].context = ctx, ![r].step = step]
  PROVE  \E q : Moves(r, q)
<1> DEFINE q == [req[r] EXCEPT !.context = ctx, !.step = step]
<1>1. req[r] \in Request /\ Evidence(req[r])
  BY DEF IInv, TypeOK, RequestsAreSound
<1>2. req[r].kind \in Kinds
  BY <1>1 DEF Request
<1>3. /\ step \in {"boot", "local", "denied", "target", "holding", "save"}
      /\ step = "local" => req[r].kind = "page" /\ req[r].on
      /\ step = "target" => req[r].kind = "tenant_switch"
      /\ step = "holding" => req[r].kind \in {"group_switch", "drilldown"}
      /\ step = "save" => req[r].kind = "return"
  BY <1>2 DEF AfterLoad, Kinds
<1>4. /\ q \in Request /\ q.step = step /\ q.context = ctx
      /\ q.kind = req[r].kind /\ q.at = req[r].at /\ q.on = req[r].on
      /\ q.seen = req[r].seen /\ q.writes = req[r].writes
  BY <1>1, <1>3 DEF Request, Steps, PageSteps, SwitchSteps
<1>5. /\ q.kind = "page" /\ q.on => "company" \in Saw(q)
      /\ AtRest(q)
  BY <1>1, <1>3, <1>4 DEF Evidence, AtRest, PageEvidence, Saw
<1>6. PageEvidence(q) /\ SwitchEvidence(q)
  BY <1>3, <1>4, <1>5 DEF PageEvidence, SwitchEvidence, PageSteps, SwitchSteps, Switches
<1>7. RequestFits(q)
  <2> HIDE DEF q
  <2> QED
    BY <1>4, <1>5, <1>6, StepFits DEF Evidence, Decided
<1> QED
  BY <1>7 DEF Moves

(* A decision on a page that allows.                                       *)
LEMMA ProceedFits ==
  ASSUME IInv, NEW r \in Requests, req[r].step \in {"resolve", "link", "assign", "sync"},
         req[r].kind = "page", req[r].context \in Contexts, req[r].on,
         NEW phase \in {"gate", "view"}, Proceed(r, phase)
  PROVE  \E q : Moves(r, q)
<1> DEFINE q == [req[r] EXCEPT !.phase = phase, !.step = "resolve"]
<1>1. req[r] \in Request /\ Evidence(req[r])
  BY DEF IInv, TypeOK, RequestsAreSound
<1>2. /\ q \in Request /\ q.step = "resolve" /\ q.context = req[r].context
      /\ q.kind = "page" /\ q.at = req[r].at /\ q.on = req[r].on
      /\ q.seen = req[r].seen /\ q.writes = req[r].writes
  BY <1>1 DEF Request, Steps, PageSteps
<1>3. "company" \in Saw(q) /\ AtRest(q)
  BY <1>1, <1>2 DEF Evidence, AtRest, PageEvidence, Saw
<1>4. PageEvidence(q) /\ SwitchEvidence(q)
  BY <1>2, <1>3 DEF PageEvidence, SwitchEvidence, PageSteps, SwitchSteps
<1>5. RequestFits(q)
  <2> HIDE DEF q
  <2> QED
    BY <1>2, <1>3, <1>4, StepFits DEF Evidence, Decided
<1> QED
  BY <1>5 DEF Moves, Proceed

LEMMA PassFits ==
  ASSUME IInv, NEW r \in Requests, req[r].step \in {"resolve", "link", "assign"},
         req[r].context \in Contexts,
         req[r].context.scope = "consolidated" => EntryPath \subseteq Saw(req[r]),
         Pass(r)
  PROVE  \E q : Moves(r, q)
<1>1. req[r] \in Request /\ Evidence(req[r]) /\ req[r].step \notin Decided
  BY DEF IInv, TypeOK, RequestsAreSound, Decided
<1>2. req[r].kind = "page" /\ req[r].on
  BY <1>1 DEF Evidence, PageEvidence, PageSteps
<1>3. CASE req[r].phase = "view"
  BY <1>1, <1>3, DecidedFits DEF Pass
<1>4. CASE /\ req[r].phase = "gate" /\ req[r].context.scope = "consolidated"
           /\ req[r].context.tenant # req[r].at
  <2> DEFINE q == [req[r] EXCEPT !.step = "handoff"]
  <2>1. Goto(r, "handoff") /\ "handoff" \in Steps \ {"idle"}
    BY <1>4 DEF Pass, Steps
  <2>2. /\ q.step = "handoff" /\ q.kind = "page" /\ q.on
        /\ q.phase = "gate" /\ q.context.scope = "consolidated" /\ q.seen = req[r].seen
    BY <1>1, <1>2, <1>4 DEF Request
  <2>3. "company" \in EntryPath
    BY DEF EntryPath, GroupPath
  <2>4. PageEvidence(q) /\ SwitchEvidence(q)
    BY <1>4, <2>2, <2>3 DEF PageEvidence, SwitchEvidence, Saw, PageSteps, SwitchSteps
  <2> QED
    BY <1>1, <2>1, <2>4, GotoFits
<1>5. CASE /\ req[r].phase # "view"
           /\ ~(/\ req[r].phase = "gate" /\ req[r].context.scope = "consolidated"
                /\ req[r].context.tenant # req[r].at)
  <2>1. Proceed(r, "view")
    BY <1>5 DEF Pass
  <2> QED
    BY <1>2, <2>1, ProceedFits
<1> QED
  BY <1>3, <1>4, <1>5

LEMMA LocalFits ==
  ASSUME IInv, NEW r \in Requests, Local(r)
  PROVE  \E q : Moves(r, q)
<1>1. req[r] \in Request /\ Evidence(req[r]) /\ req[r].step \notin Decided
  BY DEF IInv, TypeOK, RequestsAreSound, Decided, Local
<1>2. CASE req[r].context # NoContext
  <2> DEFINE q == [req[r] EXCEPT !.step = "resolve"]
  <2>1. req[r].context \in Contexts
    BY <1>1, <1>2 DEF Request
  <2>2. /\ q.step = "resolve" /\ q.kind = req[r].kind /\ q.on = req[r].on
        /\ q.context = req[r].context /\ q.seen = req[r].seen
    BY <1>1 DEF Request
  <2>3. PageEvidence(q) /\ SwitchEvidence(q)
    BY <1>1, <2>1, <2>2
    DEF Evidence, PageEvidence, SwitchEvidence, Saw, PageSteps, SwitchSteps, Local
  <2>4. Goto(r, "resolve") /\ "resolve" \in Steps \ {"idle"}
    BY <1>2 DEF Local, Steps, PageSteps
  <2> QED
    BY <1>1, <2>3, <2>4, GotoFits
<1>3. CASE req[r].context = NoContext
  BY <1>1, <1>3, DecidedFits DEF Local
<1> QED
  BY <1>2, <1>3

LEMMA ResolveStrictFits ==
  ASSUME IInv, NEW r \in Requests, ResolveStrict(r)
  PROVE  \E q : Moves(r, q)
<1>1. req[r].step \notin Decided /\ req[r].context \in Contexts
  BY DEF IInv, RequestsAreSound, Evidence, PageEvidence, Decided, ResolveStrict
<1>2. CASE Goto(r, "denied")
  BY <1>1, <1>2, DecidedFits
<1>3. CASE Pass(r)
  BY <1>1, <1>3, PassFits DEF ResolveStrict
<1> QED
  BY <1>2, <1>3 DEF ResolveStrict

LEMMA ResolveMembershipFits ==
  ASSUME IInv, NEW r \in Requests, ResolveMembership(r)
  PROVE  \E q : Moves(r, q)
<1> DEFINE role == IF member.active /\ group.active THEN member.role ELSE NoRole
           q == [req[r] EXCEPT !.role = role, !.step = "link"]
<1>1. req[r] \in Request /\ Evidence(req[r]) /\ req[r].step = "resolve"
  BY DEF IInv, TypeOK, RequestsAreSound, ResolveMembership
<1>2. role \in GroupRoles \cup {NoRole}
  BY DEF IInv, TypeOK, PolicyTypeOK, Rows, NoRow
<1>3. /\ q \in Request /\ q.step = "link" /\ q.role = role
      /\ q.kind = req[r].kind /\ q.at = req[r].at /\ q.on = req[r].on
      /\ q.context = req[r].context
      /\ q.seen = req[r].seen /\ q.writes = req[r].writes
  <2> HIDE DEF role
  <2> QED
    BY <1>1, <1>2 DEF Request, Steps, PageSteps
<1>4. /\ role # NoRole => member.active
      /\ role \in ManagingRoles => CanManageGroup(member)
  BY NoRoleAssumption DEF CanManageGroup
<1>5. req[r].kind = "page" /\ req[r].on /\ req[r].at # NoTenant
  BY <1>1 DEF Evidence, PageEvidence, AtRest, PageSteps
<1>6. /\ member.active => "membership" \in Saw(req[r])
      /\ CanManageGroup(member) => {"entry", "assigned"} \subseteq Saw(req[r])
  BY <1>1, <1>5, RowsOpenLayers DEF Decided
<1>7. PageEvidence(q) /\ SwitchEvidence(q) /\ AtRest(q)
  <2> HIDE DEF role, q
  <2> QED
    BY <1>1, <1>3, <1>4, <1>5, <1>6
    DEF Evidence, PageEvidence, SwitchEvidence, AtRest, Saw, PageSteps, SwitchSteps, ResolveMembership
<1>8. RequestFits(q)
  <2> HIDE DEF q
  <2> QED
    BY <1>1, <1>3, <1>7, StepFits DEF Evidence, Decided
<1> QED
  BY <1>8 DEF Moves, ResolveMembership

LEMMA ResolveLinkFits ==
  ASSUME IInv, NEW r \in Requests, ResolveLink(r)
  PROVE  \E q : Moves(r, q)
<1>1. req[r] \in Request /\ Evidence(req[r]) /\ req[r].step = "link"
  BY DEF IInv, TypeOK, RequestsAreSound, ResolveLink
<1>2. CASE Goto(r, "denied")
  BY <1>1, <1>2, DecidedFits DEF Decided
<1>3. CASE req[r].role # NoRole /\ LinkOpen(req[r].at, group)
  <2>1. req[r].kind = "page" /\ req[r].on /\ req[r].at # NoTenant
    BY <1>1 DEF Evidence, PageEvidence, AtRest, PageSteps
  <2>2. req[r].at \in Tenants /\ group \in GroupRows
    BY <1>1, <2>1 DEF Request, IInv, TypeOK, PolicyTypeOK
  <2>3. {"company", "holding", "link"} \subseteq Saw(req[r])
    BY <1>1, <1>3, <2>1, <2>2, OpenLinks, RowsOpenLayers DEF Decided
  <2>4. "membership" \in Saw(req[r]) /\ req[r].context.scope = "consolidated"
    BY <1>1, <1>3 DEF Evidence, PageEvidence
  <2>5. req[r].context \in Contexts
    BY <1>1, <2>4 DEF Request, NoContext
  <2>6. CASE req[r].role \in ManagingRoles
    <3>1. EntryPath \subseteq Saw(req[r])
      BY <1>1, <2>3, <2>4, <2>6 DEF Evidence, PageEvidence, EntryPath, GroupPath
    <3> QED
      BY <1>1, <1>3, <2>5, <2>6, <3>1, PassFits DEF ResolveLink
  <2>7. CASE req[r].role \notin ManagingRoles
    <3> DEFINE q == [req[r] EXCEPT !.step = "assign"]
    <3>1. Goto(r, "assign") /\ "assign" \in Steps \ {"idle"}
      BY <1>3, <2>7 DEF ResolveLink, Steps, PageSteps
    <3>2. /\ q.step = "assign" /\ q.kind = "page" /\ q.on
          /\ q.context = req[r].context /\ q.seen = req[r].seen
      BY <1>1, <2>1 DEF Request
    <3>3. PageEvidence(q) /\ SwitchEvidence(q)
      BY <2>3, <2>4, <3>2 DEF PageEvidence, SwitchEvidence, Saw, PageSteps, SwitchSteps
    <3> QED
      BY <1>1, <3>1, <3>3, GotoFits DEF Decided
  <2> QED
    BY <2>6, <2>7
<1> QED
  BY <1>2, <1>3 DEF ResolveLink

LEMMA ResolveAssignFits ==
  ASSUME IInv, NEW r \in Requests, ResolveAssign(r)
  PROVE  \E q : Moves(r, q)
<1>1. req[r] \in Request /\ Evidence(req[r]) /\ req[r].step = "assign"
  BY DEF IInv, TypeOK, RequestsAreSound, ResolveAssign
<1>2. CASE Goto(r, "denied")
  BY <1>1, <1>2, DecidedFits DEF Decided
<1>3. CASE RoleAllows(access[req[r].at], Permission(r), WorkRoles) /\ Pass(r)
  <2>1. req[r].kind = "page" /\ req[r].on /\ req[r].at # NoTenant
    BY <1>1 DEF Evidence, PageEvidence, AtRest, PageSteps
  <2>2. "entry" \in Saw(req[r])
    BY <1>1, <1>3, <2>1, RowsOpenLayers DEF Decided, RoleAllows
  <2>3. EntryPath \subseteq Saw(req[r])
    BY <1>1, <2>1, <2>2 DEF Evidence, PageEvidence, EntryPath, GroupPath
  <2>4. req[r].context \in Contexts
    BY <1>1 DEF Evidence, PageEvidence, Request, NoContext
  <2> QED
    BY <1>1, <1>3, <2>3, <2>4, PassFits
<1> QED
  BY <1>2, <1>3 DEF ResolveAssign

-----------------------------------------------------------------------------
(* A switch that has read a layer open goes on to the next.                *)
LEMMA TurnFits ==
  ASSUME IInv, NEW r \in Requests, req[r].step \notin Decided, NEW pass,
         NEW step \in Steps \ {"idle"}, Turn(r, pass, step),
         pass => /\ PageEvidence([req[r] EXCEPT !.step = step])
                 /\ SwitchEvidence([req[r] EXCEPT !.step = step])
  PROVE  \E q : Moves(r, q)
<1>1. CASE pass
  BY <1>1, GotoFits DEF Turn
<1>2. CASE ~pass
  BY <1>2, DecidedFits DEF Turn
<1> QED
  BY <1>1, <1>2

LEMMA GrantFits ==
  ASSUME IInv, NEW r \in Requests, req[r].step \notin Decided, req[r].kind \in Switches,
         NEW ctx \in Contexts, Grant(r, ctx),
         \A t \in Tenants : ctx = Consolidated(t)
            => t = req[r].at /\ EntryPath \subseteq Saw(req[r])
  PROVE  \E q : Moves(r, q)
<1> DEFINE q == [req[r] EXCEPT !.next = ctx, !.step = "save"]
<1>1. req[r] \in Request /\ AtRest(req[r]) /\ req[r].step # "idle"
  BY DEF IInv, TypeOK, RequestsAreSound, Evidence, Decided
<1>2. /\ q \in Request /\ q.step = "save" /\ q.next = ctx
      /\ q.kind = req[r].kind /\ q.at = req[r].at
      /\ q.seen = req[r].seen /\ q.writes = req[r].writes
  BY <1>1 DEF Request, Steps
<1>3. PageEvidence(q) /\ SwitchEvidence(q) /\ AtRest(q)
  <2> HIDE DEF q
  <2> QED
    BY <1>1, <1>2
    DEF AtRest, PageEvidence, SwitchEvidence, Saw, PageSteps, SwitchSteps, Switches
<1>4. RequestFits(q)
  <2> HIDE DEF q
  <2> QED
    BY <1>2, <1>3, StepFits DEF Evidence
<1> QED
  BY <1>4 DEF Moves, Grant

LEMMA SwitchOwnFits ==
  ASSUME IInv, NEW r \in Requests, SwitchTarget(r) \/ SwitchOwn(r)
  PROVE  \E q : Moves(r, q)
<1>1. /\ req[r] \in Request /\ Evidence(req[r])
      /\ req[r].step \in {"target", "own"} /\ req[r].step \notin Decided
  BY DEF IInv, TypeOK, RequestsAreSound, SwitchTarget, SwitchOwn, Decided
<1>2. req[r].kind = "tenant_switch" /\ req[r].at \in Tenants
  BY <1>1 DEF Evidence, SwitchEvidence, AtRest, Request
<1>3. ASSUME NEW step \in {"own", "holding"}
      PROVE  /\ PageEvidence([req[r] EXCEPT !.step = step])
             /\ SwitchEvidence([req[r] EXCEPT !.step = step])
             /\ step \in Steps \ {"idle"}
  <2> DEFINE q == [req[r] EXCEPT !.step = step]
  <2>1. q.step = step /\ q.kind = "tenant_switch"
    BY <1>1, <1>2 DEF Request
  <2>2. PageEvidence(q) /\ SwitchEvidence(q)
    <3> HIDE DEF q
    <3> QED
      BY <2>1 DEF PageEvidence, SwitchEvidence, PageSteps, SwitchSteps, Switches
  <2> QED
    BY <2>2 DEF Steps, SwitchSteps
<1>4. CASE SwitchTarget(r)
  BY <1>1, <1>3, <1>4, TurnFits DEF SwitchTarget
<1>5. CASE SwitchOwn(r) /\ direct[req[r].at].active
  <2>1. Strict(req[r].at) \in Contexts
    BY <1>2 DEF Strict, Contexts, Scopes
  <2>2. \A t : Strict(req[r].at) # Consolidated(t)
    BY DEF Strict, Consolidated
  <2> QED
    BY <1>1, <1>2, <1>5, <2>1, <2>2, GrantFits DEF SwitchOwn, Switches
<1>6. CASE SwitchOwn(r) /\ ~direct[req[r].at].active
  BY <1>1, <1>3, <1>6, TurnFits DEF SwitchOwn
<1> QED
  BY <1>4, <1>5, <1>6

LEMMA SwitchHoldingFits ==
  ASSUME IInv, NEW r \in Requests, SwitchHolding(r)
  PROVE  \E q : Moves(r, q)
<1> DEFINE step == IF ~group.active THEN "denied"
                   ELSE IF req[r].kind = "tenant_switch" THEN "company"
                   ELSE "dashboard"
           q == [req[r] EXCEPT !.holding = group, !.step = step]
<1>1. req[r] \in Request /\ Evidence(req[r]) /\ req[r].step = "holding"
  BY DEF IInv, TypeOK, RequestsAreSound, SwitchHolding
<1>2. req[r].kind \in Switches /\ group \in GroupRows
  BY <1>1 DEF Evidence, SwitchEvidence, SwitchSteps, IInv, TypeOK, PolicyTypeOK
<1>3. step \in {"denied", "company", "dashboard"}
      /\ (step = "company" => req[r].kind = "tenant_switch")
  OBVIOUS
<1>4. /\ q \in Request /\ q.step = step /\ q.holding = group
      /\ q.kind = req[r].kind /\ q.at = req[r].at /\ q.on = req[r].on
      /\ q.seen = req[r].seen /\ q.writes = req[r].writes
  <2> HIDE DEF step
  <2> QED
    BY <1>1, <1>2, <1>3 DEF Request, Steps, SwitchSteps
<1>5. req[r].at # NoTenant /\ group.active /\ group.mode = "full" => "holding" \in Saw(q)
  BY <1>1, <1>4, RowsOpenLayers DEF Decided, Saw
<1>6. PageEvidence(q) /\ SwitchEvidence(q) /\ AtRest(q)
  <2> HIDE DEF step, q
  <2> QED
    BY <1>1, <1>2, <1>3, <1>4, <1>5
    DEF Evidence, AtRest, PageEvidence, SwitchEvidence, PageSteps, SwitchSteps, Switches, Saw
<1>7. RequestFits(q)
  <2> HIDE DEF q
  <2> QED
    BY <1>1, <1>4, <1>6, StepFits DEF Evidence, Decided
<1> QED
  BY <1>7 DEF Moves, SwitchHolding

LEMMA SwitchDashboardFits ==
  ASSUME IInv, NEW r \in Requests, SwitchDashboard(r)
  PROVE  \E q : Moves(r, q)
<1>1. req[r] \in Request /\ Evidence(req[r]) /\ req[r].step = "dashboard"
  BY DEF IInv, TypeOK, RequestsAreSound, SwitchDashboard
<1>2. req[r].kind \in Switches
  BY <1>1 DEF Evidence, SwitchEvidence, SwitchSteps
<1>3. CASE Turn(r, FALSE, "denied")
  BY <1>1, <1>3, DecidedFits DEF Turn, Decided
<1>4. CASE Grant(r, Consolidated(NoTenant))
  <2>1. Consolidated(NoTenant) \in Contexts
    BY DEF Consolidated, Contexts, Scopes
  <2>2. \A t \in Tenants : Consolidated(NoTenant) # Consolidated(t)
    BY PipelineAssumption DEF Consolidated
  <2> QED
    BY <1>1, <1>2, <1>4, <2>1, <2>2, GrantFits DEF Decided
<1>5. CASE Turn(r, TRUE, "company") /\ req[r].kind # "group_switch"
  <2> DEFINE q == [req[r] EXCEPT !.step = "company"]
  <2>1. /\ q.step = "company" /\ q.kind = req[r].kind /\ q.at = req[r].at
        /\ q.on = req[r].on /\ q.holding = req[r].holding /\ q.seen = req[r].seen
    BY <1>1 DEF Request
  <2>2. PageEvidence(q) /\ SwitchEvidence(q)
    <3> HIDE DEF q
    <3> QED
      BY <1>1, <1>2, <1>5, <2>1
      DEF Evidence, PageEvidence, SwitchEvidence, PageSteps, SwitchSteps, Switches, Saw
  <2> QED
    BY <1>1, <1>5, <2>2, TurnFits DEF Steps, SwitchSteps, Decided
<1> QED
  BY <1>3, <1>4, <1>5 DEF SwitchDashboard

LEMMA SwitchCompanyFits ==
  ASSUME IInv, NEW r \in Requests, SwitchCompany(r)
  PROVE  \E q : Moves(r, q)
<1> DEFINE q == [req[r] EXCEPT !.step = "member"]
<1>1. req[r] \in Request /\ Evidence(req[r]) /\ req[r].step = "company"
  BY DEF IInv, TypeOK, RequestsAreSound, SwitchCompany
<1>2. /\ req[r].kind \in Switches \ {"group_switch"}
      /\ req[r].at \in Tenants /\ req[r].at # NoTenant /\ req[r].holding \in GroupRows
  BY <1>1 DEF Evidence, SwitchEvidence, AtRest, SwitchSteps, Switches, Request
<1>3. q.step = "member" /\ q.kind = req[r].kind /\ q.at = req[r].at
      /\ q.on = req[r].on /\ q.holding = req[r].holding /\ q.seen = req[r].seen
  BY <1>1 DEF Request
<1>4. ASSUME LinkOpen(req[r].at, req[r].holding)
      PROVE  PageEvidence(q) /\ SwitchEvidence(q)
  <2>1. {"company", "link"} \subseteq Saw(req[r])
    BY <1>1, <1>2, <1>4, OpenLinks, RowsOpenLayers DEF Decided
  <2>2. "holding" \in Saw(req[r])
    BY <1>1, <1>2, <1>4, OpenLinks DEF Evidence, SwitchEvidence
  <2> HIDE DEF q
  <2> QED
    BY <1>2, <1>3, <2>1, <2>2
    DEF PageEvidence, SwitchEvidence, PageSteps, SwitchSteps, Switches, Saw
<1> QED
  BY <1>1, <1>4, TurnFits DEF SwitchCompany, Steps, SwitchSteps, Decided

LEMMA SwitchMemberFits ==
  ASSUME IInv, NEW r \in Requests, SwitchMember(r) \/ SwitchAssigned(r)
  PROVE  \E q : Moves(r, q)
<1> DEFINE q == [req[r] EXCEPT !.step = "assigned"]
<1>1. /\ req[r] \in Request /\ Evidence(req[r]) /\ req[r].step \notin Decided
      /\ req[r].step \in {"member", "assigned"}
  BY DEF IInv, TypeOK, RequestsAreSound, SwitchMember, SwitchAssigned, Decided
<1>2. /\ req[r].kind \in Switches \ {"group_switch"}
      /\ req[r].at \in Tenants /\ req[r].at # NoTenant
  BY <1>1 DEF Evidence, SwitchEvidence, AtRest, SwitchSteps, Switches, Request
<1>3. {"company", "holding", "link"} \subseteq Saw(req[r])
  BY <1>1 DEF Evidence, SwitchEvidence
<1>4. ASSUME Grant(r, Consolidated(req[r].at)), {"membership", "entry"} \subseteq Saw(req[r])
      PROVE  \E p : Moves(r, p)
  <2>1. EntryPath \subseteq Saw(req[r])
    BY <1>3, <1>4 DEF EntryPath, GroupPath
  <2>2. Consolidated(req[r].at) \in Contexts
    BY <1>2 DEF Consolidated, Contexts, Scopes
  <2>3. \A t \in Tenants : Consolidated(req[r].at) = Consolidated(t) => t = req[r].at
    BY DEF Consolidated
  <2> QED
    BY <1>1, <1>2, <1>4, <2>1, <2>2, <2>3, GrantFits
<1>5. CASE SwitchMember(r) /\ CanManageGroup(member)
  <2>1. "membership" \in Saw(req[r]) /\ "entry" \in Saw(req[r])
    BY <1>1, <1>2, <1>5, RowsOpenLayers DEF CanManageGroup
  <2> QED
    BY <1>4, <1>5, <2>1 DEF SwitchMember
<1>6. CASE Turn(r, member.active, "assigned")
  <2>1. q.step = "assigned" /\ q.kind = req[r].kind /\ q.at = req[r].at
        /\ q.on = req[r].on /\ q.holding = req[r].holding /\ q.seen = req[r].seen
    BY <1>1 DEF Request
  <2>2. member.active => "membership" \in Saw(req[r])
    BY <1>1, <1>2, RowsOpenLayers
  <2>3. member.active => PageEvidence(q) /\ SwitchEvidence(q)
    <3> HIDE DEF q
    <3> QED
      BY <1>1, <1>2, <1>3, <2>1, <2>2
      DEF Evidence, PageEvidence, SwitchEvidence, PageSteps, SwitchSteps, Switches, Saw
  <2> QED
    BY <1>1, <1>6, <2>3, TurnFits DEF Steps, SwitchSteps
<1>7. CASE SwitchAssigned(r) /\ access[req[r].at].active
  <2>1. "membership" \in Saw(req[r]) /\ "entry" \in Saw(req[r])
    BY <1>1, <1>2, <1>7, RowsOpenLayers DEF SwitchAssigned, Evidence, SwitchEvidence
  <2> QED
    BY <1>4, <1>7, <2>1 DEF SwitchAssigned
<1>8. CASE Turn(r, FALSE, "denied")
  BY <1>1, <1>8, DecidedFits DEF Turn
<1> QED
  BY <1>5, <1>6, <1>7, <1>8 DEF SwitchMember, SwitchAssigned

-----------------------------------------------------------------------------
(* What is saved was granted, or is the handoff of a page let in.          *)
LEMMA SavedIsEarned ==
  ASSUME IInv, NEW r \in Requests, req[r].step \in {"handoff", "save"}
  PROVE  /\ NextContext(req[r]) \in Contexts
         /\ \A t \in Tenants : NextContext(req[r]) = Consolidated(t)
               => EntryPath \subseteq ever[t]
<1>1. req[r] \in Request /\ Evidence(req[r]) /\ Witnessed(req[r])
  BY DEF IInv, TypeOK, RequestsAreSound
<1>2. CASE req[r].kind = "page"
  <2>1. req[r].step = "handoff" /\ req[r].at \in Tenants /\ req[r].at # NoTenant
    BY <1>1, <1>2 DEF Evidence, AtRest, SwitchEvidence, Request
  <2>2. EntryPath \subseteq ever[req[r].at]
    BY <1>1, <2>1 DEF Evidence, PageEvidence, Witnessed
  <2> QED
    BY <1>2, <2>1, <2>2 DEF NextContext, Consolidated, Contexts, Scopes
<1>3. CASE req[r].kind = "return"
  BY <1>3 DEF NextContext, Strict, Consolidated, Contexts, Scopes
<1>4. CASE req[r].kind \in Switches
  <2>1. req[r].step = "save" /\ NextContext(req[r]) = req[r].next
    BY <1>1, <1>4 DEF NextContext, Evidence, PageEvidence, Switches
  <2>2. /\ req[r].next \in Contexts
        /\ \A t \in Tenants : req[r].next = Consolidated(t)
              => t = req[r].at /\ EntryPath \subseteq Saw(req[r])
    BY <1>1, <1>4, <2>1 DEF Evidence, SwitchEvidence
  <2>3. \A t \in Tenants : t = req[r].at => Saw(req[r]) \subseteq ever[t]
    BY <1>1, PipelineAssumption DEF Witnessed
  <2> QED
    BY <2>1, <2>2, <2>3
<1>5. req[r].kind = "page" \/ req[r].kind = "return" \/ req[r].kind \in Switches
  BY <1>1 DEF Request, Kinds, Switches
<1> QED
  BY <1>2, <1>3, <1>4, <1>5

LEMMA SaveFits ==
  ASSUME IInv, NEW r \in Requests, SaveContext(r)
  PROVE  \E q : Moves(r, q)
<1> DEFINE ctx == NextContext(req[r])
           q == [req[r] EXCEPT !.next = ctx, !.step = "sync"]
<1>1. /\ req[r] \in Request /\ Evidence(req[r]) /\ req[r].step \notin Decided
      /\ req[r].step \in {"handoff", "save"}
  BY DEF IInv, TypeOK, RequestsAreSound, SaveContext, Decided
<1>2. CASE Goto(r, "served")
  BY <1>1, <1>2, DecidedFits
<1>3. CASE req' = [req EXCEPT ![r] = q]
  <2>1. ctx \in Contexts
    BY <1>1, SavedIsEarned
  <2>2. /\ q \in Request /\ q.step = "sync" /\ q.next = ctx
        /\ q.kind = req[r].kind /\ q.at = req[r].at /\ q.on = req[r].on
        /\ q.context = req[r].context
        /\ q.seen = req[r].seen /\ q.writes = req[r].writes
    <3> HIDE DEF ctx
    <3> QED
      BY <1>1, <2>1 DEF Request, Steps
  <2>3. req[r].kind = "page" =>
          req[r].step = "handoff" /\ req[r].on /\ req[r].context \in Contexts
    BY <1>1 DEF Evidence, PageEvidence, SwitchEvidence, Request, NoContext
  <2>4. PageEvidence(q) /\ SwitchEvidence(q) /\ AtRest(q)
    <3> HIDE DEF ctx, q
    <3> QED
      BY <1>1, <2>1, <2>2, <2>3
      DEF Evidence, AtRest, PageEvidence, SwitchEvidence, PageSteps, SwitchSteps, Saw
  <2>5. RequestFits(q)
    <3> HIDE DEF q
    <3> QED
      BY <1>1, <2>2, <2>4, StepFits DEF Evidence
  <2> QED
    BY <1>3, <2>5 DEF Moves
<1> QED
  BY <1>2, <1>3 DEF SaveContext

LEMMA SyncFits ==
  ASSUME IInv, NEW r \in Requests, SyncMirror(r)
  PROVE  \E q : Moves(r, q)
<1>1. /\ req[r] \in Request /\ Evidence(req[r]) /\ req[r].step \notin Decided
      /\ req[r].step = "sync"
  BY DEF IInv, TypeOK, RequestsAreSound, SyncMirror, Decided
<1>2. CASE req[r].kind = "page"
  BY <1>1, <1>2, ProceedFits DEF SyncMirror, Evidence, PageEvidence
<1>3. CASE req[r].kind # "page"
  BY <1>1, <1>3, DecidedFits DEF SyncMirror
<1> QED
  BY <1>2, <1>3

LEMMA IdleFits ==
  ASSUME IInv
  PROVE  RequestFits(Idle)
<1>1. Idle \in Request
  BY PipelineAssumption DEF Idle, Request, Steps, Kinds, GroupRows, Modes
<1>2. Evidence(Idle)
  BY DEF Idle, Evidence, AtRest, PageEvidence, SwitchEvidence, PageSteps, SwitchSteps
<1>3. Witnessed(Idle) /\ Idle.writes = 0
  BY DEF Idle, Witnessed
<1>4. writes \in Nat
  BY PipelineAssumption DEF IInv, TypeOK
<1> QED
  BY <1>1, <1>2, <1>3, <1>4 DEF RequestFits

(* Steps of a request that leave the session alone.                        *)
LEMMA QuietStep ==
  ASSUME IInv, NEW r \in Requests, NEW q, Moves(r, q), together' \in BOOLEAN,
         UNCHANGED <<policyVars, sessionVars, writes, ever>>
  PROVE  IInv'
<1>1. ContextIsEarned'
  BY DEF IInv, ContextIsEarned, sessionVars
<1> QED
  BY <1>1, MoveKeepsIInv DEF Moves, IInv, TypeOK, sessionVars

LEMMA RequestKeepsIInv ==
  ASSUME IInv, NEW r \in Requests, PageStep(r) \/ SwitchStep(r)
  PROVE  IInv'
<1>1. ASSUME NEW kind \in Kinds, NEW t \in Tenants \cup {NoTenant}, Arrive(r, kind, t)
      PROVE  IInv'
  <2>1. PICK q : Moves(r, q)
    BY <1>1, ArriveFits
  <2>2. together' \in BOOLEAN
    BY <1>1 DEF Arrive
  <2> QED
    BY <1>1, <2>1, <2>2, QuietStep DEF Arrive
<1>2. CASE Load(r)
  <2> DEFINE fresh == Strict(IF req[r].kind = "page" THEN req[r].at ELSE NoTenant)
             ctx == IF registered /\ context = NoContext THEN fresh ELSE context
             step == IF registered /\ context = NoContext THEN "boot" ELSE AfterLoad(req[r])
  <2>1. req[r] \in Request /\ req[r].step = "arrived"
    BY <1>2 DEF IInv, TypeOK, Load
  <2>2. fresh \in Contexts
    BY <2>1 DEF Request, Strict, Contexts, Scopes
  <2>3. ctx \in Contexts \cup {NoContext} /\ (step = "boot" => ctx \in Contexts)
    <3>1. AfterLoad(req[r]) # "boot"
      BY <2>1 DEF AfterLoad, Request, Kinds
    <3> QED
      BY <2>2, <3>1 DEF IInv, TypeOK
  <2>4. /\ req' = [req EXCEPT ![r].context = ctx, ![r].step = step]
        /\ context' = ctx
    BY <1>2 DEF Load
  <2>5. \E q : Moves(r, q)
    <3> HIDE DEF ctx
    <3> QED
      BY <2>1, <2>3, <2>4, LoadFits
  <2>6. ContextIsEarned'
    <3>1. \A t : fresh # Consolidated(t)
      BY DEF Strict, Consolidated
    <3>2. ever' = ever
      BY <1>2 DEF Load
    <3> QED
      BY <2>4, <3>1, <3>2 DEF IInv, ContextIsEarned
  <2> HIDE DEF ctx, fresh, step
  <2> QED
    <3>1. UNCHANGED <<policyVars, registered, mirror, writes, ever, together>>
      BY <1>2 DEF Load
    <3>2. PICK q : Moves(r, q)
      BY <2>5
    <3>3. together' \in BOOLEAN /\ mirror' \in Scopes
      BY <3>1 DEF IInv, TypeOK
    <3> QED
      BY <2>3, <2>4, <2>6, <3>1, <3>2, <3>3, MoveKeepsIInv DEF Moves
<1>3. CASE Boot(r)
  <2>1. req[r] \in Request /\ req[r].step = "boot" /\ req[r].context \in Contexts
    BY <1>3 DEF IInv, TypeOK, RequestsAreSound, Evidence, PageEvidence, Boot
  <2>2. req' = [req EXCEPT ![r].context = req[r].context, ![r].step = AfterLoad(req[r])]
    <3>1. [req[r] EXCEPT !.step = AfterLoad(req[r])] =
            [req[r] EXCEPT !.context = req[r].context, !.step = AfterLoad(req[r])]
      BY <2>1 DEF Request
    <3> QED
      BY <1>3, <3>1 DEF Boot, Goto
  <2>3. \E q : Moves(r, q)
    BY <2>1, <2>2, LoadFits
  <2>4. mirror' \in Scopes
    BY <1>3, <2>1 DEF Boot, Contexts
  <2>5. ContextIsEarned'
    BY <1>3 DEF Boot, IInv, ContextIsEarned
  <2> QED
    BY <1>3, <2>3, <2>4, <2>5, MoveKeepsIInv DEF Boot, Moves, IInv, TypeOK
<1>4. CASE Finish(r)
  <2>1. Moves(r, Idle)
    BY <1>4, IdleFits DEF Moves, Finish
  <2> QED
    BY <1>4, <2>1, QuietStep DEF Finish, IInv, TypeOK
<1>5. CASE SaveContext(r)
  <2>1. PICK q : Moves(r, q)
    BY <1>5, SaveFits
  <2>2. context' \in Contexts \cup {NoContext} /\ ContextIsEarned'
    BY <1>5, SavedIsEarned DEF SaveContext, IInv, TypeOK, ContextIsEarned
  <2> QED
    BY <1>5, <2>1, <2>2, MoveKeepsIInv DEF SaveContext, Moves, IInv, TypeOK
<1>6. CASE SyncMirror(r)
  <2>1. PICK q : Moves(r, q)
    BY <1>6, SyncFits
  <2>2. mirror' \in Scopes /\ ContextIsEarned'
    BY <1>6 DEF SyncMirror, IInv, TypeOK, RequestsAreSound, Evidence, SwitchEvidence,
                Contexts, ContextIsEarned
  <2> QED
    BY <1>6, <2>1, <2>2, MoveKeepsIInv DEF SyncMirror, Moves, IInv, TypeOK
<1>7. CASE Local(r) \/ ResolveStrict(r) \/ ResolveMembership(r)
             \/ ResolveLink(r) \/ ResolveAssign(r)
  <2>1. PICK q : Moves(r, q)
    BY <1>7, LocalFits, ResolveStrictFits, ResolveMembershipFits, ResolveLinkFits,
       ResolveAssignFits
  <2>2. UNCHANGED <<policyVars, sessionVars, writes, ever, together>>
    BY <1>7 DEF Local, ResolveStrict, ResolveMembership, ResolveLink, ResolveAssign
  <2> QED
    BY <2>1, <2>2, QuietStep DEF IInv, TypeOK
<1>8. CASE SwitchTarget(r) \/ SwitchOwn(r) \/ SwitchHolding(r) \/ SwitchDashboard(r)
             \/ SwitchCompany(r) \/ SwitchMember(r) \/ SwitchAssigned(r)
  <2>1. PICK q : Moves(r, q)
    BY <1>8, SwitchOwnFits, SwitchHoldingFits, SwitchDashboardFits, SwitchCompanyFits,
       SwitchMemberFits
  <2>2. UNCHANGED <<policyVars, sessionVars, writes, ever, together>>
    BY <1>8 DEF SwitchTarget, SwitchOwn, SwitchHolding, SwitchDashboard, SwitchCompany,
                SwitchMember, SwitchAssigned, Turn, Grant
  <2> QED
    BY <2>1, <2>2, QuietStep DEF IInv, TypeOK
<1>9. "page" \in Kinds /\ {"drilldown", "tenant_switch"} \subseteq Kinds
      /\ {"group_switch", "return"} \subseteq Kinds
  BY DEF Kinds
<1> QED
  BY <1>1, <1>2, <1>3, <1>4, <1>5, <1>6, <1>7, <1>8, <1>9 DEF PageStep, SwitchStep

(* An administration write: what becomes open is seen, and is on record.   *)
LEMMA AdminKeepsIInv ==
  ASSUME IInv, AdminWrite
  PROVE  IInv'
<1>1. PolicyTypeOK'
  BY StepKeepsTypes DEF AdminWrite, IInv, TypeOK
<1>2. \A t \in Tenants : StandingOf'[t] \in SUBSET LayerNames
  BY DEF StandingOf
<1>3. /\ writes \in Nat /\ MaxWrites \in Nat /\ writes' = writes + 1
      /\ writes' \in 0..MaxWrites /\ writes < MaxWrites
  BY PipelineAssumption DEF AdminWrite, IInv, TypeOK
<1>4. \A t \in Tenants : ever'[t] = ever[t] \cup StandingOf'[t]
  BY DEF AdminWrite
<1>5. EverCoversStanding' /\ ContextIsEarned'
  BY <1>4 DEF EverCoversStanding, ContextIsEarned, IInv, AdminWrite, sessionVars
<1>6. ASSUME NEW r \in Requests
      PROVE  /\ req'[r] \in Request
             /\ Evidence(req'[r]) /\ Witnessed(req[r])' /\ req'[r].writes <= writes'
  <2> DEFINE standing == StandingOf'
             q == Watch(req[r], standing)
  <2>1. req'[r] = q
    BY DEF AdminWrite
  <2>2. /\ req[r] \in Request /\ Evidence(req[r]) /\ Witnessed(req[r])
        /\ req[r].writes <= writes /\ req[r].writes \in Nat
    BY DEF IInv, TypeOK, RequestsAreSound, Request
  <2>3. CASE req[r].step \in Decided \/ req[r].at = NoTenant
    <3>1. q = req[r]
      BY <2>3 DEF Watch, Decided
    <3>2. req[r].at # NoTenant => Saw(req[r]) \subseteq ever'[req[r].at]
      BY <1>4, <2>2 DEF Witnessed, Request
    <3> QED
      BY <1>3, <2>1, <2>2, <2>3, <3>1, <3>2 DEF Witnessed
  <2>4. CASE req[r].step \notin Decided /\ req[r].at # NoTenant
    <3>1. /\ q = [req[r] EXCEPT !.seen = @ \cup {standing[req[r].at]}, !.writes = @ + 1]
          /\ req[r].at \in Tenants
      BY <2>2, <2>4 DEF Watch, Decided, Request
    <3>2. /\ q \in Request
          /\ q.seen = req[r].seen \cup {standing[req[r].at]} /\ q.writes = req[r].writes + 1
          /\ q.step = req[r].step /\ q.kind = req[r].kind /\ q.at = req[r].at
          /\ q.on = req[r].on /\ q.context = req[r].context /\ q.phase = req[r].phase
          /\ q.role = req[r].role /\ q.holding = req[r].holding /\ q.next = req[r].next
      <4>1. standing[req[r].at] \in SUBSET LayerNames
        BY <1>2, <3>1
      <4>2. req[r].writes + 1 \in 0..MaxWrites
        BY <1>3, <2>2
      <4> HIDE DEF standing, q
      <4> QED
        BY <2>2, <3>1, <4>1, <4>2 DEF Request
    <3> HIDE DEF q
    <3>3. Saw(q) = Saw(req[r]) \cup standing[req[r].at]
      BY <3>2 DEF Saw
    <3>4. AtRest(q) /\ PageEvidence(q)
      BY <2>2, <2>4, <3>2, <3>3 DEF Evidence, AtRest, PageEvidence, Decided
    <3>5. SwitchEvidence(q)
      BY <2>2, <3>2, <3>3 DEF Evidence, SwitchEvidence
    <3>6. Saw(q) \subseteq ever'[q.at] /\ standing[q.at] \in q.seen
      BY <1>4, <2>2, <2>4, <3>1, <3>2, <3>3 DEF Witnessed
    <3>7. q.writes <= writes'
      BY <1>3, <2>2, <3>2
    <3> QED
      BY <2>1, <3>2, <3>4, <3>5, <3>6, <3>7 DEF Evidence, Witnessed
  <2> QED
    BY <2>3, <2>4
<1>7. /\ req' \in [Requests -> Request]
      /\ ever' \in [Tenants -> SUBSET LayerNames]
  BY <1>2, <1>6 DEF AdminWrite, IInv, TypeOK
<1>8. TypeOK'
  BY <1>1, <1>3, <1>7 DEF TypeOK, IInv, AdminWrite, sessionVars
<1>9. RequestsAreSound'
  BY <1>6 DEF RequestsAreSound
<1> QED
  BY <1>5, <1>8, <1>9 DEF IInv

LEMMA StutterKeepsIInv ==
  ASSUME IInv, UNCHANGED vars
  PROVE  IInv'
<1>1. StandingOf' = StandingOf /\ UNCHANGED <<policyVars, sessionVars, req, writes, ever, together>>
  BY StandingStays DEF vars
<1>2. TypeOK'
  BY <1>1 DEF IInv, TypeOK, PolicyTypeOK, policyVars, sessionVars
<1>3. RequestsAreSound'
  BY <1>1 DEF IInv, RequestsAreSound, Witnessed
<1>4. EverCoversStanding' /\ ContextIsEarned'
  BY <1>1 DEF IInv, EverCoversStanding, ContextIsEarned, sessionVars
<1> QED
  BY <1>2, <1>3, <1>4 DEF IInv

LEMMA InitIsSound ==
  ASSUME Init
  PROVE  IInv
<1>1. \A t \in Tenants : StandingOf[t] \in SUBSET LayerNames
  BY DEF StandingOf
<1>2. PolicyTypeOK
  <2>1. \A t \in Tenants : /\ access[t] \in Rows(TenantRoles)
                           /\ direct[t] \in Rows(TenantRoles)
    BY PipelineAssumption DEF Init, Rows
  <2>2. access \in [Tenants -> Rows(TenantRoles)] /\ direct \in [Tenants -> Rows(TenantRoles)]
    BY <2>1 DEF Init
  <2> QED
    BY <2>2 DEF Init, PolicyTypeOK, Rows, GroupRows, LinkRows, TenantRows, Modes
<1>3. Idle \in Request
  BY PipelineAssumption DEF Idle, Request, Steps, Kinds, GroupRows, Modes
<1>4. ever \in [Tenants -> SUBSET LayerNames] /\ ever = StandingOf
  BY <1>1 DEF Init, StandingOf
<1>5. TypeOK
  <2>1. req \in [Requests -> Request]
    BY <1>3 DEF Init
  <2>2. context \in Contexts \cup {NoContext} /\ mirror \in Scopes
    BY DEF Init, Scopes
  <2>3. writes \in 0..MaxWrites
    BY PipelineAssumption DEF Init
  <2> QED
    BY <1>2, <1>4, <2>1, <2>2, <2>3 DEF Init, TypeOK
<1>6. Evidence(Idle) /\ Witnessed(Idle) /\ Idle.writes = 0
  BY DEF Idle, Evidence, AtRest, PageEvidence, SwitchEvidence, PageSteps, SwitchSteps, Witnessed
<1>7. RequestsAreSound
  BY <1>6 DEF Init, RequestsAreSound
<1>8. EverCoversStanding /\ ContextIsEarned
  BY <1>4 DEF Init, EverCoversStanding, ContextIsEarned, NoContext, Consolidated
<1> QED
  BY <1>5, <1>7, <1>8 DEF IInv

(* What every request has read is on record as having been open.           *)
THEOREM InductiveInvariant == Spec => []IInv
<1>1. Init => IInv
  BY InitIsSound
<1>2. IInv /\ [Next]_vars => IInv'
  BY AdminKeepsIInv, RequestKeepsIInv, StutterKeepsIInv DEF Next
<1> QED
  BY <1>1, <1>2, PTL DEF Spec

(* Every row, every request and every context is well formed.              *)
THEOREM PipelineTypeCorrect == Spec => []TypeOK
BY InductiveInvariant, PTL DEF IInv

(* For any companies and any number of tabs and administration writes, the *)
(* session never stands on a company by way of the holding unless every    *)
(* layer of that entry has been open to the user.                          *)
THEOREM ContextIsEarnedThm == Spec => []ContextIsEarned
BY InductiveInvariant, PTL DEF IInv

-----------------------------------------------------------------------------
(* The steps that decide: what they keep, and what a page has seen open    *)
(* when they let it in.                                                    *)
LetIn(q) == LocalPath \subseteq Saw(q) \/ GroupPath \subseteq Saw(q)

SameRequest(p, q) ==
  /\ q.kind = p.kind /\ q.at = p.at /\ q.seen = p.seen /\ q.context = p.context
  /\ q.phase \in {p.phase, "view"}

Deciding(p, q) ==
  /\ SameRequest(p, q)
  /\ p.step \notin Decided \cup {"arrived", "boot", "sync"}
  /\ q.step \notin {"idle", "arrived", "boot", "sync"}
  /\ q.step = "served" /\ q.kind = "page" => LetIn(q)

Decides(r) ==
  \/ Local(r) \/ ResolveStrict(r) \/ ResolveMembership(r)
  \/ ResolveLink(r) \/ ResolveAssign(r)
  \/ SwitchTarget(r) \/ SwitchOwn(r) \/ SwitchHolding(r) \/ SwitchDashboard(r)
  \/ SwitchCompany(r) \/ SwitchMember(r) \/ SwitchAssigned(r)

LEMMA GotoDecides ==
  ASSUME IInv, NEW r \in Requests,
         req[r].step \notin Decided \cup {"arrived", "boot", "sync"},
         NEW step, step \notin {"idle", "arrived", "boot", "sync"}, Goto(r, step),
         step = "served" /\ req[r].kind = "page" => LetIn(req[r])
  PROVE  \E q : req' = [req EXCEPT ![r] = q] /\ Deciding(req[r], q)
<1> DEFINE q == [req[r] EXCEPT !.step = step]
<1>1. req[r] \in Request
  BY DEF IInv, TypeOK
<1>2. /\ q.step = step /\ q.kind = req[r].kind /\ q.at = req[r].at
      /\ q.seen = req[r].seen /\ q.context = req[r].context /\ q.phase = req[r].phase
  BY <1>1 DEF Request
<1>3. Deciding(req[r], q)
  <2> HIDE DEF q
  <2> QED
    BY <1>2 DEF Deciding, SameRequest, LetIn, Saw
<1> QED
  BY <1>3 DEF Goto

LEMMA PassDecides ==
  ASSUME IInv, NEW r \in Requests, req[r].step \in {"resolve", "link", "assign"},
         Pass(r), req[r].phase = "view" => LetIn(req[r])
  PROVE  \E q : req' = [req EXCEPT ![r] = q] /\ Deciding(req[r], q)
<1>1. req[r].step \notin Decided \cup {"arrived", "boot", "sync"} /\ req[r] \in Request
  BY DEF Decided, IInv, TypeOK
<1>2. CASE req[r].phase = "view"
  BY <1>1, <1>2, GotoDecides DEF Pass
<1>3. CASE Goto(r, "handoff")
  BY <1>1, <1>3, GotoDecides
<1>4. CASE Proceed(r, "view")
  <2> DEFINE q == [req[r] EXCEPT !.phase = "view", !.step = "resolve"]
  <2>1. /\ q.step = "resolve" /\ q.kind = req[r].kind /\ q.at = req[r].at
        /\ q.seen = req[r].seen /\ q.context = req[r].context /\ q.phase = "view"
    BY <1>1 DEF Request
  <2>2. Deciding(req[r], q)
    <3> HIDE DEF q
    <3> QED
      BY <1>1, <2>1 DEF Deciding, SameRequest
  <2> QED
    BY <1>4, <2>2 DEF Proceed
<1> QED
  BY <1>2, <1>3, <1>4 DEF Pass

LEMMA PageDecides ==
  ASSUME IInv, NEW r \in Requests,
         Local(r) \/ ResolveStrict(r) \/ ResolveLink(r) \/ ResolveAssign(r)
  PROVE  \E q : req' = [req EXCEPT ![r] = q] /\ Deciding(req[r], q)
<1>1. /\ req[r] \in Request /\ Evidence(req[r])
      /\ req[r].step \in {"local", "resolve", "link", "assign"}
  BY DEF IInv, TypeOK, RequestsAreSound, Local, ResolveStrict, ResolveLink, ResolveAssign
<1>2. /\ req[r].kind = "page" /\ req[r].on /\ "company" \in Saw(req[r])
      /\ req[r].at # NoTenant /\ req[r].at \in Tenants
      /\ req[r].step \notin Decided \cup {"arrived", "boot", "sync"}
  BY <1>1 DEF Evidence, PageEvidence, PageSteps, AtRest, Decided, Request
<1>3. RoleAllows(direct[req[r].at], "work", WorkRoles) => LetIn(req[r])
  BY <1>2, RowsOpenLayers DEF LetIn, LocalPath
<1>4. CASE Local(r) \/ Goto(r, "denied")
  BY <1>2, <1>3, <1>4, GotoDecides DEF Local
<1>5. CASE ResolveStrict(r) /\ Pass(r) /\ RoleAllows(direct[req[r].at], Permission(r), WorkRoles)
  BY <1>3, <1>5, PassDecides DEF ResolveStrict, Permission
<1>6. CASE ResolveLink(r) /\ req[r].role # NoRole /\ LinkOpen(req[r].at, group)
  <2>1. {"holding", "link"} \subseteq Saw(req[r])
    BY <1>2, <1>6, OpenLinks, RowsOpenLayers DEF IInv, TypeOK, PolicyTypeOK
  <2>2. req[r].role \in ManagingRoles => LetIn(req[r])
    BY <1>1, <1>2, <1>6, <2>1 DEF Evidence, PageEvidence, LetIn, GroupPath, ResolveLink
  <2> QED
    BY <1>2, <1>6, <2>2, PassDecides, GotoDecides DEF ResolveLink
<1>7. CASE ResolveAssign(r) /\ Pass(r) /\ RoleAllows(access[req[r].at], Permission(r), WorkRoles)
  <2>1. RoleAllows(access[req[r].at], "work", WorkRoles) =>
          {"entry", "assigned"} \subseteq Saw(req[r])
    BY <1>2, RowsOpenLayers DEF RoleAllows
  <2>2. req[r].phase = "view" => LetIn(req[r])
    BY <1>1, <1>2, <1>7, <2>1
    DEF Evidence, PageEvidence, LetIn, GroupPath, ResolveAssign, Permission
  <2> QED
    BY <1>7, <2>2, PassDecides DEF ResolveAssign
<1> QED
  BY <1>4, <1>5, <1>6, <1>7 DEF ResolveStrict, ResolveLink, ResolveAssign

LEMMA StepDecides ==
  ASSUME IInv, NEW r \in Requests, Decides(r)
  PROVE  \E q : req' = [req EXCEPT ![r] = q] /\ Deciding(req[r], q)
<1>1. req[r] \in Request /\ Evidence(req[r])
  BY DEF IInv, TypeOK, RequestsAreSound
<1>2. CASE ResolveMembership(r)
  <2> DEFINE role == IF member.active /\ group.active THEN member.role ELSE NoRole
             q == [req[r] EXCEPT !.role = role, !.step = "link"]
  <2>1. /\ q.step = "link" /\ q.kind = req[r].kind /\ q.at = req[r].at
        /\ q.seen = req[r].seen /\ q.context = req[r].context /\ q.phase = req[r].phase
    BY <1>1 DEF Request
  <2>2. Deciding(req[r], q)
    <3> HIDE DEF q
    <3> QED
      BY <1>2, <2>1 DEF Deciding, SameRequest, ResolveMembership, Decided
  <2> QED
    BY <1>2, <2>2 DEF ResolveMembership
<1>3. CASE SwitchHolding(r)
  <2> DEFINE step == IF ~group.active THEN "denied"
                     ELSE IF req[r].kind = "tenant_switch" THEN "company"
                     ELSE "dashboard"
             q == [req[r] EXCEPT !.holding = group, !.step = step]
  <2>1. /\ q.step \in {"denied", "company", "dashboard"}
        /\ q.kind = req[r].kind /\ q.at = req[r].at
        /\ q.seen = req[r].seen /\ q.context = req[r].context /\ q.phase = req[r].phase
    BY <1>1 DEF Request
  <2>2. Deciding(req[r], q)
    <3> HIDE DEF q
    <3> QED
      BY <1>3, <2>1 DEF Deciding, SameRequest, SwitchHolding, Decided
  <2> QED
    BY <1>3, <2>2 DEF SwitchHolding
<1>4. CASE SwitchTarget(r) \/ SwitchOwn(r) \/ SwitchDashboard(r)
             \/ SwitchCompany(r) \/ SwitchMember(r) \/ SwitchAssigned(r)
  <2>1. req[r].step \in SwitchSteps
    BY <1>4 DEF SwitchTarget, SwitchOwn, SwitchDashboard, SwitchCompany, SwitchMember,
                SwitchAssigned, SwitchSteps
  <2>2. req[r].step \notin Decided \cup {"arrived", "boot", "sync"}
    BY <2>1 DEF SwitchSteps, Decided
  <2>3. ASSUME NEW pass, NEW step \in SwitchSteps \cup {"denied"}, Turn(r, pass, step)
        PROVE  \E q : req' = [req EXCEPT ![r] = q] /\ Deciding(req[r], q)
    <3>1. step \notin {"idle", "arrived", "boot", "sync", "served"}
      BY DEF SwitchSteps
    <3>2. Goto(r, step) \/ Goto(r, "denied")
      BY <2>3 DEF Turn
    <3> QED
      BY <2>2, <3>1, <3>2, GotoDecides
  <2>4. ASSUME NEW ctx, Grant(r, ctx)
        PROVE  \E q : req' = [req EXCEPT ![r] = q] /\ Deciding(req[r], q)
    <3> DEFINE q == [req[r] EXCEPT !.next = ctx, !.step = "save"]
    <3>1. /\ q.step = "save" /\ q.kind = req[r].kind /\ q.at = req[r].at
          /\ q.seen = req[r].seen /\ q.context = req[r].context /\ q.phase = req[r].phase
      BY <1>1 DEF Request
    <3>2. Deciding(req[r], q)
      <4> HIDE DEF q
      <4> QED
        BY <2>2, <3>1 DEF Deciding, SameRequest
    <3> QED
      BY <2>4, <3>2 DEF Grant
  <2>5. {"own", "holding", "dashboard", "company", "member", "assigned"} \subseteq SwitchSteps
    BY DEF SwitchSteps
  <2> QED
    BY <1>4, <2>3, <2>4, <2>5
    DEF SwitchTarget, SwitchOwn, SwitchDashboard, SwitchCompany, SwitchMember, SwitchAssigned
<1> QED
  BY <1>2, <1>3, <1>4, PageDecides DEF Decides

-----------------------------------------------------------------------------
(* A session that is not registered keeps no context.                      *)
Unregistered ==
  /\ ~registered => context = NoContext /\ \A r \in Requests : req[r].context = NoContext
  /\ \A r \in Requests : req[r].step \in {"arrived", "boot"} => req[r].phase = "gate"

(* The steps between two saves of the session.                             *)
Between == {"boot", "sync"}

(* While requests are served one at a time, the one at work knows the row  *)
(* as it stands, until it is past the gate.                                *)
OneAtATime ==
  \A p, q \in Requests : p # q => req[p].step = "idle" \/ req[q].step = "idle"

KnowsContext(q) ==
  /\ q.step = "sync" => q.next = context
  /\ q.step \notin Decided \cup {"arrived", "sync"} /\ q.phase = "gate"
        => q.context = context

Serial ==
  ~together =>
    /\ OneAtATime
    /\ \A r \in Requests : KnowsContext(req[r])
    /\ context # NoContext /\ (\A r \in Requests : req[r].step \notin Between)
         => mirror = context.scope

SInv == Unregistered /\ Serial

(* A request that moves while the session stays as it is.                  *)
LEMMA DecidingKeepsSInv ==
  ASSUME IInv, SInv, NEW r \in Requests, NEW q, req' = [req EXCEPT ![r] = q],
         Deciding(req[r], q) \/ (q = Idle /\ req[r].step \in Decided),
         UNCHANGED <<registered, context, mirror, together>>
  PROVE  SInv'
<1>1. \A p \in Requests : req'[p] = IF p = r THEN q ELSE req[p]
  BY DEF IInv, TypeOK
<1>2. req[r].step \notin {"arrived", "boot", "sync"} /\ q.step \notin {"arrived", "boot", "sync"}
  BY DEF Deciding, Decided, Idle
<1>3. q.context = req[r].context \/ q.context = NoContext
  BY DEF Deciding, SameRequest, Idle
<1>4. Unregistered'
  BY <1>1, <1>2, <1>3 DEF SInv, Unregistered
<1>5. ASSUME ~together'
      PROVE  /\ OneAtATime'
             /\ \A p \in Requests : KnowsContext(req[p])'
             /\ context' # NoContext /\ (\A p \in Requests : req'[p].step \notin Between)
                  => mirror' = context'.scope
  <2>1. OneAtATime'
    <3>1. req[r].step = "idle" => q.step = "idle"
      BY DEF Deciding, Decided, Idle
    <3> QED
      BY <1>1, <1>5, <3>1 DEF SInv, Serial, OneAtATime
  <2>2. KnowsContext(q)
    BY <1>2, <1>5 DEF SInv, Serial, KnowsContext, Deciding, SameRequest, Decided, Idle
  <2>3. \A p \in Requests : KnowsContext(req[p])'
    BY <1>1, <1>5, <2>2 DEF SInv, Serial, KnowsContext
  <2>4. (\A p \in Requests : req'[p].step \notin Between) =>
          \A p \in Requests : req[p].step \notin Between
    BY <1>1, <1>2 DEF Between
  <2> QED
    BY <1>5, <2>1, <2>3, <2>4 DEF SInv, Serial
<1> QED
  BY <1>4, <1>5 DEF SInv, Serial

LEMMA ArriveKeepsSInv ==
  ASSUME IInv, SInv, NEW r \in Requests, NEW kind, NEW t, Arrive(r, kind, t)
  PROVE  SInv'
<1> DEFINE q == req'[r]
<1>1. /\ q.step = "arrived" /\ q.context = NoContext /\ q.phase = "gate"
      /\ \A p \in Requests : p # r => req'[p] = req[p]
  BY DEF Arrive, Idle, IInv, TypeOK
<1>2. UNCHANGED <<registered, context, mirror>> /\ req[r].step = "idle"
  BY DEF Arrive, sessionVars
<1>3. Unregistered'
  BY <1>1, <1>2 DEF SInv, Unregistered
<1>4. ASSUME ~together'
      PROVE  Serial'
  <2>1. ~together /\ \A p \in Requests \ {r} : req[p].step = "idle"
    BY <1>4 DEF Arrive
  <2>2. OneAtATime'
    BY <1>1, <2>1 DEF OneAtATime
  <2>3. \A p \in Requests : KnowsContext(req[p])'
    BY <1>1, <1>2, <2>1 DEF KnowsContext, SInv, Serial
  <2>4. context # NoContext => mirror = context.scope
    BY <1>2, <2>1 DEF SInv, Serial, Between
  <2> QED
    BY <1>2, <2>2, <2>3, <2>4 DEF Serial
<1> QED
  BY <1>3, <1>4 DEF SInv, Serial

LEMMA LoadKeepsSInv ==
  ASSUME IInv, SInv, NEW r \in Requests, Load(r)
  PROVE  SInv'
<1> DEFINE q == req'[r]
<1>1. /\ req[r] \in Request /\ req[r].step = "arrived"
      /\ UNCHANGED <<registered, mirror, together>>
  BY DEF Load, IInv, TypeOK
<1>2. /\ q.context = context' /\ q.phase = req[r].phase
      /\ \A p \in Requests : p # r => req'[p] = req[p]
      /\ \/ registered /\ context = NoContext /\ q.step = "boot"
         \/ context' = context /\ q.step = AfterLoad(req[r])
  BY <1>1 DEF Load, IInv, TypeOK, Request
<1>3. AfterLoad(req[r]) \in {"local", "denied", "target", "holding", "save"}
  BY <1>1 DEF AfterLoad, Request, Kinds
<1>4. Unregistered'
  <2>1. req[r].phase = "gate"
    BY <1>1 DEF SInv, Unregistered
  <2>2. ~registered => context' = NoContext
    BY <1>2 DEF SInv, Unregistered
  <2> QED
    BY <1>1, <1>2, <2>1, <2>2 DEF SInv, Unregistered
<1>5. ASSUME ~together
      PROVE  Serial'
  <2>1. \A p \in Requests \ {r} : req[p].step = "idle"
    BY <1>1, <1>5 DEF SInv, Serial, OneAtATime
  <2>2. OneAtATime'
    BY <1>2, <2>1 DEF OneAtATime
  <2>3. KnowsContext(req[r])'
    BY <1>2, <1>3 DEF KnowsContext
  <2>4. \A p \in Requests : KnowsContext(req[p])'
    BY <1>2, <2>1, <2>3 DEF KnowsContext, Decided
  <2>5. ASSUME context' # NoContext, \A p \in Requests : req'[p].step \notin Between
        PROVE  mirror' = context'.scope
    <3>1. context' = context
      BY <1>2, <2>5 DEF Between
    <3>2. \A p \in Requests : req[p].step \notin Between
      BY <1>1, <2>1 DEF Between
    <3> QED
      BY <1>1, <1>5, <2>5, <3>1, <3>2 DEF SInv, Serial
  <2> QED
    BY <2>2, <2>4, <2>5 DEF Serial
<1> QED
  BY <1>1, <1>4, <1>5 DEF SInv, Serial

LEMMA BootKeepsSInv ==
  ASSUME IInv, SInv, NEW r \in Requests, Boot(r)
  PROVE  SInv'
<1> DEFINE q == req'[r]
<1>1. /\ req[r] \in Request /\ req[r].step = "boot"
      /\ UNCHANGED <<registered, context, together>> /\ mirror' = req[r].context.scope
  BY DEF Boot, IInv, TypeOK
<1>2. /\ q.context = req[r].context /\ q.phase = req[r].phase /\ q.step = AfterLoad(req[r])
      /\ \A p \in Requests : p # r => req'[p] = req[p]
  BY <1>1 DEF Boot, Goto, IInv, TypeOK, Request
<1>3. AfterLoad(req[r]) \in {"local", "denied", "target", "holding", "save"}
  BY <1>1 DEF AfterLoad, Request, Kinds
<1>4. Unregistered'
  BY <1>1, <1>2, <1>3 DEF SInv, Unregistered
<1>5. ASSUME ~together
      PROVE  Serial'
  <2>1. \A p \in Requests \ {r} : req[p].step = "idle"
    BY <1>1, <1>5 DEF SInv, Serial, OneAtATime
  <2>2. req[r].context = context
    BY <1>1, <1>5 DEF SInv, Serial, KnowsContext, Unregistered, Decided
  <2>3. OneAtATime'
    BY <1>2, <2>1 DEF OneAtATime
  <2>4. \A p \in Requests : KnowsContext(req[p])'
    BY <1>1, <1>2, <1>3, <2>1, <2>2 DEF KnowsContext, Decided
  <2> QED
    BY <1>1, <2>2, <2>3, <2>4 DEF Serial
<1> QED
  BY <1>1, <1>4, <1>5 DEF SInv, Serial

LEMMA SaveKeepsSInv ==
  ASSUME IInv, SInv, NEW r \in Requests, SaveContext(r)
  PROVE  SInv'
<1> DEFINE q == req'[r]
<1>1. /\ req[r] \in Request /\ req[r].step \in {"handoff", "save"}
      /\ UNCHANGED <<registered, mirror, together>>
  BY DEF SaveContext, IInv, TypeOK
<1>2. /\ q.context = req[r].context /\ q.phase = req[r].phase
      /\ \A p \in Requests : p # r => req'[p] = req[p]
      /\ \/ registered /\ q.step = "sync" /\ q.next = context'
         \/ ~registered /\ context' = context /\ q.step = "served"
  BY <1>1 DEF SaveContext, Goto, IInv, TypeOK, Request
<1>3. Unregistered'
  BY <1>1, <1>2 DEF SInv, Unregistered
<1>4. ASSUME ~together
      PROVE  Serial'
  <2>1. \A p \in Requests \ {r} : req[p].step = "idle"
    BY <1>1, <1>4 DEF SInv, Serial, OneAtATime
  <2>2. OneAtATime'
    BY <1>2, <2>1 DEF OneAtATime
  <2>3. \A p \in Requests : KnowsContext(req[p])'
    BY <1>2, <2>1 DEF KnowsContext, Decided
  <2>4. ASSUME context' # NoContext, \A p \in Requests : req'[p].step \notin Between
        PROVE  mirror' = context'.scope
    BY <1>1, <1>2, <2>4 DEF Between, SInv, Unregistered
  <2> QED
    BY <2>2, <2>3, <2>4 DEF Serial
<1> QED
  BY <1>1, <1>3, <1>4 DEF SInv, Serial

LEMMA SyncKeepsSInv ==
  ASSUME IInv, SInv, NEW r \in Requests, SyncMirror(r)
  PROVE  SInv'
<1> DEFINE q == req'[r]
<1>1. /\ req[r] \in Request /\ req[r].step = "sync"
      /\ UNCHANGED <<registered, context, together>> /\ mirror' = req[r].next.scope
  BY DEF SyncMirror, IInv, TypeOK
<1>2. /\ q.context = req[r].context
      /\ q.step = "served" \/ (q.step = "resolve" /\ q.phase = "view")
      /\ \A p \in Requests : p # r => req'[p] = req[p]
  BY <1>1 DEF SyncMirror, Goto, Proceed, IInv, TypeOK, Request
<1>3. Unregistered'
  BY <1>1, <1>2 DEF SInv, Unregistered
<1>4. ASSUME ~together
      PROVE  Serial'
  <2>1. \A p \in Requests \ {r} : req[p].step = "idle"
    BY <1>1, <1>4 DEF SInv, Serial, OneAtATime
  <2>2. OneAtATime'
    BY <1>2, <2>1 DEF OneAtATime
  <2>3. \A p \in Requests : KnowsContext(req[p])'
    BY <1>2, <2>1 DEF KnowsContext, Decided
  <2>4. mirror' = context.scope
    BY <1>1, <1>4 DEF SInv, Serial, KnowsContext
  <2> QED
    BY <1>1, <2>2, <2>3, <2>4 DEF Serial
<1> QED
  BY <1>1, <1>3, <1>4 DEF SInv, Serial

LEMMA AdminKeepsSInv ==
  ASSUME IInv, SInv, AdminWrite
  PROVE  SInv'
<1>1. UNCHANGED <<registered, context, mirror, together>>
  BY DEF AdminWrite, sessionVars
<1>2. ASSUME NEW r \in Requests
      PROVE  /\ req'[r].step = req[r].step /\ req'[r].context = req[r].context
             /\ req'[r].next = req[r].next /\ req'[r].phase = req[r].phase
  BY DEF AdminWrite, Watch, IInv, TypeOK, Request
<1> QED
  BY <1>1, <1>2 DEF SInv, Unregistered, Serial, OneAtATime, KnowsContext

LEMMA StepKeepsSInv ==
  ASSUME IInv, SInv, [Next]_vars
  PROVE  SInv'
<1>1. CASE UNCHANGED vars
  BY <1>1 DEF vars, sessionVars, SInv, Unregistered, Serial, OneAtATime, KnowsContext
<1>2. CASE AdminWrite
  BY <1>2, AdminKeepsSInv
<1>3. ASSUME NEW r \in Requests, PageStep(r) \/ SwitchStep(r)
      PROVE  SInv'
  <2>1. CASE Decides(r)
    <3>1. UNCHANGED <<registered, context, mirror, together>>
      BY <2>1 DEF Decides, Local, ResolveStrict, ResolveMembership, ResolveLink, ResolveAssign,
                  SwitchTarget, SwitchOwn, SwitchHolding, SwitchDashboard, SwitchCompany,
                  SwitchMember, SwitchAssigned, Turn, Grant, sessionVars
    <3> QED
      BY <2>1, <3>1, StepDecides, DecidingKeepsSInv
  <2>2. CASE Finish(r)
    BY <2>2, DecidingKeepsSInv DEF Finish, sessionVars, Decided
  <2> QED
    BY <1>3, <2>1, <2>2, ArriveKeepsSInv, LoadKeepsSInv, BootKeepsSInv, SaveKeepsSInv,
       SyncKeepsSInv
    DEF PageStep, SwitchStep, Decides
<1> QED
  BY <1>1, <1>2, <1>3 DEF Next

(* Served one at a time, the copy lags only while a request owes its sync, *)
(* and what a request loaded is what the session still holds.              *)
THEOREM SessionInvariant == Spec => [](IInv /\ SInv)
<1>1. Init => IInv /\ SInv
  <2>1. Init => SInv
    BY DEF Init, SInv, Unregistered, Serial, OneAtATime, KnowsContext, Idle, Decided
  <2> QED
    BY <2>1, InitIsSound
<1>2. IInv /\ SInv /\ [Next]_vars => SInv'
  BY StepKeepsSInv
<1> QED
  BY <1>1, <1>2, InductiveInvariant, PTL DEF Spec

(* As long as requests are served one at a time, the copy in the global    *)
(* session agrees with the context whenever the session is at rest.        *)
THEOREM MirrorAtRestThm == Spec => []MirrorAtRest
<1>1. SInv => MirrorAtRest
  BY DEF SInv, Serial, Between, MirrorAtRest
<1> QED
  BY <1>1, SessionInvariant, PTL

(* ... and only a switch changes the scope of the session.                 *)
THEOREM OnlySwitchesChangeScopeThm == Spec => OnlySwitchesChangeScope
<1>1. ASSUME IInv, SInv, Next, ~together, context # NoContext,
             context'.scope # context.scope
      PROVE  \E r \in Requests : req[r].step = "save"
  <2>1. PICK r \in Requests : Load(r) \/ SaveContext(r)
    BY <1>1 DEF Next, AdminWrite, PageStep, SwitchStep, Arrive, Boot, Finish, SyncMirror,
                Local, ResolveStrict, ResolveMembership, ResolveLink, ResolveAssign,
                SwitchTarget, SwitchOwn, SwitchHolding, SwitchDashboard, SwitchCompany,
                SwitchMember, SwitchAssigned, Turn, Grant, sessionVars
  <2>2. ~Load(r)
    BY <1>1 DEF Load
  <2>3. ASSUME req[r].step = "handoff"
        PROVE  FALSE
    <3>1. req[r].kind = "page" /\ req[r].phase = "gate" /\ req[r].context.scope = "consolidated"
      BY <1>1, <2>3 DEF IInv, RequestsAreSound, Evidence, PageEvidence
    <3>2. context.scope = "consolidated"
      BY <1>1, <2>3, <3>1 DEF SInv, Serial, KnowsContext, Decided
    <3>3. context' = context \/ context' = Consolidated(req[r].at)
      BY <2>1, <2>2, <3>1 DEF SaveContext, NextContext
    <3> QED
      BY <1>1, <3>2, <3>3 DEF Consolidated
  <2> QED
    BY <2>1, <2>2, <2>3 DEF SaveContext
<1>2. IInv /\ SInv /\ [Next]_vars =>
        [(~together /\ context # NoContext /\ context'.scope # context.scope) =>
           \E r \in Requests : req[r].step = "save"]_vars
  BY <1>1
<1> QED
  BY <1>2, SessionInvariant, PTL DEF Spec, OnlySwitchesChangeScope

-----------------------------------------------------------------------------
(* The doors of the contract, as the requests of the pipeline show them.   *)
Outside == [state |-> "outside", at |-> NoTenant, seen |-> {}]

LEMMA DoorFields ==
  ASSUME NEW state, NEW at, NEW seen, NEW new
  PROVE  /\ [[state |-> state, at |-> at, seen |-> seen] EXCEPT !.state = new]
              = [state |-> new, at |-> at, seen |-> seen]
         /\ [[state |-> state, at |-> at, seen |-> seen] EXCEPT !.seen = new]
              = [state |-> state, at |-> at, seen |-> new]
OBVIOUS

LEMMA DoorsOfOneMove ==
  ASSUME IInv, NEW r \in Requests, NEW q, req' = [req EXCEPT ![r] = q]
  PROVE  [p \in Requests |-> DoorOf(req[p])]'
           = [[p \in Requests |-> DoorOf(req[p])] EXCEPT ![r] = DoorOf(q)]
BY DEF IInv, TypeOK

LEMMA SameDoor ==
  ASSUME IInv, NEW r \in Requests, NEW q, req' = [req EXCEPT ![r] = q],
         DoorOf(q) = DoorOf(req[r])
  PROVE  [p \in Requests |-> DoorOf(req[p])]' = [p \in Requests |-> DoorOf(req[p])]
BY DoorsOfOneMove

LEMMA LeavingImplements ==
  ASSUME IInv, NEW r \in Requests, NEW q, req' = [req EXCEPT ![r] = q],
         DoorOf(q) = Outside, UNCHANGED policyVars
  PROVE  \/ Contract!Leave(r)
         \/ UNCHANGED <<StandingOf, [p \in Requests |-> DoorOf(req[p])]>>
<1>1. StandingOf' = StandingOf
  BY StandingStays
<1>2. DoorOf(req[r]) = Outside \/ DoorOf(req[r]).state # "outside"
  BY DEF DoorOf, Outside
<1>3. CASE DoorOf(req[r]) = Outside
  BY <1>1, <1>3, SameDoor
<1>4. CASE DoorOf(req[r]).state # "outside"
  BY <1>1, <1>4, DoorsOfOneMove DEF Contract!Leave, Contract!Outside, Outside
<1> QED
  BY <1>2, <1>3, <1>4

(* A request under way goes on: only a page let in shows, and it has seen  *)
(* a path open.                                                            *)
LEMMA GoingOnImplements ==
  ASSUME IInv, NEW r \in Requests, NEW q, req' = [req EXCEPT ![r] = q],
         req[r].step \notin Decided, q.step # "idle",
         q.kind = req[r].kind, q.at = req[r].at, q.seen = req[r].seen,
         q.step = "served" /\ q.kind = "page" => LetIn(q),
         UNCHANGED policyVars
  PROVE  \/ Contract!Admit(r) \/ Contract!Leave(r)
         \/ UNCHANGED <<StandingOf, [p \in Requests |-> DoorOf(req[p])]>>
<1>1. StandingOf' = StandingOf
  BY StandingStays
<1>2. CASE q.kind # "page" \/ q.step = "denied"
  BY <1>2, LeavingImplements DEF DoorOf, Outside
<1>3. CASE q.kind = "page" /\ q.step \notin {"denied", "served"}
  <2>1. DoorOf(q) = DoorOf(req[r])
    BY <1>3 DEF DoorOf, Decided
  <2> QED
    BY <1>1, <2>1, SameDoor
<1>4. CASE q.kind = "page" /\ q.step = "served"
  <2>1. DoorOf(req[r]) = [state |-> "asking", at |-> q.at, seen |-> UNION q.seen]
    BY <1>4 DEF DoorOf, Decided
  <2>2. DoorOf(q) = [state |-> "in", at |-> q.at, seen |-> UNION q.seen]
    BY <1>4 DEF DoorOf
  <2>3. \E path \in {LocalPath, GroupPath} : path \subseteq DoorOf(req[r]).seen
    BY <1>4, <2>1 DEF LetIn, Saw
  <2> DEFINE doors == [p \in Requests |-> DoorOf(req[p])]
  <2>4. doors[r] = DoorOf(req[r])
    OBVIOUS
  <2>5. doors' = [doors EXCEPT ![r] = DoorOf(q)]
    BY DoorsOfOneMove
  <2> HIDE DEF doors
  <2>6. doors' = [doors EXCEPT ![r].state = "in"]
    <3>1. PICK at, seen : at = q.at /\ seen = UNION q.seen
      OBVIOUS
    <3>2. DoorOf(q) = [doors[r] EXCEPT !.state = "in"]
      <4>1. [[state |-> "asking", at |-> at, seen |-> seen] EXCEPT !.state = "in"]
              = [state |-> "in", at |-> at, seen |-> seen]
        BY DoorFields
      <4>2. /\ doors[r] = [state |-> "asking", at |-> at, seen |-> seen]
            /\ DoorOf(q) = [state |-> "in", at |-> at, seen |-> seen]
        BY <2>1, <2>2, <2>4, <3>1
      <4> QED
        BY <4>1, <4>2, Zenon
    <3>3. [doors EXCEPT ![r] = DoorOf(q)] = [doors EXCEPT ![r].state = "in"]
      BY <3>2
    <3> QED
      BY <2>5, <3>3
  <2>7. doors[r].state = "asking" /\ \E path \in {LocalPath, GroupPath} : path \subseteq doors[r].seen
    BY <2>1, <2>3, <2>4
  <2> QED
    BY <1>1, <2>6, <2>7 DEF Contract!Admit, doors
<1> QED
  BY <1>2, <1>3, <1>4

LEMMA ArriveImplements ==
  ASSUME IInv, NEW r \in Requests, NEW kind, NEW t \in Tenants \cup {NoTenant},
         Arrive(r, kind, t)
  PROVE  \/ t \in Tenants /\ Contract!Ask(r, t)
         \/ UNCHANGED <<StandingOf, [p \in Requests |-> DoorOf(req[p])]>>
<1> DEFINE q == [Idle EXCEPT !.step = "arrived", !.kind = kind, !.at = t,
                    !.on = IF t = NoTenant THEN TRUE ELSE tenant[t].active,
                    !.seen = IF t = NoTenant THEN {} ELSE {StandingOf[t]}]
<1>1. req' = [req EXCEPT ![r] = q] /\ UNCHANGED policyVars /\ req[r].step = "idle"
  BY DEF Arrive
<1>2. /\ q.step = "arrived" /\ q.kind = kind /\ q.at = t
      /\ q.seen = (IF t = NoTenant THEN {} ELSE {StandingOf[t]})
  BY DEF Idle
<1>3. StandingOf' = StandingOf
  BY <1>1, StandingStays
<1>4. DoorOf(req[r]) = Outside
  BY <1>1 DEF DoorOf, Outside
<1> HIDE DEF q
<1>5. CASE kind # "page"
  <2>1. DoorOf(q) = Outside
    BY <1>2, <1>5 DEF DoorOf, Outside
  <2> QED
    BY <1>1, <1>3, <1>4, <2>1, SameDoor
<1>6. CASE kind = "page"
  <2>1. t \in Tenants /\ t # NoTenant
    BY <1>6 DEF Arrive
  <2>2. DoorOf(q) = [state |-> "asking", at |-> t, seen |-> StandingOf[t]]
    BY <1>2, <1>6, <2>1 DEF DoorOf
  <2> DEFINE doors == [p \in Requests |-> DoorOf(req[p])]
  <2>3. doors[r] = Outside
    BY <1>4
  <2>4. doors' = [doors EXCEPT ![r] = [state |-> "asking", at |-> t, seen |-> StandingOf[t]]]
    BY <1>1, <2>2, DoorsOfOneMove
  <2> QED
    BY <1>3, <2>1, <2>3, <2>4 DEF Contract!Ask, Contract!Outside, Outside
<1> QED
  BY <1>5, <1>6

LEMMA AdminImplements ==
  ASSUME IInv, AdminWrite
  PROVE  Contract!Change
<1>1. StandingOf' \in [Tenants -> SUBSET LayerNames]
  BY DEF StandingOf
<1>2. ASSUME NEW r \in Requests
      PROVE  DoorOf(req'[r]) = Contract!Watch(DoorOf(req[r]))
  <2> DEFINE standing == StandingOf'
             q == Watch(req[r], standing)
  <2>1. req'[r] = q /\ req[r] \in Request /\ AtRest(req[r])
    BY DEF AdminWrite, IInv, TypeOK, RequestsAreSound, Evidence
  <2>2. q.kind = req[r].kind /\ q.step = req[r].step /\ q.at = req[r].at
    BY <2>1 DEF Watch, Request
  <2>3. CASE req[r].kind # "page" \/ req[r].step \in {"idle", "denied"}
    BY <2>1, <2>2, <2>3 DEF DoorOf, Contract!Watch
  <2>4. CASE req[r].kind = "page" /\ req[r].step = "served"
    <3>1. q = req[r]
      BY <2>4 DEF Watch
    <3> QED
      BY <2>1, <2>4, <3>1 DEF DoorOf, Contract!Watch
  <2>5. CASE req[r].kind = "page" /\ req[r].step \notin Decided
    <3>1. req[r].at # NoTenant
      BY <2>1, <2>5 DEF AtRest, Decided
    <3>2. q.seen = req[r].seen \cup {standing[req[r].at]}
      <4> HIDE DEF standing
      <4> QED
        BY <2>1, <2>5, <3>1 DEF Watch, Request, Decided
    <3>3. DoorOf(req[r]) = [state |-> "asking", at |-> req[r].at, seen |-> UNION req[r].seen]
      BY <2>5 DEF DoorOf, Decided
    <3>4. DoorOf(q) = [state |-> "asking", at |-> req[r].at, seen |-> UNION q.seen]
      <4> HIDE DEF q
      <4> QED
        BY <2>2, <2>5 DEF DoorOf, Decided
    <3>5. UNION q.seen = (UNION req[r].seen) \cup standing[req[r].at]
      BY <3>2
    <3>6. Contract!Watch(DoorOf(req[r])) =
            [state |-> "asking", at |-> req[r].at,
             seen |-> (UNION req[r].seen) \cup standing[req[r].at]]
      BY <3>3, DoorFields DEF Contract!Watch
    <3> HIDE DEF q, standing
    <3> QED
      BY <2>1, <3>4, <3>5, <3>6
  <2> QED
    BY <2>3, <2>4, <2>5 DEF Decided
<1> QED
  BY <1>1, <1>2 DEF Contract!Change

(* Every page of the pipeline is let in only through layers of policy that *)
(* were open since it arrived: the middleware chain, its four reads and    *)
(* the handoff implement the contract of one access, for any companies,    *)
(* roles, tabs and administration.                                         *)
THEOREM ImplementsContractThm == Spec => ImplementsContract
<1> DEFINE doors == [r \in Requests |-> DoorOf(req[r])]
<1>1. Init => Contract!ContractInit
  BY DEF Init, Contract!ContractInit, Contract!Outside, DoorOf, Idle, StandingOf
<1>2. ASSUME IInv, SInv, Next
      PROVE  Contract!ContractNext \/ UNCHANGED <<StandingOf, doors>>
  <2>1. CASE AdminWrite
    BY <1>2, <2>1, AdminImplements DEF Contract!ContractNext
  <2>2. ASSUME NEW r \in Requests, PageStep(r) \/ SwitchStep(r)
        PROVE  Contract!ContractNext \/ UNCHANGED <<StandingOf, doors>>
    <3>1. req[r] \in Request /\ Evidence(req[r])
      BY <1>2 DEF IInv, TypeOK, RequestsAreSound
    <3>2. ASSUME NEW kind, NEW t \in Tenants \cup {NoTenant}, Arrive(r, kind, t)
          PROVE  Contract!ContractNext \/ UNCHANGED <<StandingOf, doors>>
      BY <1>2, <3>2, ArriveImplements DEF Contract!ContractNext
    <3>3. ASSUME NEW q, req' = [req EXCEPT ![r] = q], UNCHANGED policyVars,
                 req[r].step \notin Decided, q.step # "idle",
                 q.kind = req[r].kind, q.at = req[r].at, q.seen = req[r].seen,
                 q.step = "served" /\ q.kind = "page" => LetIn(q)
          PROVE  Contract!ContractNext \/ UNCHANGED <<StandingOf, doors>>
      BY <1>2, <3>3, GoingOnImplements DEF Contract!ContractNext
    <3>4. CASE Decides(r)
      <4>1. PICK q : req' = [req EXCEPT ![r] = q] /\ Deciding(req[r], q)
        BY <1>2, <3>4, StepDecides
      <4>2. UNCHANGED policyVars
        BY <3>4 DEF Decides, Local, ResolveStrict, ResolveMembership, ResolveLink,
                    ResolveAssign, SwitchTarget, SwitchOwn, SwitchHolding, SwitchDashboard,
                    SwitchCompany, SwitchMember, SwitchAssigned, Turn, Grant
      <4> QED
        BY <3>3, <4>1, <4>2 DEF Deciding, SameRequest
    <3>5. CASE Finish(r)
      BY <1>2, <3>5, LeavingImplements DEF Finish, DoorOf, Idle, Outside, Contract!ContractNext
    <3>6. CASE Load(r) \/ Boot(r) \/ SaveContext(r) \/ SyncMirror(r)
      <4>1. /\ req' = [req EXCEPT ![r] = req'[r]] /\ UNCHANGED policyVars
            /\ req[r].step \notin Decided
            /\ req'[r].kind = req[r].kind /\ req'[r].at = req[r].at
            /\ req'[r].seen = req[r].seen
        BY <1>2, <3>1, <3>6
        DEF Load, Boot, SaveContext, SyncMirror, Goto, Proceed, Decided, IInv, TypeOK, Request
      <4>2. /\ req'[r].step # "idle"
            /\ req[r].kind = "page" => req'[r].step # "served"
        <5>1. AfterLoad(req[r]) \notin {"idle", "served"}
          BY <3>1 DEF AfterLoad, Request, Kinds
        <5>2. CASE Load(r) \/ Boot(r)
          BY <1>2, <3>1, <5>1, <5>2 DEF Load, Boot, Goto, Request, IInv, TypeOK
        <5>3. CASE SaveContext(r)
          <6>1. req[r].kind = "page" => req[r].step = "handoff" /\ req[r].context # NoContext
            BY <3>1, <5>3 DEF SaveContext, Evidence, PageEvidence, SwitchEvidence, NoContext
          <6>2. req[r].kind = "page" => registered
            BY <1>2, <6>1 DEF SInv, Unregistered
          <6> QED
            BY <1>2, <3>1, <5>3, <6>2 DEF SaveContext, Goto, Request, IInv, TypeOK
        <5>4. CASE SyncMirror(r)
          BY <1>2, <3>1, <5>4 DEF SyncMirror, Goto, Proceed, Request, IInv, TypeOK
        <5> QED
          BY <3>6, <5>2, <5>3, <5>4
      <4> QED
        BY <3>3, <4>1, <4>2
    <3> QED
      BY <2>2, <3>2, <3>4, <3>5, <3>6 DEF PageStep, SwitchStep, Decides
  <2> QED
    BY <1>2, <2>1, <2>2 DEF Next
<1>3. ASSUME UNCHANGED vars
      PROVE  UNCHANGED <<StandingOf, doors>>
  BY <1>3, StandingStays DEF vars
<1>4. IInv /\ SInv /\ [Next]_vars =>
        [Contract!ContractNext]_<<StandingOf, [r \in Requests |-> DoorOf(req[r])]>>
  BY <1>2, <1>3
<1> QED
  BY <1>1, <1>4, SessionInvariant, PTL DEF Spec, ImplementsContract, Contract!ContractSpec

-----------------------------------------------------------------------------
(* What one administration write does to the layers of a company: it opens *)
(* some or closes some, except that the two flags of the company itself    *)
(* may cross.                                                              *)
Near(s, u) ==
  \/ s \subseteq u \/ u \subseteq s
  \/ \A name \in LayerNames \ {"company", "link"} : name \in s <=> name \in u

(* A page under way, with at most one write since it arrived.              *)
SeenTwice(q) ==
  q.step \notin Decided /\ q.writes <= 1 =>
    \E s \in q.seen : /\ q.seen = {s, StandingOf[q.at]}
                      /\ Near(s, StandingOf[q.at])
                      /\ q.writes = 0 => s = StandingOf[q.at]

(* ... what has kept it out, or will, was closed at some instant, ...      *)
Closed(q) ==
  /\ q.step # "idle" /\ ~q.on => \E s \in q.seen : "company" \notin s
  /\ q.step = "link" /\ q.role = NoRole =>
       \E s \in q.seen : ~({"membership", "holding"} \subseteq s)
  /\ q.step \in {"link", "assign"} /\ q.role \notin ManagingRoles \cup {NoRole}
        /\ q.writes <= 1 =>
       \/ ~CanManageGroup(member)
       \/ /\ q.writes = 1
          /\ \E s \in q.seen :
               "assigned" \in s <=> RoleAllows(access[q.at], "work", WorkRoles)

(* ... and the flags that may cross were read together.                    *)
Opened(q) ==
  q.step = "assign" =>
    /\ q.role \notin ManagingRoles \cup {NoRole}
    /\ \E s \in q.seen : {"company", "link"} \subseteq s

Snapshot(q) ==
  q.writes <= 1 =>
    /\ q.step = "served" => ~Misdirected(q) /\ \E s \in q.seen : PathOf(q) \subseteq s
    /\ q.step = "denied" => Misdirected(q) \/ \E s \in q.seen : ~(PathOf(q) \subseteq s)

PageFits(q) == q.kind = "page" => SeenTwice(q) /\ Closed(q) /\ Opened(q) /\ Snapshot(q)

PagesFit == \A r \in Requests : PageFits(req[r])

LEMMA StandingRows ==
  ASSUME NEW t \in Tenants
  PROVE  LET S == StandingOf[t] IN
         /\ "company" \in S <=> tenant[t].active
         /\ "membership" \in S <=> member.active
         /\ "holding" \in S <=> group.active /\ group.mode = "full"
         /\ "link" \in S <=> link[t].active /\ link[t].mode = "full" /\ tenant[t].allow
         /\ "entry" \in S <=> CanManageGroup(member) \/ access[t].active
         /\ "assigned" \in S <=>
              CanManageGroup(member) \/ RoleAllows(access[t], "work", WorkRoles)
         /\ "local" \in S <=> RoleAllows(direct[t], "work", WorkRoles)
         /\ S \subseteq LayerNames
BY DEF StandingOf, LayerNames, LayerOn

LEMMA LayersOfNames ==
  LayerNames = {"company", "membership", "holding", "link", "entry", "assigned", "local"}
BY DEF LayerNames

(* One write changes one table, and with it layers that go the same way.   *)
LEMMA WriteIsNear ==
  ASSUME PolicyTypeOK, Admin, NEW t \in Tenants
  PROVE  /\ Near(StandingOf[t], StandingOf'[t])
         /\ member' = member \/ access' = access
<1> DEFINE S == StandingOf[t]
           T == StandingOf'[t]
<1>1. /\ "company" \in S <=> tenant[t].active
      /\ "membership" \in S <=> member.active
      /\ "holding" \in S <=> group.active /\ group.mode = "full"
      /\ "link" \in S <=> link[t].active /\ link[t].mode = "full" /\ tenant[t].allow
      /\ "entry" \in S <=> CanManageGroup(member) \/ access[t].active
      /\ "assigned" \in S <=>
           CanManageGroup(member) \/ RoleAllows(access[t], "work", WorkRoles)
      /\ "local" \in S <=> RoleAllows(direct[t], "work", WorkRoles)
      /\ S \subseteq LayerNames
  BY StandingRows
<1>2. /\ "company" \in T <=> tenant'[t].active
      /\ "membership" \in T <=> member'.active
      /\ "holding" \in T <=> group'.active /\ group'.mode = "full"
      /\ "link" \in T <=> link'[t].active /\ link'[t].mode = "full" /\ tenant'[t].allow
      /\ "entry" \in T <=> CanManageGroup(member') \/ access'[t].active
      /\ "assigned" \in T <=>
           CanManageGroup(member') \/ RoleAllows(access'[t], "work", WorkRoles)
      /\ "local" \in T <=> RoleAllows(direct'[t], "work", WorkRoles)
      /\ T \subseteq LayerNames
  BY DEF StandingOf, LayerNames, LayerOn
<1> HIDE DEF S, T
<1>3. CASE UNCHANGED <<member, tenant, link, access, direct>>
  <2>1. \A name \in LayerNames \ {"holding"} : name \in S <=> name \in T
    BY <1>1, <1>2, <1>3, LayersOfNames
  <2> QED
    BY <1>1, <1>2, <1>3, <2>1, LayersOfNames DEF Near, S, T
<1>4. ASSUME UNCHANGED <<group, tenant, link, access, direct>>
      PROVE  Near(S, T) /\ access' = access
  <2>1. \A name \in LayerNames \ {"membership", "entry", "assigned"} :
          name \in S <=> name \in T
    BY <1>1, <1>2, <1>4, LayersOfNames
  <2>2. /\ "entry" \in S \/ "assigned" \in S => "membership" \in S \/ access[t].active
        /\ CanManageGroup(member) => member.active
        /\ CanManageGroup(member') => member'.active
    BY <1>1 DEF CanManageGroup, RoleAllows
  <2> QED
    BY <1>1, <1>2, <1>4, <2>1, <2>2, LayersOfNames DEF Near, CanManageGroup
<1>5. CASE UNCHANGED <<group, member, tenant, access, direct>>
  <2>1. \A name \in LayerNames \ {"link"} : name \in S <=> name \in T
    BY <1>1, <1>2, <1>5, LayersOfNames
  <2> QED
    BY <1>1, <1>2, <1>5, <2>1, LayersOfNames DEF Near, S, T
<1>6. CASE UNCHANGED <<group, member, tenant, link, direct>>
  <2>1. \A name \in LayerNames \ {"entry", "assigned"} : name \in S <=> name \in T
    BY <1>1, <1>2, <1>6, LayersOfNames
  <2>2. /\ "assigned" \in S => "entry" \in S
        /\ "assigned" \in T => "entry" \in T
    BY <1>1, <1>2 DEF RoleAllows
  <2> QED
    BY <1>1, <1>2, <1>6, <2>1, <2>2, LayersOfNames DEF Near, S, T
<1>7. CASE UNCHANGED <<group, member, link, access, direct>>
  <2>1. \A name \in LayerNames \ {"company", "link"} : name \in S <=> name \in T
    BY <1>1, <1>2, <1>7, LayersOfNames
  <2> QED
    BY <1>7, <2>1 DEF Near, S, T
<1>8. CASE UNCHANGED <<group, member, tenant, link, access>>
  <2>1. \A name \in LayerNames \ {"local"} : name \in S <=> name \in T
    BY <1>1, <1>2, <1>8, LayersOfNames
  <2> QED
    BY <1>1, <1>2, <1>8, <2>1, LayersOfNames DEF Near, S, T
<1> QED
  BY <1>3, <1>4, <1>5, <1>6, <1>7, <1>8
  DEF Admin, HoldingAdmin, TenantAdmin, GroupEdit, MembershipUpsert, LinkUpsert,
      AccessUpsert, AccessToggle, AccessDelete, TenantEdit, TenantToggleActive,
      DirectAssign, DirectToggle, DirectDelete, S, T

PageMoves(r) == \E q : req' = [req EXCEPT ![r] = q] /\ PageFits(q)

(* Two standings that differ by one write: what was seen open was open at  *)
(* one instant, if the flags that may cross were.                          *)
LEMMA PathAtOnce ==
  ASSUME NEW seen, NEW S, NEW path \in {LocalPath, GroupPath}, path \subseteq UNION seen,
         NEW s \in seen, seen = {s, S}, Near(s, S),
         path = GroupPath => \E u \in seen : {"company", "link"} \subseteq u
  PROVE  \E u \in seen : path \subseteq u
<1>1. CASE s \subseteq S \/ S \subseteq s
  BY <1>1
<1>2. CASE \A name \in LayerNames \ {"company", "link"} : name \in s <=> name \in S
  <2>1. path \subseteq LayerNames
    BY DEF LocalPath, GroupPath, LayerNames
  <2>2. \A u \in seen : path \ {"company", "link"} \subseteq u
    BY <1>2, <2>1
  <2>3. \E u \in seen : path \cap {"company", "link"} \subseteq u
    <3>1. CASE path = GroupPath
      BY <3>1
    <3>2. CASE path = LocalPath
      <4>1. "company" \in path /\ "link" \notin path
        BY <3>2 DEF LocalPath
      <4>2. PICK u \in seen : "company" \in u
        BY <4>1
      <4> QED
        BY <4>1, <4>2
    <3> QED
      BY <3>1, <3>2
  <2> QED
    BY <2>2, <2>3
<1> QED
  BY <1>1, <1>2 DEF Near

LEMMA UnderWay ==
  ASSUME IInv, PagesFit, NEW r \in Requests, req[r].kind = "page", req[r].step \notin Decided
  PROVE  /\ req[r] \in Request /\ Evidence(req[r]) /\ req[r].at \in Tenants
         /\ StandingOf[req[r].at] \in req[r].seen
         /\ SeenTwice(req[r]) /\ Closed(req[r]) /\ Opened(req[r])
<1>1. req[r] \in Request /\ Evidence(req[r]) /\ Witnessed(req[r]) /\ PageFits(req[r])
  BY DEF IInv, TypeOK, RequestsAreSound, PagesFit
<1>2. req[r].at \in Tenants /\ req[r].at # NoTenant
  BY <1>1, PipelineAssumption DEF Evidence, AtRest, Decided, Request
<1> QED
  BY <1>1, <1>2 DEF Witnessed, PageFits

LEMMA StaysFit ==
  ASSUME IInv, PagesFit, NEW r \in Requests, req[r].kind = "page", req[r].step \notin Decided,
         NEW q, req' = [req EXCEPT ![r] = q],
         q.step \notin {"idle", "link", "assign", "served", "denied"},
         q.at = req[r].at, q.seen = req[r].seen, q.writes = req[r].writes, q.on = req[r].on
  PROVE  PageMoves(r)
<1>1. SeenTwice(req[r]) /\ Closed(req[r]) /\ req[r].step # "idle"
  BY UnderWay DEF Decided
<1>2. PageFits(q)
  BY <1>1 DEF PageFits, SeenTwice, Closed, Opened, Snapshot
<1> QED
  BY <1>2 DEF PageMoves

LEMMA DecidedPageFits ==
  ASSUME IInv, PagesFit, NEW r \in Requests, req[r].kind = "page", req[r].step \notin Decided,
         NEW step \in {"served", "denied"}, Goto(r, step),
         Snapshot([req[r] EXCEPT !.step = step])
  PROVE  PageMoves(r)
<1> DEFINE q == [req[r] EXCEPT !.step = step]
<1>1. Closed(req[r]) /\ req[r].step # "idle" /\ req[r] \in Request
  BY UnderWay DEF Decided
<1>2. q.step = step /\ q.on = req[r].on /\ q.seen = req[r].seen
  BY <1>1 DEF Request
<1>3. PageFits(q)
  <2>1. SeenTwice(q) /\ Opened(q)
    BY <1>2 DEF SeenTwice, Opened, Decided
  <2>2. Closed(q)
    BY <1>1, <1>2 DEF Closed
  <2> QED
    BY <2>1, <2>2 DEF PageFits
<1> QED
  BY <1>3 DEF PageMoves, Goto

LEMMA DeniedPageFits ==
  ASSUME IInv, PagesFit, NEW r \in Requests, req[r].kind = "page", req[r].step \notin Decided,
         Goto(r, "denied"),
         req[r].writes <= 1 =>
           Misdirected(req[r]) \/ \E s \in req[r].seen : ~(PathOf(req[r]) \subseteq s)
  PROVE  PageMoves(r)
<1> DEFINE q == [req[r] EXCEPT !.step = "denied"]
<1>1. req[r] \in Request
  BY UnderWay
<1>2. /\ q.step = "denied" /\ q.seen = req[r].seen /\ q.at = req[r].at
      /\ q.writes = req[r].writes /\ q.context = req[r].context
  BY <1>1 DEF Request
<1>3. Snapshot(q)
  <2> HIDE DEF q
  <2> QED
    BY <1>2 DEF Snapshot, Misdirected, PathOf
<1> QED
  BY <1>3, DecidedPageFits

(* A page let in has seen its path at one instant.                         *)
LEMMA ServedPageFits ==
  ASSUME IInv, PagesFit, NEW r \in Requests, req[r].kind = "page", req[r].step \notin Decided,
         Goto(r, "served"), ~Misdirected(req[r]), PathOf(req[r]) \subseteq Saw(req[r]),
         req[r].context.scope = "consolidated" =>
           \E s \in req[r].seen : {"company", "link"} \subseteq s
  PROVE  PageMoves(r)
<1> DEFINE q == [req[r] EXCEPT !.step = "served"]
<1>1. req[r] \in Request /\ SeenTwice(req[r])
  BY UnderWay
<1>2. /\ q.step = "served" /\ q.seen = req[r].seen /\ q.at = req[r].at
      /\ q.writes = req[r].writes /\ q.context = req[r].context
  BY <1>1 DEF Request
<1>3. PathOf(req[r]) \in {LocalPath, GroupPath}
      /\ (PathOf(req[r]) = GroupPath => req[r].context.scope = "consolidated")
  <2>1. LocalPath # GroupPath
    BY DEF LocalPath, GroupPath
  <2> QED
    BY <2>1 DEF PathOf
<1>4. req[r].writes <= 1 => \E s \in req[r].seen : PathOf(req[r]) \subseteq s
  <2> SUFFICES ASSUME req[r].writes <= 1
               PROVE  \E s \in req[r].seen : PathOf(req[r]) \subseteq s
    OBVIOUS
  <2>1. PICK s \in req[r].seen : /\ req[r].seen = {s, StandingOf[req[r].at]}
                                /\ Near(s, StandingOf[req[r].at])
    BY <1>1 DEF SeenTwice
  <2> QED
    BY <1>3, <2>1, PathAtOnce DEF Saw
<1>5. Snapshot(q)
  <2> HIDE DEF q
  <2> QED
    BY <1>2, <1>4 DEF Snapshot, Misdirected, PathOf
<1> QED
  BY <1>5, DecidedPageFits

LEMMA PassPageFits ==
  ASSUME IInv, PagesFit, NEW r \in Requests, req[r].step \in {"resolve", "link", "assign"},
         req[r].kind = "page", Pass(r),
         req[r].phase = "view" =>
           /\ ~Misdirected(req[r]) /\ PathOf(req[r]) \subseteq Saw(req[r])
           /\ req[r].context.scope = "consolidated" =>
                \E s \in req[r].seen : {"company", "link"} \subseteq s
  PROVE  PageMoves(r)
<1>1. req[r].step \notin Decided /\ req[r] \in Request
  BY DEF Decided, IInv, TypeOK
<1>2. CASE req[r].phase = "view"
  BY <1>1, <1>2, ServedPageFits DEF Pass
<1>3. CASE Goto(r, "handoff")
  <2> DEFINE q == [req[r] EXCEPT !.step = "handoff"]
  <2>1. /\ q.step = "handoff" /\ q.seen = req[r].seen /\ q.at = req[r].at
        /\ q.writes = req[r].writes /\ q.on = req[r].on
    BY <1>1 DEF Request
  <2> QED
    BY <1>1, <1>3, <2>1, StaysFit DEF Goto
<1>4. CASE Proceed(r, "view")
  <2> DEFINE q == [req[r] EXCEPT !.phase = "view", !.step = "resolve"]
  <2>1. /\ q.step = "resolve" /\ q.seen = req[r].seen /\ q.at = req[r].at
        /\ q.writes = req[r].writes /\ q.on = req[r].on
    BY <1>1 DEF Request
  <2> QED
    BY <1>1, <1>4, <2>1, StaysFit DEF Proceed
<1> QED
  BY <1>2, <1>3, <1>4 DEF Pass

LEMMA LocalPageFits ==
  ASSUME IInv, PagesFit, NEW r \in Requests, Local(r) \/ ResolveStrict(r)
  PROVE  PageMoves(r)
<1>1. /\ req[r].step \in {"local", "resolve"} /\ req[r].step \notin Decided
      /\ req[r].kind = "page" /\ req[r].on /\ "company" \in Saw(req[r])
  BY DEF Local, ResolveStrict, IInv, RequestsAreSound, Evidence, PageEvidence, PageSteps, Decided
<1>2. /\ req[r] \in Request /\ req[r].at \in Tenants /\ req[r].at # NoTenant
      /\ StandingOf[req[r].at] \in req[r].seen
  BY <1>1, UnderWay, PipelineAssumption
<1>3. "local" \in StandingOf[req[r].at] <=> RoleAllows(direct[req[r].at], "work", WorkRoles)
  BY <1>2, StandingRows
<1>4. CASE Local(r) /\ req[r].context # NoContext
  <2> DEFINE q == [req[r] EXCEPT !.step = "resolve"]
  <2>1. /\ q.step = "resolve" /\ q.seen = req[r].seen /\ q.at = req[r].at
        /\ q.writes = req[r].writes /\ q.on = req[r].on
    BY <1>2 DEF Request
  <2> QED
    BY <1>1, <1>4, <2>1, StaysFit DEF Local, Goto
<1>5. CASE req[r].context.scope # "consolidated" /\ Goto(r, "denied")
             /\ ~RoleAllows(direct[req[r].at], "work", WorkRoles)
  <2>1. ~(PathOf(req[r]) \subseteq StandingOf[req[r].at])
    BY <1>3, <1>5 DEF PathOf, LocalPath
  <2> QED
    BY <1>1, <1>2, <1>5, <2>1, DeniedPageFits
<1>6. ASSUME req[r].context.scope # "consolidated",
             RoleAllows(direct[req[r].at], "work", WorkRoles)
      PROVE  PathOf(req[r]) \subseteq Saw(req[r])
  BY <1>1, <1>2, <1>3, <1>6 DEF PathOf, LocalPath, Saw
<1>7. CASE Local(r) /\ req[r].context = NoContext
  <2>1. req[r].context.scope # "consolidated" /\ ~Misdirected(req[r])
    BY <1>7 DEF NoContext, Misdirected
  <2>2. CASE RoleAllows(direct[req[r].at], "work", WorkRoles)
    BY <1>1, <1>6, <1>7, <2>1, <2>2, ServedPageFits DEF Local
  <2>3. CASE ~RoleAllows(direct[req[r].at], "work", WorkRoles)
    BY <1>5, <1>7, <2>1, <2>3 DEF Local
  <2> QED
    BY <2>2, <2>3
<1>8. CASE ResolveStrict(r)
  <2>1. req[r].context.scope # "consolidated"
    BY <1>8 DEF ResolveStrict
  <2>2. CASE Goto(r, "denied") /\ Misdirected(req[r])
    BY <1>1, <2>2, DeniedPageFits
  <2>3. CASE Goto(r, "denied") /\ ~RoleAllows(direct[req[r].at], Permission(r), WorkRoles)
    BY <1>5, <2>1, <2>3 DEF RoleAllows
  <2>4. CASE Pass(r) /\ ~Misdirected(req[r])
               /\ RoleAllows(direct[req[r].at], Permission(r), WorkRoles)
    <3>1. req[r].phase = "view" => PathOf(req[r]) \subseteq Saw(req[r])
      BY <1>6, <2>1, <2>4 DEF Permission
    <3> QED
      BY <1>1, <1>8, <2>1, <2>4, <3>1, PassPageFits DEF ResolveStrict
  <2> QED
    BY <1>8, <2>2, <2>3, <2>4 DEF ResolveStrict, Misdirected
<1> QED
  BY <1>4, <1>7, <1>8

LEMMA MembershipPageFits ==
  ASSUME IInv, PagesFit, NEW r \in Requests, ResolveMembership(r)
  PROVE  PageMoves(r)
<1> DEFINE role == IF member.active /\ group.active THEN member.role ELSE NoRole
           q == [req[r] EXCEPT !.role = role, !.step = "link"]
<1>1. /\ req[r].step = "resolve" /\ req[r].step \notin Decided
      /\ req[r].kind = "page" /\ req[r].on
  BY DEF ResolveMembership, IInv, RequestsAreSound, Evidence, PageEvidence, PageSteps, Decided
<1>2. /\ req[r] \in Request /\ req[r].at \in Tenants
      /\ StandingOf[req[r].at] \in req[r].seen /\ SeenTwice(req[r]) /\ Closed(req[r])
  BY <1>1, UnderWay
<1>3. /\ q.step = "link" /\ q.role = role /\ q.on = req[r].on /\ q.at = req[r].at
      /\ q.seen = req[r].seen /\ q.writes = req[r].writes
  BY <1>2 DEF Request
<1>4. role = NoRole => ~({"membership", "holding"} \subseteq StandingOf[req[r].at])
  <2>1. member.role = NoRole => ~member.active
    BY RolesAssumption DEF IInv, TypeOK, PolicyTypeOK, Rows, NoRow
  <2> QED
    BY <1>2, <2>1, StandingRows
<1>5. role \notin ManagingRoles \cup {NoRole} => ~CanManageGroup(member)
  BY DEF CanManageGroup
<1>6. PageFits(q)
  <2> HIDE DEF q, role
  <2> QED
    BY <1>1, <1>2, <1>3, <1>4, <1>5
    DEF PageFits, SeenTwice, Closed, Opened, Snapshot, Decided
<1> QED
  BY <1>6 DEF PageMoves, ResolveMembership

LEMMA LinkPageFits ==
  ASSUME IInv, PagesFit, NEW r \in Requests, ResolveLink(r)
  PROVE  PageMoves(r)
<1>1. /\ req[r].step = "link" /\ req[r].step \notin Decided
      /\ req[r].kind = "page" /\ req[r].on /\ "company" \in Saw(req[r])
      /\ req[r].context.scope = "consolidated"
  BY DEF ResolveLink, IInv, RequestsAreSound, Evidence, PageEvidence, PageSteps, Decided
<1>2. /\ req[r] \in Request /\ req[r].at \in Tenants /\ Evidence(req[r])
      /\ StandingOf[req[r].at] \in req[r].seen
      /\ SeenTwice(req[r]) /\ Closed(req[r])
  BY <1>1, UnderWay
<1>3. PathOf(req[r]) = GroupPath /\ ~Misdirected(req[r])
  BY <1>1 DEF PathOf, Misdirected
<1>4. CASE Goto(r, "denied") /\ req[r].role = NoRole
  BY <1>1, <1>2, <1>3, <1>4, DeniedPageFits DEF Closed, GroupPath
<1>5. CASE Goto(r, "denied") /\ ~LinkOpen(req[r].at, group)
  <2>1. ~({"company", "holding", "link"} \subseteq StandingOf[req[r].at])
    BY <1>2, <1>5, StandingRows DEF LinkOpen, EffectiveMode
  <2>2. ~(GroupPath \subseteq StandingOf[req[r].at])
    BY <2>1 DEF GroupPath
  <2> QED
    BY <1>1, <1>2, <1>3, <1>5, <2>2, DeniedPageFits
<1>6. CASE req[r].role # NoRole /\ LinkOpen(req[r].at, group)
  <2>1. {"company", "holding", "link"} \subseteq StandingOf[req[r].at]
    <3>1. group \in GroupRows
      BY DEF IInv, TypeOK, PolicyTypeOK
    <3> QED
      BY <1>2, <1>6, <3>1, OpenLinks, StandingRows
  <2>2. CASE req[r].role \in ManagingRoles
    <3>1. GroupPath \subseteq Saw(req[r])
      BY <1>1, <1>2, <1>6, <2>1, <2>2 DEF Evidence, PageEvidence, GroupPath, Saw
    <3> QED
      BY <1>1, <1>2, <1>3, <1>6, <2>1, <2>2, <3>1, PassPageFits DEF ResolveLink
  <2>3. CASE req[r].role \notin ManagingRoles
    <3> DEFINE q == [req[r] EXCEPT !.step = "assign"]
    <3>1. /\ q.step = "assign" /\ q.role = req[r].role /\ q.on = req[r].on
          /\ q.at = req[r].at /\ q.seen = req[r].seen /\ q.writes = req[r].writes
      BY <1>2 DEF Request
    <3>2. PageFits(q)
      <4> HIDE DEF q
      <4> QED
        BY <1>1, <1>2, <1>6, <2>1, <2>3, <3>1
        DEF PageFits, SeenTwice, Closed, Opened, Snapshot, Decided
    <3> QED
      BY <1>6, <2>3, <3>2 DEF PageMoves, ResolveLink, Goto
  <2> QED
    BY <2>2, <2>3
<1> QED
  BY <1>4, <1>5, <1>6 DEF ResolveLink

LEMMA AssignPageFits ==
  ASSUME IInv, PagesFit, NEW r \in Requests, ResolveAssign(r)
  PROVE  PageMoves(r)
<1>1. /\ req[r].step = "assign" /\ req[r].step \notin Decided
      /\ req[r].kind = "page" /\ req[r].on /\ "company" \in Saw(req[r])
      /\ req[r].context.scope = "consolidated"
  BY DEF ResolveAssign, IInv, RequestsAreSound, Evidence, PageEvidence, PageSteps, Decided
<1>2. /\ req[r] \in Request /\ req[r].at \in Tenants /\ Evidence(req[r])
      /\ StandingOf[req[r].at] \in req[r].seen
      /\ SeenTwice(req[r]) /\ Closed(req[r]) /\ Opened(req[r])
  BY <1>1, UnderWay
<1>3. PathOf(req[r]) = GroupPath /\ ~Misdirected(req[r])
  BY <1>1 DEF PathOf, Misdirected
<1>4. LET S == StandingOf[req[r].at] IN
      /\ "entry" \in S <=> CanManageGroup(member) \/ access[req[r].at].active
      /\ "assigned" \in S <=>
           CanManageGroup(member) \/ RoleAllows(access[req[r].at], "work", WorkRoles)
  BY <1>2, StandingRows
<1>5. CASE Goto(r, "denied") /\ ~RoleAllows(access[req[r].at], Permission(r), WorkRoles)
  <2>1. ~RoleAllows(access[req[r].at], "work", WorkRoles)
    BY <1>5 DEF RoleAllows
  <2>2. req[r].writes <= 1 => \E s \in req[r].seen : "assigned" \notin s
    BY <1>1, <1>2, <1>4, <2>1 DEF Closed, Opened
  <2>3. req[r].writes <= 1 => \E s \in req[r].seen : ~(GroupPath \subseteq s)
    BY <2>2 DEF GroupPath
  <2> QED
    BY <1>1, <1>3, <1>5, <2>3, DeniedPageFits
<1>6. CASE Pass(r) /\ RoleAllows(access[req[r].at], Permission(r), WorkRoles)
  <2>1. req[r].phase = "view" => {"entry", "assigned"} \subseteq Saw(req[r])
    BY <1>2, <1>4, <1>6 DEF Permission, RoleAllows, Saw
  <2>2. req[r].phase = "view" => GroupPath \subseteq Saw(req[r])
    BY <1>1, <1>2, <2>1 DEF Evidence, PageEvidence, GroupPath
  <2> QED
    BY <1>1, <1>2, <1>3, <1>6, <2>2, PassPageFits DEF Opened
<1> QED
  BY <1>5, <1>6 DEF ResolveAssign

(* The steps around the decision.                                          *)
LEMMA OuterPageFits ==
  ASSUME IInv, SInv, PagesFit, NEW r \in Requests, req[r].kind = "page",
         Load(r) \/ Boot(r) \/ SaveContext(r) \/ SyncMirror(r)
  PROVE  PageMoves(r)
<1> DEFINE q == req'[r]
<1>1. req[r].step \in {"arrived", "boot", "handoff", "save", "sync"} /\ req[r].step \notin Decided
  BY DEF Load, Boot, SaveContext, SyncMirror, Decided
<1>2. /\ req[r] \in Request /\ Evidence(req[r]) /\ req[r].at \in Tenants
      /\ SeenTwice(req[r]) /\ Closed(req[r])
  BY <1>1, UnderWay
<1>3. /\ req' = [req EXCEPT ![r] = q]
      /\ q.kind = req[r].kind /\ q.at = req[r].at /\ q.on = req[r].on
      /\ q.seen = req[r].seen /\ q.writes = req[r].writes
  BY <1>2 DEF Load, Boot, SaveContext, SyncMirror, Goto, Proceed, IInv, TypeOK, Request
<1>4. CASE Load(r) \/ Boot(r)
  <2>1. q.step = "boot" \/ q.step = (IF req[r].on THEN "local" ELSE "denied")
    BY <1>2, <1>4 DEF Load, Boot, AfterLoad, Goto, IInv, TypeOK, Request
  <2>2. CASE q.step = "denied"
    <3>1. \E s \in q.seen : "company" \notin s
      BY <1>1, <1>2, <1>3, <2>1, <2>2 DEF Closed
    <3>2. \E s \in q.seen : ~(PathOf(q) \subseteq s)
      BY <3>1 DEF PathOf, LocalPath, GroupPath
    <3>3. PageFits(q)
      <4> HIDE DEF q
      <4> QED
        BY <2>2, <3>1, <3>2 DEF PageFits, SeenTwice, Closed, Opened, Snapshot, Decided
    <3> QED
      BY <1>3, <3>3 DEF PageMoves
  <2>3. CASE q.step # "denied"
    BY <1>1, <1>3, <2>1, <2>3, StaysFit
  <2> QED
    BY <2>2, <2>3
<1>5. CASE SaveContext(r)
  <2>1. req[r].step = "handoff" /\ req[r].context # NoContext
    BY <1>2, <1>5 DEF SaveContext, Evidence, PageEvidence, SwitchEvidence, NoContext
  <2>2. registered
    BY <2>1 DEF SInv, Unregistered
  <2>3. q.step = "sync"
    BY <1>2, <1>5, <2>2 DEF SaveContext, IInv, TypeOK, Request
  <2> QED
    BY <1>1, <1>3, <2>3, StaysFit
<1>6. CASE SyncMirror(r)
  <2>1. q.step = "resolve"
    BY <1>2, <1>6 DEF SyncMirror, Proceed, IInv, TypeOK, Request
  <2> QED
    BY <1>1, <1>3, <2>1, StaysFit
<1> QED
  BY <1>4, <1>5, <1>6

LEMMA ArrivedPageFits ==
  ASSUME IInv, NEW r \in Requests, NEW kind, NEW t \in Tenants \cup {NoTenant},
         Arrive(r, kind, t)
  PROVE  PageMoves(r)
<1> DEFINE q == req'[r]
<1>1. /\ req' = [req EXCEPT ![r] = q] /\ q.step = "arrived" /\ q.kind = kind
      /\ q.at = t /\ q.writes = 0
      /\ q.on = (IF t = NoTenant THEN TRUE ELSE tenant[t].active)
      /\ q.seen = (IF t = NoTenant THEN {} ELSE {StandingOf[t]})
  BY DEF Arrive, Idle, IInv, TypeOK
<1>2. kind = "page" => t \in Tenants /\ t # NoTenant
  BY DEF Arrive
<1>3. t \in Tenants => ("company" \in StandingOf[t] <=> tenant[t].active)
  BY StandingRows
<1>4. PageFits(q)
  <2> HIDE DEF q
  <2> QED
    BY <1>1, <1>2, <1>3
    DEF PageFits, SeenTwice, Closed, Opened, Snapshot, Decided, Near
<1> QED
  BY <1>1, <1>4 DEF PageMoves

LEMMA RequestKeepsPagesFit ==
  ASSUME IInv, SInv, PagesFit, NEW r \in Requests, PageStep(r) \/ SwitchStep(r)
  PROVE  PagesFit'
<1>1. UNCHANGED policyVars
  BY DEF PageStep, SwitchStep, Arrive, Load, Boot, Finish, SaveContext, SyncMirror,
         Local, ResolveStrict, ResolveMembership, ResolveLink, ResolveAssign,
         SwitchTarget, SwitchOwn, SwitchHolding, SwitchDashboard, SwitchCompany,
         SwitchMember, SwitchAssigned, Turn, Grant
<1>2. PageMoves(r)
  <2>1. ASSUME NEW kind, NEW t \in Tenants \cup {NoTenant}, Arrive(r, kind, t)
        PROVE  PageMoves(r)
    BY <2>1, ArrivedPageFits
  <2>2. CASE Finish(r)
    <3>1. PageFits(Idle)
      BY DEF Idle, PageFits, SeenTwice, Closed, Opened, Snapshot, Decided
    <3> QED
      BY <2>2, <3>1 DEF Finish, PageMoves
  <2>3. CASE req[r].kind # "page" /\ Decides(r)
    BY <2>3, StepDecides DEF PageMoves, PageFits, Deciding, SameRequest
  <2>4. CASE req[r].kind # "page"
               /\ (Load(r) \/ Boot(r) \/ SaveContext(r) \/ SyncMirror(r))
    <3>1. req' = [req EXCEPT ![r] = req'[r]] /\ req'[r].kind = req[r].kind
      BY <2>4 DEF Load, Boot, SaveContext, SyncMirror, Goto, Proceed, IInv, TypeOK, Request
    <3> QED
      BY <2>4, <3>1 DEF PageMoves, PageFits
  <2>5. CASE req[r].kind = "page"
    <3>1. ~(SwitchTarget(r) \/ SwitchOwn(r) \/ SwitchHolding(r) \/ SwitchDashboard(r)
             \/ SwitchCompany(r) \/ SwitchMember(r) \/ SwitchAssigned(r))
      BY <2>5 DEF SwitchTarget, SwitchOwn, SwitchHolding, SwitchDashboard, SwitchCompany,
                  SwitchMember, SwitchAssigned, SwitchSteps, Switches,
                  IInv, RequestsAreSound, Evidence, SwitchEvidence
    <3> QED
      BY <2>1, <2>2, <2>5, <3>1, LocalPageFits, MembershipPageFits, LinkPageFits,
         AssignPageFits, OuterPageFits
      DEF PageStep, SwitchStep
  <2> QED
    BY <2>1, <2>2, <2>3, <2>4, <2>5 DEF PageStep, SwitchStep, Decides
<1>3. PICK q : req' = [req EXCEPT ![r] = q] /\ PageFits(q)
  BY <1>2 DEF PageMoves
<1>4. StandingOf' = StandingOf /\ UNCHANGED <<member, access>>
  BY <1>1, StandingStays DEF policyVars
<1>5. ASSUME NEW p \in Requests
      PROVE  PageFits(req[p])'
  <2>1. PageFits(req'[p])
    BY <1>3 DEF IInv, TypeOK, PagesFit
  <2> QED
    BY <1>4, <2>1 DEF PageFits, SeenTwice, Closed, Opened, Snapshot
<1> QED
  BY <1>5 DEF PagesFit

LEMMA AdminKeepsPagesFit ==
  ASSUME IInv, PagesFit, AdminWrite
  PROVE  PagesFit'
<1>1. PolicyTypeOK /\ Admin
  BY DEF AdminWrite, IInv, TypeOK
<1>2. ASSUME NEW r \in Requests
      PROVE  PageFits(req[r])'
  <2> DEFINE standing == StandingOf'
             q == Watch(req[r], standing)
  <2>1. req'[r] = q /\ req[r] \in Request /\ PageFits(req[r])
    BY DEF AdminWrite, IInv, TypeOK, PagesFit
  <2>2. CASE req[r].kind # "page" \/ req[r].step \in Decided
    <3>1. \/ q = req[r]
          \/ req[r].kind # "page" /\ q.kind = req[r].kind
      BY <2>1, <2>2 DEF Watch, Decided, Request
    <3> QED
      BY <2>1, <2>2, <3>1 DEF PageFits, SeenTwice, Closed, Opened, Snapshot, Decided
  <2>3. CASE req[r].kind = "page" /\ req[r].step \notin Decided
    <3> DEFINE t == req[r].at
    <3>1. /\ req[r].at \in Tenants /\ req[r].at # NoTenant /\ req[r].writes \in Nat
          /\ StandingOf[t] \in req[r].seen
          /\ SeenTwice(req[r]) /\ Closed(req[r]) /\ Opened(req[r])
      BY <2>1, <2>3, UnderWay, PipelineAssumption DEF Request
    <3>2. /\ q.seen = req[r].seen \cup {standing[t]} /\ q.writes = req[r].writes + 1
          /\ q.step = req[r].step /\ q.at = req[r].at /\ q.on = req[r].on
          /\ q.role = req[r].role
      <4> HIDE DEF standing
      <4> QED
        BY <2>1, <2>3, <3>1 DEF Watch, Decided, Request
    <3> HIDE DEF q
    <3>3. q.writes <= 1 => req[r].writes = 0 /\ q.writes = 1
      BY <3>1, <3>2
    <3>4. Near(StandingOf[t], standing[t]) /\ (member' = member \/ access' = access)
      BY <1>1, <3>1, WriteIsNear
    <3>5. SeenTwice(req[r])'
      <4>1. q.writes <= 1 => q.seen = {StandingOf[t], standing[t]}
        BY <2>3, <3>1, <3>2, <3>3 DEF SeenTwice
      <4> QED
        BY <2>1, <3>2, <3>3, <3>4, <4>1 DEF SeenTwice
    <3>6. Closed(req[r])'
      <4>1. q.step # "idle" /\ ~q.on => \E s \in q.seen : "company" \notin s
        BY <3>1, <3>2 DEF Closed
      <4>2. q.step = "link" /\ q.role = NoRole =>
              \E s \in q.seen : ~({"membership", "holding"} \subseteq s)
        BY <3>1, <3>2 DEF Closed
      <4>3. ASSUME q.step \in {"link", "assign"}, q.role \notin ManagingRoles \cup {NoRole},
                   q.writes <= 1, member' # member
            PROVE  \E s \in q.seen :
                     "assigned" \in s <=> RoleAllows(access'[t], "work", WorkRoles)
        <5>1. ~CanManageGroup(member)
          BY <3>1, <3>2, <3>3, <4>3 DEF Closed
        <5>2. "assigned" \in StandingOf[t] <=> RoleAllows(access'[t], "work", WorkRoles)
          BY <3>1, <3>4, <4>3, <5>1, StandingRows
        <5> QED
          BY <3>1, <3>2, <5>2
      <4>4. ASSUME q.step \in {"link", "assign"}, q.role \notin ManagingRoles \cup {NoRole},
                   q.writes <= 1, member' = member
            PROVE  ~CanManageGroup(member')
        BY <3>1, <3>2, <3>3, <4>4 DEF Closed
      <4> QED
        BY <2>1, <3>2, <3>3, <4>1, <4>2, <4>3, <4>4 DEF Closed
    <3>7. Opened(req[r])'
      BY <2>1, <3>1, <3>2 DEF Opened
    <3>8. Snapshot(req[r])'
      BY <2>1, <2>3, <3>2 DEF Snapshot, Decided
    <3> QED
      BY <3>5, <3>6, <3>7, <3>8 DEF PageFits
  <2> QED
    BY <2>2, <2>3
<1> QED
  BY <1>2 DEF PagesFit

LEMMA StutterKeepsPagesFit ==
  ASSUME PagesFit, UNCHANGED vars
  PROVE  PagesFit'
<1>1. StandingOf' = StandingOf /\ UNCHANGED <<member, access, req>>
  BY StandingStays DEF vars, policyVars
<1> QED
  BY <1>1 DEF PagesFit, PageFits, SeenTwice, Closed, Opened, Snapshot

(* For any companies and roles: with at most one administration write      *)
(* since a page arrived, its decision, read layer by layer, is the one     *)
(* some single instant of the policy would make.                           *)
THEOREM DecisionsAreSnapshotsThm == Spec => []DecisionsAreSnapshots
<1>1. Init => PagesFit
  BY DEF Init, Idle, PagesFit, PageFits, SeenTwice, Closed, Opened, Snapshot, Decided
<1>2. IInv /\ SInv /\ PagesFit /\ [Next]_vars => PagesFit'
  BY AdminKeepsPagesFit, RequestKeepsPagesFit, StutterKeepsPagesFit DEF Next
<1>3. PagesFit => DecisionsAreSnapshots
  BY DEF PagesFit, PageFits, Snapshot, DecisionsAreSnapshots
<1> QED
  BY <1>1, <1>2, <1>3, SessionInvariant, PTL DEF Spec
=============================================================================
