------------------------------ MODULE Workspace -----------------------------
(***************************************************************************)
(* The configuration of a company, which superusers edit on one page       *)
(* (OperationalTenantEditForm of tenants/) and the company's own           *)
(* administrators, in part, on another (TenantWorkspaceSettingsForm of     *)
(* binncrm/forms.py).  The first page shows most of it twice, as controls  *)
(* and as JSON, posts both, and must tell which of the two was meant; it   *)
(* saves in two steps, each of which writes columns nobody edited.         *)
(***************************************************************************)
EXTENDS Integers, SequencesExt

CONSTANTS
  Platform,     \* the superusers with the page of a company open
  Company,      \* the administrators of the company with theirs
  NoPage,       \* nobody's page
  Defaults,     \* what a company of each profile starts with
  Touched,      \* bound: the modules that are switched or moved
  Granted,      \* bound: the permissions that are given or taken
  MaxPages      \* bound: the pages that are opened

Editors == Platform \cup Company

DefaultModuleOrder ==
  <<"entities", "objects", "deals", "proposals", "collections", "activities",
    "collab", "documents", "reports", "assessments">>
Modules == ToSet(DefaultModuleOrder)
Extras == {"kanban", "fiscal_lookup"}
Widgets == {"highlights", "quick_actions", "summary_cards"}

(* A role has permissions, or all of them.                                 *)
Star == <<"*">>
Views == {<<m, "view">> : m \in ({"dashboard"} \cup Modules) \ {"assessments"}}
Perms == Views \cup {<<m, "edit">> : m \in Modules \ {"assessments", "reports"}}
Roles == {"owner", "manager", "operator", "analyst", "viewer"}
Ticked == {"operator", "analyst", "viewer"}
DefaultRolePolicies ==
  [r \in Roles |-> CASE r \in {"owner", "manager"} -> {Star}
                     [] r = "operator" -> Perms
                     [] OTHER -> Views]

Texts == {"", "old", "new"}

Profiles == {"general", "broker"}
Policy == [Roles -> SUBSET (Perms \cup {Star})]
Labels == [title : Texts, singular : Texts, subtitle : Texts]
Density == {"airy", "compact"}
Ops == [density : Density, hero : {"open_deals", "none"}, validity : 1..2, prefix : Texts]
Config ==
  [profile : Profiles, on : SUBSET (Modules \cup Extras), order : Seq(Modules),
   widgets : SUBSET Widgets, roles : Policy, labels : Labels, objects : BOOLEAN, ops : Ops]

ASSUME WorkspaceAssumption ==
  /\ Platform \cap Company = {}
  /\ Defaults \in [Profiles -> Config]
  /\ Touched \subseteq Modules /\ Granted \subseteq Perms
  /\ MaxPages \in Nat

VARIABLES
  config,       \* the row of the company
  at,           \* where each editor is
  page,         \* the fields of its page, and then what they come to
  goal,         \* history: the section it edits, and what that is to be
  since,        \* history: did somebody else save since the page was opened?
  opened        \* how many pages were opened

wsVars == <<config, at, page, goal, since, opened>>

-----------------------------------------------------------------------------
(* The elements of s that are in S, in their order.                        *)
Only(s, S) ==
  LET kept[n \in 0 .. Len(s)] ==
        IF n = 0 THEN <<>>
        ELSE IF s[n] \in S THEN Append(kept[n - 1], s[n]) ELSE kept[n - 1]
  IN kept[Len(s)]

(* Reading.  Mutant: an order is taken as it is.                           *)
AsItIs(order) == order

(* An order lists every module, those it does not name at its end.         *)
Complete(order) ==
  order \o Only(DefaultModuleOrder, Modules \ ToSet(order))

Resolved(r, perms) ==
  IF Star \in perms THEN {Star} ELSE IF perms = {} THEN DefaultRolePolicies[r] ELSE perms

Policies(c) == [r \in Roles |-> Resolved(r, c.roles[r])]
Visible(c) == Only(Complete(c.order), c.on)

(* What the company notices of its configuration, by section.              *)
Effect(c) ==
  [profile |-> c.profile, modules |-> Visible(c), extras |-> c.on \cap Extras,
   widgets |-> c.widgets, roles |-> Policies(c), labels |-> c.labels,
   objects |-> c.objects, ops |-> c.ops]

-----------------------------------------------------------------------------
(* The page of a superuser, as controls and (j...) as JSON.                *)
Controls(ops) == [density |-> ops.density, validity |-> ops.validity]
Shown(r, perms) == IF Star \notin perms THEN perms ELSE IF r = "manager" THEN Perms ELSE {}

Fields(c) ==
  LET p == Policies(c) IN
    [profile |-> c.profile, reset |-> FALSE,
     ticks |-> c.on \cap Modules, extras |-> c.on \cap Extras, csv |-> Visible(c),
     widgets |-> c.widgets, full |-> Star \in p["manager"],
     roles |-> [r \in Roles \ {"owner"} |-> Shown(r, p[r])],
     title |-> c.labels.title, singular |-> c.labels.singular, controls |-> Controls(c.ops),
     jon |-> c.on, jorder |-> Complete(c.order), jwidgets |-> c.widgets, jroles |-> p,
     jlabels |-> c.labels, objects |-> c.objects, jops |-> c.ops]

Page ==
  [profile : Profiles, reset : BOOLEAN,
   ticks : SUBSET Modules, extras : SUBSET Extras, csv : Seq(Modules),
   widgets : SUBSET Widgets, full : BOOLEAN, roles : [Roles \ {"owner"} -> SUBSET Perms],
   title : Texts, singular : Texts, controls : [density : Density, validity : 1..2],
   jon : SUBSET (Modules \cup Extras), jorder : Seq(Modules), jwidgets : SUBSET Widgets,
   jroles : Policy, jlabels : Labels, objects : BOOLEAN, jops : Ops]

(* The fields of a post that differ from what the row would show now.      *)
ModulesChanged(p, now) ==
  p.ticks # now.ticks \/ p.extras # now.extras \/ p.csv # now.csv

RolesChanged(p, now) ==
  \/ p.full # now.full \/ p.roles["manager"] # now.roles["manager"]
  \/ \E r \in Ticked : p.roles[r] # now.jroles[r]

LabelsChanged(p, now) == p.title # now.title \/ p.singular # now.singular

(* The controls count when they changed, or when the JSON did not.         *)
ByControls(changed, json, shown) == changed \/ json = shown

FlagsOf(p, now) ==
  IF ByControls(ModulesChanged(p, now), p.jon, now.jon) THEN p.ticks \cup p.extras ELSE p.jon

(* Mutant: the order visible on the page is not read.                      *)
OrderOfTicks(p, now) ==
  IF ByControls(ModulesChanged(p, now), p.jorder, now.jorder)
    THEN Complete(Only(DefaultModuleOrder, p.ticks))
    ELSE Complete(p.jorder)

OrderOf(p, now) ==
  IF ByControls(ModulesChanged(p, now), p.jorder, now.jorder)
    THEN Complete(Only(p.csv, p.ticks)
                    \o Only(DefaultModuleOrder, p.ticks \ ToSet(p.csv)))
    ELSE Complete(p.jorder)

WidgetsOf(p, now) ==
  IF ByControls(p.widgets # now.widgets, p.jwidgets, now.jwidgets) THEN p.widgets ELSE p.jwidgets

RolesOf(p, now) ==
  IF ByControls(RolesChanged(p, now), p.jroles, now.jroles)
    THEN [r \in Roles |->
            CASE r = "owner"             -> Resolved(r, p.jroles[r])
              [] r = "manager" /\ p.full -> {Star}
              [] OTHER                   -> Resolved(r, p.roles[r])]
    ELSE [r \in Roles |-> Resolved(r, p.jroles[r])]

(* A blank label keeps the text there is.                                  *)
Filled(text, old) == IF text = "" THEN old ELSE text

LabelsOf(p, now) ==
  IF ByControls(LabelsChanged(p, now), p.jlabels, now.jlabels)
    THEN [p.jlabels EXCEPT !.title = Filled(p.title, @), !.singular = Filled(p.singular, @)]
    ELSE p.jlabels

(* Here the controls count only when they changed.                         *)
OpsOf(p, now) ==
  IF p.controls # now.controls
    THEN [p.jops EXCEPT !.density = p.controls.density, !.validity = p.controls.validity]
    ELSE p.jops

(* What is refused: no module, no widget, or a role without permissions.   *)
Refused(p, now) ==
  /\ ~p.reset
  /\ \/ ByControls(ModulesChanged(p, now), p.jon, now.jon) /\ p.ticks = {}
     \/ ByControls(p.widgets # now.widgets, p.jwidgets, now.jwidgets) /\ p.widgets = {}
     \/ /\ ByControls(RolesChanged(p, now), p.jroles, now.jroles)
        /\ \/ ~p.full /\ p.roles["manager"] = {}
           \/ \E r \in Ticked : p.roles[r] = {}

Cleaned(p, now) ==
  IF p.reset THEN Defaults[p.profile]
  ELSE [profile |-> p.profile, on |-> FlagsOf(p, now), order |-> OrderOf(p, now),
        widgets |-> WidgetsOf(p, now), roles |-> RolesOf(p, now), labels |-> LabelsOf(p, now),
        objects |-> p.objects, ops |-> OpsOf(p, now)]

-----------------------------------------------------------------------------
(* The edits of a page, one to a page: the section, the fields then, and   *)
(* what the editor means the section to be.                                *)
Flip(S, x) == IF x \in S THEN S \ {x} ELSE S \cup {x}
Without(s, m) == Only(s, ToSet(s) \ {m})
First(s, m) == <<m>> \o Without(s, m)
Switched(s, m) == IF m \in ToSet(s) THEN Without(s, m) ELSE Append(s, m)
Edit(s, p, w) == [section |-> s, page |-> p, want |-> w]

ModuleEdits(p) ==
  {Edit("modules", [p EXCEPT !.ticks = Flip(@, m)], Switched(p.csv, m)) : m \in Touched}
  \cup {Edit("modules", [p EXCEPT !.jon = Flip(@, m)], Switched(p.csv, m)) : m \in Touched}
  \cup {Edit("modules", [p EXCEPT !.csv = First(@, m)], First(p.csv, m)) :
          m \in Touched \cap p.ticks}
  \cup {Edit("modules", [p EXCEPT !.jorder = First(@, m)], First(p.csv, m)) :
          m \in Touched \cap p.ticks}
  \cup {Edit("extras", [p EXCEPT !.extras = Flip(@, "kanban")], Flip(p.extras, "kanban")),
        Edit("extras", [p EXCEPT !.jon = Flip(@, "kanban")], Flip(p.extras, "kanban"))}

WidgetEdits(p) ==
  {Edit("widgets", [p EXCEPT !.widgets = W], W) : W \in {{}, {"summary_cards"}}}
  \cup {Edit("widgets", [p EXCEPT !.jwidgets = {"quick_actions"}], {"quick_actions"})}

RoleEdits(p) ==
  {Edit("roles", [p EXCEPT !.full = FALSE, !.roles["manager"] = Perms \ {g}],
        [p.jroles EXCEPT !["manager"] = Perms \ {g}]) : g \in Granted}
  \cup {Edit("roles", [p EXCEPT !.roles["viewer"] = Flip(@, g)],
             [p.jroles EXCEPT !["viewer"] = Resolved("viewer", Flip(p.roles["viewer"], g))]) :
          g \in Granted}
  \cup {Edit("roles", [p EXCEPT !.jroles[r] = G], [p.jroles EXCEPT ![r] = Resolved(r, G)]) :
          r \in {"manager", "viewer"}, G \in {{}, {Star}, Granted}}

TextEdits(p) ==
  {Edit("labels", [p EXCEPT !.title = t], [p.jlabels EXCEPT !.title = Filled(t, @)]) :
     t \in Texts}
  \cup {Edit("labels", [p EXCEPT !.jlabels[k] = "new"], [p.jlabels EXCEPT ![k] = "new"]) :
          k \in {"title", "subtitle"}}
  \cup {Edit("profile", [p EXCEPT !.profile = "broker"], "broker"),
        Edit("objects", [p EXCEPT !.objects = ~@], ~p.objects)}

OperationalEdits(p) ==
  {Edit("ops", [p EXCEPT !.controls.validity = 2], [p.jops EXCEPT !.validity = 2]),
   Edit("ops", [p EXCEPT !.controls.density = "compact"], [p.jops EXCEPT !.density = "compact"]),
   Edit("ops", [p EXCEPT !.jops.validity = 2], [p.jops EXCEPT !.validity = 2]),
   Edit("ops", [p EXCEPT !.jops.hero = "open_deals"], [p.jops EXCEPT !.hero = "open_deals"])}

Reset(p) == Edit("all", [p EXCEPT !.reset = TRUE], Effect(Defaults[p.profile]))

Edits(p) ==
  ModuleEdits(p) \cup WidgetEdits(p) \cup RoleEdits(p) \cup TextEdits(p)
    \cup OperationalEdits(p) \cup {Reset(p)}

(* The page of the company has three of these fields.                      *)
CompanyFields(c) ==
  [title |-> c.labels.title, subtitle |-> c.labels.subtitle, validity |-> c.ops.validity]

CompanyEdits(c) ==
  {Edit("labels", [CompanyFields(c) EXCEPT !.title = "new"], [c.labels EXCEPT !.title = "new"]),
   Edit("ops", [CompanyFields(c) EXCEPT !.validity = 2], [c.ops EXCEPT !.validity = 2])}

CompanyPage == [title : Texts, subtitle : Texts, validity : 1..2]

(* What the page of the company comes to, on the row it loads.             *)
Merged(p, c) ==
  [c EXCEPT !.labels.title = p.title, !.labels.subtitle = p.subtitle,
            !.ops.validity = p.validity]

EditsOf(e, c) == IF e \in Platform THEN Edits(Fields(c)) ELSE CompanyEdits(c)
Meant(d) == [section |-> d.section, want |-> d.want]

-----------------------------------------------------------------------------
WsIdle ==
  /\ at = [e \in Editors |-> "away"]
  /\ page = [e \in Editors |-> NoPage]
  /\ goal = [e \in Editors |-> NoPage]
  /\ since = [e \in Editors |-> FALSE]
  /\ opened = 0

WsInit == config = Defaults["general"] /\ WsIdle

(* An editor opens the page and edits it.                                  *)
OpenPage(e) ==
  /\ at[e] \in {"away", "done"} /\ opened < MaxPages
  /\ \E d \in EditsOf(e, config) :
       /\ page' = [page EXCEPT ![e] = d.page]
       /\ goal' = [goal EXCEPT ![e] = Meant(d)]
  /\ at' = [at EXCEPT ![e] = "open"]
  /\ since' = [since EXCEPT ![e] = FALSE]
  /\ opened' = opened + 1
  /\ UNCHANGED config

Leave(e, where) ==
  /\ at' = [at EXCEPT ![e] = where]
  /\ page' = [page EXCEPT ![e] = NoPage]

(* A post loads the row and checks the page against it.  What will be      *)
(* written is kept with the row that was loaded.                           *)
Post(e) ==
  /\ at[e] = "open" /\ e \in Platform
  /\ IF Refused(page[e], Fields(config)) THEN Leave(e, "away")
     ELSE /\ at' = [at EXCEPT ![e] = "checked"]
          /\ page' = [page EXCEPT ![e] =
                        [to |-> Cleaned(page[e], Fields(config)), from |-> config]]
  /\ UNCHANGED <<config, goal, since, opened>>

PostCompany(e) ==
  /\ at[e] = "open" /\ e \in Company
  /\ at' = [at EXCEPT ![e] = "checked"]
  /\ page' = [page EXCEPT ![e] = [to |-> Merged(page[e], config), from |-> config]]
  /\ UNCHANGED <<config, goal, since, opened>>

SavedBy(e) == since' = [o \in Editors |-> since[o] \/ (o # e /\ at[o] \in {"open", "checked", "half"})]

(* The first save writes every column of the row that was loaded ...       *)
SaveRow(e) ==
  /\ at[e] = "checked" /\ e \in Platform
  /\ config' = [page[e].to EXCEPT !.ops = page[e].from.ops]
  /\ at' = [at EXCEPT ![e] = "half"]
  /\ SavedBy(e)
  /\ UNCHANGED <<page, goal, opened>>

(* ... and the second the operational ones.                                *)
SaveOps(e) ==
  /\ at[e] = "half"
  /\ config' = [config EXCEPT !.ops = page[e].to.ops]
  /\ Leave(e, "done") /\ SavedBy(e)
  /\ UNCHANGED <<goal, opened>>

(* The company writes the labels and the settings of its proposals.        *)
SaveCompany(e) ==
  /\ at[e] = "checked" /\ e \in Company
  /\ config' = [config EXCEPT !.labels = page[e].to.labels,
                              !.ops.validity = page[e].to.ops.validity,
                              !.ops.prefix = page[e].to.ops.prefix]
  /\ Leave(e, "done") /\ SavedBy(e)
  /\ UNCHANGED <<goal, opened>>

PageDies(e) ==
  /\ at[e] \in {"checked", "half"}
  /\ Leave(e, "away")
  /\ UNCHANGED <<config, goal, since, opened>>

WsNext ==
  \E e \in Editors :
    \/ OpenPage(e) \/ Post(e) \/ PostCompany(e)
    \/ SaveRow(e) \/ SaveOps(e) \/ SaveCompany(e) \/ PageDies(e)

WsSpec == WsInit /\ [][WsNext]_wsVars

-----------------------------------------------------------------------------
WsTypeOK ==
  /\ config \in Config
  /\ at \in [Editors -> {"away", "open", "checked", "half", "done"}]
  /\ since \in [Editors -> BOOLEAN] /\ opened \in 0..MaxPages

Lands(e) ==
  LET g == goal[e] IN
    IF g.section = "all" THEN at'[e] = "done" => Effect(config') = g.want
    ELSE /\ \A s \in DOMAIN Effect(config) \ {g.section} :
              Effect(config')[s] = Effect(config)[s]
         /\ at'[e] = "done" \/ g.section # "ops"
              => Effect(config')[g.section] = g.want

(* An edit changes what the company notices of its own section, to what    *)
(* the editor meant, and nothing else, whether it was made in the controls *)
(* or in the JSON beside them: unless somebody else saved since the page   *)
(* was opened, which the post does not look for.                           *)
EditsStayInTheirSection ==
  [][\A e \in Editors : at[e] # at'[e] /\ at'[e] \in {"half", "done"} /\ ~since[e] => Lands(e)]_wsVars

(***************************************************************************)
(* The parts of an inductive invariant: an open page is one edit away from *)
(* the row, and a checked one is what that edit comes to, as long as       *)
(* nobody else saved.                                                      *)
(***************************************************************************)
PageOpen(e) ==
  /\ page[e] \in (IF e \in Platform THEN Page ELSE CompanyPage)
  /\ ~since[e] => \E d \in EditsOf(e, config) : page[e] = d.page /\ goal[e] = Meant(d)

Accepted(e, p, c) ==
  IF e \in Platform THEN ~Refused(p, Fields(c)) /\ page[e].to = Cleaned(p, Fields(c))
                    ELSE page[e].to = Merged(p, c)

PageChecked(e) ==
  /\ page[e] \in [to : Config, from : Config]
  /\ at[e] = "half" => e \in Platform
  /\ ~since[e] =>
       /\ config = IF at[e] = "checked" THEN page[e].from
                    ELSE [page[e].to EXCEPT !.ops = page[e].from.ops]
       /\ \E d \in EditsOf(e, page[e].from) :
            Accepted(e, d.page, page[e].from) /\ goal[e] = Meant(d)

WsInv ==
  /\ WsTypeOK
  /\ DOMAIN page = Editors /\ DOMAIN goal = Editors
  /\ \A e \in Editors : /\ at[e] = "open" => PageOpen(e)
                        /\ at[e] \in {"checked", "half"} => PageChecked(e)
=============================================================================
