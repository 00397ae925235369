-------------------------------- MODULE Menus -------------------------------
(***************************************************************************)
(* What the pages of core/ offer to whoever looks at a company: the menus  *)
(* and the palette (navigation.py) and the links of the dashboard          *)
(* (views.py), from the configuration of module Workspace.  What a page    *)
(* asks of its visitor is in the decorators of the page, somewhere else.   *)
(***************************************************************************)
EXTENDS Workspace

Viewers == Roles \cup {"superuser"}

May(v, perm) ==
  v = "superuser" \/ (Resolved(v, config.roles[v]) \cap {Star, perm}) # {}

Manages(v) == v \in {"superuser", "owner", "manager"}

(* The gate of a page: the permissions and the module it asks for, and     *)
(* whether it is the administrators' only.                                 *)
Gate(perms, on, admin) == [perms |-> perms, on |-> on, admin |-> admin]
List(m) == [page |-> <<"list", m>>, gate |-> Gate({<<m, "view">>}, {m}, FALSE)]
New(m) == [page |-> <<"new", m>>, gate |-> Gate({<<m, "edit">>}, {m}, FALSE)]
Hub == [page |-> <<"hub">>, gate |-> Gate({<<"reports", "view">>}, {"reports"}, FALSE)]
Search == [page |-> <<"search">>, gate |-> Gate({}, {}, FALSE)]
Catalog == [page |-> <<"objects">>, gate |-> Gate({<<"objects", "view">>}, {}, FALSE)]
NewObject == [page |-> <<"new", "objects">>, gate |-> Gate({<<"objects", "edit">>}, {}, FALSE)]
Settings == [page |-> <<"settings">>, gate |-> Gate({}, {}, TRUE)]
PipelineSettings ==
  [page |-> <<"pipelines">>, gate |-> Gate({<<"deals", "view">>}, {"deals"}, TRUE)]

Admitted(v, link) ==
  /\ link.gate.on \subseteq config.on
  /\ \A perm \in link.gate.perms : May(v, perm)
  /\ link.gate.admin => Manages(v)

-----------------------------------------------------------------------------
(* A module is offered if it is on and the viewer has the permission.      *)
Enabled(v, m, act) == m \in config.on /\ May(v, <<m, act>>)

Order == Complete(config.order)
InOrder(S) == Only(Order, S)
If(condition, S) == IF condition THEN S ELSE {}

PrimaryModules(v) ==
  InOrder({m \in {"entities", "deals"} : Enabled(v, m, "view")})

Managed == {"activities", "collab", "documents", "proposals", "collections", "reports"}
ManagementModules(v) == InOrder({m \in Managed : Enabled(v, m, "view")})

(* The menus.                                                              *)
Navigation(v) ==
  If(config.profile = "broker" /\ Enabled(v, "reports", "view"), {Hub})
    \cup {List(m) : m \in ToSet(PrimaryModules(v)) \cup ToSet(ManagementModules(v))}
    \cup If(Manages(v), {Settings})

Searched == {"entities", "deals", "activities", "documents", "proposals", "collections"}

Palette(v) ==
  Navigation(v)
    \cup If(\E m \in Searched : May(v, <<m, "view">>), {Search})
    \cup If(config.objects /\ May(v, <<"objects", "view">>),
            {Catalog} \cup If(May(v, <<"objects", "edit">>), {NewObject}))
    \cup {New(m) : m \in {n \in Searched : Enabled(v, n, "edit")}}
    \cup If(Enabled(v, "deals", "edit") /\ Manages(v), {PipelineSettings})
    \cup If(Enabled(v, "collab", "view"), {List("collab")})

-----------------------------------------------------------------------------
(* The dashboard: the module of the hero metric comes first, and a compact *)
(* one has room for more.                                                  *)
HeroFirst == IF config.ops.hero = "open_deals" THEN First(Order, "deals") ELSE Order
Room == IF config.ops.density = "compact" THEN 6 ELSE 4
Fitting(S) ==
  LET s == Only(HeroFirst, S) IN
    ToSet(SubSeq(s, 1, Min({Room, Len(s)})))

Counted == {"entities", "deals", "activities", "documents", "proposals", "collections", "reports"}

(* The card of the deals leads nowhere without their board.                *)
Cards(v) ==
  If("summary_cards" \in config.widgets,
     {List(m) : m \in Fitting({n \in Counted : Enabled(v, n, "view")})
                        \ If("kanban" \notin config.on, {"deals"})})

Actions(v) ==
  If("quick_actions" \in config.widgets,
     {IF m = "reports" THEN List(m) ELSE New(m) :
        m \in Fitting({n \in Counted : Enabled(v, n, IF n = "reports" THEN "view" ELSE "edit")})})

Signals(v) ==
  {List(m) : m \in {n \in {"reports", "activities", "deals", "collections", "collab"} :
                      Enabled(v, n, "view")}}

Lanes(v) ==
  {List(m) : m \in {n \in Counted : Enabled(v, n, "view")}}
    \cup If(Enabled(v, "activities", "edit"), {New("activities")})
    \cup (IF Enabled(v, "collections", "edit") THEN {New("collections")}
          ELSE If(Enabled(v, "proposals", "edit"), {New("proposals")}))

Panels(v) ==
  {List(m) : m \in {n \in {"activities", "deals", "entities", "collections", "documents"} :
                      Enabled(v, n, "view")}}

Dashboard(v) ==
  If(May(v, <<"dashboard", "view">>),
     Cards(v) \cup Actions(v) \cup Signals(v) \cup Lanes(v) \cup Panels(v))

-----------------------------------------------------------------------------
ListedModules == {"entities", "deals"} \cup Managed

(* Whatever the configuration came to by however many edits, nobody is     *)
(* offered a page that turns them away, but for the settings of pipelines  *)
(* if they may edit deals and not see them; and every module a viewer is   *)
(* admitted to is in the menus, in the order the company sees them         *)
(* (build_navigation_model, build_command_palette_model and dashboard      *)
(* against tenant_permission_required and tenant_role_required).           *)
MenusMatchGates ==
  \A v \in Viewers :
    /\ \A link \in Palette(v) \cup Dashboard(v) :
         Admitted(v, link) \/ (link = PipelineSettings /\ ~May(v, <<"deals", "view">>))
    /\ \A m \in ListedModules : Admitted(v, List(m)) => List(m) \in Navigation(v)
    /\ \A s \in {PrimaryModules(v), ManagementModules(v)} :
         s = Only(Visible(config), ToSet(s))
=============================================================================
