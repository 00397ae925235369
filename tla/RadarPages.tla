----------------------------- MODULE RadarPages -----------------------------
(***************************************************************************)
(* The pages of binncrm/views.py that read the rows of module Radar: the   *)
(* lists, the page of a client, the search, the hub of each profile and    *)
(* the reports.  A page is taken to read everything at one moment, and the *)
(* few rows it shows of a list stand for the whole of it.                  *)
(***************************************************************************)
EXTENDS Radar

Module(t) == IF t \in Objects THEN "object" ELSE t
Sees(m) == m \in sees
Seen(t) == IF Sees(Module(t)) THEN Live(t) ELSE {}
SeenClients == IF Sees("client") THEN LiveClients ELSE {}

-----------------------------------------------------------------------------
(* What the hubs and the reports query.                                    *)
RenewalsDue == {x \in Seen("deal") : Open(x) /\ Within(rows[x].due, 30)}

(* Mutant: the policies that are past their date are left out.             *)
DuePoliciesAhead ==
  {x \in Seen("policy") : Within(rows[x].due, 45) /\ ~Past(rows[x].due)}

DuePolicies == {x \in Seen("policy") : Within(rows[x].due, 45)}

OpenOf(kind) == {x \in Seen("activity") : rows[x].kind = kind /\ Open(x)}
OverdueTasks == {x \in OpenOf("task") : Elapsed(x)}

(* Mutant: the query looks for the column of the late ones.                *)
OverdueCollectionsByColumn ==
  {x \in Seen("collection") : Status(x) = "overdue" /\ Past(rows[x].due)}

OverdueCollections == {x \in Seen("collection") : Unpaid(x) /\ Past(rows[x].due)}
ExpiringDocuments == {x \in Seen("document") : Within(rows[x].due, 30)}

ProposalsDue ==
  {x \in Seen("proposal") : Status(x) \in {"draft", "sent"} /\ Within(rows[x].due, 7)}

QuietDeals == {x \in Seen("deal") : Open(x) /\ Ago(touched[x], 14)}

ColdAfter == CASE pack = "retail_moda" -> 45 [] pack = "condominio" -> 30 [] OTHER -> 21

(* Clients nobody did anything about, nor, without any activity, changed.  *)
ColdClients ==
  {c \in SeenClients :
     LET acts == Of(c, All("activity")) IN
       IF acts = {} THEN Ago(touched[c], ColdAfter)
                    ELSE \A a \in acts : Ago(made[a], ColdAfter)}

ChecklistClients == {c \in SeenClients : ChecklistGaps(c, Seen("document")) # {}}

-----------------------------------------------------------------------------
(* The hubs: each list and each card of theirs by name.                    *)
BrokerHub ==
  [renewing |-> {c \in SeenClients : BrokerStage(c) = "renovacion"},
   renewals |-> RenewalsDue, policies |-> DuePolicies, claims |-> OpenOf("claim"),
   checklists |-> ChecklistClients, collections |-> OverdueCollections,
   documents |-> ExpiringDocuments, proposals |-> ProposalsDue]

ActiveProjects == {x \in Seen("project") : Status(x) # "cerrado"}
HubRank(x) == ProjectRank(x, Seen("deliverable"))
HubHandoff(c) ==
  HandoffGaps(c, Seen("document"), Seen("activity"), Seen("deliverable"))

ServicesHub ==
  [deliverables |-> {x \in Seen("deliverable") : NeedsAttention(x)},
   projects |-> ActiveProjects,
   handoffs |-> {c \in SeenClients :
                   WithStatus(DealsOf(c), "won") # {} /\ HubHandoff(c) # {}}]

RetailHub ==
  [regulars |-> {c \in SeenClients : Segment(c) \in {"vip", "frecuente"}},
   inactive |-> {c \in SeenClients : Segment(c) = "inactiva"},
   deals |-> {x \in Seen("deal") : Open(x)},
   whatsapps |-> {x \in Seen("activity") : rows[x].kind = "whatsapp"},
   tasks |-> OverdueTasks,
   wishlists |-> LET kept == WithStatus(Seen("wishlist"), "vigente") IN
                   IF kept = {} THEN Seen("wishlist") ELSE kept]

(* The list of clients and the hub count the collections that are live,    *)
(* whether or not the user sees collections.                               *)
ListedResident(c) == ResidentStatus(c, Of(c, Live("collection")))

ResidentsHub ==
  [overdue |-> {c \in SeenClients : ListedResident(c) = "cartera_vencida"},
   followed |-> {c \in SeenClients : ListedResident(c) \in {"promesa_pago", "seguimiento"}}]

CondominioHub ==
  [collections |-> OverdueCollections,
   promises |-> WithStatus(Seen("collection"), "promised"),
   tasks |-> OpenOf("task"),
   incidents |-> {x \in Seen("incident") : ~Resolved(x)}]

Reports ==
  [deals |-> QuietDeals, tasks |-> OverdueTasks, proposals |-> ProposalsDue,
   collections |-> OverdueCollections, documents |-> ExpiringDocuments]

ReportsOfPack ==
  IF pack = "broker"
    THEN [renewals |-> RenewalsDue, claims |-> OpenOf("claim"),
          checklists |-> IF Sees("document") THEN ChecklistClients ELSE {}]
    ELSE [cold |-> ColdClients]

-----------------------------------------------------------------------------
(* The dashboard.  Its panels are counted whenever it opens.               *)
Busy(c) ==
  \/ \E x \in DealsOf(c) : Open(x)
  \/ \E x \in Of(c, Live("collection")) : Unpaid(x)

PendingClients ==
  {c \in SeenClients :
     Busy(c) /\ \A a \in Of(c, All("activity")) : Ago(made[a], 10)}

DueTasks == {x \in OpenOf("task") : Within(rows[x].due, 0)}
OpenDeals == {x \in Seen("deal") : Open(x)}
ClosingDeals == {x \in OpenDeals : Within(rows[x].due, 14)}

UrgentCollections ==
  {x \in Seen("collection") :
     Unpaid(x) /\ (Past(rows[x].due) \/ Within(rows[x].review, 0))}

LapsingDocuments == {x \in Seen("document") : Within(rows[x].due, 15)}

Home ==
  [tasks |-> DueTasks, deals |-> OpenDeals, closing |-> ClosingDeals,
   clients |-> PendingClients, collections |-> UrgentCollections,
   documents |-> LapsingDocuments]

(* Its figures are those of the company, whatever the user sees; each is   *)
(* given here by the rows it counts, at hour h of today: late tasks and    *)
(* stale deals go by the instant, the others by the day.                   *)
StaleAt(x, h) == Open(x) /\ AgoAt(touched[x], 14, h)

AlertsAt(h) ==
  {x \in Live("deal") : StaleAt(x, h)}
    \cup {x \in Live("activity") : rows[x].kind = "task" /\ Open(x) /\ ElapsedAt(x, h)}
    \cup {x \in Live("collection") : Unpaid(x) /\ Past(rows[x].due)}
    \cup {x \in Live("document") : Within(rows[x].due, 30)}
Alerts == AlertsAt(hour)

FirstBoard == {x \in Live("deal") : Open(x) /\ rows[x].kind = "first"}

Columns == {"pending", "promised", "paid", "overdue", "disputed"}
ByColumn == [s \in Columns |-> WithStatus(Live("collection"), s)]

FiguresAt(h) ==
  [clients |-> LiveClients,
   deals |-> {x \in Live("deal") : Open(x)},
   due |-> {x \in Live("activity") : Open(x) /\ Within(rows[x].due, 0)},
   activities |-> Live("activity"),
   documents |-> Live("document"),
   proposals |-> {x \in Live("proposal") : Status(x) \in {"draft", "sent"}},
   collections |-> {x \in Live("collection") : Unpaid(x)},
   alerts |-> AlertsAt(h),
   pipeline |-> FirstBoard, columns |-> ByColumn]
Figures == FiguresAt(hour)

-----------------------------------------------------------------------------
(* The search, for a word that some texts of the rows and clients hold.    *)
Says(x, what) == what \in rows[x].says
Named(x) == \E c \in rows[x].of : "name" \in clients[c].says
ClientFound(c) == clients[c].says # {}
DealFound(x) == Says(x, "title") \/ \E c \in rows[x].of : ClientFound(c)
TextFound(x) == rows[x].says # {} \/ Named(x)

(* The text of an activity is its description, of a proposal its number,   *)
(* of a collection its reference, of a document its type and its key.      *)
Found(t) == {x \in Seen(t) : IF t = "deal" THEN DealFound(x) ELSE TextFound(x)}

(* The lists the search leads to, with the same word.  The board opens on  *)
(* the first pipeline.                                                     *)
OfDeal(x) == \E d \in rows[x].about : Says(d, "title")

BoardPage == {x \in Seen("deal") : rows[x].kind = "first" /\ DealFound(x)}

(* Mutant: the list looks into activities only.                            *)
ActivitiesPageOwnText == {x \in Seen("activity") : rows[x].says # {}}

ActivitiesPage == {x \in Seen("activity") : TextFound(x)}
ProposalsPage == {x \in Seen("proposal") : TextFound(x) \/ OfDeal(x)}
CollectionsPage == {x \in Seen("collection") : TextFound(x) \/ OfDeal(x)}
DocumentsPage == {x \in Seen("document") : rows[x].says # {}}

(* The lanes of the list of activities.                                    *)
Lanes == {"completed", "unscheduled", "overdue", "planned"}
Lane(key) ==
  {x \in ActivitiesPage :
     \/ key = "completed" /\ ~Open(x)
     \/ key = "unscheduled" /\ Open(x) /\ rows[x].due = NoDay
     \/ key = "overdue" /\ Open(x) /\ Elapsed(x)
     \/ key = "planned" /\ Open(x) /\ rows[x].due # NoDay
          /\ (rows[x].due > today \/ (rows[x].due = today /\ rows[x].at >= hour))}

-----------------------------------------------------------------------------
(* The page of a client shows its archived rows as well.                   *)
AllSeen(t) == IF Sees(Module(t)) THEN All(t) ELSE {}

(* Mutant: the page takes what is not paid for late.                       *)
PageResidentUnpaid(c) ==
  LET S == Of(c, AllSeen("collection")) IN
    IF \E x \in S : Unpaid(x) THEN "cartera_vencida" ELSE ResidentStatus(c, S)

PageResident(c) == ResidentStatus(c, Of(c, AllSeen("collection")))

PageHandoff(c) ==
  HandoffGaps(c, AllSeen("document"), Seen("activity"), Seen("deliverable"))

(* "today" has a value in entity_detail only for a condominio: the summary *)
(* of a broker's client, and the first project of a services client, read  *)
(* it without.                                                             *)
ClientPageOpens(c) ==
  CASE pack = "broker"    -> FALSE
    [] pack = "servicios" -> Of(c, Seen("project")) = {}
    [] OTHER              -> TRUE

-----------------------------------------------------------------------------
Kept(old, new) == \A k \in DOMAIN old : old[k] \subseteq new[k]

LaneOf == [done |-> "completed", undated |-> "unscheduled", due |-> "planned",
           overdue |-> "overdue"]

Tone(badge) == IF badge = "active" THEN 0 ELSE IF badge \in {"closes", "cold"} THEN 1 ELSE 2

RaisedOnly ==
  /\ Kept(BrokerHub, BrokerHub') /\ Kept(ServicesHub, ServicesHub')
  /\ Kept(CondominioHub, CondominioHub')
  /\ Kept(Reports, Reports') /\ Kept(ReportsOfPack, ReportsOfPack')
  /\ Kept(Home, Home') /\ Alerts \subseteq Alerts'
  /\ RetailHub.inactive \subseteq RetailHub.inactive'
  /\ RetailHub.tasks \subseteq RetailHub.tasks'
  /\ ResidentsHub.overdue \subseteq ResidentsHub.overdue'
  /\ ResidentsHub.followed \subseteq ResidentsHub.followed' \cup ResidentsHub.overdue'
  /\ \A c \in LiveClients :
       ServicesStage(c) = "renovacion_upsell" => ServicesStage(c)' = "renovacion_upsell"
  /\ \A x \in Live("deliverable") : DeliverableRank(x)' <= DeliverableRank(x)
  /\ \A x \in Live("project") : HubRank(x)' <= HubRank(x)
  /\ \A x \in Live("deal") :
       Tone(DealBadge(x)) <= Tone(DealBadge(x)') \/ DealBadge(x)' = "closes"

(* Nobody silences an alert by waiting: when only time goes by, no row and *)
(* no client leaves a list of the reports, of the dashboard or of a hub,   *)
(* but for a resident who is followed and falls behind, and the regular    *)
(* customers of a shop, who are no alert and cease to be when they do not  *)
(* buy; no project or deliverable sinks, and no badge of a deal relaxes,   *)
(* but for a deal long untouched that is about to close (the windows of    *)
(* broker_hub, services_hub, retail_hub, condominio_hub, reports and       *)
(* dashboard, and _deal_health_badge).                                     *)
TimeOnlyRaises == [][Pass => RaisedOnly]_vars

HomeMeets ==
  /\ OverdueTasks \subseteq Home.tasks /\ OverdueCollections \subseteq Home.collections
  /\ {x \in Seen("document") : DocumentBadge(x) = "expired"} \subseteq Home.documents
  /\ Home.documents \subseteq ExpiringDocuments
  /\ {x \in Seen("deal") : Open(x) /\ DealBadge(x) \in {"late", "closes"}}
       \subseteq Home.closing
  /\ Home.closing \subseteq RenewalsDue
  /\ {c \in ColdClients : Busy(c)} \subseteq Home.clients
  /\ {x \in Alerts : Sees(Module(Table[x]))} =
       Reports.deals \cup Reports.tasks \cup Reports.collections \cup Reports.documents

(* What a hub or the reports query is what the badge of the same row says, *)
(* though each works it out on its own: the overdue collections and tasks, *)
(* the documents and policies about to expire, the proposals that lapsed,  *)
(* the deals that are late or close, the deliverables that need attention, *)
(* the lanes of activities; what is wrong with a deliverable lifts its     *)
(* project; and a deal called quiet is not called active on its board,     *)
(* unless an activity was recorded since.  The dashboard warns of what     *)
(* the badges and the reports warn of, each in its narrower window, and    *)
(* its alerts are the reports' lists, with what the user does not see.     *)
AlertsMeetBadges ==
  /\ ProjectsShowTheirWorst
  /\ OverdueCollections =
       {x \in Seen("collection") : CollectionHealth(x) = "overdue"}
  /\ OverdueTasks = {x \in OpenOf("task") : TaskBadge(x) = "overdue"}
  /\ ExpiringDocuments =
       {x \in Seen("document") : DocumentBadge(x) \in {"expired", "soon"}}
  /\ {x \in Seen("policy") : PolicyBadge(x) \in {"expired", "soon"}} \subseteq DuePolicies
  /\ {x \in Seen("proposal") : ProposalBadge(x) = "lapsed"} \subseteq ProposalsDue
  /\ {x \in Seen("deal") : Open(x) /\ DealBadge(x) \in {"late", "closes"}}
       \subseteq RenewalsDue
  /\ \A x \in Seen("deliverable") :
       NeedsAttention(x) <=> ~Completed(x) /\ DeliverableRank(x) < 4
  /\ \A x \in ActivitiesPage : \A key \in Lanes :
       x \in Lane(key) <=> key = LaneOf[TaskBadge(x)]
  /\ \A x \in QuietDeals :
       DealBadge(x) \in {"active", "cold"} => \E a \in Touches(x) : made[a].day > today - 14
  /\ HomeMeets

(* The page of a client agrees with the list and the hub it is opened      *)
(* from: a resident has the same status, unless collections are hidden     *)
(* from the user or archived; and a handoff lacks nothing there that the   *)
(* hub has, and the same as the hub unless a document is archived          *)
(* (entity_detail, entities, condominio_hub and services_hub).             *)
ClientPageAgrees ==
  \A c \in SeenClients :
    /\ Sees("collection") /\ Of(c, All("collection")) \subseteq Live("collection")
         => PageResident(c) = ListedResident(c)
    /\ PageHandoff(c) \subseteq HubHandoff(c)
    /\ Of(c, All("document")) \subseteq Live("document") => PageHandoff(c) = HubHandoff(c)

(* What the search finds is on the list it leads to with the same word,    *)
(* but for deals of another board than the first, and documents that only  *)
(* their client's name finds (_build_global_search_sections against the    *)
(* lists' own filters).                                                    *)
SearchLeadsThere ==
  /\ Found("deal") \subseteq BoardPage \cup {x \in Rows : rows[x].kind # "first"}
  /\ Found("activity") \subseteq ActivitiesPage
  /\ Found("proposal") \subseteq ProposalsPage
  /\ Found("collection") \subseteq CollectionsPage
  /\ Found("document") \subseteq DocumentsPage \cup {x \in Rows : rows[x].says = {}}

(* A page shows the row another one led to, and says the same of it.       *)
PagesAgree == ClientPageAgrees /\ SearchLeadsThere

(* The core of the product, docs/binn-mvp-prd.md:333, has a page for each  *)
(* client: it opens (entity_detail).                                       *)
ClientPagesOpen == \A c \in SeenClients : ClientPageOpens(c)
=============================================================================
