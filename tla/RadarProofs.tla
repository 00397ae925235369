----------------------------- MODULE RadarProofs -----------------------------
(***************************************************************************)
(* Whatever is saved in any order at any hour, what a page queries agrees  *)
(* with what another computes of the same row, and waiting silences no     *)
(* alert.                                                                  *)
(***************************************************************************)
EXTENDS RadarHome, TLAPS

LEMMA TypeInit == Init => TypeOK
<1> SUFFICES ASSUME Init PROVE TypeOK
  OBVIOUS
<1>0. "none" \in Presence /\ NoDay \in Day
  BY DEF Presence, Day
<1>1. NoRow \in Row /\ 0 \in Hours
  BY <1>0, RadarAssumption DEF NoRow, Row, Hours
<1>2. NoClient \in Client
  BY <1>0, RadarAssumption DEF NoClient, Client
<1>3. today \in Int /\ hour \in Hours /\ Moment \in Instant
  BY <1>1, RadarAssumption DEF Init, Moment, Instant
<1> QED BY <1>1, <1>2, <1>3 DEF Init, TypeOK

LEMMA TypeStep == TypeOK /\ [Next]_vars => TypeOK'
<1> SUFFICES ASSUME TypeOK, [Next]_vars PROVE TypeOK'
  OBVIOUS
<1> USE RadarAssumption DEF TypeOK
<1>0. Moment \in Instant
  BY DEF Moment, Instant
<1>1. ASSUME NEW x \in Rows, NEW v \in Forms[x], Save(x, v) PROVE TypeOK'
  <2>1. v \in Row
    OBVIOUS
  <2>2. /\ pack' \in Packs /\ sees' \in Viewers /\ today' \in Int /\ hour' \in Hours
        /\ clients' \in [Clients -> Client]
    BY <1>1 DEF Save
  <2>3. rows' \in [Rows -> Row]
    BY <1>1, <2>1 DEF Save
  <2>4. made' \in [Activities -> Instant]
    BY <1>0, <1>1 DEF Save
  <2>5. touched' \in [Stamped -> Instant]
    BY <1>0, <1>1 DEF Save
  <2> QED BY <2>2, <2>3, <2>4, <2>5
<1>2. ASSUME NEW c \in Clients, NEW v \in Cards[c], SaveClient(c, v) PROVE TypeOK'
  <2>1. v \in Client
    OBVIOUS
  <2>2. clients' \in [Clients -> Client]
    BY <1>2, <2>1 DEF SaveClient
  <2>3. touched' \in [Stamped -> Instant]
    BY <1>0, <1>2 DEF SaveClient, Stamped
  <2> QED BY <1>2, <2>2, <2>3 DEF SaveClient
<1>3. CASE Pass
  BY <1>3 DEF Pass
<1>4. CASE UNCHANGED vars
  BY <1>4 DEF vars
<1> QED BY <1>1, <1>2, <1>3, <1>4 DEF Next

(* Every row and every client is as its form leaves it (TypeOK).           *)
THEOREM TypeCorrect == Spec => []TypeOK
  BY TypeInit, TypeStep, PTL DEF Spec

LEMMA RowFields ==
  ASSUME TypeOK, NEW x \in Rows
  PROVE  /\ rows[x].due \in Int \cup {NoDay} /\ rows[x].review \in Int \cup {NoDay}
         /\ rows[x].of \subseteq Clients /\ rows[x].about \subseteq Rows
         /\ rows[x].at \in Hours
  BY DEF TypeOK, Row, Day

(* Instants are ordered by the day, and within it by the hour.             *)
LEMMA Clock ==
  ASSUME TypeOK
  PROVE  today \in Int /\ hour \in Int /\ \A t \in Instant : t.day \in Int /\ t.hour \in Int
  BY RadarAssumption DEF TypeOK, Hours, Instant

LEMMA DueInstant ==
  ASSUME TypeOK, NEW x \in Rows, rows[x].due # NoDay
  PROVE  [day |-> rows[x].due, hour |-> rows[x].at] \in Instant
  BY RowFields DEF Instant

LEMMA ClientFields ==
  ASSUME TypeOK, NEW c \in Clients
  PROVE  clients[c].renewal \in Int \cup {NoDay} /\ clients[c].bought \in Int \cup {NoDay}
  BY DEF TypeOK, Client, Day

-----------------------------------------------------------------------------
LEMMA WorstShown == TypeOK => ProjectsShowTheirWorst
<1> SUFFICES ASSUME TypeOK, NEW d \in Live("deliverable"),
                    NEW p \in rows[d].about \cap Live("project"),
                    ~Completed(d), DeliverableRank(d) <= 2
             PROVE  ProjectRank(p, Live("deliverable")) <= 2
  BY DEF ProjectsShowTheirWorst
<1> DEFINE open == {x \in Live("deliverable") : p \in rows[x].about /\ ~Completed(x)}
<1>0. d \in open /\ d \in Rows
  BY DEF Live, All
<1>1. CASE Status(d) = "bloqueado"
  <2>1. WithStatus(open, "bloqueado") # {}
    BY <1>0, <1>1 DEF WithStatus
  <2> QED BY <2>1 DEF ProjectRank
<1>2. CASE Status(d) = "por_validar"
  <2>1. WithStatus(open, "por_validar") # {}
    BY <1>0, <1>2 DEF WithStatus
  <2> QED BY <2>1 DEF ProjectRank
<1>3. CASE Past(rows[d].due)
  <2>1. Within(rows[d].due, 7)
    BY <1>0, <1>3, RowFields DEF Past, Within, TypeOK
  <2>2. \E x \in open : Within(rows[x].due, 7)
    BY <1>0, <2>1
  <2> QED BY <2>2 DEF ProjectRank
<1>4. Status(d) = "bloqueado" \/ Status(d) = "por_validar" \/ Past(rows[d].due)
  BY DEF DeliverableRank
<1> QED BY <1>1, <1>2, <1>3, <1>4

(* A deliverable that is late, blocked or to be validated brings its       *)
(* project at least as high as one about to close                          *)
(* (ProjectsShowTheirWorst).                                               *)
THEOREM WorstAlwaysShown == Spec => []ProjectsShowTheirWorst
  BY TypeCorrect, WorstShown, PTL

-----------------------------------------------------------------------------
(* What a query finds is what the badge of the row says.                   *)
LEMMA CollectionsMeet ==
  TypeOK => OverdueCollections =
              {x \in Seen("collection") : CollectionHealth(x) = "overdue"}
  BY DEF OverdueCollections, CollectionHealth, CollectionBadge

LEMMA TasksMeet ==
  TypeOK => OverdueTasks = {x \in OpenOf("task") : TaskBadge(x) = "overdue"}
  BY DEF OverdueTasks, OpenOf, TaskBadge, Open

LEMMA SeenAreRows == \A t : Seen(t) \subseteq Rows /\ Live(t) \subseteq Rows
  BY DEF Seen, Live, All

LEMMA DatesMeet ==
  ASSUME TypeOK, NEW x \in Rows
  PROVE  Within(rows[x].due, 30) <=> ExpiryBadge(rows[x].due) \in {"expired", "soon"}
<1>1. rows[x].due \in Int \cup {NoDay} /\ today \in Int
  BY RowFields DEF TypeOK
<1> QED BY <1>1, RadarAssumption DEF ExpiryBadge, Past, Within

LEMMA DocumentsMeet ==
  TypeOK => /\ ExpiringDocuments =
                 {x \in Seen("document") : DocumentBadge(x) \in {"expired", "soon"}}
            /\ {x \in Seen("policy") : PolicyBadge(x) \in {"expired", "soon"}} \subseteq DuePolicies
<1> SUFFICES ASSUME TypeOK
             PROVE  /\ ExpiringDocuments =
                          {x \in Seen("document") : DocumentBadge(x) \in {"expired", "soon"}}
                    /\ {x \in Seen("policy") : PolicyBadge(x) \in {"expired", "soon"}}
                          \subseteq DuePolicies
  OBVIOUS
<1>1. \A x \in Seen("document") :
        Within(rows[x].due, 30) <=> DocumentBadge(x) \in {"expired", "soon"}
  BY SeenAreRows, DatesMeet DEF DocumentBadge
<1>2. \A x \in Seen("policy") :
        PolicyBadge(x) \in {"expired", "soon"} => Within(rows[x].due, 30)
  BY SeenAreRows, DatesMeet DEF PolicyBadge
<1>3. \A x \in Seen("policy") : Within(rows[x].due, 30) => Within(rows[x].due, 45)
  BY SeenAreRows, RowFields, RadarAssumption DEF Within, TypeOK
<1> QED BY <1>1, <1>2, <1>3 DEF ExpiringDocuments, DuePolicies

LEMMA ProposalsMeet ==
  TypeOK => {x \in Seen("proposal") : ProposalBadge(x) = "lapsed"} \subseteq ProposalsDue
<1> SUFFICES ASSUME TypeOK, NEW x \in Seen("proposal"), ProposalBadge(x) = "lapsed"
             PROVE  x \in ProposalsDue
  OBVIOUS
<1>1. rows[x].due \in Int \cup {NoDay} /\ today \in Int
  BY SeenAreRows, RowFields DEF TypeOK
<1>2. Status(x) \in {"draft", "sent"} /\ Past(rows[x].due)
  BY DEF ProposalBadge
<1>3. Within(rows[x].due, 7)
  BY <1>1, <1>2, RadarAssumption DEF Past, Within
<1> QED BY <1>2, <1>3 DEF ProposalsDue

LEMMA DealsMeet ==
  TypeOK => {x \in Seen("deal") : Open(x) /\ DealBadge(x) \in {"late", "closes"}}
              \subseteq RenewalsDue
<1> SUFFICES ASSUME TypeOK, NEW x \in Seen("deal"), Open(x), DealBadge(x) \in {"late", "closes"}
             PROVE  x \in RenewalsDue
  OBVIOUS
<1>1. rows[x].due \in Int \cup {NoDay} /\ today \in Int
  BY SeenAreRows, RowFields DEF TypeOK
<1>2. Past(rows[x].due) \/ Within(rows[x].due, 7)
  BY DEF DealBadge
<1>3. Within(rows[x].due, 30)
  BY <1>1, <1>2, RadarAssumption DEF Past, Within
<1> QED BY <1>3 DEF RenewalsDue

LEMMA DeliverablesMeet ==
  TypeOK => \A x \in Seen("deliverable") :
              NeedsAttention(x) <=> ~Completed(x) /\ DeliverableRank(x) < 4
<1> SUFFICES ASSUME TypeOK, NEW x \in Seen("deliverable")
             PROVE  NeedsAttention(x) <=> ~Completed(x) /\ DeliverableRank(x) < 4
  OBVIOUS
<1>1. rows[x].due \in Int \cup {NoDay} /\ today \in Int
  BY SeenAreRows, RowFields DEF TypeOK
<1>2. Past(rows[x].due) => Within(rows[x].due, 7)
  BY <1>1, RadarAssumption DEF Past, Within
<1> QED BY <1>2 DEF NeedsAttention, DeliverableRank

LEMMA LanesMeet ==
  TypeOK => \A x \in ActivitiesPage : \A key \in Lanes :
              x \in Lane(key) <=> key = LaneOf[TaskBadge(x)]
<1> SUFFICES ASSUME TypeOK, NEW x \in ActivitiesPage, NEW key \in Lanes
             PROVE  x \in Lane(key) <=> key = LaneOf[TaskBadge(x)]
  OBVIOUS
<1>1. /\ rows[x].due \in Int \cup {NoDay} /\ today \in Int
      /\ rows[x].at \in Int /\ hour \in Int
  <2>1. x \in Rows
    BY SeenAreRows DEF ActivitiesPage
  <2> QED BY <2>1, RowFields, Clock, RadarAssumption DEF Hours
<1>2. CASE ~Open(x)
  BY <1>2 DEF TaskBadge, LaneOf, Lane, Lanes
<1>3. CASE Open(x) /\ rows[x].due = NoDay
  BY <1>3 DEF TaskBadge, LaneOf, Lane, Lanes, Elapsed, ElapsedAt
<1>4. CASE Open(x) /\ rows[x].due # NoDay
  <2>1. \/ rows[x].due > today \/ (rows[x].due = today /\ rows[x].at >= hour)
        <=> ~Elapsed(x)
    BY <1>1, <1>4, RadarAssumption DEF Elapsed, ElapsedAt, AgoAt
  <2> QED BY <1>4, <2>1 DEF TaskBadge, LaneOf, Lane, Lanes
<1> QED BY <1>2, <1>3, <1>4

LEMMA QuietMeet ==
  TypeOK => \A x \in QuietDeals :
              DealBadge(x) \in {"active", "cold"} => \E a \in Touches(x) : made[a].day > today - 14
<1> SUFFICES ASSUME TypeOK, NEW x \in QuietDeals, DealBadge(x) \in {"active", "cold"}
             PROVE  \E a \in Touches(x) : made[a].day > today - 14
  OBVIOUS
<1>1. touched[x].day \in Int /\ today \in Int
  <2>1. touched[x] \in Instant
    BY DEF QuietDeals, Seen, Live, All, Stamped, TypeOK
  <2> QED BY <2>1, Clock
<1>2. ~Untouched(x, 10)
  BY DEF DealBadge
<1>3. touched[x].day <= today - 10
  BY <1>1 DEF QuietDeals, Ago, AgoAt
<1>4. PICK a \in Touches(x) : ~(made[a].day <= today - 10)
  BY <1>2, <1>3 DEF Untouched
<1>5. made[a].day \in Int
  <2>1. made[a] \in Instant
    BY DEF Touches, All, Activities, TypeOK
  <2> QED BY <2>1, Clock
<1> QED BY <1>1, <1>4, <1>5

LEMMA HomeMeet == TypeOK => HomeMeets
<1> SUFFICES ASSUME TypeOK PROVE HomeMeets
  OBVIOUS
<1>0. /\ today \in Int
      /\ \A x \in Rows : rows[x].due \in Int \cup {NoDay}
      /\ \A t : Seen(t) \subseteq Rows
  BY RowFields, SeenAreRows DEF TypeOK
<1>1. \A x \in Rows :
        /\ Past(rows[x].due) => Within(rows[x].due, 0)
        /\ Within(rows[x].due, 0) => Within(rows[x].due, 14)
        /\ Within(rows[x].due, 7) => Within(rows[x].due, 14)
        /\ Within(rows[x].due, 14) => Within(rows[x].due, 15)
        /\ Within(rows[x].due, 15) => Within(rows[x].due, 30)
  BY <1>0, RadarAssumption DEF Past, Within
<1>2. OpenOf("task") \subseteq Rows
  BY <1>0 DEF OpenOf
<1>3. OverdueTasks \subseteq Home.tasks
  <2>1. \A x \in Rows : Elapsed(x) => Within(rows[x].due, 0)
    BY <1>0, RadarAssumption DEF Elapsed, ElapsedAt, AgoAt, Within
  <2> QED BY <1>2, <2>1 DEF OverdueTasks, Home, DueTasks
<1>4. OverdueCollections \subseteq Home.collections
  BY DEF OverdueCollections, Home, UrgentCollections
<1>5. {x \in Seen("document") : DocumentBadge(x) = "expired"} \subseteq Home.documents
  BY <1>0, <1>1 DEF DocumentBadge, ExpiryBadge, Home, LapsingDocuments
<1>6. Home.documents \subseteq ExpiringDocuments
  BY <1>0, <1>1 DEF ExpiringDocuments, Home, LapsingDocuments
<1>7. {x \in Seen("deal") : Open(x) /\ DealBadge(x) \in {"late", "closes"}} \subseteq Home.closing
  BY <1>0, <1>1 DEF DealBadge, Home, OpenDeals, ClosingDeals
<1>8. Home.closing \subseteq RenewalsDue
  BY <1>0, <1>1 DEF RenewalsDue, Home, OpenDeals, ClosingDeals
<1>9. ASSUME NEW c \in ColdClients, Busy(c) PROVE c \in Home.clients
  <2>1. ColdAfter \in Nat /\ ColdAfter >= 10
    BY DEF ColdAfter
  <2>2. \A a \in Of(c, All("activity")) : made[a] \in Instant /\ Ago(made[a], ColdAfter)
    BY <1>9 DEF ColdClients, Of, All, Activities, TypeOK
  <2>3. \A a \in Of(c, All("activity")) : Ago(made[a], 10)
    BY <1>0, <2>1, <2>2, Clock DEF Ago, AgoAt
  <2> QED BY <1>9, <2>3 DEF Home, PendingClients, ColdClients
<1>10. {x \in Alerts : Sees(Module(Table[x]))} =
         Reports.deals \cup Reports.tasks \cup Reports.collections \cup Reports.documents
  BY DEF Alerts, AlertsAt, StaleAt, Ago, Elapsed, Reports, QuietDeals, OverdueTasks, OpenOf,
         OverdueCollections, ExpiringDocuments, Seen, Live, All, Module, Objects
<1> QED BY <1>3, <1>4, <1>5, <1>6, <1>7, <1>8, <1>9, <1>10 DEF HomeMeets

LEMMA Meeting == TypeOK => AlertsMeetBadges
  BY HomeMeet, WorstShown, CollectionsMeet, TasksMeet, DocumentsMeet, ProposalsMeet, DealsMeet,
     DeliverablesMeet, LanesMeet, QuietMeet DEF AlertsMeetBadges

(* Each page queries on its own, or works out in Python, what another page *)
(* writes on the same row: they agree (AlertsMeetBadges).                  *)
THEOREM AlertsAlwaysMeet == Spec => []AlertsMeetBadges
  BY TypeCorrect, Meeting, PTL

-----------------------------------------------------------------------------
(* The search finds a row by its own texts and by those of its clients.    *)
LEMMA SearchLeads == TypeOK => SearchLeadsThere
<1> SUFFICES ASSUME TypeOK PROVE SearchLeadsThere
  OBVIOUS
<1>1. Found("deal") \subseteq BoardPage \cup {x \in Rows : rows[x].kind # "first"}
  BY SeenAreRows DEF Found, BoardPage
<1>2. Found("activity") \subseteq ActivitiesPage
  BY DEF Found, ActivitiesPage
<1>3. Found("proposal") \subseteq ProposalsPage /\ Found("collection") \subseteq CollectionsPage
  BY DEF Found, ProposalsPage, CollectionsPage
<1>4. Found("document") \subseteq DocumentsPage \cup {x \in Rows : rows[x].says = {}}
  BY SeenAreRows DEF Found, DocumentsPage
<1> QED BY <1>1, <1>2, <1>3, <1>4 DEF SearchLeadsThere

LEMMA PageAgrees == TypeOK => ClientPageAgrees
<1> SUFFICES ASSUME TypeOK, NEW c \in SeenClients
      PROVE  /\ Sees("collection") /\ Of(c, All("collection")) \subseteq Live("collection")
                  => PageResident(c) = ListedResident(c)
             /\ PageHandoff(c) \subseteq HubHandoff(c)
             /\ Of(c, All("document")) \subseteq Live("document") => PageHandoff(c) = HubHandoff(c)
  BY DEF ClientPageAgrees
<1>1. \A t : Live(t) \subseteq All(t)
  BY DEF Live, All
<1>2. ASSUME Sees("collection"), Of(c, All("collection")) \subseteq Live("collection")
      PROVE  PageResident(c) = ListedResident(c)
  <2>1. AllSeen("collection") = All("collection")
    BY <1>2 DEF AllSeen, Module, Objects
  <2>2. Of(c, All("collection")) = Of(c, Live("collection"))
    BY <1>1, <1>2 DEF Of
  <2> QED BY <2>1, <2>2 DEF PageResident, ListedResident
<1>3. Of(c, Seen("document")) \subseteq Of(c, AllSeen("document"))
  BY <1>1 DEF Of, Seen, AllSeen
<1>4. PageHandoff(c) \subseteq HubHandoff(c)
  BY <1>3 DEF PageHandoff, HubHandoff, HandoffGaps
<1>5. ASSUME Of(c, All("document")) \subseteq Live("document")
      PROVE  PageHandoff(c) = HubHandoff(c)
  <2>1. Of(c, Seen("document")) = Of(c, AllSeen("document"))
    BY <1>3, <1>5 DEF Of, Seen, AllSeen
  <2> QED BY <2>1 DEF PageHandoff, HubHandoff, HandoffGaps
<1> QED BY <1>2, <1>4, <1>5

(* A page shows the row another one led to, and says the same of it        *)
(* (PagesAgree).                                                           *)
THEOREM PagesAlwaysAgree == Spec => []PagesAgree
<1>1. TypeOK => PagesAgree
  BY PageAgrees, SearchLeads DEF PagesAgree
<1> QED BY <1>1, TypeCorrect, PTL

-----------------------------------------------------------------------------
(* When only time goes by, every window that held a date still does.        *)
LEMMA Later ==
  ASSUME NEW e \in Int, NEW t \in Int, NEW u \in Int, t <= u, NEW n \in Nat
  PROVE  /\ e <= t + n => e <= u + n
         /\ e <= t - n => e <= u - n
         /\ e < t - n => e < u - n
         /\ e < t => e < u
  OBVIOUS

LEMMA WindowsKeep ==
  ASSUME TypeOK, Pass, NEW e \in Int \cup {NoDay}
  PROVE  /\ today \in Int /\ today' \in Int /\ today <= today'
         /\ e # NoDay /\ e < today => e # NoDay /\ e < today'
         /\ \A n \in Nat : e # NoDay /\ e <= today + n => e # NoDay /\ e <= today' + n
         /\ \A n \in Nat : e \in Int /\ e <= today - n => e <= today' - n
<1>1. today \in Int /\ today' \in Int /\ today <= today'
  BY RadarAssumption DEF TypeOK, Pass
<1>2. CASE e = NoDay
  BY <1>1, <1>2, RadarAssumption
<1>3. CASE e \in Int
  BY <1>1, <1>3, Later
<1> QED BY <1>2, <1>3

(* ... and what was so long ago still is.                                  *)
LEMMA AgoKeeps ==
  ASSUME TypeOK, Pass, NEW t \in Instant, NEW n \in Nat, Ago(t, n)
  PROVE  Ago(t, n)'
<1>1. /\ today \in Int /\ hour \in Int /\ t.day \in Int /\ t.hour \in Int
      /\ today' \in Int /\ hour' \in Int
      /\ today < today' \/ (today = today' /\ hour < hour')
  BY Clock, RadarAssumption DEF Pass, Hours
<1>2. t.day < today - n \/ (t.day = today - n /\ t.hour < hour)
  BY DEF Ago, AgoAt
<1>3. t.day < today' - n \/ (t.day = today' - n /\ t.hour < hour')
  BY <1>1, <1>2
<1> QED BY <1>3 DEF Ago, AgoAt

LEMMA RowsStay ==
  ASSUME Pass
  PROVE  /\ rows' = rows /\ clients' = clients /\ made' = made /\ touched' = touched
         /\ sees' = sees /\ pack' = pack
         /\ \A t : Seen(t)' = Seen(t) /\ Live(t)' = Live(t) /\ All(t)' = All(t)
         /\ SeenClients' = SeenClients /\ LiveClients' = LiveClients
  BY DEF Pass, Seen, Live, All, Sees, Module, SeenClients, LiveClients, Status

LEMMA DatesStay ==
  ASSUME TypeOK, Pass
  PROVE  \A x \in Rows :
           /\ Past(rows[x].due) => Past(rows[x].due)'
           /\ Within(rows[x].due, 7) => Within(rows[x].due, 7)'
           /\ Within(rows[x].due, 30) => Within(rows[x].due, 30)'
           /\ Within(rows[x].due, 45) => Within(rows[x].due, 45)'
           /\ Within(rows[x].review, 7) => Within(rows[x].review, 7)'
           /\ Elapsed(x) => Elapsed(x)'
           /\ Status(x)' = Status(x) /\ Open(x)' = Open(x) /\ Completed(x)' = Completed(x)
<1> SUFFICES ASSUME NEW x \in Rows
             PROVE  /\ Past(rows[x].due) => Past(rows[x].due)'
                    /\ Within(rows[x].due, 7) => Within(rows[x].due, 7)'
                    /\ Within(rows[x].due, 30) => Within(rows[x].due, 30)'
                    /\ Within(rows[x].due, 45) => Within(rows[x].due, 45)'
                    /\ Within(rows[x].review, 7) => Within(rows[x].review, 7)'
                    /\ Elapsed(x) => Elapsed(x)'
                    /\ Status(x)' = Status(x) /\ Open(x)' = Open(x) /\ Completed(x)' = Completed(x)
  OBVIOUS
<1>1. rows[x].due \in Int \cup {NoDay} /\ rows[x].review \in Int \cup {NoDay} /\ rows' = rows
  BY RowFields, RowsStay
<1>2. Past(rows[x].due) => Past(rows[x].due)'
  BY <1>1, WindowsKeep DEF Past
<1>3. \A n \in {7, 30, 45} : Within(rows[x].due, n) => Within(rows[x].due, n)'
  BY <1>1, WindowsKeep DEF Within
<1>4. Within(rows[x].review, 7) => Within(rows[x].review, 7)'
  BY <1>1, WindowsKeep DEF Within
<1>5. Status(x)' = Status(x) /\ Open(x)' = Open(x) /\ Completed(x)' = Completed(x)
  BY <1>1 DEF Status, Open, Completed
<1>6. ASSUME Elapsed(x) PROVE Elapsed(x)'
  <2> DEFINE t == [day |-> rows[x].due, hour |-> rows[x].at]
  <2>1. rows[x].due # NoDay /\ t' = t /\ Ago(t, 0)
    BY <1>1, <1>6 DEF Elapsed, ElapsedAt, Ago
  <2>2. t \in Instant
    BY <2>1, DueInstant
  <2> HIDE DEF t
  <2>3. PICK u \in Instant : u = t
    BY <2>2
  <2>4. Ago(u, 0)
    BY <2>1, <2>3
  <2>5. Ago(u, 0)'
    BY <2>4, AgoKeeps
  <2>6. t' = u
    BY <2>1, <2>3
  <2> QED BY <1>1, <2>1, <2>5, <2>6 DEF Elapsed, ElapsedAt, Ago, t
<1> QED BY <1>2, <1>3, <1>4, <1>5, <1>6

LEMMA QueriesKeep ==
  ASSUME TypeOK, Pass
  PROVE  /\ RenewalsDue \subseteq RenewalsDue' /\ DuePolicies \subseteq DuePolicies'
         /\ OverdueTasks \subseteq OverdueTasks'
         /\ OverdueCollections \subseteq OverdueCollections'
         /\ ExpiringDocuments \subseteq ExpiringDocuments'
         /\ ProposalsDue \subseteq ProposalsDue'
         /\ \A kind : OpenOf(kind)' = OpenOf(kind)
<1>0. \A t : Seen(t)' = Seen(t) /\ Seen(t) \subseteq Rows
  BY RowsStay, SeenAreRows
<1>1. RenewalsDue \subseteq RenewalsDue'
  BY <1>0, DatesStay DEF RenewalsDue
<1>2. DuePolicies \subseteq DuePolicies'
  BY <1>0, DatesStay DEF DuePolicies
<1>3. \A kind : OpenOf(kind)' = OpenOf(kind)
  BY <1>0, RowsStay, DatesStay DEF OpenOf
<1>4. OverdueTasks \subseteq OverdueTasks'
  <2>1. OpenOf("task") \subseteq Rows
    BY SeenAreRows DEF OpenOf
  <2> QED BY <1>3, <2>1, DatesStay DEF OverdueTasks
<1>5. OverdueCollections \subseteq OverdueCollections'
  BY <1>0, DatesStay DEF OverdueCollections, Unpaid
<1>6. ExpiringDocuments \subseteq ExpiringDocuments'
  BY <1>0, DatesStay DEF ExpiringDocuments
<1>7. ProposalsDue \subseteq ProposalsDue'
  BY <1>0, DatesStay DEF ProposalsDue
<1> QED BY <1>1, <1>2, <1>3, <1>4, <1>5, <1>6, <1>7

LEMMA ColdKeep ==
  ASSUME TypeOK, Pass
  PROVE  QuietDeals \subseteq QuietDeals' /\ ColdClients \subseteq ColdClients'
<1>0. \A t : Seen(t)' = Seen(t) /\ Seen(t) \subseteq Rows
  BY RowsStay, SeenAreRows
<1>1. /\ \A t \in Instant : Ago(t, 14) => Ago(t, 14)'
      /\ \A t \in Instant : Ago(t, ColdAfter) => Ago(t, ColdAfter)'
  <2>1. PICK n \in Nat : n = ColdAfter /\ n = ColdAfter'
    BY RowsStay DEF ColdAfter
  <2>2. \A t \in Instant : Ago(t, n) => Ago(t, n)'
    BY AgoKeeps
  <2> QED BY <2>1, <2>2, AgoKeeps DEF Ago
<1>2. QuietDeals \subseteq QuietDeals'
  <2> SUFFICES ASSUME NEW x \in QuietDeals PROVE x \in QuietDeals'
    OBVIOUS
  <2>1. x \in Seen("deal")' /\ Open(x)' /\ touched' = touched
    BY <1>0, RowsStay, DatesStay DEF QuietDeals
  <2>2. touched[x] \in Instant
    BY DEF QuietDeals, Seen, Live, All, Stamped, TypeOK
  <2>3. PICK t \in Instant : t = touched[x] /\ t = touched'[x]
    BY <2>1, <2>2
  <2>4. Ago(t, 14)'
    BY <1>1, <2>3 DEF QuietDeals
  <2> QED BY <2>1, <2>3, <2>4 DEF QuietDeals
<1>3. ColdClients \subseteq ColdClients'
  <2> SUFFICES ASSUME NEW c \in ColdClients PROVE c \in ColdClients'
    OBVIOUS
  <2>1. /\ c \in SeenClients' /\ c \in Clients /\ made' = made /\ touched' = touched
        /\ Of(c, All("activity"))' = Of(c, All("activity"))
    BY RowsStay DEF ColdClients, SeenClients, LiveClients, Of
  <2>2. touched[c] \in Instant /\ \A a \in Of(c, All("activity")) : made[a] \in Instant
    BY <2>1 DEF Of, All, Stamped, Activities, TypeOK
  <2>3. \A t \in Instant : t = touched[c] /\ Ago(t, ColdAfter)
          => Ago(touched[c], ColdAfter)'
    BY <1>1, <2>1
  <2>4. \A a \in Of(c, All("activity")) : Ago(made[a], ColdAfter) => Ago(made[a], ColdAfter)'
    <3> TAKE a \in Of(c, All("activity"))
    <3>1. PICK t \in Instant : t = made[a] /\ t = made'[a]
      BY <2>1, <2>2
    <3> QED BY <1>1, <3>1
  <2> QED BY <2>1, <2>2, <2>3, <2>4 DEF ColdClients
<1> QED BY <1>2, <1>3

LEMMA HomeKeep == ASSUME TypeOK, Pass PROVE Kept(Home, Home') /\ Alerts \subseteq Alerts'
<1>0. /\ \A t : /\ Seen(t)' = Seen(t) /\ Seen(t) \subseteq Rows
                  /\ Live(t)' = Live(t) /\ Live(t) \subseteq Rows
      /\ rows' = rows /\ made' = made /\ touched' = touched
      /\ SeenClients' = SeenClients /\ SeenClients \subseteq Clients
  BY RowsStay, SeenAreRows DEF SeenClients, LiveClients
<1>1. /\ \A e \in Int \cup {NoDay}, n \in Nat : Within(e, n) => Within(e, n)'
      /\ \A t \in Instant, n \in Nat : Ago(t, n) => Ago(t, n)'
  BY WindowsKeep, AgoKeeps DEF Within
<1>2. \A x \in Rows :
        /\ \A n \in Nat : Within(rows[x].due, n) => Within(rows[x].due, n)'
        /\ \A n \in Nat : Within(rows[x].review, n) => Within(rows[x].review, n)'
        /\ Past(rows[x].due) => Past(rows[x].due)'
        /\ Elapsed(x) => Elapsed(x)'
        /\ Open(x)' = Open(x) /\ Unpaid(x)' = Unpaid(x)
  BY <1>0, <1>1, RowFields, DatesStay DEF Unpaid
<1>3. Home.tasks \subseteq Home'.tasks
  <2>1. OpenOf("task")' = OpenOf("task") /\ OpenOf("task") \subseteq Rows
    BY <1>0, QueriesKeep DEF OpenOf
  <2> QED BY <1>2, <2>1 DEF Home, DueTasks
<1>4. Home.deals \subseteq Home'.deals /\ Home.closing \subseteq Home'.closing
  BY <1>0, <1>2 DEF Home, OpenDeals, ClosingDeals
<1>5. Home.collections \subseteq Home'.collections /\ Home.documents \subseteq Home'.documents
  BY <1>0, <1>2 DEF Home, UrgentCollections, LapsingDocuments
<1>6. ASSUME NEW c \in PendingClients PROVE c \in PendingClients'
  <2>1. /\ DealsOf(c)' = DealsOf(c) /\ DealsOf(c) \subseteq Rows
        /\ Of(c, Live("collection"))' = Of(c, Live("collection"))
        /\ Of(c, Live("collection")) \subseteq Rows
        /\ Of(c, All("activity"))' = Of(c, All("activity"))
    BY <1>0, RowsStay DEF DealsOf, Of
  <2>2. \A a \in Of(c, All("activity")) : made[a] \in Instant
    BY DEF Of, All, Activities, TypeOK
  <2>3. \A a \in Of(c, All("activity")) : Ago(made[a], 10)'
    <3> TAKE a \in Of(c, All("activity"))
    <3>1. PICK t \in Instant : t = made[a] /\ t = made'[a]
      BY <1>0, <2>2
    <3> QED BY <1>1, <1>6, <3>1 DEF PendingClients
  <2>4. Busy(c)'
    BY <1>2, <1>6, <2>1 DEF PendingClients, Busy
  <2> QED BY <1>0, <1>6, <2>1, <2>3, <2>4 DEF PendingClients
<1>7. Home.clients \subseteq Home'.clients
  BY <1>6 DEF Home
<1>8. Kept(Home, Home')
  BY <1>3, <1>4, <1>5, <1>7 DEF Kept, Home
<1>9. ASSUME NEW x \in Live("deal"), StaleAt(x, hour) PROVE StaleAt(x, hour)'
  <2>1. PICK t \in Instant : t = touched[x] /\ t = touched'[x]
    BY <1>0 DEF Live, All, Stamped, TypeOK
  <2>2. Ago(t, 14)'
    BY <1>1, <1>9, <2>1 DEF StaleAt, Ago
  <2> QED BY <1>0, <1>2, <1>9, <2>1, <2>2 DEF StaleAt, Ago
<1>10. Alerts \subseteq Alerts'
  BY <1>0, <1>2, <1>9 DEF Alerts, AlertsAt, Elapsed
<1> QED BY <1>8, <1>10

LEMMA ClientsKeep ==
  ASSUME TypeOK, Pass, NEW c \in Clients
  PROVE  /\ BrokerStage(c)' = BrokerStage(c)
         /\ ServicesStage(c) = "renovacion_upsell" => ServicesStage(c)' = "renovacion_upsell"
         /\ Segment(c) = "inactiva" => Segment(c)' = "inactiva"
         /\ \A D : ChecklistGaps(c, D)' = ChecklistGaps(c, D)
         /\ ListedResident(c) = "cartera_vencida" => ListedResident(c)' = "cartera_vencida"
         /\ ListedResident(c) \in {"promesa_pago", "seguimiento"} =>
              ListedResident(c)' \in {"promesa_pago", "seguimiento", "cartera_vencida"}
<1>0. /\ clients' = clients /\ rows' = rows /\ DealsOf(c)' = DealsOf(c)
      /\ Of(c, Live("collection"))' = Of(c, Live("collection"))
      /\ Of(c, Live("collection")) \subseteq Rows
  BY RowsStay, SeenAreRows DEF DealsOf, Of
<1>1. BrokerStage(c)' = BrokerStage(c)
  BY <1>0 DEF BrokerStage, Written
<1>2. ServicesStage(c) = "renovacion_upsell" => ServicesStage(c)' = "renovacion_upsell"
  <2>1. Within(clients[c].renewal, 60) => Within(clients[c].renewal, 60)'
    BY <1>0, ClientFields, WindowsKeep DEF Within
  <2>2. \A s : WithStatus(DealsOf(c), s)' = WithStatus(DealsOf(c), s)
    BY <1>0 DEF WithStatus, Status
  <2> QED BY <1>0, <2>1, <2>2 DEF ServicesStage, Written
<1>3. Segment(c) = "inactiva" => Segment(c)' = "inactiva"
  <2>1. CASE clients[c].bought = NoDay
    BY <1>0, <2>1 DEF Segment, Written
  <2>2. CASE clients[c].bought \in Int
    BY <1>0, <2>2, RadarAssumption, WindowsKeep DEF Segment, Written
  <2> QED BY <2>1, <2>2, ClientFields
<1>4. \A D : ChecklistGaps(c, D)' = ChecklistGaps(c, D)
  BY <1>0 DEF ChecklistGaps, Of
<1>5. \A x \in Of(c, Live("collection")) :
        /\ Unpaid(x)' = Unpaid(x) /\ Status(x)' = Status(x)
        /\ Past(rows[x].due) => Past(rows[x].due)'
  BY <1>0, DatesStay DEF Unpaid
<1>6. /\ ListedResident(c) = "cartera_vencida" => ListedResident(c)' = "cartera_vencida"
      /\ ListedResident(c) \in {"promesa_pago", "seguimiento"} =>
           ListedResident(c)' \in {"promesa_pago", "seguimiento", "cartera_vencida"}
  BY <1>0, <1>5 DEF ListedResident, ResidentStatus, Written
<1> QED BY <1>1, <1>2, <1>3, <1>4, <1>6

LEMMA RanksKeep ==
  ASSUME TypeOK, Pass
  PROVE  /\ \A x \in Live("deliverable") : DeliverableRank(x)' <= DeliverableRank(x)
         /\ \A x \in Live("project") : HubRank(x)' <= HubRank(x)
<1>1. ASSUME NEW x \in Live("deliverable") PROVE DeliverableRank(x)' <= DeliverableRank(x)
  BY SeenAreRows, DatesStay DEF DeliverableRank
<1>2. ASSUME NEW x \in Live("project") PROVE HubRank(x)' <= HubRank(x)
  <2> DEFINE open == {e \in Seen("deliverable") : x \in rows[e].about /\ ~Completed(e)}
             soon == (\E e \in open : Within(rows[e].due, 7)) \/ Within(rows[x].due, 7)
  <2>1. open' = open /\ open \subseteq Rows /\ x \in Rows
    BY RowsStay, SeenAreRows, DatesStay
  <2>2. /\ WithStatus(open, "bloqueado")' = WithStatus(open, "bloqueado")
        /\ WithStatus(open, "por_validar")' = WithStatus(open, "por_validar")
        /\ Status(x)' = Status(x)
    BY <2>1, DatesStay DEF WithStatus
  <2>3. soon => soon'
    BY <2>1, DatesStay
  <2> HIDE DEF open, soon
  <2>4. HubRank(x) = IF WithStatus(open, "bloqueado") # {} THEN 0
                     ELSE IF WithStatus(open, "por_validar") # {} \/ Status(x) = "en_revision" THEN 1
                     ELSE IF soon THEN 2
                     ELSE IF Status(x) = "kickoff" THEN 3
                     ELSE IF Status(x) = "cerrado" THEN 6
                     ELSE IF open # {} THEN 4 ELSE 5
    BY DEF HubRank, ProjectRank, open, soon
  <2>5. HubRank(x)' = IF WithStatus(open, "bloqueado")' # {} THEN 0
                      ELSE IF WithStatus(open, "por_validar")' # {} \/ Status(x)' = "en_revision" THEN 1
                      ELSE IF soon' THEN 2
                      ELSE IF Status(x)' = "kickoff" THEN 3
                      ELSE IF Status(x)' = "cerrado" THEN 6
                      ELSE IF open' # {} THEN 4 ELSE 5
    BY DEF HubRank, ProjectRank, open, soon
  <2> QED BY <2>1, <2>2, <2>3, <2>4, <2>5
<1> QED BY <1>1, <1>2

LEMMA TonesKeep ==
  ASSUME TypeOK, Pass, NEW x \in Live("deal")
  PROVE  Tone(DealBadge(x)) <= Tone(DealBadge(x)') \/ DealBadge(x)' = "closes"
<1>1. /\ Past(rows[x].due) => Past(rows[x].due)'
      /\ Within(rows[x].due, 7) => Within(rows[x].due, 7)'
  BY SeenAreRows, DatesStay
<1>2. /\ Untouched(x, 10) => Untouched(x, 10)'
      /\ Untouched(x, 5) => Untouched(x, 5)'
  <2>1. /\ Touches(x)' = Touches(x) /\ made' = made /\ touched' = touched
        /\ touched[x].day \in Int /\ \A a \in Touches(x) : made[a].day \in Int
    <3>1. touched[x] \in Instant /\ \A a \in Touches(x) : made[a] \in Instant
      BY DEF Touches, Live, All, Stamped, Activities, TypeOK
    <3> QED BY <3>1, Clock, RowsStay DEF Touches
  <2>2. today \in Int /\ today' \in Int /\ today <= today'
    BY RadarAssumption DEF TypeOK, Pass
  <2>3. \A e \in Int : (e <= today - 10 => e <= today' - 10) /\ (e <= today - 5 => e <= today' - 5)
    <3>1. \A e \in Int, n \in Nat : e <= today - n => e <= today' - n
      BY <2>2, Later
    <3> QED BY <3>1
  <2> QED BY <2>1, <2>3 DEF Untouched
<1> QED BY <1>1, <1>2 DEF DealBadge, Tone

LEMMA Raised == ASSUME TypeOK, Pass PROVE RaisedOnly
<1>1. \A c \in SeenClients \cup LiveClients : c \in Clients
  BY DEF SeenClients, LiveClients
<1>2. Kept(BrokerHub, BrokerHub')
  <2>1. {c \in SeenClients : BrokerStage(c) = "renovacion"} \subseteq
          {c \in SeenClients : BrokerStage(c) = "renovacion"}'
    BY <1>1, RowsStay, ClientsKeep
  <2>2. ChecklistClients \subseteq ChecklistClients'
    BY <1>1, RowsStay, ClientsKeep DEF ChecklistClients
  <2> QED BY <2>1, <2>2, QueriesKeep DEF Kept, BrokerHub
<1>3. Kept(ServicesHub, ServicesHub')
  <2>1. {x \in Seen("deliverable") : NeedsAttention(x)} \subseteq
          {x \in Seen("deliverable") : NeedsAttention(x)}'
    BY RowsStay, SeenAreRows, DatesStay DEF NeedsAttention
  <2>2. ActiveProjects \subseteq ActiveProjects'
    BY RowsStay, SeenAreRows, DatesStay DEF ActiveProjects
  <2>3. ASSUME NEW c \in SeenClients
        PROVE  /\ WithStatus(DealsOf(c), "won")' = WithStatus(DealsOf(c), "won")
               /\ HubHandoff(c)' = HubHandoff(c)
    <3>1. WithStatus(DealsOf(c), "won")' = WithStatus(DealsOf(c), "won")
      BY RowsStay DEF WithStatus, DealsOf, Of, Status
    <3>2. /\ Of(c, Seen("document"))' = Of(c, Seen("document"))
          /\ Of(c, Seen("activity"))' = Of(c, Seen("activity"))
          /\ Of(c, Seen("deliverable"))' = Of(c, Seen("deliverable"))
          /\ rows' = rows /\ clients' = clients
      BY RowsStay DEF Of
    <3>3. HubHandoff(c)' = HubHandoff(c)
      BY <3>2 DEF HubHandoff, HandoffGaps
    <3> QED BY <3>1, <3>3
  <2>4. SeenClients' = SeenClients
    BY RowsStay
  <2> QED BY <2>1, <2>2, <2>3, <2>4 DEF Kept, ServicesHub
<1>4. Kept(CondominioHub, CondominioHub')
  <2>1. WithStatus(Seen("collection"), "promised")' = WithStatus(Seen("collection"), "promised")
    BY RowsStay DEF WithStatus, Status
  <2>2. {x \in Seen("incident") : ~Resolved(x)}' = {x \in Seen("incident") : ~Resolved(x)}
    BY RowsStay DEF Resolved, Status
  <2> QED BY <2>1, <2>2, QueriesKeep DEF Kept, CondominioHub
<1>5. Kept(Reports, Reports')
  BY QueriesKeep, ColdKeep DEF Kept, Reports
<1>6. Kept(ReportsOfPack, ReportsOfPack')
  <2>1. pack' = pack /\ Sees("document")' = Sees("document")
    BY RowsStay DEF Sees
  <2>2. ChecklistClients \subseteq ChecklistClients'
    BY <1>1, RowsStay, ClientsKeep DEF ChecklistClients
  <2>3. CASE pack = "broker"
    BY <2>1, <2>2, <2>3, QueriesKeep DEF Kept, ReportsOfPack
  <2>4. CASE pack # "broker"
    BY <2>1, <2>4, ColdKeep DEF Kept, ReportsOfPack
  <2> QED BY <2>3, <2>4
<1>7. RetailHub.inactive \subseteq RetailHub.inactive' /\ RetailHub.tasks \subseteq RetailHub.tasks'
  <2>1. {c \in SeenClients : Segment(c) = "inactiva"} \subseteq
          {c \in SeenClients : Segment(c) = "inactiva"}'
    BY <1>1, RowsStay, ClientsKeep
  <2> QED BY <2>1, QueriesKeep DEF RetailHub
<1>8. /\ ResidentsHub.overdue \subseteq ResidentsHub.overdue'
      /\ ResidentsHub.followed \subseteq ResidentsHub.followed' \cup ResidentsHub.overdue'
  <2>1. /\ ResidentsHub.overdue = {c \in SeenClients : ListedResident(c) = "cartera_vencida"}
        /\ ResidentsHub.followed =
             {c \in SeenClients : ListedResident(c) \in {"promesa_pago", "seguimiento"}}
    BY DEF ResidentsHub
  <2>2. /\ ResidentsHub.overdue' = {c \in SeenClients' : ListedResident(c)' = "cartera_vencida"}
        /\ ResidentsHub.followed' =
             {c \in SeenClients' : ListedResident(c)' \in {"promesa_pago", "seguimiento"}}
    BY DEF ResidentsHub
  <2> QED BY <1>1, <2>1, <2>2, RowsStay, ClientsKeep
<1>9. \A c \in LiveClients :
        ServicesStage(c) = "renovacion_upsell" => ServicesStage(c)' = "renovacion_upsell"
  BY <1>1, ClientsKeep
<1> QED BY <1>2, <1>3, <1>4, <1>5, <1>6, <1>7, <1>8, <1>9, HomeKeep, RanksKeep, TonesKeep
    DEF RaisedOnly

(* Nobody silences an alert by waiting: only a resident who is followed    *)
(* leaves a list, for that of those who owe; the regular customers of a    *)
(* shop are no alert (TimeOnlyRaises).                                     *)
THEOREM TimeAlwaysRaises == Spec => TimeOnlyRaises
<1>1. TypeOK /\ [Next]_vars => [Pass => RaisedOnly]_vars
  BY Raised
<1> QED BY <1>1, TypeCorrect, PTL DEF Spec, TimeOnlyRaises

-----------------------------------------------------------------------------
(* The figures of the dashboard, where requests count and keep them.       *)
LEMMA HomeMoves == HomeNext => [Next]_vars
<1>1. ASSUME NEW x \in Rows, NEW v \in Forms[x], HomeSave(x, v) PROVE Next
  BY <1>1 DEF HomeSave, Next
<1>2. ASSUME NEW c \in Clients, NEW v \in Cards[c], HomeSaveClient(c, v) PROVE Next
  BY <1>2 DEF HomeSaveClient, Next
<1>3. CASE HomePass
  BY <1>3 DEF HomePass, Next
<1>4. ASSUME NEW q \in Requests, CountHome(q) \/ KeepHome(q) PROVE UNCHANGED vars
  BY <1>4 DEF CountHome, KeepHome
<1>5. ASSUME NEW k \in DOMAIN kept, Forget(k) PROVE UNCHANGED vars
  BY <1>5 DEF Forget
<1> QED BY <1>1, <1>2, <1>3, <1>4, <1>5 DEF HomeNext

LEMMA FiguresType == \A h : FiguresAt(h) \in Sheet
<1> TAKE h
<1>1. \A t : Live(t) \subseteq Rows
  BY SeenAreRows
<1>2. AlertsAt(h) \subseteq Rows /\ LiveClients \subseteq Clients
  BY <1>1 DEF AlertsAt, LiveClients
<1>3. ByColumn \in [Columns -> SUBSET Rows] /\ FirstBoard \subseteq Rows
  BY <1>1 DEF ByColumn, FirstBoard, WithStatus
<1> QED BY <1>1, <1>2, <1>3 DEF FiguresAt, Sheet

(* What has come due by an hour of the day has by a later one.             *)
LEMMA LaterAlerts ==
  ASSUME TypeOK, NEW h \in Int, h <= hour
  PROVE  AlertsAt(h) \subseteq Alerts
<1>1. \A t \in Instant, n \in Nat : AgoAt(t, n, h) => AgoAt(t, n, hour)
  BY Clock DEF AgoAt
<1>2. \A x \in Live("deal") : StaleAt(x, h) => StaleAt(x, hour)
  <2>1. \A x \in Live("deal") : touched[x] \in Instant
    BY DEF Live, All, Stamped, TypeOK
  <2> QED BY <1>1, <2>1 DEF StaleAt
<1>3. \A x \in Rows : ElapsedAt(x, h) => ElapsedAt(x, hour)
  BY <1>1, DueInstant DEF ElapsedAt
<1> QED BY <1>2, <1>3, SeenAreRows DEF Alerts, AlertsAt

(* A count is as old as its day and hour, and as new as its rows.          *)
Sound(count) ==
  /\ count.day <= today
  /\ count.day = today =>
       /\ count.hour <= hour
       /\ ~count.since => count.figures = FiguresAt(count.hour)

HomeInv ==
  /\ TypeOK /\ HomeTypeOK
  /\ \A k \in DOMAIN kept : kept[k].day = k /\ Sound(kept[k])
  /\ \A q \in Requests : counting[q] # NoFigures => Sound(counting[q])

(* Without a save or a new day, the figures of each hour stay.             *)
LEMMA FiguresStay ==
  ASSUME rows' = rows, clients' = clients, touched' = touched, today' = today, NEW h
  PROVE  FiguresAt(h)' = FiguresAt(h)
<1>1. /\ \A t : Live(t)' = Live(t)
      /\ \A x : Open(x)' = Open(x) /\ Status(x)' = Status(x) /\ StaleAt(x, h)' = StaleAt(x, h)
      /\ \A x : Unpaid(x)' = Unpaid(x) /\ ElapsedAt(x, h)' = ElapsedAt(x, h)
      /\ \A d, n : Within(d, n)' = Within(d, n) /\ Past(d)' = Past(d)
      /\ LiveClients' = LiveClients
  BY DEF Live, All, Open, Status, StaleAt, ElapsedAt, AgoAt, Within, Past, LiveClients, Unpaid
<1>2. AlertsAt(h)' = AlertsAt(h)
  BY <1>1 DEF AlertsAt
<1>3. ByColumn' = ByColumn /\ FirstBoard' = FirstBoard
  BY <1>1 DEF ByColumn, FirstBoard, WithStatus
<1> QED BY <1>1, <1>2, <1>3 DEF FiguresAt

LEMMA SoundStays ==
  ASSUME UNCHANGED vars, NEW count
  PROVE  Sound(count)' <=> Sound(count)
<1>1. /\ rows' = rows /\ clients' = clients /\ touched' = touched
      /\ today' = today /\ hour' = hour
  BY DEF vars
<1>2. \A h : FiguresAt(h)' = FiguresAt(h)
  BY <1>1, FiguresStay
<1> QED BY <1>1, <1>2 DEF Sound

LEMMA HomeInvInit == HomeInit => HomeInv
<1> SUFFICES ASSUME HomeInit PROVE HomeInv
  OBVIOUS
<1>1. TypeOK
  BY TypeInit DEF HomeInit
<1>2. DOMAIN kept = {} /\ kept \in [{} -> Count]
  BY DEF HomeInit
<1> QED BY <1>1, <1>2 DEF HomeInit, HomeInv, HomeTypeOK

(* What saving a row or a client leaves of the counts.                     *)
LEMMA SavedKeeps ==
  ASSUME HomeInv, SavedSince, TypeOK', today' = today, hour' = hour
  PROVE  HomeInv'
<1>1. /\ \A k \in DOMAIN kept : kept[k] \in Count
      /\ \A q \in Requests : counting[q] # NoFigures => counting[q] \in Count
  BY DEF HomeInv, HomeTypeOK
<1>2. \A count \in Count :
        LET saved == [count EXCEPT !.since = TRUE] IN
          /\ saved \in Count /\ saved.since
          /\ saved.day = count.day /\ saved.hour = count.hour
  BY DEF Count
<1>3. DOMAIN kept' = DOMAIN kept /\ \A k \in DOMAIN kept : kept'[k] = [kept[k] EXCEPT !.since = TRUE]
  BY DEF SavedSince
<1>4. \A q \in Requests : counting[q] # NoFigures => counting'[q] = [counting[q] EXCEPT !.since = TRUE]
  BY DEF SavedSince
<1>5. kept' \in [DOMAIN kept' -> Count] /\ counting' \in [Requests -> Count \cup {NoFigures}]
  BY <1>1, <1>2 DEF SavedSince
<1>6. \A q \in Requests : counting'[q] # NoFigures => counting[q] # NoFigures
  BY DEF SavedSince
<1>7. HomeTypeOK'
  BY <1>3, <1>5 DEF HomeInv, HomeTypeOK
<1>8. ASSUME NEW k \in DOMAIN kept' PROVE kept'[k].day = k /\ Sound(kept[k])'
  <2>1. k \in DOMAIN kept /\ kept'[k] = [kept[k] EXCEPT !.since = TRUE]
    BY <1>3
  <2>2. /\ kept'[k].day = kept[k].day /\ kept'[k].hour = kept[k].hour
        /\ kept'[k].since
    BY <1>1, <1>2, <2>1
  <2>3. kept[k].day = k /\ Sound(kept[k])
    BY <2>1 DEF HomeInv
  <2> QED BY <2>2, <2>3 DEF Sound
<1>9. ASSUME NEW q \in Requests, counting'[q] # NoFigures
      PROVE  Sound(counting[q])'
  <2>1. counting[q] \in Count /\ counting'[q] = [counting[q] EXCEPT !.since = TRUE]
    BY <1>1, <1>4, <1>6, <1>9
  <2>2. /\ counting'[q].day = counting[q].day /\ counting'[q].hour = counting[q].hour
        /\ counting'[q].since
    BY <1>2, <2>1
  <2>3. Sound(counting[q])
    BY <1>6, <1>9 DEF HomeInv
  <2> QED BY <2>2, <2>3 DEF Sound
<1> QED BY <1>7, <1>8, <1>9 DEF HomeInv, Sound

LEMMA SoundPasses ==
  ASSUME TypeOK, TypeOK', Pass, NEW count \in Count, Sound(count)
  PROVE  Sound(count)'
<1>1. /\ today \in Int /\ hour \in Int /\ today' \in Int /\ hour' \in Int
      /\ count.day \in Int /\ count.hour \in Int
      /\ today < today' \/ (today = today' /\ hour < hour')
  BY Clock, RadarAssumption DEF Pass, TypeOK, Hours, Count
<1>2. CASE today < today'
  BY <1>1, <1>2 DEF Sound
<1>3. CASE today = today' /\ hour < hour'
  <2>1. \A h : FiguresAt(h)' = FiguresAt(h)
    BY <1>3, FiguresStay DEF Pass
  <2> QED BY <1>1, <1>3, <2>1 DEF Sound
<1> QED BY <1>1, <1>2, <1>3

LEMMA HomeInvStep == HomeInv /\ [HomeNext]_<<vars, homeVars>> => HomeInv'
<1> SUFFICES ASSUME HomeInv, [HomeNext]_<<vars, homeVars>> PROVE HomeInv'
  OBVIOUS
<1>0. TypeOK' /\ today \in Int
  <2>1. [Next]_vars
    BY HomeMoves DEF homeVars
  <2> QED BY <2>1, TypeStep DEF HomeInv, TypeOK
<1>1. ASSUME NEW x \in Rows, NEW v \in Forms[x], HomeSave(x, v) PROVE HomeInv'
  BY <1>0, <1>1, SavedKeeps DEF HomeSave, Save
<1>2. ASSUME NEW c \in Clients, NEW v \in Cards[c], HomeSaveClient(c, v) PROVE HomeInv'
  BY <1>0, <1>2, SavedKeeps DEF HomeSaveClient, SaveClient
<1>3. CASE HomePass
  <2>1. kept' = kept /\ counting' = counting
    BY <1>3 DEF HomePass, homeVars
  <2>2. HomeTypeOK'
    BY <2>1 DEF HomeInv, HomeTypeOK
  <2>3. ASSUME NEW count \in Count, Sound(count) PROVE Sound(count)'
    BY <1>0, <1>3, <2>3, SoundPasses DEF HomePass, HomeInv
  <2>4. \A k \in DOMAIN kept : kept[k].day = k /\ Sound(kept[k])'
    <3> TAKE k \in DOMAIN kept
    <3>1. PICK count \in Count : count = kept[k] /\ count = kept'[k]
      BY <2>1 DEF HomeInv, HomeTypeOK
    <3>2. kept[k].day = k /\ Sound(count)
      BY <3>1 DEF HomeInv
    <3> QED BY <2>3, <3>1, <3>2
  <2>5. \A q \in Requests : counting[q] # NoFigures => Sound(counting[q])'
    <3> SUFFICES ASSUME NEW q \in Requests, counting[q] # NoFigures PROVE Sound(counting[q])'
      OBVIOUS
    <3>1. PICK count \in Count : count = counting[q] /\ count = counting'[q]
      BY <2>1 DEF HomeInv, HomeTypeOK
    <3>2. Sound(count)
      BY <3>1 DEF HomeInv
    <3> QED BY <2>3, <3>1, <3>2
  <2> QED BY <1>0, <2>1, <2>2, <2>4, <2>5 DEF HomeInv
<1>4. ASSUME NEW q \in Requests, CountHome(q) PROVE HomeInv'
  <2> DEFINE new == [day |-> Key, hour |-> hour, figures |-> Figures, since |-> FALSE]
  <2>1. /\ new \in Count /\ Sound(new)
    <3>1. hour \in Hours /\ hour \in Int /\ Figures \in Sheet
      BY FiguresType, Clock DEF HomeInv, TypeOK, Figures
    <3> QED BY <1>0, <3>1 DEF Count, Sound, Key, Figures
  <2>2. kept' = kept /\ counting' = [counting EXCEPT ![q] = new] /\ UNCHANGED vars
    BY <1>4 DEF CountHome
  <2>3. \A count : Sound(count)' <=> Sound(count)
    BY <2>2, SoundStays
  <2> HIDE DEF new
  <2>4. HomeTypeOK'
    BY <2>1, <2>2 DEF HomeInv, HomeTypeOK
  <2>5. \A p \in Requests : counting'[p] = IF p = q THEN new ELSE counting[p]
    BY <2>2 DEF HomeInv, HomeTypeOK
  <2>6. \A p \in Requests : counting'[p] # NoFigures => Sound(counting'[p])
    BY <2>1, <2>5 DEF HomeInv
  <2>7. \A k \in DOMAIN kept' : kept'[k].day = k /\ Sound(kept'[k])
    BY <2>2 DEF HomeInv
  <2> QED BY <1>0, <2>3, <2>4, <2>6, <2>7 DEF HomeInv
<1>5. ASSUME NEW q \in Requests, KeepHome(q) PROVE HomeInv'
  <2> DEFINE new == counting[q]
  <2>1. new \in Count /\ Sound(new)
    BY <1>5 DEF KeepHome, HomeInv, HomeTypeOK
  <2>2. /\ kept' = [k \in DOMAIN kept \cup {new.day} |-> IF k = new.day THEN new ELSE kept[k]]
        /\ counting' = [counting EXCEPT ![q] = NoFigures] /\ UNCHANGED vars
    BY <1>5 DEF KeepHome
  <2>3. \A count : Sound(count)' <=> Sound(count)
    BY <2>2, SoundStays
  <2>4. new.day \in Int
    BY <2>1 DEF Count
  <2> HIDE DEF new
  <2>5. HomeTypeOK'
    BY <2>1, <2>2, <2>4 DEF HomeInv, HomeTypeOK
  <2>6. \A p \in Requests : counting'[p] = IF p = q THEN NoFigures ELSE counting[p]
    BY <2>2 DEF HomeInv, HomeTypeOK
  <2>7. \A p \in Requests : counting'[p] # NoFigures => Sound(counting'[p])
    BY <2>6 DEF HomeInv
  <2>8. \A k \in DOMAIN kept' : kept'[k].day = k /\ Sound(kept'[k])
    BY <2>1, <2>2 DEF HomeInv
  <2> QED BY <1>0, <2>3, <2>5, <2>7, <2>8 DEF HomeInv
<1>6. ASSUME NEW j \in DOMAIN kept, Forget(j) PROVE HomeInv'
  <2>1. kept' = [k \in DOMAIN kept \ {j} |-> kept[k]] /\ counting' = counting /\ UNCHANGED vars
    BY <1>6 DEF Forget
  <2>2. \A count : Sound(count)' <=> Sound(count)
    BY <2>1, SoundStays
  <2>3. HomeTypeOK'
    BY <2>1 DEF HomeInv, HomeTypeOK
  <2>4. \A k \in DOMAIN kept' : kept'[k].day = k /\ Sound(kept'[k])
    BY <2>1 DEF HomeInv
  <2>5. \A q \in Requests : counting'[q] # NoFigures => Sound(counting'[q])
    BY <2>1 DEF HomeInv
  <2> QED BY <1>0, <2>2, <2>3, <2>4, <2>5 DEF HomeInv
<1>7. CASE UNCHANGED <<vars, homeVars>>
  <2>1. kept' = kept /\ counting' = counting /\ UNCHANGED vars
    BY <1>7 DEF homeVars
  <2>2. \A count : Sound(count)' <=> Sound(count)
    BY <2>1, SoundStays
  <2>3. HomeTypeOK'
    BY <2>1 DEF HomeInv, HomeTypeOK
  <2> QED BY <1>0, <2>1, <2>2, <2>3 DEF HomeInv
<1> QED BY <1>1, <1>2, <1>3, <1>4, <1>5, <1>6, <1>7 DEF HomeNext

(* The figures of the dashboard lag behind the rows only after a save, or  *)
(* for the tasks and deals whose instant came since the count, and not     *)
(* when midnight comes between a count and what it keeps                   *)
(* (OnlySavesAndInstantsLag).                                              *)
THEOREM LagAlwaysExplained == HomeSpec => []OnlySavesAndInstantsLag
<1>1. ASSUME HomeInv, Key \in DOMAIN kept, ~kept[Key].since
      PROVE  Shown = FiguresAt(kept[Key].hour) /\ Shown.alerts \subseteq Figures.alerts
  <2>1. TypeOK /\ kept[Key] \in Count /\ kept[Key].day = today /\ Sound(kept[Key])
    BY <1>1 DEF HomeInv, HomeTypeOK, Key
  <2>2. /\ kept[Key].hour \in Int /\ kept[Key].hour <= hour
        /\ Shown = FiguresAt(kept[Key].hour)
    BY <1>1, <2>1, RadarAssumption DEF Sound, Shown, Count, Hours
  <2>3. \A h : FiguresAt(h).alerts = AlertsAt(h)
    BY DEF FiguresAt
  <2>4. AlertsAt(kept[Key].hour) \subseteq Alerts
    BY <2>1, <2>2, LaterAlerts
  <2> QED BY <2>2, <2>3, <2>4 DEF Figures, Alerts
<1>2. HomeInv => OnlySavesAndInstantsLag
  BY <1>1 DEF OnlySavesAndInstantsLag
<1> QED BY <1>2, HomeInvInit, HomeInvStep, PTL DEF HomeSpec
=============================================================================
