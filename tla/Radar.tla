-------------------------------- MODULE Radar -------------------------------
(***************************************************************************)
(* What the CRM says about the rows of a company as days go by: the        *)
(* badges, stages, ranks, gaps and alerts of binncrm/views.py.  No task    *)
(* recomputes them: every page works them out from the rows and from       *)
(* today, some in a query and some in Python.                              *)
(*                                                                         *)
(* A row is what a form, an import or a click left in it: Save stands for  *)
(* all of these, whose own steps are in modules Records and DealBoard.  An *)
(* instant is a day and an hour of it.  Rows of custom objects refer to    *)
(* clients and projects by tokens of text, so to any number of them.       *)
(***************************************************************************)
EXTENDS Integers, FiniteSets

CONSTANTS Clients,   \* the Entity rows
          Rows,      \* all other rows
          Table,     \* the model, or the schema of custom objects, of each row
          NoDay,     \* an empty date
          Words,     \* the types, statuses and stages that are written
          Forms,     \* bound: what is saved in each row
          Cards,     \* bound: what is saved of each client
          Packs,     \* bound: the profiles of the company
          Viewers,   \* bound: the modules the user is let into
          FirstDay, Days,  \* bound: the days somebody looks
          LastHour         \* bound: how fine a day is

Objects == {"policy", "project", "deliverable", "incident", "wishlist"}
Tables == {"deal", "activity", "proposal", "collection", "document"} \cup Objects
Presence == {"none", "off", "on"}
Day == Int \cup {NoDay}
Hours == 0 .. LastHour
Instant == [day : Int, hour : Hours]

(* due is the date of the row, of an activity with the hour at, and review *)
(* a second date, of a promise or a review; kind is the type, and of a     *)
(* deal its board; says is which of its texts hold a word somebody seeks.  *)
Row == [is : Presence, of : SUBSET Clients, about : SUBSET Rows, kind : Words,
        status : Words, due : Day, at : Hours, review : Day, says : SUBSET {"title", "text"}]

(* stage is the stage, state or segment written on the client, if any.     *)
Client == [is : Presence, stage : Words, renewal : Day, bought : Day,
           insured : BOOLEAN, vehicle : BOOLEAN, says : SUBSET {"name", "text"}]

ASSUME RadarAssumption ==
  /\ NoDay \notin Int /\ "none" \in Words
  /\ FirstDay \in Int /\ Days \subseteq Int /\ LastHour \in Nat
  /\ \A x \in Rows : Table[x] \in Tables /\ Forms[x] \subseteq Row
  /\ \A c \in Clients : Cards[c] \subseteq Client

VARIABLES pack, sees,   \* the profile, and what the user sees: they stay
          today, hour, rows, clients,
          made, touched   \* created_at and updated_at, where a page reads them

Activities == {x \in Rows : Table[x] = "activity"}
Stamped == {x \in Rows : Table[x] = "deal"} \cup Clients

vars == <<pack, sees, today, hour, rows, clients, made, touched>>
Moment == [day |-> today, hour |-> hour]

TypeOK ==
  /\ pack \in Packs /\ sees \in Viewers
  /\ today \in Int /\ hour \in Hours
  /\ rows \in [Rows -> Row]
  /\ clients \in [Clients -> Client]
  /\ made \in [Activities -> Instant]
  /\ touched \in [Stamped -> Instant]

NoRow == [is |-> "none", of |-> {}, about |-> {}, kind |-> "none", status |-> "none",
          due |-> NoDay, at |-> 0, review |-> NoDay, says |-> {}]
NoClient == [is |-> "none", stage |-> "none", renewal |-> NoDay, bought |-> NoDay,
             insured |-> FALSE, vehicle |-> FALSE, says |-> {}]

Init ==
  /\ pack \in Packs /\ sees \in Viewers
  /\ today = FirstDay /\ hour = 0
  /\ rows = [x \in Rows |-> NoRow]
  /\ clients = [c \in Clients |-> NoClient]
  /\ made = [x \in Activities |-> Moment]
  /\ touched = [x \in Stamped |-> Moment]

(* A row belongs to clients and rows that are there; only the texts of a   *)
(* custom object may name one that is not yet.                             *)
Save(x, v) ==
  /\ v \in Forms[x]
  /\ Table[x] \notin Objects =>
       /\ \A c \in v.of : clients[c].is # "none"
       /\ \A y \in v.about : rows[y].is # "none"
  /\ rows' = [rows EXCEPT ![x] = v]
  /\ made' = IF x \in Activities /\ rows[x].is = "none"
               THEN [made EXCEPT ![x] = Moment] ELSE made
  /\ touched' = IF x \in Stamped THEN [touched EXCEPT ![x] = Moment] ELSE touched
  /\ UNCHANGED <<pack, sees, today, hour, clients>>

SaveClient(c, v) ==
  /\ v \in Cards[c]
  /\ clients' = [clients EXCEPT ![c] = v]
  /\ touched' = [touched EXCEPT ![c] = Moment]
  /\ UNCHANGED <<pack, sees, today, hour, rows, made>>

(* Time goes by, an hour or many days.                                     *)
Pass ==
  /\ today' \in Days /\ hour' \in Hours
  /\ today < today' \/ (today = today' /\ hour < hour')
  /\ UNCHANGED <<pack, sees, rows, clients, made, touched>>

Next ==
  \/ \E x \in Rows : \E v \in Forms[x] : Save(x, v)
  \/ \E c \in Clients : \E v \in Cards[c] : SaveClient(c, v)
  \/ Pass

Spec == Init /\ [][Next]_vars

-----------------------------------------------------------------------------
Past(d) == d # NoDay /\ d < today
Within(d, n) == d # NoDay /\ d <= today + n

(* Instants, more than n days before hour h of today.                      *)
AgoAt(t, n, h) == t.day < today - n \/ (t.day = today - n /\ t.hour < h)
Ago(t, n) == AgoAt(t, n, hour)

Status(x) == rows[x].status
All(t) == {x \in Rows : Table[x] = t /\ rows[x].is # "none"}
Live(t) == {x \in All(t) : rows[x].is = "on"}
LiveClients == {c \in Clients : clients[c].is = "on"}
Of(c, S) == {x \in S : c \in rows[x].of}
WithStatus(S, s) == {x \in S : Status(x) = s}

(* Deals and activities are open until they are won, lost or done.         *)
Open(x) == Status(x) = "open"

ElapsedAt(x, h) ==
  rows[x].due # NoDay /\ AgoAt([day |-> rows[x].due, hour |-> rows[x].at], 0, h)
Elapsed(x) == ElapsedAt(x, hour)

TaskBadge(x) ==
  IF ~Open(x) THEN "done"
  ELSE IF Elapsed(x) THEN "overdue"
  ELSE IF rows[x].due = NoDay THEN "undated"
  ELSE "due"

ProposalBadge(x) ==
  IF Status(x) \in {"draft", "sent"} /\ Past(rows[x].due) THEN "lapsed" ELSE "standing"

Unpaid(x) == Status(x) # "paid"

CollectionBadge(x) ==
  IF ~Unpaid(x) THEN "paid"
  ELSE IF Past(rows[x].due) THEN "overdue"
  ELSE IF Status(x) = "promised" /\ rows[x].review # NoDay THEN "promise"
  ELSE IF rows[x].due # NoDay THEN "due"
  ELSE "plain"

(* The badge on the board: whatever is unpaid and late is overdue, and the *)
(* rest goes by its column.                                                *)
CollectionHealth(x) ==
  IF CollectionBadge(x) = "overdue" THEN "overdue"
  ELSE IF Status(x) = "promised" THEN "promise"
  ELSE "fine"

(* _document_expiry_status and _broker_policy_status                       *)
ExpiryBadge(d) ==
  IF d = NoDay THEN "undated"
  ELSE IF Past(d) THEN "expired"
  ELSE IF Within(d, 30) THEN "soon"
  ELSE "valid"

DocumentBadge(x) == ExpiryBadge(rows[x].due)
PolicyBadge(x) == ExpiryBadge(rows[x].due)

(* The last touch of a deal is its last activity, and only without any the *)
(* last change of the deal itself; the board counts whole days.            *)
Touches(x) == {a \in All("activity") : x \in rows[a].about}
Untouched(x, n) ==
  IF Touches(x) = {} THEN touched[x].day <= today - n
                     ELSE \A a \in Touches(x) : made[a].day <= today - n

DealBadge(x) ==
  IF Past(rows[x].due) THEN "late"
  ELSE IF Within(rows[x].due, 7) THEN "closes"
  ELSE IF Untouched(x, 10) THEN "untouched"
  ELSE IF Untouched(x, 5) THEN "cold"
  ELSE "active"

-----------------------------------------------------------------------------
(* The stage of a client: what is written on it, or else what its rows say. *)
DealsOf(c) == Of(c, Live("deal"))

Written(c, stages, rest) == IF clients[c].stage \in stages THEN clients[c].stage ELSE rest

BrokerStage(c) ==
  Written(c, {"lead", "asegurado", "renovacion"},
    IF DealsOf(c) # {} THEN "renovacion"
    ELSE IF clients[c].insured THEN "asegurado"
    ELSE "lead")

ServicesStage(c) ==
  Written(c, {"prospecto", "cliente_activo", "renovacion_upsell"},
    IF Within(clients[c].renewal, 60) THEN "renovacion_upsell"
    ELSE IF WithStatus(DealsOf(c), "won") = {} THEN "prospecto"
    ELSE IF WithStatus(DealsOf(c), "open") # {} THEN "renovacion_upsell"
    ELSE "cliente_activo")

(* S are the collections of the client the page counts.                    *)
ResidentStatus(c, S) ==
  Written(c, {"al_dia", "seguimiento", "promesa_pago", "cartera_vencida"},
    IF \E x \in S : Unpaid(x) /\ Past(rows[x].due) THEN "cartera_vencida"
    ELSE IF \E x \in S : Status(x) = "promised" THEN "promesa_pago"
    ELSE IF \E x \in S : Unpaid(x) THEN "seguimiento"
    ELSE "al_dia")

Segment(c) ==
  Written(c, {"vip", "frecuente", "ocasional", "inactiva"},
    IF clients[c].bought = NoDay THEN "ocasional"
    ELSE IF clients[c].bought <= today - 90 THEN "inactiva"
    ELSE IF clients[c].bought >= today - 35 THEN "frecuente"
    ELSE "ocasional")

(* What a client still lacks, by the rows the page has at hand.  A meeting *)
(* whose title says so is a kickoff.                                       *)
ChecklistGaps(c, documents) ==
  ({"poliza", "cedula"} \cup (IF clients[c].vehicle THEN {"matricula", "inspeccion"} ELSE {}))
    \ {rows[x].kind : x \in Of(c, documents)}

HandoffGaps(c, documents, activities, deliverables) ==
  {g \in {"contract", "kickoff", "backlog", "renewal"} :
     CASE g = "contract" -> \A x \in Of(c, documents) : rows[x].kind # "contrato_servicio"
       [] g = "kickoff"  -> /\ \A x \in Of(c, documents) : rows[x].kind # "kickoff"
                            /\ \A x \in Of(c, activities) : rows[x].kind # "kickoff"
       [] g = "backlog"  -> Of(c, deliverables) = {}
       [] g = "renewal"  -> clients[c].renewal = NoDay}

-----------------------------------------------------------------------------
Completed(x) == Status(x) \in {"entregado", "cerrado", "completado", "completa", "done"}
Resolved(x) == Status(x) \in {"resuelta", "cerrada", "cerrado", "closed", "done"}

NeedsAttention(x) ==
  /\ ~Completed(x)
  /\ \/ Status(x) \in {"bloqueado", "por_validar"}
     \/ Within(rows[x].due, 7)
     \/ Within(rows[x].review, 7)

(* Lists are sorted by rank, the lowest first.                             *)
DeliverableRank(x) ==
  IF Status(x) = "bloqueado" THEN 0
  ELSE IF Past(rows[x].due) THEN 1
  ELSE IF Status(x) = "por_validar" THEN 2
  ELSE IF Within(rows[x].review, 7) \/ Within(rows[x].due, 7) THEN 3
  ELSE 4

(* Mutant: a project waits for review only by its own status.              *)
ProjectRankOwnReview(x, deliverables) ==
  LET open == {d \in deliverables : x \in rows[d].about /\ ~Completed(d)} IN
    IF WithStatus(open, "bloqueado") # {} THEN 0
    ELSE IF Status(x) = "en_revision" THEN 1
    ELSE IF (\E d \in open : Within(rows[d].due, 7)) \/ Within(rows[x].due, 7) THEN 2
    ELSE IF Status(x) = "kickoff" THEN 3
    ELSE IF Status(x) = "cerrado" THEN 6
    ELSE IF open # {} THEN 4
    ELSE 5

ProjectRank(x, deliverables) ==
  LET open == {d \in deliverables : x \in rows[d].about /\ ~Completed(d)} IN
    IF WithStatus(open, "bloqueado") # {} THEN 0
    ELSE IF WithStatus(open, "por_validar") # {} \/ Status(x) = "en_revision" THEN 1
    ELSE IF (\E d \in open : Within(rows[d].due, 7)) \/ Within(rows[x].due, 7) THEN 2
    ELSE IF Status(x) = "kickoff" THEN 3
    ELSE IF Status(x) = "cerrado" THEN 6
    ELSE IF open # {} THEN 4
    ELSE 5

(* A deliverable that is late, blocked or to be validated is seen on its   *)
(* project: the project is listed at least as near the top as one about to *)
(* close (_build_service_project_report_item and                           *)
(* _build_service_deliverable_report_item decide each on its own).         *)
ProjectsShowTheirWorst ==
  \A d \in Live("deliverable") : \A p \in rows[d].about \cap Live("project") :
    ~Completed(d) /\ DeliverableRank(d) <= 2 => ProjectRank(p, Live("deliverable")) <= 2
=============================================================================
