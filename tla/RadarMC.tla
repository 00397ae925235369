------------------------------- MODULE RadarMC ------------------------------
(* The scenes: which rows each profile is looked at with, two or three at  *)
(* a time.  Their dates are at the edges of the windows, so that the days  *)
(* that go by cross each of them; the tasks of a client are also looked at *)
(* later in a day.  The last scenes keep the figures of the dashboard,     *)
(* from one hour and one day to another.                                   *)
EXTENDS RadarHome

CONSTANTS c1, c2, h1, h2

d(n) == FirstDay + n

MCTable ==
  [deal |-> "deal", call |-> "activity", task |-> "activity", bid |-> "proposal",
   bill |-> "collection", debt |-> "collection", paper |-> "document", policy |-> "policy",
   project |-> "project", part |-> "deliverable", piece |-> "deliverable",
   fault |-> "incident", wish |-> "wishlist", want |-> "wishlist"]
MCRows == DOMAIN MCTable

A(kind, status, due) ==
  [NoRow EXCEPT !.is = "on", !.of = {c1}, !.kind = kind, !.status = status, !.due = due]
Archived(v) == [v EXCEPT !.is = "off"]
On(v, x) == [v EXCEPT !.about = {x}]
Saying(v, what) == [v EXCEPT !.says = {what}]
Ours(v) == [v EXCEPT !.of = {c1, c2}]

Bills == {A("none", "pending", d(7)), Saying(A("none", "promised", d(14)), "text"),
          [On(A("none", "promised", NoDay), "deal") EXCEPT !.review = d(8)],
          A("none", "paid", d(7)), Archived(A("none", "overdue", d(0)))}
Parts == {On(A("none", "en_curso", d(15)), "project"),
          On(A("none", "por_validar", NoDay), "project"),
          [Ours(A("none", "bloqueado", d(7))) EXCEPT !.about = {"project"}],
          [On(A("none", "en_curso", NoDay), "project") EXCEPT !.review = d(14)],
          On(A("none", "entregado", d(0)), "project")}
Wishes == {A("none", "vigente", NoDay), Ours(A("none", "none", NoDay))}

MCForms ==
  [deal |-> {Saying(A("first", "open", NoDay), "title"), A("first", "open", d(37)),
             A("first", "won", d(22)), Saying(A("other", "open", d(15)), "title")},
   call |-> {On(A("claim", "open", NoDay), "deal"), A("kickoff", "done", NoDay),
             On(Saying(A("whatsapp", "open", d(7)), "text"), "deal")},
   task |-> {A("task", "open", d(7)), A("task", "done", d(7)), A("task", "open", NoDay),
             Saying(A("task", "open", d(47)), "title"), A("task", "open", d(14))},
   bid |-> {A("none", "draft", d(14)), On(A("none", "sent", d(8)), "deal"),
            A("none", "accepted", d(0)), Saying(A("none", "sent", NoDay), "title")},
   bill |-> Bills, debt |-> {A("none", "pending", d(8)), Archived(A("none", "pending", d(0)))},
   paper |-> {A("poliza", "none", d(37)), Saying(A("contrato_servicio", "none", d(46)), "text"),
              Archived(A("kickoff", "none", NoDay)), A("cedula", "none", d(14))},
   policy |-> {A("none", "none", d(45)), A("none", "none", d(53)), A("none", "none", NoDay)},
   project |-> {A("none", "en_curso", d(54)), A("none", "en_revision", NoDay),
                A("none", "kickoff", d(14)), A("none", "cerrado", d(22))},
   part |-> Parts,
   piece |-> {On(A("none", "por_validar", d(54)), "project"), A("none", "en_curso", d(22))},
   fault |-> {A("none", "abierta", NoDay), A("none", "resuelta", NoDay)},
   wish |-> Wishes, want |-> Wishes]

Plain == [NoClient EXCEPT !.is = "on"]
MCCards ==
  [c \in {c1, c2} |->
     IF c = c2 THEN {Plain}
     ELSE {Plain, [Plain EXCEPT !.is = "off"],
           [Plain EXCEPT !.renewal = d(67), !.bought = d(-50), !.vehicle = TRUE,
                    !.says = {"name"}],
           [Plain EXCEPT !.bought = d(-20), !.insured = TRUE, !.says = {"text"}],
           [Plain EXCEPT !.stage = "al_dia"], [Plain EXCEPT !.stage = "vip"]}]

MCWords == STRING
MCDays == {d(0), d(7), d(14), d(15), d(47)}
Everything == {"client", "object", "deal", "activity", "proposal", "collection", "document"}
MCViewers == {Everything, Everything \ {"collection", "document"}}

Scenes ==
  [broker      |-> {{c1, "deal", "call"}, {c1, "policy", "paper"}, {c1, "paper", "bill"}},
   servicios   |-> {{"project", "part", "piece"}, {c1, "project", "paper"},
                    {c1, "deal", "part"}, {c1, "call", "paper"}},
   condominio  |-> {{c1, "bill", "debt"}, {c1, "task", "fault"}},
   retail_moda |-> {{c1, c2, "wish", "want"}, {c1, "deal", "call"}, {c1, "task"}},
   general     |-> {{c1, "deal", "call"}, {c1, "deal", "bill"}, {c1, "deal", "bid"},
                    {c1, c2, "task"}, {c1, "paper"},
                    {c1, "home", "debt"}, {c1, "home", "deal"}, {c1, "home", "task"}}]

VARIABLE scene

AtHome == "home" \in scene

\* Who sees less is looked at where that makes a difference.
MCInit ==
  /\ HomeInit
  /\ scene \in Scenes[pack]
  /\ sees # Everything => ~AtHome /\ scene \cap {"bill", "debt", "paper"} # {}

\* Kinds, stages and what is bought and insured are looked at in the profiles that
\* read them; at home the client of a deal or a task is there before it.
FormsHere(x) ==
  CASE AtHome /\ x # "debt" /\ clients[c1] # Plain -> {}
    [] AtHome /\ x = "deal" -> {A("first", "open", d(37)), A("first", "won", d(22))}
    [] AtHome /\ x = "task" -> {A("task", "open", d(14))}
    [] x = "task"           -> Forms[x] \ {A("task", "open", d(14))}
    [] x = "call" /\ pack = "retail_moda" -> {v \in Forms[x] : v.kind = "whatsapp"}
    [] x = "call"           -> {v \in Forms[x] : v.kind = "kickoff" => pack = "servicios"}
    [] OTHER                -> Forms[x]

FirstMoment == [day |-> FirstDay, hour |-> 0]

CardsHere(c) ==
  IF AtHome THEN {v \in {Plain} : clients[c] # v /\ ("debt" \in scene \/ Moment = FirstMoment)}
  ELSE IF pack = "broker" THEN {v \in Cards[c] : v.stage # "vip"}
  ELSE IF pack = "retail_moda" THEN {v \in Cards[c] : v.stage # "al_dia"}
  ELSE {v \in Cards[c] : ~v.insured /\ (v.bought = NoDay \/ v.says # {})}

MCNext ==
  /\ \/ \E x \in Rows \cap scene : \E v \in FormsHere(x) : HomeSave(x, v)
     \/ \E c \in Clients \cap scene : \E v \in CardsHere(c) : HomeSaveClient(c, v)
     \/ /\ HomePass
        /\ IF AtHome THEN today' \in {d(0), d(14)} ELSE today' # d(14)
        /\ \/ hour' = 0
           \/ scene \in {{c1, "task"}, {c1, "home", "task"}, {c1, "home", "deal"}}
     \/ AtHome /\ \E q \in Requests : CountHome(q) \/ KeepHome(q)
     \/ \E k \in DOMAIN kept : Forget(k)
  /\ UNCHANGED scene

MCSpec == MCInit /\ [][MCNext]_<<scene, vars, homeVars>>
=============================================================================
