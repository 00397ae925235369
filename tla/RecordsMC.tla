----------------------------- MODULE RecordsMC -----------------------------
(* Three scenes of two requests each: a proposal and a task change status; *)
(* a deal, its proposal and an object change clients; clients are written  *)
(* by hand and by file.                                                    *)
EXTENDS Records, TLC

CONSTANTS c1, c2, c3, d, p, t, o, legal, mail, r1, r2

MCClients == {c1, c2, c3}
MCKeys == {legal, mail}
MCRank == [k \in MCKeys |-> IF k = mail THEN 2 ELSE 1]
MCRequests == {r1, r2}
Alike == Permutations(MCRequests)

VARIABLE scene

Plain(c, keys) ==
  [Absent EXCEPT !.there = TRUE, !.live = TRUE, !.client = c, !.keys = keys]
MCFirstRows == {[x \in Rows |->
  CASE x = c1 -> Plain(NoClient, {mail})
    [] x = c2 -> IF more THEN Plain(NoClient, {legal}) ELSE Absent
    [] x = d  -> Plain(c1, {})
    [] x = p  -> [Plain(c1, {}) EXCEPT !.status = "draft", !.links = {d}]
    [] x = t  -> IF more THEN [Plain(c1, {}) EXCEPT !.status = "open"] ELSE Absent
    [] OTHER  -> Absent] : more \in BOOLEAN}

Played == CASE scene = "statuses" -> {p, t}
            [] scene = "links"    -> {d, p, o}
            [] scene = "files"    -> MCClients

\* What a request of the scene may hold.
InScene(q) ==
  /\ q.row \in Played \cup {NoClient}
  /\ q.do \in {"save", "import"} =>
       CASE scene = "statuses" -> q.new.live /\ q.new.client = c1 /\ q.new.links = {}
         [] scene = "links"    -> q.new.status \in {"draft", "plain"}
                                  /\ (q.row # d => q.new.live)
         [] scene = "files"    -> (q.new.live \/ q.row = c1) /\ (q.do = "save" => q.tell)
  /\ q.file # {} => scene = "files" /\ \A want \in q.file : legal \in want
  /\ scene = "files" /\ q.do = "form" => q.row = c1

MCInit == Init /\ scene \in {"statuses", "links", "files"} /\ (row[c2].there = (scene # "files"))
MCNext ==
  /\ Next
  /\ \A r \in Requests : InScene(req'[r])
  /\ scene # "statuses" => deaths' = 0
  /\ scene # "statuses" \/ deaths' > 0 => Len(saves') <= 2
  /\ UNCHANGED scene
MCSpec == MCInit /\ [][MCNext]_<<vars, scene>>
=============================================================================
