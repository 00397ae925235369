---------------------------- MODULE Assessments ----------------------------
(***************************************************************************)
(* One assessment of a client.  The team answers it, as a draft or to the  *)
(* end, and the client answers it by a link until it is completed or has   *)
(* expired.  Both load the submission, then write the answers that are not *)
(* blank, in the order of the frozen questions, and last the submission's  *)
(* row, in one transaction.  The score, a mean of the ratings posted, is   *)
(* modelled by the ratings it is taken of.                                 *)
(***************************************************************************)
EXTENDS Integers, FiniteSets

CONSTANTS Questions,   \* 1 .. n, in the snapshot's order
          Ratings,
          Blank,       \* no answer
          Requests,
          MaxArrivals

VARIABLES sub,       \* the row of the submission
          answers,   \* its committed answers
          expired,   \* expires_at has passed
          req,       \* the request each process serves
          held,      \* the answers its transaction wrote, and holds
          last,      \* the form saved last, and the save it had loaded (ghost)
          saves,     \* how often the row was saved
          closedBy,  \* the save that completed it, 0 if none did yet (ghost)
          arrivals

vars == <<sub, answers, expired, req, held, last, saves, closedBy, arrivals>>

Form == [Questions -> Ratings \union {Blank}]
NoForm == [q \in Questions |-> Blank]
States == {"draft", "sent", "in_progress", "completed"}
Answered(form) == {q \in Questions : form[q] # Blank}
Kept(form) == [q \in Answered(form) |-> form[q]]

Idle == [do |-> "idle", who |-> "client", form |-> NoForm, final |-> FALSE,
         at |-> FALSE, left |-> {}, seen |-> 0]
Busy(r) == req[r].do # "idle"
HeldByOthers(r) == UNION {Answered(held[s]) : s \in Requests \ {r}}
Over(new, old) == [q \in Questions |-> IF new[q] # Blank THEN new[q] ELSE old[q]]

Arrive(r, who, form, final) ==
  /\ ~Busy(r) /\ arrivals < MaxArrivals
  /\ arrivals' = arrivals + 1
  /\ req' = [req EXCEPT ![r] = [do |-> "answers", who |-> who, form |-> form,
                final |-> final, at |-> sub.submitted, left |-> Answered(form),
                seen |-> saves]]
  /\ UNCHANGED <<sub, answers, expired, held, last, saves, closedBy>>

\* assessment_submission_respond: the team may answer a completed one again.
TeamAnswers(r) ==
  /\ ~expired
  /\ \E form \in Form, final \in BOOLEAN : Arrive(r, "team", form, final)

\* Mutant: the link is not closed once the assessment is completed.
ClientAnswersAlways(r) ==
  /\ ~expired
  /\ \E form \in Form : Arrive(r, "client", form, TRUE)

\* assessment_public_response.
ClientAnswers(r) ==
  /\ ~expired /\ sub.status # "completed"
  /\ \E form \in Form : Arrive(r, "client", form, TRUE)

\* Mutant: save_submission_answers without its transaction.
WriteAnswerAtOnce(r) ==
  /\ req[r].do = "answers"
  /\ \E q \in req[r].left \ HeldByOthers(r) :
       /\ \A p \in req[r].left : q <= p
       /\ answers' = [answers EXCEPT ![q] = req[r].form[q]]
       /\ req' = [req EXCEPT ![r].left = @ \ {q}]
  /\ UNCHANGED <<sub, expired, held, last, saves, closedBy, arrivals>>

\* update_or_create waits for whoever wrote the answer and has not committed.
WriteAnswer(r) ==
  /\ req[r].do = "answers"
  /\ \E q \in req[r].left \ HeldByOthers(r) :
       /\ \A p \in req[r].left : q <= p
       /\ held' = [held EXCEPT ![r] = [@ EXCEPT ![q] = req[r].form[q]]]
       /\ req' = [req EXCEPT ![r].left = @ \ {q}]
  /\ UNCHANGED <<sub, answers, expired, last, saves, closedBy, arrivals>>

\* The row is saved and the transaction commits.  Blank answers are left as
\* they were; a draft saves the date of submission it loaded.
SaveSubmission(r) ==
  /\ req[r].do = "answers" /\ req[r].left = {}
  /\ answers' = Over(held[r], answers)
  /\ held' = [held EXCEPT ![r] = NoForm]
  /\ sub' = [status |-> IF req[r].final THEN "completed" ELSE "in_progress",
             submitted |-> req[r].final \/ req[r].at,
             by |-> req[r].who, score |-> Kept(req[r].form)]
  /\ last' = [form |-> req[r].form, seen |-> req[r].seen]
  /\ saves' = saves + 1
  /\ closedBy' = IF req[r].final /\ sub.status # "completed" THEN saves + 1 ELSE closedBy
  /\ req' = [req EXCEPT ![r] = Idle]
  /\ UNCHANGED <<expired, arrivals>>

Dies(r) ==
  /\ Busy(r)
  /\ held' = [held EXCEPT ![r] = NoForm]
  /\ req' = [req EXCEPT ![r] = Idle]
  /\ UNCHANGED <<sub, answers, expired, last, saves, closedBy, arrivals>>

Expire ==
  /\ ~expired /\ expired' = TRUE
  /\ UNCHANGED <<sub, answers, req, held, last, saves, closedBy, arrivals>>

\* assessment_submission_create: sent to the client, or a draft of the team.
Init ==
  /\ sub \in [status : {"sent", "draft"}, submitted : {FALSE}, by : {"nobody"},
              score : {Kept(NoForm)}]
  /\ answers = NoForm
  /\ expired = FALSE
  /\ req = [r \in Requests |-> Idle]
  /\ held = [r \in Requests |-> NoForm]
  /\ last = [form |-> NoForm, seen |-> 0]
  /\ saves = 0
  /\ closedBy = 0
  /\ arrivals = 0

Next == \/ Expire
        \/ \E r \in Requests : \/ TeamAnswers(r) \/ ClientAnswers(r) \/ WriteAnswer(r)
                               \/ SaveSubmission(r) \/ Dies(r)

Spec == Init /\ [][Next]_vars

-----------------------------------------------------------------------------
Scores == UNION {[Q -> Ratings] : Q \in SUBSET Questions}
Answering == [do : {"idle", "answers"}, who : {"team", "client"}, form : Form,
              final : BOOLEAN, at : BOOLEAN, left : SUBSET Questions, seen : Nat]

TypeOK ==
  /\ sub \in [status : States, submitted : BOOLEAN, by : {"nobody", "team", "client"},
             score : Scores]
  /\ req \in [Requests -> Answering]
  /\ held \in [Requests -> Form]
  /\ last \in [form : Form, seen : Nat]
  /\ saves \in Nat /\ closedBy \in Nat
  /\ answers \in Form
  /\ expired \in BOOLEAN
  /\ arrivals \in 0 .. MaxArrivals
  /\ sub.status = "completed" => sub.submitted

\* A transaction holds the answers it wrote, and only those.
HeldFits == \A r \in Requests, q \in Questions :
  held[r][q] = IF Busy(r) /\ q \notin req[r].left THEN req[r].form[q] ELSE Blank

\* A request that loaded the row after its last save knows it as it is, and no
\* request of the client loaded it after it was completed.
LoadsInOrder ==
  \A r \in Requests : Busy(r) =>
    /\ req[r].seen <= saves
    /\ req[r].seen = saves => req[r].at = sub.submitted
    /\ req[r].who = "client" => req[r].final
    /\ sub.status = "completed" /\ req[r].who = "client" => req[r].seen < closedBy

(***************************************************************************)
(* save_submission_answers: although two requests may write answers at the *)
(* same time, the rows left are never a mixture the score does not fit:    *)
(* every rating the score was taken of is the answer stored.               *)
(***************************************************************************)
ScoreFitsAnswers ==
  /\ sub.score = Kept(last.form)
  /\ \A q \in DOMAIN sub.score : answers[q] = sub.score[q]

(***************************************************************************)
(* assessment_public_response: "restricted to one opaque, frozen and       *)
(* non-expired execution".  What was completed is overwritten by the       *)
(* client only in a request that was under way when it was completed, and  *)
(* reopened only by a draft of the team; a date of submission is lost only *)
(* by a draft that loaded the row before another request saved it.         *)
(***************************************************************************)
CompletedIsClosed == [][
  /\ sub.status = "completed" /\ sub' # sub =>
       \/ sub'.by = "client" /\ sub'.status = "completed" /\ last'.seen < closedBy
       \/ sub'.by = "team"
  /\ sub.submitted /\ ~sub'.submitted => last'.seen < saves]_vars

IInv == TypeOK /\ HeldFits /\ LoadsInOrder /\ ScoreFitsAnswers
=============================================================================
