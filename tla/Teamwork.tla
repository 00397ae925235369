------------------------------ MODULE Teamwork ------------------------------
(***************************************************************************)
(* What several people of a company, and a client of it, work on at the    *)
(* same time, side by side: the cards of a board with the pipelines of the *)
(* company, and an assessment.  They write different tables and share no   *)
(* state, so a behaviour is about one of them, which scene names.          *)
(***************************************************************************)
EXTENDS DealBoard

CONSTANTS Questions, Ratings, Blank,   \* of Assessments,
          Answerers,                   \*    the requests served at a time there
          MaxVisits                    \*    and how many arrive

(* The questions are numbered; an empty answer is no rating.               *)
ASSUME TeamworkAssumption ==
  /\ Questions \subseteq Nat
  /\ Blank \notin Ratings
  /\ MaxVisits \in Nat

VARIABLES scene,                                         \* it never changes
          sub, answers, expired, asks, held, last,       \* of Assessments
          saves, closedBy, visits

formVars == <<sub, answers, expired, asks, held, last, saves, closedBy, visits>>

Forms == INSTANCE Assessments
  WITH Requests <- Answerers, MaxArrivals <- MaxVisits, req <- asks, arrivals <- visits

TeamworkInit == scene \in {"board", "assessment"} /\ Init /\ Forms!Init

TeamworkNext ==
  /\ \/ scene = "board" /\ Next /\ UNCHANGED formVars
     \/ scene = "assessment" /\ Forms!Next /\ UNCHANGED vars
  /\ UNCHANGED scene

TeamworkSpec == TeamworkInit /\ [][TeamworkNext]_<<scene, vars, formVars>>

-----------------------------------------------------------------------------
(* Although the team and the client may answer at the same time, every     *)
(* rating the score was taken of is the answer stored                      *)
(* (save_submission_answers).                                              *)
ScoreFitsAnswers == Forms!ScoreFitsAnswers

(* What was completed is changed only by the team, or by a request of the  *)
(* client that was under way when it was completed                         *)
(* (assessment_public_response).                                           *)
CompletedIsClosed == Forms!CompletedIsClosed
=============================================================================
