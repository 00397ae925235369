----------------------------- MODULE TeamworkMC -----------------------------
(* Two scenes: two pipelines with two stages, three cards, of which one    *)
(* may be created, and two requests; and two questions with two ratings,   *)
(* answered by four visits, two at a time.                                 *)
EXTENDS Teamwork, TLC

CONSTANTS k1, k2, a, b, r1, r2, a1, a2, w1, w2

MCKeys == {k1, k2}
MCStages == {a, b}
MCRequests == {r1, r2}
Choices == {{a}, {a, b}}
TwoPipelines == {<<[key |-> k1, stages |-> {a, b}], [key |-> k2, stages |-> {a}]>>}

At(s, n) == [col |-> [pipe |-> CHOOSE k \in MCKeys : TRUE, stage |-> s],
             order |-> n, live |-> TRUE]
MCCards == 1 .. 3
TwoAndOne == {<<At(a, 1), At(a, 2), At(b, 1)>>, <<At(a, 1), At(a, 2), NoCard>>}

MCQuestions == {1, 2}
MCRatings == {a1, a2}
MCAnswerers == {w1, w2}
CardsAlike == Permutations(MCRequests)
AnswersAlike == Permutations(MCRatings) \cup Permutations(MCAnswerers)

\* Each scene looks at nothing in particular of the other.
BoardInit == TeamworkInit /\ scene = "board" /\ sub.status = "sent"
AssessmentInit ==
  /\ TeamworkInit /\ scene = "assessment"
  /\ board = "deals" /\ NoCard \notin {cards[d] : d \in Cards}

BoardSpec == BoardInit /\ [][TeamworkNext]_<<scene, vars, formVars>>
AssessmentSpec == AssessmentInit /\ [][TeamworkNext]_<<scene, vars, formVars>>
=============================================================================
