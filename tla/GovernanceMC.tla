---------------------------- MODULE GovernanceMC ----------------------------
(* Three scenes of the views of governance: the links of a holding, where  *)
(* two rivals can meet an older promotion in flight, served three requests *)
(* at a time; a limit of zero or one with three slots and two requests, so *)
(* that the race for the last place is one slot short of breaking the      *)
(* bound; and two requests of a member for a grant, with room for a third  *)
(* grant behind two that raced.  The slots are the companies of the links, *)
(* and the workers two of the requests there: the scenes never meet.       *)
EXTENDS Governance, TLC

CONSTANTS s1, s2, s3, w1, w2, w3

MCSlots == {s1, s2, s3}
MCWorkers == {w1, w2}
MCLimits == {0, 1}
MCPosts == {w1, w2, w3}
MCExpiries == {Never}
Alike == Permutations(MCSlots) \cup Permutations(MCWorkers)

MCInit ==
  /\ GovernanceInit
  /\ scene # "limits" => kind = "seats" /\ account.limit = 0

\* The limit of managers stays enforced; seats are also seen without.
MCNext ==
  /\ GovernanceNext
  /\ scene = "limits" /\ kind = "managers" => account'.enforce

MCSpec == MCInit /\ [][MCNext]_<<scene, vars, linkVars, grantVars>>
=============================================================================
