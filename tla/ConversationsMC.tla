--------------------------- MODULE ConversationsMC ---------------------------
(* Two users, two requests of either of them at a time, two messages.      *)
EXTENDS Conversations, TLC

CONSTANTS u1, u2, r1, r2

MCUsers == {u1, u2}
MCRequests == {r1, r2}
Alike == Permutations(MCUsers) \cup Permutations(MCRequests)
=============================================================================
