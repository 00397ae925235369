-------------------------- MODULE AccessPipelineMC --------------------------
(* Two scenes.  The policy of one company changes under the requests of a  *)
(* session, served one at a time; and two tabs of the session are at work  *)
(* in two companies at the same time, under a policy that stays.           *)
EXTENDS AccessPipeline, TLC

CONSTANTS t1, t2, r1, r2

MCTenants == {t1, t2}
MCRequests == {r1, r2}
MCGroupRoles == {"admin", "viewer"}
MCTenantRoles == {"manager", "viewer"}
MCFirstRoles == {"manager"}
MCWorkRoles == {"manager"}

Alike == Permutations(MCRequests)

VARIABLE scene

MCInit ==
  /\ Init
  /\ scene \in {"policy", "tabs"}
  /\ scene = "policy" => /\ access[t2] = NoRow /\ direct[t2] = NoRow
                         /\ access[t1] = NoRow \/ (member.role = "viewer" /\ registered)
                         /\ registered \/ member.role = "viewer"
  /\ scene = "tabs" => /\ registered /\ member.role = "viewer"
                       /\ access[t1] # NoRow /\ direct[t2] = NoRow
                       /\ access[t2] = NoRow <=> direct[t1] # NoRow

Untouched(t) ==
  /\ tenant'[t] = tenant[t] /\ link'[t] = link[t]
  /\ access'[t] = access[t] /\ direct'[t] = direct[t]

Alone(r) == \A q \in Requests \ {r} : req[q] = Idle

\* Bound: the second write comes while a request is in flight.

MCNext ==
  /\ \/ /\ scene = "policy"
        /\ \/ AdminWrite /\ (writes = 0 \/ ~\A r \in Requests : Alone(r))
           \/ \E r \in Requests : Alone(r) /\ (PageStep(r) \/ SwitchStep(r))
        /\ Untouched(t2) /\ \A r \in Requests : req'[r].at # t2
     \/ /\ scene = "tabs"
        /\ \E r \in Requests : PageStep(r) \/ SwitchStep(r)
  /\ UNCHANGED scene

MCSpec == MCInit /\ [][MCNext]_<<vars, scene>>
=============================================================================
