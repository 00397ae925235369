--------------------------- MODULE AccessContract ---------------------------
(***************************************************************************)
(* What the access pipeline promises about one user and the companies: a   *)
(* request is let in only through layers of policy that were open at some  *)
(* instant after it arrived.  A layer closed before the request arrived    *)
(* and never opened again keeps it out, so a revocation is immediate for   *)
(* every later request; nothing decided for an earlier request is reused.  *)
(*                                                                         *)
(* The contract knows neither rows nor queries: a company has a standing,  *)
(* the set of its open layers, which the administrators change at will.    *)
(***************************************************************************)
CONSTANTS Tenants, Requests, LayerNames,
          NoTenant,
          Paths   \* the sets of layers each of which is enough to be let in

VARIABLES standing,  \* the open layers of each company
          door       \* each request: where it is, and the layers it saw open

States == {"outside", "asking", "in"}
Outside == [state |-> "outside", at |-> NoTenant, seen |-> {}]

ContractTypeOK ==
  /\ standing \in [Tenants -> SUBSET LayerNames]
  /\ door \in [Requests -> [state : States, at : Tenants \cup {NoTenant},
                            seen : SUBSET LayerNames]]

ContractInit ==
  /\ standing \in [Tenants -> SUBSET LayerNames]
  /\ door = [r \in Requests |-> Outside]

Ask(r, t) ==
  /\ door[r] = Outside
  /\ door' = [door EXCEPT ![r] =
                [state |-> "asking", at |-> t, seen |-> standing[t]]]
  /\ UNCHANGED standing

Admit(r) ==
  /\ door[r].state = "asking"
  /\ \E path \in Paths : path \subseteq door[r].seen
  /\ door' = [door EXCEPT ![r].state = "in"]
  /\ UNCHANGED standing

(* A request leaves, served or turned away.                                *)
Leave(r) ==
  /\ door[r].state # "outside"
  /\ door' = [door EXCEPT ![r] = Outside]
  /\ UNCHANGED standing

(* The administrators change the policy: a request that is asking may see  *)
(* what it becomes.                                                        *)
Watch(d) ==
  IF d.state = "asking" THEN [d EXCEPT !.seen = @ \cup standing'[d.at]] ELSE d

Change ==
  /\ standing' \in [Tenants -> SUBSET LayerNames]
  /\ door' = [r \in Requests |-> Watch(door[r])]

ContractNext ==
  \/ \E r \in Requests, t \in Tenants : Ask(r, t)
  \/ \E r \in Requests : Admit(r) \/ Leave(r)
  \/ Change

ContractSpec == ContractInit /\ [][ContractNext]_<<standing, door>>
=============================================================================
