------------------------- MODULE OperationalGrants --------------------------
(***************************************************************************)
(* The operational access grants of one member of a holding for one        *)
(* company: governance/views.py, OperationalAccessRequestCreateView and    *)
(* OperationalAccessGrantDecisionView, over governance/services.py.        *)
(*                                                                         *)
(* A request reads the latest grant and then creates one; a decision saves *)
(* the expiry of the grant and then, with a second save, its status.  No   *)
(* constraint keeps the open grants of a member to one.                    *)
(***************************************************************************)
EXTENDS Integers, Sequences, FiniteSets

CONSTANTS Workers,
          Never,       \* the empty expires_at
          Expiries,    \* bound: the values of expires_at the forms are given
          MaxGrants,   \* bound: grants ever made
          MaxTime      \* bound: the clock

VARIABLES grants,    \* the OperationalAccessGrant rows, by creation
          eligible,  \* an islands holding, a role that may ask, a full link
          now,       \* the clock
          req,       \* the request or decision each worker serves
          expired    \* history: grants past their expiry since last approved,
                     \* or being approved

vars == <<grants, eligible, now, req, expired>>

Decisions == {"approved", "rejected", "revoked"}
Idle == [step |-> "idle", grant |-> 0, status |-> "pending", expires |-> Never]

(* OperationalAccessGrant.is_active, at a time.                            *)
IsActive(g, time) ==
  g.status = "approved" /\ (g.expires = Never \/ g.expires > time)

Expired(rows, time) ==
  {i \in DOMAIN rows : rows[i].status = "approved" /\ ~IsActive(rows[i], time)}

(* What create_operational_access_request finds of the latest grant.       *)
Blocked(rows) ==
  /\ rows # <<>>
  /\ rows[Len(rows)].status \in {"pending", "approved"}

TypeOK ==
  /\ grants \in Seq([status : Decisions \cup {"pending"}, expires : Expiries])
  /\ Len(grants) <= MaxGrants
  /\ eligible \in BOOLEAN
  /\ now \in 0..MaxTime
  /\ req \in [Workers -> [step : {"idle", "create", "expiry", "decide"},
                          grant : 0..MaxGrants, status : Decisions \cup {"pending"},
                          expires : Expiries]]
  /\ expired \subseteq 1..MaxGrants

Init ==
  /\ grants = <<>>
  /\ eligible = TRUE
  /\ now = 0
  /\ req = [w \in Workers |-> Idle]
  /\ expired = {}

-----------------------------------------------------------------------------
(* Mutant: only an approved grant stands in the way of another request.    *)
AskOnlyApprovedBlocks(w, e) ==
  /\ req[w].step = "idle"
  /\ eligible
  /\ \A i \in DOMAIN grants : i = Len(grants) => grants[i].status # "approved"
  /\ req' = [req EXCEPT ![w] = [Idle EXCEPT !.step = "create", !.expires = e]]
  /\ UNCHANGED <<grants, eligible, now, expired>>

(* A member asks: an open latest grant, expired or not, is the answer.     *)
Ask(w, e) ==
  /\ req[w].step = "idle"
  /\ eligible
  /\ ~Blocked(grants)
  /\ req' = [req EXCEPT ![w] = [Idle EXCEPT !.step = "create", !.expires = e]]
  /\ UNCHANGED <<grants, eligible, now, expired>>

Create(w) ==
  /\ req[w].step = "create"
  /\ Len(grants) < MaxGrants
  /\ grants' = Append(grants, [status |-> "pending", expires |-> req[w].expires])
  /\ req' = [req EXCEPT ![w] = Idle]
  /\ UNCHANGED <<eligible, now, expired>>

(* A superuser decides on any grant, whatever its status.                  *)
Decide(w, i, status, e) ==
  /\ req[w].step = "idle"
  /\ i \in DOMAIN grants
  /\ req' = [req EXCEPT ![w] =
               [step |-> "expiry", grant |-> i, status |-> status, expires |-> e]]
  /\ UNCHANGED <<grants, eligible, now, expired>>

(* History: an approval reopens its grant from its first save on.          *)
ClosedBy(q) ==
  Expired(grants', now)
    \cup (IF q.status = "approved" THEN expired \ {q.grant} ELSE expired)

(* The expiry of the form, empty or not, is saved with every decision ...  *)
SaveExpiry(w) ==
  /\ req[w].step = "expiry"
  /\ grants' = [grants EXCEPT ![req[w].grant].expires = req[w].expires]
  /\ req' = [req EXCEPT ![w].step = "decide"]
  /\ expired' = ClosedBy(req[w])
  /\ UNCHANGED <<eligible, now>>

(* ... before decide_operational_access_request saves the status.          *)
SaveDecision(w) ==
  /\ req[w].step = "decide"
  /\ grants' = [grants EXCEPT ![req[w].grant].status = req[w].status]
  /\ expired' = ClosedBy(req[w])
  /\ req' = [req EXCEPT ![w] = Idle]
  /\ UNCHANGED <<eligible, now>>

(* The process that serves a request dies between two of its statements.   *)
Die(w) ==
  /\ req[w].step # "idle"
  /\ req' = [req EXCEPT ![w] = Idle]
  /\ UNCHANGED <<grants, eligible, now, expired>>

Tick ==
  /\ now < MaxTime
  /\ now' = now + 1
  /\ expired' = expired \cup Expired(grants, now')
  /\ UNCHANGED <<grants, eligible, req>>

(* The holding, the member's role or the link is edited.                   *)
PolicyEdit ==
  /\ eligible' = ~eligible
  /\ UNCHANGED <<grants, now, req, expired>>

Next ==
  \/ \E w \in Workers :
       \/ \E e \in Expiries : Ask(w, e)
       \/ Create(w)
       \/ \E i \in 1..MaxGrants, status \in Decisions, e \in Expiries :
            Decide(w, i, status, e)
       \/ SaveExpiry(w)
       \/ SaveDecision(w)
       \/ Die(w)
  \/ Tick
  \/ PolicyEdit

Spec == Init /\ [][Next]_vars

-----------------------------------------------------------------------------
(* The undecided grants at the end of the list: those the member still     *)
(* waits for.                                                              *)
Waiting ==
  {i \in DOMAIN grants :
     \A j \in i..Len(grants) : grants[j].status = "pending"}

Creating == {w \in Workers : req[w].step = "create"}

(* A member who asks repeatedly gets as many undecided grants in a row as  *)
(* requests crossed the check together, and no more: once one is there, no *)
(* later request passes the check, whatever decisions are taken meanwhile  *)
(* on older grants.                                                        *)
WaitingBounded ==
  Waiting # {} =>
    Cardinality(Waiting) + Cardinality(Creating) <= Cardinality(Workers)

(* A decision in flight is about a grant that exists, and decides it.      *)
DecisionsDecide ==
  \A w \in Workers :
    req[w].step \in {"expiry", "decide"} =>
      req[w].grant \in DOMAIN grants /\ req[w].status \in Decisions

(* What WaitingBounded needs to be inductive: no decision turns a grant    *)
(* back to an undecided one.                                               *)
IInv == TypeOK /\ DecisionsDecide /\ WaitingBounded

(* The help text of the request form, governance/forms.py:231: with an     *)
(* expiry the access is revoked by itself when it expires.  So a grant     *)
(* past its expiry is not active again before somebody approves it again.  *)
ExpiredStaysRevoked == \A i \in expired : ~IsActive(grants[i], now)
=============================================================================
