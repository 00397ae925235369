-------------------------- MODULE SnapshotContract --------------------------
(***************************************************************************)
(* What the consolidated figures of one holding promise, whatever the      *)
(* processes that refresh and show them do in between: a published total   *)
(* is the sum of figures its companies had since the refresh began, under  *)
(* a policy read since then, and a company's own figures are shown only    *)
(* under such a policy.                                                    *)
(*                                                                         *)
(* A world is the rows and the live figures of one instant; the window of  *)
(* a process is the set of worlds since it began.  The contract is blind   *)
(* to queries, runs, queues and failures.                                  *)
(***************************************************************************)
EXTENDS AccessRules

CONSTANTS Companies, Processes,
          NoSnapshot,   \* no GroupMetricSnapshot yet
          Sum(_, _)     \* what the figures of a set of companies add up to

VARIABLES world,   \* [group, link, tenant, figure]
          window,  \* process -> worlds since it began, {} when it is idle
          total,   \* the published total and the modes it was made under
          shown    \* process -> companies whose figures its page shows

(* The holding's row is read first, a link and its company in one query.   *)
ListedMode(g, w, t) ==
  IF w.link[t].active /\ w.tenant[t].active
  THEN EffectiveMode(g, w.link[t], w.tenant[t])
  ELSE "unlisted"

Counts(mode) == mode \in {"aggregate_only", "full"}

(* The modes that can be read in worlds of W, and the figures they count.  *)
ModesRead(W) == {[t \in Companies |-> ListedMode(v.group, w, t)] : v, w \in W}

FiguresFrom(figures, modes, W) ==
  \A t \in Companies : Counts(modes[t]) => \E w \in W : figures[t] = w.figure[t]

Seen(W) == {0} \cup {w.figure[t] : w \in W, t \in Companies}

Visible(W) ==
  {t \in Companies : \E v, w \in W :
     w.tenant[t].active /\ Counts(EffectiveMode(v.group, w.link[t], w.tenant[t]))}

-----------------------------------------------------------------------------
ContractInit ==
  /\ window = [p \in Processes |-> {}]
  /\ total = NoSnapshot
  /\ shown = [p \in Processes |-> {}]

(* Administrators and the companies' users change anything, at any time.   *)
Watch(W) == IF W = {} THEN {} ELSE W \cup {world'}

Change ==
  /\ window' = [p \in Processes |-> Watch(window[p])]
  /\ UNCHANGED <<total, shown>>

Begin(p) ==
  /\ window[p] = {}
  /\ window' = [window EXCEPT ![p] = {world}]
  /\ UNCHANGED <<world, total, shown>>

Publish(p) ==
  /\ UNCHANGED <<world, window, shown>>
  /\ \E modes \in ModesRead(window[p]), figures \in [Companies -> Seen(window[p])] :
       /\ FiguresFrom(figures, modes, window[p])
       /\ total' = [modes |-> modes,
                    sum |-> Sum(figures, {t \in Companies : Counts(modes[t])})]

Show(p) ==
  /\ UNCHANGED <<world, window, total>>
  /\ \E S \in SUBSET Visible(window[p]) : shown' = [shown EXCEPT ![p] = S]

End(p) ==
  /\ window' = [window EXCEPT ![p] = {}]
  /\ shown' = [shown EXCEPT ![p] = {}]
  /\ UNCHANGED <<world, total>>

ContractNext ==
  Change \/ \E p \in Processes : Begin(p) \/ Publish(p) \/ Show(p) \/ End(p)

ContractSpec ==
  ContractInit /\ [][ContractNext]_<<world, window, total, shown>>
=============================================================================
