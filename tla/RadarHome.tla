------------------------------ MODULE RadarHome -----------------------------
(***************************************************************************)
(* The figures of the dashboard (core/views.py) are counted once, kept for *)
(* half a minute under the company and the day, and shown to everybody in  *)
(* between.  A request that finds none counts them, and keeps them in a    *)
(* step of its own: before it does, others may do the same, rows may be    *)
(* saved, hours go by and midnight pass.                                   *)
(***************************************************************************)
EXTENDS RadarPages

CONSTANTS Requests,    \* bound: the requests that count at the same time
          NoFigures    \* a request that counts none

VARIABLES kept,        \* the cache: figures by key
          counting     \* what each request has counted and not yet kept

homeVars == <<kept, counting>>

(* The rows each figure counts, and when.  since is history: whether a row *)
(* was saved after they were counted.                                      *)
Sheet ==
  [clients : SUBSET Clients, deals : SUBSET Rows, due : SUBSET Rows,
   activities : SUBSET Rows, documents : SUBSET Rows, proposals : SUBSET Rows,
   collections : SUBSET Rows, alerts : SUBSET Rows, pipeline : SUBSET Rows,
   columns : [Columns -> SUBSET Rows]]
Count == [day : Int, hour : Hours, figures : Sheet, since : BOOLEAN]

HomeTypeOK ==
  /\ DOMAIN kept \subseteq Int /\ kept \in [DOMAIN kept -> Count]
  /\ counting \in [Requests -> Count \cup {NoFigures}]

HomeInit ==
  /\ Init
  /\ kept = [k \in {} |-> NoFigures]
  /\ counting = [q \in Requests |-> NoFigures]

(* Mutant: the key has the company alone.                                  *)
KeyOfCompany == FirstDay

(* The key has the company, which is one here, and the day.                *)
Key == today

Shown == IF Key \in DOMAIN kept THEN kept[Key].figures ELSE Figures

-----------------------------------------------------------------------------
(* A dashboard that finds no figures counts them ...                       *)
CountHome(q) ==
  /\ counting[q] = NoFigures /\ Key \notin DOMAIN kept
  /\ counting' = [counting EXCEPT ![q] =
                    [day |-> Key, hour |-> hour, figures |-> Figures, since |-> FALSE]]
  /\ UNCHANGED <<vars, kept>>

(* ... and keeps them for the day it began.                                *)
KeepHome(q) ==
  /\ counting[q] # NoFigures
  /\ kept' = [k \in DOMAIN kept \cup {counting[q].day} |->
                IF k = counting[q].day THEN counting[q] ELSE kept[k]]
  /\ counting' = [counting EXCEPT ![q] = NoFigures]
  /\ UNCHANGED vars

(* The cache lets go of figures half a minute later, or when it likes.     *)
Forget(k) ==
  /\ k \in DOMAIN kept
  /\ kept' = [j \in DOMAIN kept \ {k} |-> kept[j]]
  /\ UNCHANGED <<vars, counting>>

(* History: a row is saved.                                                *)
SavedSince ==
  /\ kept' = [k \in DOMAIN kept |-> [kept[k] EXCEPT !.since = TRUE]]
  /\ counting' = [q \in Requests |->
                    IF counting[q] = NoFigures THEN NoFigures
                    ELSE [counting[q] EXCEPT !.since = TRUE]]

HomeSave(x, v) == Save(x, v) /\ SavedSince
HomeSaveClient(c, v) == SaveClient(c, v) /\ SavedSince
HomePass == Pass /\ UNCHANGED homeVars

HomeNext ==
  \/ \E x \in Rows : \E v \in Forms[x] : HomeSave(x, v)
  \/ \E c \in Clients : \E v \in Cards[c] : HomeSaveClient(c, v)
  \/ HomePass
  \/ \E q \in Requests : CountHome(q) \/ KeepHome(q)
  \/ \E k \in DOMAIN kept : Forget(k)

HomeSpec == HomeInit /\ [][HomeNext]_<<vars, homeVars>>

-----------------------------------------------------------------------------
(* The figures shown are those of the rows as they are, unless a row was   *)
(* saved since they were counted - but for the late tasks and the stale    *)
(* deals, which are those of the hour they were counted at and miss the    *)
(* ones whose instant came since.  The rest does not go stale because the  *)
(* day changed, nor because requests counted before midnight keep what     *)
(* they counted after it (_load_dashboard_metrics_bundle).                 *)
OnlySavesAndInstantsLag ==
  Key \in DOMAIN kept /\ ~kept[Key].since =>
    /\ Shown = FiguresAt(kept[Key].hour)
    /\ Shown.alerts \subseteq Figures.alerts
=============================================================================
