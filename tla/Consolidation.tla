---------------------------- MODULE Consolidation ----------------------------
(***************************************************************************)
(* The consolidated snapshots of one holding: consolidation/services.py,   *)
(* tasks.py, views.py and the command sync_consolidation.  Dashboards,     *)
(* queue workers and commands refresh the totals company by company, in    *)
(* requests that are not transactions, while administrators write the      *)
(* policy rows and the users of the companies change the live figures.     *)
(*                                                                         *)
(* The metrics of a company are one number, what it adds to the totals.    *)
(***************************************************************************)
EXTENDS AccessRules, Folds, FiniteSets

CONSTANTS Companies, Workers, Viewers,
          Shells,       \* processes of the command sync_consolidation
          NoFigure, NoSnapshot, NoCompany,
          GroupChoices, LinkChoices, TenantChoices,  \* rows worth writing
          FirstGroups, FirstLinks,  \* rows to begin with
          Figures,      \* what the users of a company make of its figure
          MaxChanges,   \* bound on the changes of rows and figures
          MaxCommands,  \* bound on the commands
          MaxMishaps,   \* bound on the processes that fail or are lost
          MaxQueue      \* bound on the waiting messages, which are all alike

Processes == Workers \cup Viewers \cup Shells

ASSUME ConsolidationAssumption ==
  /\ GroupChoices \subseteq GroupRows
  /\ LinkChoices \subseteq LinkRows
  /\ FirstGroups \subseteq GroupChoices /\ FirstLinks \subseteq LinkChoices
  /\ TenantChoices \subseteq TenantRows
  /\ Figures \subseteq Nat /\ 0 \in Figures
  /\ NoFigure \notin Nat /\ MaxQueue \in Nat
  /\ NoCompany \notin Companies
  /\ IsFiniteSet(Processes) /\ Viewers \cap (Workers \cup Shells) = {}

VARIABLES group, link, tenant,  \* the rows of the policy
          figure,      \* the live figures, in the schemas of the companies
          changes,
          tenantSnap,  \* TenantMetricSnapshot of each company, or NoFigure
          snap,        \* GroupMetricSnapshot: its total and the modes it counts
          old,         \* the GroupMetricSnapshot looks old
          queue,       \* messages for sync_group_snapshot_task
          running,     \* rows of ConsolidationRun in status RUNNING
          commands, failures,
          lost,        \* runs that nobody will finish: they were not saved
          proc,        \* each process: where it is and what it has read
          window       \* history: the worlds since each process began

policy == <<group, link, tenant, figure, changes>>
stored == <<tenantSnap, snap, old, queue, running>>
counts == <<commands, failures, lost>>
vars == <<policy, stored, counts, proc, window>>

World == [group |-> group, link |-> link, tenant |-> tenant, figure |-> figure]

(* What a refresh promises, in terms of the worlds it lived through.       *)
SumOf(f, S) ==
  MapThenFoldSet(+, 0, LAMBDA t : f[t], LAMBDA T : CHOOSE t \in T : TRUE, S)

(* The companies whose figures the page of a process shows.                *)
ShownBy(q) == IF q.pc = "shown" THEN q.todo ELSE {}

Contract == INSTANCE SnapshotContract
  WITH world <- World, total <- snap, Sum <- SumOf,
       shown <- [p \in Processes |-> ShownBy(proc[p])]

ListedMode(g, w, t) == Contract!ListedMode(g, w, t)
Counts(mode) == Contract!Counts(mode)

Listed == Modes \cup {"unlisted"}
NoModes == [t \in Companies |-> "unlisted"]
NoGot == [t \in Companies |-> 0]

Idle == [pc |-> "idle", task |-> "none",
         group |-> [active |-> FALSE, mode |-> "blocked"],
         modes |-> NoModes, todo |-> {}, cur |-> NoCompany, got |-> NoGot]

(* Where a process is while its run row says RUNNING.                      *)
Syncing == {"list", "work", "save", "finish"}

Jobs == [pc : {"idle", "ensure", "rows", "shown"} \cup Syncing,
         task : {"none", "holding", "company"},
         group : GroupRows,
         modes : [Companies -> Listed],
         todo : SUBSET Companies,
         cur : Companies \cup {NoCompany},
         got : [Companies -> Nat]]

Worlds == [group : GroupRows, link : [Companies -> LinkRows],
           tenant : [Companies -> TenantRows], figure : [Companies -> Nat]]

TypeOK ==
  /\ group \in GroupRows
  /\ link \in [Companies -> LinkRows]
  /\ tenant \in [Companies -> TenantRows]
  /\ figure \in [Companies -> Nat]
  /\ changes \in Nat
  /\ tenantSnap \in [Companies -> Nat \cup {NoFigure}]
  /\ snap = NoSnapshot \/ snap.modes \in [Companies -> Listed]
  /\ old \in BOOLEAN
  /\ queue \in 0..MaxQueue
  /\ running \in Nat /\ commands \in Nat /\ failures \in Nat /\ lost \in Nat
  /\ proc \in [Processes -> Jobs]
  /\ window \in [Processes -> SUBSET Worlds]

Init ==
  /\ group \in FirstGroups
  /\ link \in [Companies -> FirstLinks]
  /\ tenant \in [Companies -> TenantChoices]
  /\ figure = [t \in Companies |-> 0]
  /\ changes = 0
  /\ tenantSnap = [t \in Companies |-> NoFigure]
  /\ snap = NoSnapshot
  /\ old = FALSE
  /\ queue = 0
  /\ running = 0 /\ commands = 0 /\ failures = 0 /\ lost = 0
  /\ proc = [p \in Processes |-> Idle]
  /\ window = [p \in Processes |-> {}]

-----------------------------------------------------------------------------
(* A process begins: it has read the row of the holding, and is at pc.     *)
Start(p, at, task, todo) ==
  /\ proc[p].pc = "idle"
  /\ proc' = [proc EXCEPT ![p] = [Idle EXCEPT !.pc = at, !.task = task,
                                    !.group = group, !.todo = todo]]
  /\ window' = [window EXCEPT ![p] = {World}]

Goto(p, at) ==
  /\ proc' = [proc EXCEPT ![p].pc = at]
  /\ UNCHANGED window

Leave(p) ==
  /\ proc' = [proc EXCEPT ![p] = Idle]
  /\ window' = [window EXCEPT ![p] = {}]

(* A dashboard or the reports open: the holding must be active.            *)
Open(v) ==
  /\ group.active
  /\ Start(v, "ensure", "holding", {})
  /\ UNCHANGED <<policy, stored, counts>>

StartsRun(p, pc) ==
  /\ Goto(p, pc)
  /\ running' = running + 1
  /\ UNCHANGED <<tenantSnap, snap, old, queue>>

Enqueued == IF queue < MaxQueue THEN queue + 1 ELSE queue

(* Mutant: an old snapshot is served and nobody is asked to refresh it.    *)
EnsureServesOld(v) ==
  /\ proc[v].pc = "ensure"
  /\ \E force \in BOOLEAN :
       IF force \/ snap = NoSnapshot THEN StartsRun(v, "list")
       ELSE Goto(v, "rows") /\ UNCHANGED stored
  /\ UNCHANGED <<policy, counts>>

(* ensure_group_snapshot_fresh: forced or without a snapshot the page      *)
(* refreshes it itself; one that looks old is left to the queue and served.*)
Ensure(v) ==
  /\ proc[v].pc = "ensure"
  /\ \E force \in BOOLEAN :
       IF force \/ snap = NoSnapshot THEN StartsRun(v, "list")
       ELSE /\ Goto(v, "rows")
            /\ queue' = IF old THEN Enqueued ELSE queue
            /\ UNCHANGED <<tenantSnap, snap, old, running>>
  /\ UNCHANGED <<policy, counts>>

(* sync_group_snapshot_task takes a message, whatever the holding's status.*)
Take(w) ==
  /\ queue > 0
  /\ Start(w, "list", "holding", {})
  /\ queue' = queue - 1
  /\ running' = running + 1
  /\ UNCHANGED <<policy, tenantSnap, snap, old, counts>>

(* sync_consolidation --group-id, and --tenant-id for one company.         *)
Command(s, at, task, todo) ==
  /\ commands < MaxCommands
  /\ commands' = commands + 1
  /\ Start(s, at, task, todo)
  /\ running' = running + 1
  /\ UNCHANGED <<policy, tenantSnap, snap, old, queue, failures, lost>>

CommandGroup(s) == Command(s, "list", "holding", {})
CommandTenant(s, t) == Command(s, "work", "company", {t})

-----------------------------------------------------------------------------
(* Mutant: the mode of the link is taken for the effective one.            *)
ListOwnMode(p) ==
  /\ proc[p].pc = "list"
  /\ LET modes == [t \in Companies |->
           IF link[t].active /\ tenant[t].active THEN link[t].mode ELSE "unlisted"] IN
     proc' = [proc EXCEPT ![p].modes = modes,
                          ![p].todo = {t \in Companies : Counts(modes[t])},
                          ![p].pc = "work"]
  /\ UNCHANGED <<policy, stored, counts, window>>

(* _sync_group_snapshot reads the active links of active companies in one  *)
(* query, and skips the ones blocked under the holding's row read before.  *)
List(p) ==
  /\ proc[p].pc = "list"
  /\ LET modes == [t \in Companies |-> ListedMode(proc[p].group, World, t)] IN
     proc' = [proc EXCEPT ![p].modes = modes,
                          ![p].todo = {t \in Companies : Counts(modes[t])},
                          ![p].pc = "work"]
  /\ UNCHANGED <<policy, stored, counts, window>>

(* The companies are taken in an order of their own, by name.              *)
NextCompany(todo) == CHOOSE t \in todo : TRUE

(* Mutant: a company that has a snapshot is not computed again.            *)
ComputeOnce(p) ==
  LET t == NextCompany(proc[p].todo) IN
  /\ proc[p].pc = "work" /\ proc[p].todo # {}
  /\ proc' = [proc EXCEPT
       ![p].cur = t, ![p].pc = "save",
       ![p].got[t] = IF tenantSnap[t] = NoFigure THEN figure[t] ELSE tenantSnap[t]]
  /\ UNCHANGED <<policy, stored, counts, window>>

(* compute_tenant_metrics of the next company, in its schema, ...          *)
Compute(p) ==
  LET t == NextCompany(proc[p].todo) IN
  /\ proc[p].pc = "work" /\ proc[p].todo # {}
  /\ proc' = [proc EXCEPT ![p].cur = t, ![p].got[t] = figure[t], ![p].pc = "save"]
  /\ UNCHANGED <<policy, stored, counts, window>>

(* ... and _upsert_tenant_snapshot saves what it found.                    *)
SaveTenant(p) ==
  LET t == proc[p].cur IN
  /\ proc[p].pc = "save"
  /\ tenantSnap' = [tenantSnap EXCEPT ![t] = proc[p].got[t]]
  /\ proc' = [proc EXCEPT ![p].todo = @ \ {t}, ![p].cur = NoCompany, ![p].pc = "work"]
  /\ UNCHANGED <<policy, snap, old, queue, running, counts, window>>

(* When no company is left: the totals are merged and the snapshot of the  *)
(* holding is saved over whatever another process published since.         *)
Publish(p) ==
  /\ proc[p].pc = "work" /\ proc[p].todo = {}
  /\ Goto(p, "finish")
  /\ IF proc[p].task = "company" THEN UNCHANGED <<snap, old>>
     ELSE /\ snap' = [modes |-> proc[p].modes,
                      sum |-> SumOf(proc[p].got,
                                {t \in Companies : Counts(proc[p].modes[t])})]
          /\ old' = FALSE
  /\ UNCHANGED <<policy, tenantSnap, queue, running, counts>>

(* The run succeeded; a page goes on to its rows.                          *)
Finish(p) ==
  /\ proc[p].pc = "finish"
  /\ running' = running - 1
  /\ IF p \in Viewers THEN Goto(p, "rows") ELSE Leave(p)
  /\ UNCHANGED <<policy, tenantSnap, snap, old, queue, counts>>

(* build_group_dashboard_rows: links of active companies, with the row of  *)
(* the holding the page opened with, and the company snapshots as they are.*)
Show(v) ==
  /\ proc[v].pc = "rows"
  /\ proc' = [proc EXCEPT ![v].pc = "shown", ![v].todo =
       {t \in Companies :
          /\ tenant[t].active
          /\ Counts(EffectiveMode(proc[v].group, link[t], tenant[t]))
          /\ tenantSnap[t] # NoFigure}]
  /\ UNCHANGED <<policy, stored, counts, window>>

Close(v) ==
  /\ proc[v].pc = "shown"
  /\ Leave(v)
  /\ UNCHANGED <<policy, stored, counts>>

-----------------------------------------------------------------------------
Mishap == failures + lost < MaxMishaps

(* Where an exception is caught: in _sync_group_snapshot, or in the        *)
(* snapshot of the one company.  What follows is outside the try.          *)
Caught == Syncing \ {"finish"}

(* Mutant: the error is raised, and the run is left as it is.              *)
FailQuietly(p) ==
  /\ Mishap
  /\ proc[p].pc \in Caught
  /\ failures' = failures + 1
  /\ Leave(p)
  /\ UNCHANGED <<policy, tenantSnap, snap, old, queue, running, commands, lost>>

(* An exception in a refresh: the run is saved as FAILED and the request   *)
(* or task ends without a page; nobody tries again.                        *)
Fail(p) ==
  /\ Mishap
  /\ proc[p].pc \in Caught
  /\ failures' = failures + 1
  /\ running' = running - 1
  /\ Leave(p)
  /\ UNCHANGED <<policy, tenantSnap, snap, old, queue, commands, lost>>

(* The totals are out and the run is saved as succeeded, but the event of  *)
(* the refresh fails: no page either.  One company has no event.           *)
FailUnrecorded(p) ==
  /\ Mishap
  /\ proc[p].pc = "finish" /\ proc[p].task = "holding"
  /\ failures' = failures + 1
  /\ running' = running - 1
  /\ Leave(p)
  /\ UNCHANGED <<policy, tenantSnap, snap, old, queue, commands, lost>>

(* The process is killed, or a save of the run itself fails, the last one  *)
(* or that of FAILED: the run says RUNNING for ever.                       *)
Lose(p) ==
  /\ Mishap
  /\ proc[p].pc \in Syncing
  /\ lost' = lost + 1
  /\ Leave(p)
  /\ UNCHANGED <<policy, stored, commands, failures>>

(* Fifteen minutes pass since the snapshot was saved.                      *)
Age ==
  /\ snap # NoSnapshot /\ ~old
  /\ old' = TRUE
  /\ UNCHANGED <<policy, tenantSnap, snap, queue, running, counts, proc, window>>

Change ==
  /\ changes < MaxChanges
  /\ changes' = changes + 1
  /\ \/ group' \in GroupChoices \ {group} /\ UNCHANGED <<link, tenant, figure>>
     \/ \E t \in Companies :
          \/ \E row \in LinkChoices \ {link[t]} :
               link' = [link EXCEPT ![t] = row] /\ UNCHANGED <<group, tenant, figure>>
          \/ \E row \in TenantChoices \ {tenant[t]} :
               tenant' = [tenant EXCEPT ![t] = row] /\ UNCHANGED <<group, link, figure>>
          \/ \E n \in Figures \ {figure[t]} :
               figure' = [figure EXCEPT ![t] = n] /\ UNCHANGED <<group, link, tenant>>
  /\ window' = [p \in Processes |->
                  IF window[p] = {} THEN {} ELSE window[p] \cup {World'}]
  /\ UNCHANGED <<stored, counts, proc>>

-----------------------------------------------------------------------------
SyncStep(p) ==
  List(p) \/ Compute(p) \/ SaveTenant(p) \/ Publish(p) \/ Finish(p)

PageStep(v) == Ensure(v) \/ Show(v) \/ Close(v)

Step(p) ==
  \/ SyncStep(p)
  \/ p \in Viewers /\ PageStep(p)
  \/ p \in Workers /\ Take(p)

Next ==
  \/ Change \/ Age
  \/ \E v \in Viewers : Open(v)
  \/ \E s \in Shells : CommandGroup(s) \/ \E t \in Companies : CommandTenant(s, t)
  \/ \E p \in Processes : Step(p) \/ Fail(p) \/ FailUnrecorded(p) \/ Lose(p)

Spec == Init /\ [][Next]_vars

(* Running processes go on, workers take the messages that wait, and time  *)
(* passes.  Nobody is bound to open a page, run a command or change a row. *)
Fairness == WF_vars(Age) /\ \A p \in Processes : WF_vars(Step(p))

FairSpec == Spec /\ Fairness

-----------------------------------------------------------------------------
(* What a process at work has read, it read in worlds it lived through:    *)
(* the holding's row, the modes it listed under it, and the figure of every*)
(* company it has been through.                                            *)
From(W, figures, t) == \E w \in W : figures[t] = w.figure[t]

ReadsAreWitnessed(q, W) ==
  /\ World \in W
  /\ \E w \in W : q.group = w.group
  /\ \A t \in Companies : q.got[t] = 0 \/ From(W, q.got, t)
  /\ q.pc = "save" => q.cur \in Companies /\ From(W, q.got, q.cur)
  /\ q.pc \in {"work", "save"} /\ q.task # "company" =>
       /\ q.modes \in Contract!ModesRead(W)
       /\ \A t \in Companies \ q.todo : Counts(q.modes[t]) => From(W, q.got, t)

WindowsWitness ==
  \A p \in Processes :
    IF proc[p].pc = "idle" THEN window[p] = {}
    ELSE ReadsAreWitnessed(proc[p], window[p])

(* A run that says RUNNING has a process at work, or is one whose last save*)
(* never came, its process killed or the save itself failed: an error in   *)
(* the figures or the totals of a refresh never keeps its run open.        *)
RunningRowsAreLive ==
  running = lost + Cardinality({p \in Processes : proc[p].pc \in Syncing})

(* What both of them rest on: it is inductive.                             *)
IInv == TypeOK /\ RunningRowsAreLive /\ WindowsWitness

(* The totals and the pages keep the contract, however refreshes overlap.  *)
ImplementsContract == Contract!ContractSpec

(* With background jobs, a snapshot that looks old does not stay so while  *)
(* pages keep being opened: failures and lost processes only delay it.     *)
Looked == []<><<\E v \in Viewers : Ensure(v)>>_vars
LooksOld == snap # NoSnapshot /\ old
OldIsReplaced == Looked => (LooksOld ~> ~LooksOld)

(* A company that is blocked for good leaves the totals, although a refresh*)
(* that began before may still publish it.                                 *)
BlockedLeavesTotal ==
  \A t \in Companies :
    Looked /\ <>[](~Counts(ListedMode(group, World, t)))
      => <>[](snap # NoSnapshot => ~Counts(snap.modes[t]))
=============================================================================
