------------------------- MODULE ConsolidationProofs -------------------------
(* The consolidated snapshots of a holding, for any companies, processes   *)
(* and rows: which rows say RUNNING, and that the published totals and the *)
(* pages keep the contract of SnapshotContract.                            *)
(*                                                                         *)
(* Every step but the changes of the policy and the ageing of a snapshot   *)
(* is a move of one process: it goes on to a job q with a window W.  The   *)
(* proofs say once what such a move needs, and then what each action has.  *)
EXTENDS Consolidation, FiniteSetTheorems, TLAPS

Live == {p \in Processes : proc[p].pc \in Syncing}
Weight(q) == IF q.pc \in Syncing THEN 1 ELSE 0

(* A process that moves enters or leaves the runs at work, or neither.     *)
LEMMA LiveMoves ==
  ASSUME TypeOK, NEW p \in Processes, NEW q, proc' = [proc EXCEPT ![p] = q]
  PROVE  /\ Cardinality(Live) \in Nat
         /\ Cardinality(Live') = Cardinality(Live) + Weight(q) - Weight(proc[p])
         /\ Weight(proc[p]) <= Cardinality(Live)
<1>1. IsFiniteSet(Live) /\ Cardinality(Live) \in Nat
  <2>1. Live \subseteq Processes /\ IsFiniteSet(Processes)
    BY ConsolidationAssumption DEF Live
  <2> QED
    BY <2>1, FS_Subset, FS_CardinalityType
<1>2. \A r \in Processes : proc'[r] = IF r = p THEN q ELSE proc[r]
  BY DEF TypeOK
<1>3. ASSUME NEW S, IsFiniteSet(S)
      PROVE  /\ Cardinality(S) \in Nat
             /\ p \in S => Cardinality(S \ {p}) = Cardinality(S) - 1
                           /\ 1 <= Cardinality(S)
             /\ p \notin S => Cardinality(S \cup {p}) = Cardinality(S) + 1
  <2>1. Cardinality(S) \in Nat
    BY <1>3, FS_CardinalityType
  <2>2. CASE p \in S
    <3>1. IsFiniteSet(S \ {p}) /\ Cardinality(S \ {p}) = Cardinality(S) - 1
      BY <1>3, <2>2, FS_RemoveElement
    <3>2. Cardinality(S \ {p}) \in Nat
      BY <3>1, FS_CardinalityType
    <3> QED
      BY <2>1, <2>2, <3>1, <3>2
  <2>3. CASE p \notin S
    BY <1>3, <2>1, <2>3, FS_AddElement
  <2> QED
    BY <2>2, <2>3
<1>4. /\ p \in Live => Cardinality(Live \ {p}) = Cardinality(Live) - 1
                       /\ 1 <= Cardinality(Live)
      /\ p \notin Live => Cardinality(Live \cup {p}) = Cardinality(Live) + 1
  BY <1>1, <1>3
<1>5. p \in Live <=> proc[p].pc \in Syncing
  BY DEF Live
<1>6. Weight(proc[p]) = IF p \in Live THEN 1 ELSE 0
  BY <1>5 DEF Weight
<1>7. CASE q.pc \in Syncing
  <2>1. Live' = IF p \in Live THEN Live ELSE Live \cup {p}
    BY <1>2, <1>7 DEF Live
  <2>2. Weight(q) = 1
    BY <1>7 DEF Weight
  <2> HIDE DEF Live
  <2>3. Cardinality(Live') = IF p \in Live THEN Cardinality(Live) ELSE Cardinality(Live \cup {p})
    BY <2>1
  <2> QED
    BY <1>1, <1>4, <1>6, <2>2, <2>3
<1>8. CASE q.pc \notin Syncing
  <2>1. Live' = IF p \in Live THEN Live \ {p} ELSE Live
    BY <1>2, <1>8 DEF Live
  <2>2. Weight(q) = 0
    BY <1>8 DEF Weight
  <2> HIDE DEF Live
  <2>3. Cardinality(Live') = IF p \in Live THEN Cardinality(Live \ {p}) ELSE Cardinality(Live)
    BY <2>1
  <2> QED
    BY <1>1, <1>4, <1>6, <2>2, <2>3
<1> QED
  BY <1>7, <1>8

(* The world is well-formed where the rows are.                            *)
LEMMA WorldIsOne ==
  ASSUME TypeOK
  PROVE  /\ World \in Worlds
         /\ World.group = group /\ World.link = link
         /\ World.tenant = tenant /\ World.figure = figure
BY DEF TypeOK, World, Worlds

(* What a process that moves to q with the window W has to show.           *)
Moves(p, q, W) ==
  /\ proc' = [proc EXCEPT ![p] = q]
  /\ window' = [window EXCEPT ![p] = W]
  /\ UNCHANGED policy

WellDone(q, W) ==
  /\ q \in Jobs
  /\ W \in SUBSET Worlds
  /\ IF q.pc = "idle" THEN W = {} ELSE ReadsAreWitnessed(q, W)

StoredOK ==
  /\ tenantSnap \in [Companies -> Nat \cup {NoFigure}]
  /\ snap = NoSnapshot \/ snap.modes \in [Companies -> Listed]
  /\ old \in BOOLEAN
  /\ queue \in 0..MaxQueue
  /\ running \in Nat /\ commands \in Nat /\ failures \in Nat /\ lost \in Nat

(* A move keeps the invariant when the run rows follow it.                 *)
LEMMA MoveKeepsIInv ==
  ASSUME IInv, NEW p \in Processes, NEW q, NEW W, Moves(p, q, W), WellDone(q, W),
         StoredOK', running' - lost' = running - lost + Weight(q) - Weight(proc[p])
  PROVE  IInv'
<1> USE DEF IInv
<1>1. TypeOK'
  <2>1. proc' \in [Processes -> Jobs] /\ window' \in [Processes -> SUBSET Worlds]
    BY DEF Moves, WellDone, TypeOK
  <2>2. /\ group' \in GroupRows /\ link' \in [Companies -> LinkRows]
        /\ tenant' \in [Companies -> TenantRows]
        /\ figure' \in [Companies -> Nat] /\ changes' \in Nat
    BY DEF Moves, TypeOK, policy
  <2> QED
    BY <2>1, <2>2 DEF StoredOK, TypeOK
<1>2. World' = World
  BY DEF Moves, policy, World
<1>3. WindowsWitness'
  <2> SUFFICES ASSUME NEW r \in Processes
               PROVE  (IF proc[r].pc = "idle" THEN window[r] = {}
                       ELSE ReadsAreWitnessed(proc[r], window[r]))'
    BY DEF WindowsWitness
  <2>1. CASE r = p
    <3>1. proc'[r] = q /\ window'[r] = W
      BY <2>1 DEF Moves, TypeOK
    <3> QED
      BY <1>2, <3>1 DEF WellDone, ReadsAreWitnessed, From, Counts
  <2>2. CASE r # p
    <3>1. proc'[r] = proc[r] /\ window'[r] = window[r]
      BY <2>2 DEF Moves, TypeOK
    <3> QED
      BY <1>2, <3>1 DEF WindowsWitness, ReadsAreWitnessed, From, Counts
  <2> QED
    BY <2>1, <2>2
<1>4. RunningRowsAreLive'
  <2>1. /\ Cardinality(Live) \in Nat
        /\ Cardinality(Live') = Cardinality(Live) + Weight(q) - Weight(proc[p])
    BY LiveMoves DEF Moves
  <2>2. running = lost + Cardinality(Live)
    BY DEF RunningRowsAreLive, Live
  <2>3. /\ running \in Nat /\ lost \in Nat /\ running' \in Nat /\ lost' \in Nat
        /\ Weight(q) \in Nat /\ Weight(proc[p]) \in Nat
    BY DEF TypeOK, StoredOK, Weight
  <2>4. running' = lost' + Cardinality(Live')
    BY <2>1, <2>2, <2>3
  <2> QED
    BY <2>4 DEF RunningRowsAreLive, Live
<1> QED
  BY <1>1, <1>3, <1>4

-----------------------------------------------------------------------------
(* The jobs the actions go on to.                                          *)
Started(at, task, g, d) == [Idle EXCEPT !.pc = at, !.task = task, !.group = g, !.todo = d]
At(j, at) == [j EXCEPT !.pc = at]
Having(j, m, d) == [j EXCEPT !.modes = m, !.todo = d, !.pc = "work"]
Computed(j, c, f) == [j EXCEPT !.cur = c, !.got = f, !.pc = "save"]
Saved(j, d) == [j EXCEPT !.todo = d, !.cur = NoCompany, !.pc = "work"]
Shown(j, d) == [j EXCEPT !.pc = "shown", !.todo = d]

Pcs == {"idle", "ensure", "rows", "shown"} \cup Syncing
ModesOf == [Companies -> Listed]
Todos == SUBSET Companies
Currents == Companies \cup {NoCompany}
Gots == [Companies -> Nat]

LEMMA JobsAre ==
  /\ Jobs = [pc : Pcs, task : {"none", "holding", "company"}, group : GroupRows,
             modes : ModesOf, todo : Todos, cur : Currents, got : Gots]
  /\ {"idle", "ensure", "rows", "shown", "list", "work", "save", "finish"} \subseteq Pcs
  /\ NoCompany \in Currents /\ \A c \in Companies : c \in Currents
BY DEF Jobs, Pcs, ModesOf, Todos, Currents, Gots, Syncing

LEMMA IdleIsJob == Idle \in Jobs /\ Idle.pc = "idle" /\ Idle.got = NoGot
<1>1. /\ NoModes \in ModesOf /\ NoGot \in Gots /\ {} \in Todos
      /\ [active |-> FALSE, mode |-> "blocked"] \in GroupRows
  BY DEF NoModes, NoGot, Listed, GroupRows, Modes, ModesOf, Gots, Todos
<1> DEFINE g == [active |-> FALSE, mode |-> "blocked"]
<1> HIDE DEF g
<1>2. [pc |-> "idle", task |-> "none", group |-> g, modes |-> NoModes,
       todo |-> {}, cur |-> NoCompany, got |-> NoGot] \in Jobs
  BY <1>1, JobsAre DEF g
<1> QED
  BY <1>2 DEF Idle, g

LEMMA StartedJob ==
  ASSUME NEW at \in {"ensure", "list", "work"}, NEW task \in {"holding", "company"},
         NEW g \in GroupRows, NEW d \in Todos
  PROVE  LET r == Started(at, task, g, d) IN
         r \in Jobs /\ r.pc = at /\ r.task = task /\ r.group = g /\ r.got = NoGot
<1>1. ASSUME NEW i \in Jobs
      PROVE  LET r == [i EXCEPT !.pc = at, !.task = task, !.group = g, !.todo = d] IN
             r \in Jobs /\ r.pc = at /\ r.task = task /\ r.group = g /\ r.got = i.got
  BY JobsAre
<1> QED
  BY <1>1, IdleIsJob DEF Started

LEMMA AtJob ==
  ASSUME NEW j \in Jobs, NEW at \in {"list", "rows", "finish"}
  PROVE  LET r == At(j, at) IN
         r \in Jobs /\ r.pc = at /\ r.group = j.group /\ r.got = j.got
BY JobsAre DEF At

LEMMA HavingJob ==
  ASSUME NEW j \in Jobs, NEW m \in ModesOf, NEW d \in Todos
  PROVE  LET r == Having(j, m, d) IN
         /\ r \in Jobs /\ r.pc = "work" /\ r.modes = m /\ r.todo = d
         /\ r.group = j.group /\ r.got = j.got
BY JobsAre DEF Having

LEMMA ComputedJob ==
  ASSUME NEW j \in Jobs, NEW c \in Companies, NEW f \in Gots
  PROVE  LET r == Computed(j, c, f) IN
         /\ r \in Jobs /\ r.pc = "save" /\ r.cur = c /\ r.got = f
         /\ r.modes = j.modes /\ r.todo = j.todo /\ r.task = j.task
         /\ r.group = j.group
BY JobsAre DEF Computed

LEMMA SavedJob ==
  ASSUME NEW j \in Jobs, NEW d \in Todos
  PROVE  LET r == Saved(j, d) IN
         /\ r \in Jobs /\ r.pc = "work" /\ r.todo = d /\ r.got = j.got
         /\ r.modes = j.modes /\ r.task = j.task /\ r.group = j.group
BY JobsAre DEF Saved

LEMMA ShownJob ==
  ASSUME NEW j \in Jobs, NEW d \in Todos
  PROVE  LET r == Shown(j, d) IN
         /\ r \in Jobs /\ r.pc = "shown" /\ r.todo = d /\ r.got = j.got
         /\ r.group = j.group
BY JobsAre DEF Shown

(* The jobs the actions go on to, and that they read nothing that was not  *)
(* there.  A process that begins has read the row of the holding.          *)
LEMMA StartMoves ==
  ASSUME IInv, NEW p \in Processes, NEW at, NEW task, NEW todo \in SUBSET Companies,
         \/ at \in {"ensure", "list"} /\ task = "holding"
         \/ at = "work" /\ task = "company",
         Start(p, at, task, todo), UNCHANGED policy
  PROVE  \E q : /\ Moves(p, q, {World}) /\ WellDone(q, {World})
                /\ q.pc = at /\ proc[p].pc = "idle" /\ window[p] = {}
<1> DEFINE q == Started(at, task, group, todo)
<1>1. Moves(p, q, {World})
  BY DEF Start, Moves, Started
<1>2. group \in GroupRows
  BY DEF IInv, TypeOK
<1>3. /\ q \in Jobs /\ q.pc = at /\ q.task = task /\ q.group = group
      /\ \A t \in Companies : q.got[t] = 0
  BY <1>2, StartedJob DEF NoGot, Todos
<1>4. World \in Worlds /\ World.group = group
  BY WorldIsOne DEF IInv
<1> HIDE DEF q
<1>5. ReadsAreWitnessed(q, {World})
  BY <1>3, <1>4 DEF ReadsAreWitnessed
<1>6. proc[p].pc = "idle" /\ window[p] = {}
  BY DEF Start, IInv, WindowsWitness
<1> QED
  BY <1>1, <1>2, <1>3, <1>4, <1>5, <1>6 DEF WellDone

(* Where nothing is read, nothing has to be shown.                         *)
LEMMA GotoMoves ==
  ASSUME IInv, NEW p \in Processes, NEW at \in {"list", "rows", "finish"},
         proc[p].pc # "idle", Goto(p, at), UNCHANGED policy
  PROVE  \E q : /\ Moves(p, q, window[p]) /\ WellDone(q, window[p])
                /\ q.pc = at
<1> DEFINE q == At(proc[p], at)
<1>1. proc[p] \in Jobs /\ window \in [Processes -> SUBSET Worlds]
  BY DEF IInv, TypeOK
<1>2. Moves(p, q, window[p])
  <2>1. window' = [window EXCEPT ![p] = window[p]]
    BY <1>1 DEF Goto
  <2> QED
    BY <2>1 DEF Goto, Moves, At
<1>3. ReadsAreWitnessed(proc[p], window[p])
  BY DEF IInv, WindowsWitness
<1>5. q \in Jobs /\ q.pc = at /\ q.group = proc[p].group /\ q.got = proc[p].got
  BY <1>1, AtJob
<1> HIDE DEF q
<1>6. ReadsAreWitnessed(q, window[p])
  BY <1>3, <1>5 DEF ReadsAreWitnessed, From
<1> QED
  BY <1>1, <1>2, <1>5, <1>6 DEF WellDone

(* A process that is through has read nothing.                             *)
LEMMA LeaveMoves ==
  ASSUME IInv, NEW p \in Processes, Leave(p), UNCHANGED policy
  PROVE  Moves(p, Idle, {}) /\ WellDone(Idle, {}) /\ Idle.pc = "idle"
<1>2. Idle \in Jobs /\ Idle.pc = "idle"
  BY IdleIsJob
<1> QED
  BY <1>2 DEF Leave, Moves, WellDone

(* The modes a refresh lists are those of one query under the row of the   *)
(* holding read before; the companies they count are still to be done.     *)
LEMMA ListMoves ==
  ASSUME IInv, NEW p \in Processes, List(p)
  PROVE  \E q : /\ Moves(p, q, window[p]) /\ WellDone(q, window[p])
                /\ q.pc = "work" /\ proc[p].pc = "list"
<1> DEFINE modes == [t \in Companies |-> ListedMode(proc[p].group, World, t)]
           todo == {t \in Companies : Counts(modes[t])}
           q == Having(proc[p], modes, todo)
<1>1. proc[p] \in Jobs /\ window \in [Processes -> SUBSET Worlds]
  BY DEF IInv, TypeOK
<1>2. Moves(p, q, window[p])
  <2>1. proc' = [proc EXCEPT ![p] = q]
    BY DEF List, Having, IInv, TypeOK
  <2>2. window' = [window EXCEPT ![p] = window[p]]
    BY <1>1 DEF List
  <2> QED
    BY <2>1, <2>2 DEF List, Moves
<1>3. ReadsAreWitnessed(proc[p], window[p]) /\ proc[p].pc = "list"
  BY DEF IInv, WindowsWitness, List
<1>4. modes \in [Companies -> Listed]
  <2> SUFFICES ASSUME NEW t \in Companies
               PROVE  ListedMode(proc[p].group, World, t) \in Listed
    OBVIOUS
  <2> QED
    BY DEF ListedMode, Contract!ListedMode, Contract!EffectiveMode, Listed, Modes
<1>5. modes \in Contract!ModesRead(window[p])
  <2>1. PICK v \in window[p] : proc[p].group = v.group
    BY <1>3 DEF ReadsAreWitnessed
  <2>2. modes = [t \in Companies |-> Contract!ListedMode(v.group, World, t)]
    BY <2>1 DEF ListedMode
  <2>3. World \in window[p]
    BY <1>3 DEF ReadsAreWitnessed
  <2> QED
    BY <2>1, <2>2, <2>3 DEF Contract!ModesRead
<1>7. todo \in SUBSET Companies
  OBVIOUS
<1>8. \A t \in Companies \ todo : ~Counts(modes[t])
  OBVIOUS
<1> HIDE DEF modes, todo
<1>9. /\ q \in Jobs /\ q.pc = "work" /\ q.modes = modes /\ q.todo = todo
      /\ q.group = proc[p].group /\ q.got = proc[p].got
  BY <1>1, <1>4, <1>7, HavingJob DEF ModesOf, Todos
<1> HIDE DEF q
<1>10. ReadsAreWitnessed(q, window[p])
  BY <1>3, <1>5, <1>8, <1>9 DEF ReadsAreWitnessed, From
<1> QED
  BY <1>1, <1>2, <1>3, <1>9, <1>10 DEF WellDone

(* The figure of the next company is one of this instant, ...              *)
LEMMA ComputeMoves ==
  ASSUME IInv, NEW p \in Processes, Compute(p)
  PROVE  \E q : /\ Moves(p, q, window[p]) /\ WellDone(q, window[p])
                /\ q.pc = "save" /\ proc[p].pc = "work"
<1> DEFINE t == NextCompany(proc[p].todo)
           got == [proc[p].got EXCEPT ![t] = figure[t]]
           q == Computed(proc[p], t, got)
           W == window[p]
<1>1. proc[p] \in Jobs /\ window \in [Processes -> SUBSET Worlds]
      /\ figure \in [Companies -> Nat]
  BY DEF IInv, TypeOK
<1>2. t \in Companies
  <2>1. proc[p].todo \subseteq Companies /\ proc[p].todo # {}
    BY <1>1 DEF Compute, Jobs
  <2> QED
    BY <2>1 DEF NextCompany
<1>3. Moves(p, q, window[p])
  <2>1. proc' = [proc EXCEPT ![p] = q]
    BY DEF Compute, Computed, IInv, TypeOK
  <2>2. window' = [window EXCEPT ![p] = window[p]]
    BY <1>1 DEF Compute
  <2> QED
    BY <2>1, <2>2 DEF Compute, Moves
<1>4. ReadsAreWitnessed(proc[p], W) /\ proc[p].pc = "work"
  BY DEF IInv, WindowsWitness, Compute
<1>5. proc[p].got \in [Companies -> Nat]
  BY <1>1 DEF Jobs
<1> HIDE DEF t
<1>6. got \in [Companies -> Nat] /\ got[t] = figure[t]
      /\ \A u \in Companies : u # t => got[u] = proc[p].got[u]
  BY <1>1, <1>2, <1>5
<1> HIDE DEF got
<1>8. /\ q \in Jobs /\ q.pc = "save" /\ q.cur = t /\ q.got = got
      /\ q.modes = proc[p].modes /\ q.todo = proc[p].todo /\ q.task = proc[p].task
      /\ q.group = proc[p].group
  BY <1>1, <1>2, <1>6, ComputedJob DEF Gots
<1> HIDE DEF q, W
<1>9. From(W, got, t)
  <2>1. World \in W /\ World.figure = figure
    BY <1>4, WorldIsOne DEF ReadsAreWitnessed, IInv
  <2> QED
    BY <1>6, <2>1 DEF From
<1>10. \A u \in Companies : From(W, proc[p].got, u) => From(W, got, u)
  BY <1>6, <1>9 DEF From
<1>11. ReadsAreWitnessed(q, W)
  <2>1. /\ World \in W
        /\ \E w \in W : q.group = w.group
    BY <1>4, <1>8 DEF ReadsAreWitnessed
  <2>2. \A u \in Companies : q.got[u] = 0 \/ From(W, q.got, u)
    <3> SUFFICES ASSUME NEW u \in Companies
                 PROVE  got[u] = 0 \/ From(W, got, u)
      BY <1>8
    <3>1. proc[p].got[u] = 0 \/ From(W, proc[p].got, u)
      BY <1>4 DEF ReadsAreWitnessed
    <3> QED
      BY <1>6, <1>9, <1>10, <3>1
  <2>3. q.pc = "save" => q.cur \in Companies /\ From(W, q.got, q.cur)
    BY <1>2, <1>8, <1>9
  <2>4. q.task # "company" =>
         /\ q.modes \in Contract!ModesRead(W)
         /\ \A u \in Companies \ q.todo : Counts(q.modes[u]) => From(W, q.got, u)
    BY <1>4, <1>8, <1>10 DEF ReadsAreWitnessed
  <2> QED
    BY <2>1, <2>2, <2>3, <2>4 DEF ReadsAreWitnessed
<1> QED
  BY <1>1, <1>3, <1>4, <1>8, <1>11 DEF WellDone, W

(* ... and the company is through once its snapshot is saved.              *)
LEMMA SaveMoves ==
  ASSUME IInv, NEW p \in Processes, SaveTenant(p)
  PROVE  \E q : /\ Moves(p, q, window[p]) /\ WellDone(q, window[p])
                /\ q.pc = "work" /\ proc[p].pc = "save"
<1> DEFINE t == proc[p].cur
           todo == proc[p].todo \ {t}
           q == Saved(proc[p], todo)
           W == window[p]
<1>1. proc[p] \in Jobs /\ window \in [Processes -> SUBSET Worlds]
  BY DEF IInv, TypeOK
<1>2. ReadsAreWitnessed(proc[p], W) /\ proc[p].pc = "save"
  BY DEF IInv, WindowsWitness, SaveTenant
<1>3. Moves(p, q, window[p])
  <2>1. proc' = [proc EXCEPT ![p] = q]
    BY DEF SaveTenant, Saved, IInv, TypeOK
  <2>2. window' = [window EXCEPT ![p] = window[p]]
    BY <1>1 DEF SaveTenant
  <2> QED
    BY <2>1, <2>2 DEF SaveTenant, Moves
<1>4. todo \in SUBSET Companies
  BY <1>1 DEF Jobs
<1>6. \A u \in Companies \ todo : u = t \/ u \in Companies \ proc[p].todo
  OBVIOUS
<1> HIDE DEF todo
<1>7. /\ q \in Jobs /\ q.pc = "work" /\ q.todo = todo /\ q.got = proc[p].got
      /\ q.modes = proc[p].modes /\ q.task = proc[p].task /\ q.group = proc[p].group
  BY <1>1, <1>4, SavedJob DEF Todos
<1> HIDE DEF q, W
<1>8. \A u \in Companies : From(W, proc[p].got, u) => From(W, q.got, u)
  BY <1>7
<1>9. ReadsAreWitnessed(q, W)
  BY <1>2, <1>6, <1>7, <1>8 DEF ReadsAreWitnessed
<1> QED
  BY <1>1, <1>2, <1>3, <1>7, <1>9 DEF WellDone, W

(* A page shows the companies it may under a holding's row it has read.    *)
LEMMA ShowMoves ==
  ASSUME IInv, NEW p \in Processes, Show(p)
  PROVE  \E q : /\ Moves(p, q, window[p]) /\ WellDone(q, window[p])
                /\ q.pc = "shown" /\ proc[p].pc = "rows"
                /\ q.todo \subseteq Contract!Visible(window[p])
<1> DEFINE todo == {t \in Companies :
                      /\ tenant[t].active
                      /\ Counts(EffectiveMode(proc[p].group, link[t], tenant[t]))
                      /\ tenantSnap[t] # NoFigure}
           q == Shown(proc[p], todo)
           W == window[p]
<1>1. proc[p] \in Jobs /\ window \in [Processes -> SUBSET Worlds]
  BY DEF IInv, TypeOK
<1>2. ReadsAreWitnessed(proc[p], W) /\ proc[p].pc = "rows"
  BY DEF IInv, WindowsWitness, Show
<1>3. Moves(p, q, window[p])
  <2>1. proc' = [proc EXCEPT ![p] = q]
    BY DEF Show, Shown, IInv, TypeOK
  <2>2. window' = [window EXCEPT ![p] = window[p]]
    BY <1>1 DEF Show
  <2> QED
    BY <2>1, <2>2 DEF Show, Moves
<1>4. todo \in SUBSET Companies
  OBVIOUS
<1>5. todo \subseteq Contract!Visible(W)
  <2> SUFFICES ASSUME NEW t \in todo PROVE t \in Contract!Visible(W)
    OBVIOUS
  <2>1. PICK v \in W : proc[p].group = v.group
    BY <1>2 DEF ReadsAreWitnessed
  <2>2. World \in W /\ World.tenant = tenant /\ World.link = link
    BY <1>2, WorldIsOne DEF ReadsAreWitnessed, IInv
  <2>3. Counts(Contract!EffectiveMode(v.group, World.link[t], World.tenant[t]))
    BY <2>1, <2>2 DEF EffectiveMode, Contract!EffectiveMode
  <2> QED
    BY <2>1, <2>2, <2>3 DEF Contract!Visible, Counts
<1> HIDE DEF todo
<1>6. /\ q \in Jobs /\ q.pc = "shown" /\ q.todo = todo /\ q.got = proc[p].got
      /\ q.group = proc[p].group
  BY <1>1, <1>4, ShownJob DEF Todos
<1> HIDE DEF q, W
<1>7. ReadsAreWitnessed(q, W)
  BY <1>2, <1>6 DEF ReadsAreWitnessed, From
<1> QED
  BY <1>1, <1>2, <1>3, <1>5, <1>6, <1>7 DEF WellDone, W

-----------------------------------------------------------------------------
(* What a move means to the contract: nothing; a beginning; an end; a page *)
(* that shows what it may; or a total that is published.                   *)
Published(W) ==
  \E modes \in Contract!ModesRead(W), figures \in [Companies -> Contract!Seen(W)] :
    /\ Contract!FiguresFrom(figures, modes, W)
    /\ snap' = [modes |-> modes,
                sum |-> SumOf(figures, {t \in Companies : Counts(modes[t])})]

Keeps(p, q, W) == W = window[p] /\ ShownBy(q) = ShownBy(proc[p]) /\ UNCHANGED snap
Begins(p, q, W) ==
  /\ window[p] = {} /\ W = {World}
  /\ ShownBy(q) = ShownBy(proc[p]) /\ UNCHANGED snap
Ends(p, q, W) == W = {} /\ ShownBy(q) = {} /\ UNCHANGED snap
Shows(p, q, W) ==
  W = window[p] /\ ShownBy(q) \subseteq Contract!Visible(W) /\ UNCHANGED snap
Publishes(p, q, W) ==
  W = window[p] /\ ShownBy(q) = ShownBy(proc[p]) /\ Published(W)

Does(p, q, W) ==
  /\ Moves(p, q, W) /\ WellDone(q, W)
  /\ StoredOK'
  /\ running' - lost' = running - lost + Weight(q) - Weight(proc[p])
  /\ Keeps(p, q, W) \/ Begins(p, q, W) \/ Ends(p, q, W) \/ Shows(p, q, W)
       \/ Publishes(p, q, W)

(* The types of what is stored, apart from those of the processes.         *)
LEMMA StoredTypes ==
  ASSUME IInv
  PROVE  StoredOK /\ group \in GroupRows
BY DEF IInv, TypeOK, StoredOK

(* The steps, each as what it does to one process and its reads.          *)
LEMMA StartDoes ==
  ASSUME IInv, NEW p \in Processes, NEW at, NEW task, NEW todo \in SUBSET Companies,
         \/ at \in {"ensure", "list"} /\ task = "holding"
         \/ at = "work" /\ task = "company",
         Start(p, at, task, todo), UNCHANGED <<policy, snap, lost>>, StoredOK',
         running' = running + IF at = "ensure" THEN 0 ELSE 1
  PROVE  \E q, W : Does(p, q, W)
<1>0. UNCHANGED policy /\ UNCHANGED snap /\ UNCHANGED lost
  OBVIOUS
<1>1. PICK q : /\ Moves(p, q, {World}) /\ WellDone(q, {World})
               /\ q.pc = at /\ proc[p].pc = "idle" /\ window[p] = {}
  BY <1>0, StartMoves
<1>2. ShownBy(q) = {} /\ ShownBy(proc[p]) = {}
  BY <1>1 DEF ShownBy
<1>3. Weight(proc[p]) = 0 /\ Weight(q) = IF at = "ensure" THEN 0 ELSE 1
  BY <1>1 DEF Weight, Syncing
<1>4. Begins(p, q, {World})
  BY <1>0, <1>1, <1>2 DEF Begins
<1>5. running \in Nat /\ lost \in Nat
  BY StoredTypes DEF StoredOK
<1>6. running' - lost' = running - lost + Weight(q) - Weight(proc[p])
  BY <1>0, <1>3, <1>5
<1> QED
  BY <1>1, <1>4, <1>6 DEF Does

LEMMA CommandDoes ==
  ASSUME IInv, NEW s \in Processes, NEW at, NEW task, NEW todo \in SUBSET Companies,
         \/ at \in {"ensure", "list"} /\ task = "holding"
         \/ at = "work" /\ task = "company",
         at # "ensure", Command(s, at, task, todo)
  PROVE  \E q, W : Does(s, q, W)
<1>1. /\ Start(s, at, task, todo) /\ UNCHANGED <<policy, snap, lost>>
      /\ UNCHANGED <<tenantSnap, old, queue, failures>>
      /\ running' = running + 1 /\ commands' = commands + 1
  BY DEF Command
<1>2. StoredOK'
  BY <1>1, StoredTypes DEF StoredOK
<1>3. running' = running + IF at = "ensure" THEN 0 ELSE 1
  BY <1>1
<1>4. \/ at \in {"ensure", "list"} /\ task = "holding"
      \/ at = "work" /\ task = "company"
  OBVIOUS
<1> QED
  BY <1>1, <1>2, <1>3, <1>4, StartDoes

(* Only a run at work can end, so a row that says RUNNING is left.         *)
LEMMA RunIsThere ==
  ASSUME IInv, NEW p \in Processes, NEW q, proc' = [proc EXCEPT ![p] = q],
         proc[p].pc \in Syncing
  PROVE  running - 1 \in Nat
<1>1. /\ Cardinality(Live) \in Nat /\ Weight(proc[p]) <= Cardinality(Live)
      /\ Weight(proc[p]) = 1
  BY LiveMoves DEF IInv, Weight
<1>2. running = lost + Cardinality(Live)
  BY DEF IInv, RunningRowsAreLive, Live
<1>3. running \in Nat /\ lost \in Nat
  BY StoredTypes DEF StoredOK
<1> QED
  BY <1>1, <1>2, <1>3

(* Whoever leaves while a run is at work accounts for it.                  *)
LEMMA LeaveDoes ==
  ASSUME IInv, NEW p \in Processes, Leave(p), UNCHANGED <<policy, snap>>, StoredOK',
         running' - lost' = running - lost - Weight(proc[p])
  PROVE  \E q, W : Does(p, q, W)
<1>0. UNCHANGED policy /\ UNCHANGED snap
  OBVIOUS
<1>1. Moves(p, Idle, {}) /\ WellDone(Idle, {}) /\ Idle.pc = "idle"
  BY <1>0, LeaveMoves
<1>2. Weight(Idle) = 0 /\ ShownBy(Idle) = {}
  BY <1>1 DEF Weight, ShownBy, Syncing
<1>3. Ends(p, Idle, {})
  BY <1>0, <1>2 DEF Ends
<1>4. /\ running \in Nat /\ lost \in Nat /\ running' \in Nat /\ lost' \in Nat
      /\ Weight(proc[p]) \in Nat
  BY StoredTypes DEF StoredOK, Weight
<1>5. running' - lost' = running - lost + Weight(Idle) - Weight(proc[p])
  BY <1>2, <1>4
<1> QED
  BY <1>1, <1>3, <1>5 DEF Does

(* A process that goes on in its run, or from page to run and back.        *)
LEMMA KeepDoes ==
  ASSUME IInv, NEW p \in Processes, NEW q, Moves(p, q, window[p]),
         WellDone(q, window[p]), q.pc # "shown", proc[p].pc # "shown",
         UNCHANGED <<snap, lost>>, StoredOK',
         running' = running + Weight(q) - Weight(proc[p])
  PROVE  \E r, W : Does(p, r, W)
<1>1. Keeps(p, q, window[p])
  BY DEF Keeps, ShownBy
<1>2. running \in Nat /\ lost \in Nat /\ Weight(q) \in Nat /\ Weight(proc[p]) \in Nat
  BY StoredTypes DEF StoredOK, Weight
<1>3. running' - lost' = running - lost + Weight(q) - Weight(proc[p])
  BY <1>2
<1> QED
  BY <1>1, <1>3 DEF Does

(* A published total is the sum of figures that were read.                 *)
LEMMA PublishDoes ==
  ASSUME IInv, NEW p \in Processes, Publish(p)
  PROVE  \E q, W : Does(p, q, W)
<1> DEFINE W == window[p]
           j == proc[p]
<1>1. j.pc = "work" /\ j.todo = {} /\ UNCHANGED policy /\ Goto(p, "finish")
      /\ UNCHANGED <<running, lost>>
  BY DEF Publish, counts
<1>2. PICK q : Moves(p, q, W) /\ WellDone(q, W) /\ q.pc = "finish"
  BY <1>1, GotoMoves
<1>3. j \in Jobs /\ ReadsAreWitnessed(j, W)
  BY <1>1 DEF IInv, TypeOK, WindowsWitness
<1>4. StoredOK'
  <2>1. j.modes \in [Companies -> Listed]
    BY <1>3 DEF Jobs
  <2>2. UNCHANGED <<tenantSnap, queue, running, commands, failures, lost>>
    BY DEF Publish, counts
  <2>3. snap' = NoSnapshot \/ snap'.modes \in [Companies -> Listed]
    BY <2>1, StoredTypes DEF Publish, StoredOK
  <2>4. old' \in BOOLEAN
    BY StoredTypes DEF Publish, StoredOK
  <2> QED
    BY <2>2, <2>3, <2>4, StoredTypes DEF StoredOK
<1>5. Weight(q) = 1 /\ Weight(j) = 1 /\ ShownBy(q) = {} /\ ShownBy(j) = {}
  BY <1>1, <1>2 DEF Weight, Syncing, ShownBy
<1>6. running' - lost' = running - lost + Weight(q) - Weight(proc[p])
  BY <1>1, <1>5, StoredTypes DEF StoredOK
<1>7. CASE j.task = "company"
  <2>1. Keeps(p, q, W)
    BY <1>5, <1>7 DEF Publish, Keeps
  <2> QED
    BY <1>2, <1>4, <1>6, <2>1 DEF Does
<1>8. CASE j.task # "company"
  <2>2. /\ j.modes \in Contract!ModesRead(W)
        /\ \A t \in Companies : Counts(j.modes[t]) => From(W, j.got, t)
    BY <1>1, <1>3, <1>8 DEF ReadsAreWitnessed
  <2>3. j.got \in [Companies -> Contract!Seen(W)]
    BY <1>3 DEF Jobs, ReadsAreWitnessed, From, Contract!Seen
  <2>4. Contract!FiguresFrom(j.got, j.modes, W)
    BY <2>2 DEF Contract!FiguresFrom, From, Counts
  <2>5. snap' = [modes |-> j.modes,
                 sum |-> SumOf(j.got, {t \in Companies : Counts(j.modes[t])})]
    BY <1>8 DEF Publish
  <2>6. Published(W)
    BY <2>2, <2>3, <2>4, <2>5 DEF Published
  <2>7. Publishes(p, q, W)
    BY <1>5, <2>6 DEF Publishes
  <2> QED
    BY <1>2, <1>4, <1>6, <2>7 DEF Does
<1> QED
  BY <1>7, <1>8

(* Every action but the changes and the ageing is such a move.             *)
LEMMA EveryStepMoves ==
  ASSUME IInv, Next
  PROVE  Change \/ Age \/ \E p \in Processes : \E q, W : Does(p, q, W)
<1>0. /\ Viewers \subseteq Processes /\ Shells \subseteq Processes
      /\ Workers \subseteq Processes /\ MaxQueue \in Nat
  BY ConsolidationAssumption DEF Processes
<1>s. StoredOK
  BY StoredTypes
<1>p. \A p \in Processes : proc[p] \in Jobs
  BY DEF IInv, TypeOK
<1>1. ASSUME NEW v \in Viewers, Open(v)
      PROVE  \E p \in Processes : \E q, W : Does(p, q, W)
  <2>1. Start(v, "ensure", "holding", {}) /\ UNCHANGED <<policy, stored, counts>>
    BY <1>1 DEF Open
  <2>2. StoredOK'
    BY <1>s, <2>1 DEF StoredOK, stored, counts
  <2>3. running' = running + IF "ensure" = "ensure" THEN 0 ELSE 1
    BY <1>s, <2>1 DEF StoredOK, stored
  <2>4. \E q, W : Does(v, q, W)
    BY <1>0, <2>1, <2>2, <2>3, StartDoes DEF stored, counts
  <2> QED
    BY <1>0, <2>4
<1>2. ASSUME NEW s \in Shells, CommandGroup(s) \/ \E t \in Companies : CommandTenant(s, t)
      PROVE  \E p \in Processes : \E q, W : Does(p, q, W)
  <2>1. s \in Processes
    BY <1>0
  <2>2. CASE CommandGroup(s)
    <3>1. Command(s, "list", "holding", {})
      BY <2>2 DEF CommandGroup
    <3>2. \E q, W : Does(s, q, W)
      BY <2>1, <3>1, CommandDoes
    <3> QED
      BY <2>1, <3>2
  <2>3. ASSUME NEW t \in Companies, CommandTenant(s, t)
        PROVE  \E p \in Processes : \E q, W : Does(p, q, W)
    <3>1. Command(s, "work", "company", {t})
      BY <2>3 DEF CommandTenant
    <3>2. \E q, W : Does(s, q, W)
      BY <2>1, <3>1, CommandDoes
    <3> QED
      BY <2>1, <3>2
  <2> QED
    BY <1>2, <2>2, <2>3
<1>3. ASSUME NEW w \in Workers, Take(w)
      PROVE  \E p \in Processes : \E q, W : Does(p, q, W)
  <2>1. /\ Start(w, "list", "holding", {}) /\ UNCHANGED <<policy, snap, lost>>
        /\ UNCHANGED <<tenantSnap, old, commands, failures>>
        /\ running' = running + 1 /\ queue > 0 /\ queue' = queue - 1
    BY <1>3 DEF Take, counts
  <2>2. StoredOK'
    BY <1>0, <1>s, <2>1 DEF StoredOK
  <2>3. running' = running + IF "list" = "ensure" THEN 0 ELSE 1
    BY <2>1
  <2>4. w \in Processes
    BY <1>0
  <2>6. \E q, W : Does(w, q, W)
    BY <2>1, <2>2, <2>3, <2>4, StartDoes
  <2> QED
    BY <2>4, <2>6
<1>4. ASSUME NEW p \in Processes, List(p) \/ Compute(p) \/ SaveTenant(p)
      PROVE  \E q, W : Does(p, q, W)
  <2>1. PICK q : /\ Moves(p, q, window[p]) /\ WellDone(q, window[p])
                 /\ q.pc \in {"work", "save"} /\ proc[p].pc \in {"list", "work", "save"}
    BY <1>4, ListMoves, ComputeMoves, SaveMoves
  <2>2. UNCHANGED <<snap, old, queue, running, commands, failures, lost>>
    BY <1>4 DEF List, Compute, SaveTenant, stored, counts
  <2>3. tenantSnap' \in [Companies -> Nat \cup {NoFigure}]
    <3>1. CASE List(p) \/ Compute(p)
      BY <1>s, <3>1 DEF List, Compute, stored, StoredOK
    <3>2. CASE SaveTenant(p)
      <4>1. proc[p].got \in [Companies -> Nat]
        BY <1>p DEF Jobs
      <4>2. proc[p].cur \in Companies
        BY <3>2 DEF SaveTenant, IInv, WindowsWitness, ReadsAreWitnessed
      <4> QED
        BY <1>s, <3>2, <4>1, <4>2 DEF SaveTenant, StoredOK
    <3> QED
      BY <1>4, <3>1, <3>2
  <2>4. StoredOK'
    BY <1>s, <2>2, <2>3 DEF StoredOK
  <2>5. Weight(q) = 1 /\ Weight(proc[p]) = 1 /\ q.pc # "shown" /\ proc[p].pc # "shown"
    BY <2>1 DEF Weight, Syncing
  <2>6. running' = running + Weight(q) - Weight(proc[p])
    BY <1>s, <2>2, <2>5 DEF StoredOK
  <2> QED
    BY <2>1, <2>2, <2>4, <2>5, <2>6, KeepDoes
<1>5. ASSUME NEW p \in Processes, Finish(p)
      PROVE  \E q, W : Does(p, q, W)
  <2>1. /\ proc[p].pc = "finish" /\ running' = running - 1
        /\ UNCHANGED <<policy, tenantSnap, snap, old, queue, commands, failures, lost>>
    BY <1>5 DEF Finish, counts
  <2>2. Weight(proc[p]) = 1 /\ proc[p].pc \in Syncing
    BY <2>1 DEF Weight, Syncing
  <2>3. CASE p \in Viewers
    <3>1. Goto(p, "rows") /\ UNCHANGED policy
      BY <1>5, <2>1, <2>3 DEF Finish
    <3>2. PICK q : Moves(p, q, window[p]) /\ WellDone(q, window[p]) /\ q.pc = "rows"
      BY <2>1, <3>1, GotoMoves
    <3>3. running - 1 \in Nat
      BY <2>2, <3>2, RunIsThere DEF Moves
    <3>4. StoredOK'
      BY <1>s, <2>1, <3>3 DEF StoredOK
    <3>5. Weight(q) = 0 /\ q.pc # "shown"
      BY <3>2 DEF Weight, Syncing
    <3>6. running' = running + Weight(q) - Weight(proc[p])
      BY <1>s, <2>1, <2>2, <3>5 DEF StoredOK
    <3> QED
      BY <2>1, <3>2, <3>4, <3>5, <3>6, KeepDoes
  <2>4. CASE p \notin Viewers
    <3>1. Leave(p) /\ UNCHANGED <<policy, snap>>
      BY <1>5, <2>1, <2>4 DEF Finish
    <3>2. running - 1 \in Nat
      BY <2>2, <3>1, RunIsThere DEF Leave
    <3>3. StoredOK'
      BY <1>s, <2>1, <3>2 DEF StoredOK
    <3>4. running' - lost' = running - lost - Weight(proc[p])
      BY <1>s, <2>1, <2>2 DEF StoredOK
    <3> QED
      BY <3>1, <3>3, <3>4, LeaveDoes
  <2> QED
    BY <2>3, <2>4
<1>6. ASSUME NEW v \in Processes, Ensure(v)
      PROVE  \E q, W : Does(v, q, W)
  <2>1. /\ proc[v].pc = "ensure"
        /\ UNCHANGED <<policy, tenantSnap, snap, old, commands, failures, lost>>
        /\ \/ Goto(v, "list") /\ running' = running + 1 /\ queue' = queue
           \/ Goto(v, "rows") /\ running' = running /\ queue' \in {queue, Enqueued}
    BY <1>6 DEF Ensure, StartsRun, stored, counts
  <2>2. PICK at \in {"list", "rows"} :
          /\ Goto(v, at)
          /\ running' = running + IF at = "list" THEN 1 ELSE 0
          /\ queue' \in {queue, Enqueued}
    BY <1>s, <2>1 DEF StoredOK
  <2>3. PICK q : Moves(v, q, window[v]) /\ WellDone(q, window[v]) /\ q.pc = at
    BY <2>1, <2>2, GotoMoves
  <2>4. StoredOK'
    <3>1. Enqueued \in 0..MaxQueue
      BY <1>0, <1>s DEF Enqueued, StoredOK
    <3> QED
      BY <1>s, <2>1, <2>2, <3>1 DEF StoredOK
  <2>5. /\ Weight(q) = (IF at = "list" THEN 1 ELSE 0) /\ Weight(proc[v]) = 0
        /\ q.pc # "shown" /\ proc[v].pc # "shown"
    BY <2>1, <2>3 DEF Weight, Syncing
  <2>6. running' = running + Weight(q) - Weight(proc[v])
    BY <1>s, <2>2, <2>5 DEF StoredOK
  <2> QED
    BY <2>1, <2>3, <2>4, <2>5, <2>6, KeepDoes
<1>7. ASSUME NEW v \in Processes, Show(v)
      PROVE  \E q, W : Does(v, q, W)
  <2>1. PICK q : /\ Moves(v, q, window[v]) /\ WellDone(q, window[v])
                 /\ q.pc = "shown" /\ proc[v].pc = "rows"
                 /\ q.todo \subseteq Contract!Visible(window[v])
    BY <1>7, ShowMoves
  <2>2. UNCHANGED <<tenantSnap, snap, old, queue, running, commands, failures, lost>>
    BY <1>7 DEF Show, stored, counts
  <2>3. StoredOK'
    BY <1>s, <2>2 DEF StoredOK
  <2>4. Weight(q) = 0 /\ Weight(proc[v]) = 0
    BY <2>1 DEF Weight, Syncing
  <2>5. running' - lost' = running - lost + Weight(q) - Weight(proc[v])
    BY <1>s, <2>2, <2>4 DEF StoredOK
  <2>6. Shows(v, q, window[v])
    BY <2>1, <2>2 DEF Shows, ShownBy
  <2> QED
    BY <2>1, <2>3, <2>5, <2>6 DEF Does
<1>8. ASSUME NEW p \in Processes, Close(p) \/ Fail(p) \/ FailUnrecorded(p) \/ Lose(p)
      PROVE  \E q, W : Does(p, q, W)
  <2>1. Leave(p) /\ UNCHANGED <<policy, snap>> /\ UNCHANGED <<tenantSnap, old, queue, commands>>
    BY <1>8 DEF Close, Fail, FailUnrecorded, Lose, stored, counts
  <2>2. CASE Close(p)
    <3>1. UNCHANGED <<running, lost, failures>> /\ Weight(proc[p]) = 0
      BY <2>2 DEF Close, stored, counts, Weight, Syncing
    <3>2. StoredOK' /\ running' - lost' = running - lost - Weight(proc[p])
      BY <1>s, <2>1, <3>1 DEF StoredOK
    <3> QED
      BY <2>1, <3>2, LeaveDoes
  <2>3. CASE Fail(p) \/ FailUnrecorded(p)
    <3>1. /\ running' = running - 1 /\ failures' = failures + 1 /\ UNCHANGED lost
          /\ proc[p].pc \in Syncing /\ Weight(proc[p]) = 1
      BY <2>3 DEF Fail, FailUnrecorded, Caught, Syncing, Weight
    <3>2. running - 1 \in Nat
      BY <2>1, <3>1, RunIsThere DEF Leave
    <3>3. StoredOK' /\ running' - lost' = running - lost - Weight(proc[p])
      BY <1>s, <2>1, <3>1, <3>2 DEF StoredOK
    <3> QED
      BY <2>1, <3>3, LeaveDoes
  <2>4. CASE Lose(p)
    <3>1. lost' = lost + 1 /\ UNCHANGED <<running, failures>> /\ Weight(proc[p]) = 1
      BY <2>4 DEF Lose, stored, Weight
    <3>2. StoredOK' /\ running' - lost' = running - lost - Weight(proc[p])
      BY <1>s, <2>1, <3>1 DEF StoredOK
    <3> QED
      BY <2>1, <3>2, LeaveDoes
  <2> QED
    BY <1>8, <2>2, <2>3, <2>4
<1>9. ASSUME NEW p \in Processes, Step(p) \/ Fail(p) \/ FailUnrecorded(p) \/ Lose(p)
      PROVE  \E r \in Processes : \E q, W : Does(r, q, W)
  <2>1. \/ List(p) \/ Compute(p) \/ SaveTenant(p)
        \/ Publish(p)
        \/ Finish(p)
        \/ Ensure(p)
        \/ Show(p)
        \/ Close(p) \/ Fail(p) \/ FailUnrecorded(p) \/ Lose(p)
        \/ p \in Workers /\ Take(p)
    BY <1>9, Zenon DEF Step, SyncStep, PageStep
  <2>2. CASE p \in Workers /\ Take(p)
    BY <1>3, <2>2
  <2>3. (\E q, W : Does(p, q, W)) \/ (p \in Workers /\ Take(p))
    BY <1>4, <1>5, <1>6, <1>7, <1>8, <2>1, PublishDoes, Zenon
  <2> QED
    BY <2>2, <2>3
<1> QED
  BY <1>1, <1>2, <1>9, Zenon DEF Next

(* A change of the policy or a figure is seen by every process at work.    *)
LEMMA ChangeKeepsIInv ==
  ASSUME IInv, Change
  PROVE  IInv'
<1>1. /\ UNCHANGED <<stored, counts, proc>>
      /\ changes' = changes + 1
      /\ window' = [p \in Processes |->
                      IF window[p] = {} THEN {} ELSE window[p] \cup {World'}]
  BY DEF Change
<1>2. /\ group' \in GroupRows /\ link' \in [Companies -> LinkRows]
      /\ tenant' \in [Companies -> TenantRows] /\ figure' \in [Companies -> Nat]
  <2>1. /\ group \in GroupRows /\ link \in [Companies -> LinkRows]
        /\ tenant \in [Companies -> TenantRows] /\ figure \in [Companies -> Nat]
    BY DEF IInv, TypeOK
  <2>2. /\ GroupChoices \subseteq GroupRows /\ LinkChoices \subseteq LinkRows
        /\ TenantChoices \subseteq TenantRows /\ Figures \subseteq Nat
    BY ConsolidationAssumption
  <2> QED
    BY <2>1, <2>2 DEF Change
<1>3. World' \in Worlds
  BY <1>2 DEF World, Worlds
<1>4. TypeOK'
  <2>1. window' \in [Processes -> SUBSET Worlds]
    BY <1>1, <1>3 DEF IInv, TypeOK
  <2> QED
    BY <1>1, <1>2, <2>1 DEF IInv, TypeOK, stored, counts
<1>5. WindowsWitness'
  <2> SUFFICES ASSUME NEW p \in Processes
               PROVE  (IF proc[p].pc = "idle" THEN window[p] = {}
                       ELSE ReadsAreWitnessed(proc[p], window[p]))'
    BY DEF WindowsWitness
  <2>1. proc' = proc
    BY <1>1
  <2>2. CASE proc[p].pc = "idle"
    BY <1>1, <2>1, <2>2 DEF IInv, WindowsWitness
  <2>3. CASE proc[p].pc # "idle"
    <3>1. ReadsAreWitnessed(proc[p], window[p])
      BY <2>3 DEF IInv, WindowsWitness
    <3>2. window'[p] = window[p] \cup {World'}
      BY <1>1, <3>1 DEF ReadsAreWitnessed
    <3>3. ASSUME NEW W, NEW q, NEW w, ReadsAreWitnessed(q, W)
          PROVE  /\ \E v \in W \cup {w} : q.group = v.group
                 /\ \A t \in Companies : q.got[t] = 0 \/ From(W \cup {w}, q.got, t)
                 /\ q.pc = "save" => q.cur \in Companies /\ From(W \cup {w}, q.got, q.cur)
                 /\ q.pc \in {"work", "save"} /\ q.task # "company" =>
                      /\ q.modes \in Contract!ModesRead(W \cup {w})
                      /\ \A t \in Companies \ q.todo :
                           Counts(q.modes[t]) => From(W \cup {w}, q.got, t)
      <4>1. \A f, t : From(W, f, t) => From(W \cup {w}, f, t)
        BY DEF From
      <4>2. \A m : m \in Contract!ModesRead(W) => m \in Contract!ModesRead(W \cup {w})
        BY DEF Contract!ModesRead
      <4>3. \E v \in W \cup {w} : q.group = v.group
        BY <3>3 DEF ReadsAreWitnessed
      <4> QED
        BY <3>3, <4>1, <4>2, <4>3 DEF ReadsAreWitnessed
    <3>4. World' \in window'[p]
      BY <3>2
    <3>5. ReadsAreWitnessed(proc[p], window[p])'
      <4> DEFINE j == proc[p]
                 W == window[p]
                 w == World'
      <4>1. /\ \E v \in W \cup {w} : j.group = v.group
            /\ \A t \in Companies : j.got[t] = 0 \/ From(W \cup {w}, j.got, t)
            /\ j.pc = "save" => j.cur \in Companies /\ From(W \cup {w}, j.got, j.cur)
            /\ j.pc \in {"work", "save"} /\ j.task # "company" =>
                 /\ j.modes \in Contract!ModesRead(W \cup {w})
                 /\ \A t \in Companies \ j.todo :
                      Counts(j.modes[t]) => From(W \cup {w}, j.got, t)
        BY <3>1, <3>3
      <4>2. proc'[p] = j /\ window'[p] = W \cup {w}
        BY <2>1, <3>2
      <4> HIDE DEF j, W, w
      <4> QED
        BY <3>4, <4>1, <4>2 DEF ReadsAreWitnessed, From, Contract!ModesRead, Counts,
          Contract!Counts, Contract!ListedMode, Contract!EffectiveMode
    <3> QED
      BY <2>1, <2>3, <3>5
  <2> QED
    BY <2>2, <2>3
<1>6. RunningRowsAreLive'
  BY <1>1 DEF IInv, RunningRowsAreLive, stored, counts
<1> QED
  BY <1>4, <1>5, <1>6 DEF IInv

(* Every step keeps what the processes know and which runs are at work.    *)
LEMMA StepKeepsIInv ==
  ASSUME IInv, [Next]_vars
  PROVE  IInv'
<1>1. ASSUME UNCHANGED <<policy, tenantSnap, snap, queue, running, counts, proc, window>>,
             old' \in BOOLEAN
      PROVE  IInv'
  <2>1. TypeOK'
    BY <1>1 DEF IInv, TypeOK, policy, counts
  <2>2. World' = World
    BY <1>1 DEF World, policy
  <2>3. WindowsWitness'
    BY <1>1, <2>2 DEF IInv, WindowsWitness, ReadsAreWitnessed, From, Counts
  <2>4. RunningRowsAreLive'
    BY <1>1 DEF IInv, RunningRowsAreLive, counts
  <2> QED
    BY <2>1, <2>3, <2>4 DEF IInv
<1>2. CASE UNCHANGED vars
  BY <1>1, <1>2 DEF vars, stored, IInv, TypeOK
<1>3. CASE Age
  BY <1>1, <1>3 DEF Age
<1>4. ASSUME NEW p \in Processes, NEW q, NEW W, Does(p, q, W)
      PROVE  IInv'
  BY <1>4, MoveKeepsIInv DEF Does
<1> QED
  BY <1>2, <1>3, <1>4, EveryStepMoves, ChangeKeepsIInv

(* At the start nobody runs, and every snapshot there is was witnessed.    *)
LEMMA InitIInv == Init => IInv
<1> SUFFICES ASSUME Init PROVE IInv
  OBVIOUS
<1>1. TypeOK
  <2>1. /\ group \in GroupRows /\ link \in [Companies -> LinkRows]
        /\ tenant \in [Companies -> TenantRows] /\ figure \in [Companies -> Nat]
    BY ConsolidationAssumption DEF Init
  <2>2. proc \in [Processes -> Jobs] /\ window \in [Processes -> SUBSET Worlds]
    BY IdleIsJob DEF Init
  <2>3. /\ tenantSnap \in [Companies -> Nat \cup {NoFigure}] /\ snap = NoSnapshot
        /\ changes \in Nat /\ old \in BOOLEAN
        /\ running \in Nat /\ commands \in Nat /\ failures \in Nat /\ lost \in Nat
    BY DEF Init
  <2>4. queue \in 0..MaxQueue
    BY ConsolidationAssumption DEF Init
  <2> QED
    BY <2>1, <2>2, <2>3, <2>4 DEF TypeOK
<1>2. WindowsWitness
  BY IdleIsJob DEF Init, WindowsWitness
<1>3. RunningRowsAreLive
  <2>1. Live = {}
    BY IdleIsJob DEF Init, Live, Syncing
  <2>2. Cardinality(Live) = 0
    BY <2>1, FS_EmptySet
  <2>3. running = 0 /\ lost = 0
    BY DEF Init
  <2> QED
    BY <2>2, <2>3 DEF RunningRowsAreLive, Live
<1> QED
  BY <1>1, <1>2, <1>3 DEF IInv

(* The types, the rows that say RUNNING, and that whatever a process has   *)
(* read was so in a world it lived through, hold in every reachable state. *)
THEOREM InductiveInvariant == Spec => []IInv
BY InitIInv, StepKeepsIInv, PTL DEF Spec

(* A row that says RUNNING has a process at work, or is one whose last     *)
(* save never came: its process was killed, or the save itself failed.     *)
THEOREM RunningRowsAreLiveThm == Spec => []RunningRowsAreLive
BY InductiveInvariant, PTL DEF IInv

-----------------------------------------------------------------------------
(* What each process is being shown: the pages of the contract.            *)
Pages == [p \in Processes |-> ShownBy(proc[p])]

(* A move that publishes nothing is a step of the world, or none.          *)
LEMMA MoveRefines ==
  ASSUME IInv, NEW p \in Processes, NEW q, NEW W, Does(p, q, W)
  PROVE  [Contract!ContractNext]_<<World, window, snap, Pages>>
<1>1. /\ proc' = [proc EXCEPT ![p] = q]
      /\ window' = [window EXCEPT ![p] = W]
      /\ World' = World
  BY DEF Does, Moves, World, policy
<1>2. Pages' = [Pages EXCEPT ![p] = ShownBy(q)]
  BY <1>1 DEF Pages, IInv, TypeOK, ShownBy
<1>3. window \in [Processes -> SUBSET Worlds]
  BY DEF IInv, TypeOK
<1>4. Pages[p] = ShownBy(proc[p]) /\ Pages = [Pages EXCEPT ![p] = Pages[p]]
  BY DEF Pages
<1>5. CASE Keeps(p, q, W)
  <2>1. window' = window /\ snap' = snap
    BY <1>1, <1>3, <1>5 DEF Keeps
  <2>2. Pages' = Pages
    BY <1>2, <1>4, <1>5 DEF Keeps
  <2> QED
    BY <1>1, <2>1, <2>2
<1>6. CASE Begins(p, q, W)
  <2>1. Contract!Begin(p)
    BY <1>1, <1>2, <1>4, <1>6 DEF Begins, Contract!Begin, Pages
  <2> QED
    BY <2>1 DEF Contract!ContractNext
<1>7. CASE Ends(p, q, W)
  <2>1. Contract!End(p)
    BY <1>1, <1>2, <1>7 DEF Ends, Contract!End, Pages
  <2> QED
    BY <2>1 DEF Contract!ContractNext
<1>8. CASE Shows(p, q, W)
  <2>1. window' = window /\ UNCHANGED snap
    BY <1>1, <1>3, <1>8 DEF Shows
  <2>2. ShownBy(q) \in SUBSET Contract!Visible(window[p])
    BY <1>8 DEF Shows
  <2>3. Contract!Show(p)
    BY <1>1, <1>2, <2>1, <2>2 DEF Contract!Show, Pages
  <2> QED
    BY <2>3 DEF Contract!ContractNext
<1>9. CASE Publishes(p, q, W)
  <2>1. window' = window /\ Published(window[p])
    BY <1>1, <1>3, <1>9 DEF Publishes
  <2>2. Pages' = Pages
    BY <1>2, <1>4, <1>9 DEF Publishes
  <2>3. Contract!Publish(p)
    BY <1>1, <2>1, <2>2 DEF Published, Contract!Publish, Pages, Counts
  <2> QED
    BY <2>3 DEF Contract!ContractNext
<1> QED
  BY <1>5, <1>6, <1>7, <1>8, <1>9 DEF Does

(* Every step of the refreshes is a step of the contract or a stutter.     *)
LEMMA StepRefines ==
  ASSUME IInv, [Next]_vars
  PROVE  [Contract!ContractNext]_<<World, window, snap, Pages>>
<1>1. CASE UNCHANGED vars
  BY <1>1 DEF vars, policy, stored, World, Pages, ShownBy
<1>2. CASE Age
  BY <1>2 DEF Age, policy, World, Pages, ShownBy
<1>3. CASE Change
  <2>1. Contract!Change
    BY <1>3 DEF Change, stored, Contract!Change, Contract!Watch, ShownBy
  <2> QED
    BY <2>1 DEF Contract!ContractNext
<1> QED
  BY <1>1, <1>2, <1>3, EveryStepMoves, MoveRefines

(* Whatever refreshes overlap, fail or die: a published total is a sum of  *)
(* figures its companies had, under a policy read, since the refresh that  *)
(* published it began, and a page shows only companies it was allowed to.  *)
THEOREM ImplementsContractThm == Spec => ImplementsContract
<1>1. Init => Contract!ContractInit
  BY IdleIsJob DEF Init, Contract!ContractInit, ShownBy
<1>2. IInv /\ [Next]_vars => [Contract!ContractNext]_<<World, window, snap,
        [p \in Processes |-> ShownBy(proc[p])]>>
  BY StepRefines DEF Pages
<1> QED
  BY <1>1, <1>2, InductiveInvariant, PTL
  DEF Spec, ImplementsContract, Contract!ContractSpec
=============================================================================
