------------------------- MODULE PipelineTemplates -------------------------
(***************************************************************************)
(* The pipelines of a company live twice: as the list of templates in its  *)
(* configuration row (public schema) and as rows of its own schema, which  *)
(* the deals refer to.  The settings page rewrites the list it read when   *)
(* its request began and then copies it, one row at a time and outside any *)
(* transaction, into the rows; rows the list no longer names are retired   *)
(* unless a deal uses them.  Labels and positions are abstracted away, and *)
(* with them is_default, which follows the position.                       *)
(***************************************************************************)
EXTENDS Integers, Sequences, FiniteSets

CONSTANTS Keys,          \* the keys of pipelines
          Stages,        \* the names of stages
          StageChoices,  \* the sets of stages the editor may post
          FirstLists,    \* the template lists a company may start with
          Requests       \* the requests in service at a time

Template == [key : Keys, stages : StageChoices]
NamesOnce(list) == \A i, j \in DOMAIN list : list[i].key = list[j].key => i = j

ASSUME PipelineAssumption ==
  /\ StageChoices \subseteq (SUBSET Stages) \ {{}}
  /\ FirstLists \subseteq Seq(Template) \ {<<>>}
  /\ \A list \in FirstLists : NamesOnce(list)

VARIABLES templates,  \* the configuration's pipeline_templates
          pipes,      \* the rows of Pipeline
          admin,      \* the settings request each process serves
          mixed       \* two settings requests have overlapped, or one died

pipelineVars == <<templates, pipes, admin, mixed>>

PipeRow == [there : BOOLEAN, active : BOOLEAN, stages : SUBSET Stages]
Copy(t) == [there |-> TRUE, active |-> TRUE, stages |-> t.stages]
KeysOf(list) == {list[i].key : i \in DOMAIN list}

Asking(do, list) == [do |-> do, list |-> list, todo |-> <<>>, stale |-> {}, empty |-> {}]
Free == Asking("idle", <<>>)
AdminBusy(r) == admin[r].do # "idle"

(***************************************************************************)
(* The edits of the list.                                                  *)
(***************************************************************************)
Replace(list, t) ==
  IF t.key \in KeysOf(list)
    THEN [i \in DOMAIN list |-> IF list[i].key = t.key THEN t ELSE list[i]]
    ELSE Append(list, t)

\* A list names a pipeline once; an unknown key changes nothing.
Position(list, k) == CHOOSE i \in DOMAIN list : list[i].key = k

Remove(list, k) ==
  IF k \in KeysOf(list)
    THEN SubSeq(list, 1, Position(list, k) - 1) \o SubSeq(list, Position(list, k) + 1, Len(list))
    ELSE list

MakeDefault(list, k) ==
  IF k \in KeysOf(list) THEN <<list[Position(list, k)]>> \o Remove(list, k) ELSE list

\* A save puts the template first when asked to, or when it is the only one.
Saved(list, t, first) ==
  LET new == Replace(list, t)
  IN IF first \/ Len(new) = 1 THEN MakeDefault(new, t.key) ELSE new

\* A template swaps places with its neighbour, and stays where it is at an end.
Swap(list, i, j) ==
  IF j \in DOMAIN list THEN [list EXCEPT ![i] = list[j], ![j] = list[i]] ELSE list

\* The last template cannot be removed.
\* Mutant: it can.
RemovalsOfLast(list) == {Remove(list, k) : k \in Keys}

Removals(list) == IF Len(list) <= 1 THEN {} ELSE {Remove(list, k) : k \in Keys}

Edits(list) ==
  UNION {{Saved(list, t, first) : t \in Template, first \in BOOLEAN},
         Removals(list),
         {MakeDefault(list, k) : k \in Keys},
         {Swap(list, i, i + d) : i \in DOMAIN list, d \in {-1, 1}}}

(***************************************************************************)
(* The settings request: one action per statement of the database.         *)
(***************************************************************************)
Submit(r) ==
  /\ ~AdminBusy(r)
  /\ \E list \in Edits(templates) :
       admin' = [admin EXCEPT ![r] = Asking("persist", list)]
  /\ mixed' = (mixed \/ \E q \in Requests : AdminBusy(q))
  /\ UNCHANGED <<templates, pipes>>

Persist(r) ==
  /\ admin[r].do = "persist"
  /\ templates' = admin[r].list
  /\ admin' = [admin EXCEPT ![r] = [@ EXCEPT !.do = "sync", !.todo = admin[r].list]]
  /\ UNCHANGED <<pipes, mixed>>

\* Every template creates its row, or overwrites and reactivates it.
Sync(r) ==
  /\ admin[r].do = "sync" /\ admin[r].todo # <<>>
  /\ LET t == Head(admin[r].todo)
     IN pipes' = [pipes EXCEPT ![t.key] = Copy(t)]
  /\ admin' = [admin EXCEPT ![r] = [@ EXCEPT !.todo = Tail(admin[r].todo)]]
  /\ UNCHANGED <<templates, mixed>>

ListStale(r) ==
  /\ admin[r].do = "sync" /\ admin[r].todo = <<>>
  /\ admin' = [admin EXCEPT ![r] = [@ EXCEPT !.do = "look",
        !.stale = {k \in Keys \ KeysOf(admin[r].list) : pipes[k].there /\ pipes[k].active}]]
  /\ UNCHANGED <<templates, pipes, mixed>>

\* Mutant: the deals are not looked for.
LookNoDeals(r, used) ==
  /\ admin[r].do = "look"
  /\ \E k \in admin[r].stale :
       admin' = [admin EXCEPT ![r] = [@ EXCEPT !.stale = admin[r].stale \ {k},
                                               !.do = "retire", !.empty = {k}]]
  /\ UNCHANGED <<templates, pipes, mixed>>

\* A stale pipeline that some deal refers to (used) stays active; the rows are
\* taken in the order of their positions, here in any order.
Look(r, used) ==
  /\ admin[r].do = "look"
  /\ \E k \in admin[r].stale :
       admin' = [admin EXCEPT ![r] = [@ EXCEPT !.stale = admin[r].stale \ {k},
                    !.do = IF k \in used THEN "look" ELSE "retire",
                    !.empty = IF k \in used THEN {} ELSE {k}]]
  /\ UNCHANGED <<templates, pipes, mixed>>

Retire(r) ==
  /\ admin[r].do = "retire"
  /\ pipes' = [k \in Keys |-> IF k \in admin[r].empty
                               THEN [pipes[k] EXCEPT !.active = FALSE] ELSE pipes[k]]
  /\ admin' = [admin EXCEPT ![r] = [@ EXCEPT !.do = "look", !.empty = {}]]
  /\ UNCHANGED <<templates, mixed>>

Answer(r) ==
  /\ admin[r].do = "look" /\ admin[r].stale = {}
  /\ admin' = [admin EXCEPT ![r] = Free]
  /\ UNCHANGED <<templates, pipes, mixed>>

\* The process of a settings request dies; what it wrote stays.
AdminDies(r) ==
  /\ AdminBusy(r)
  /\ admin' = [admin EXCEPT ![r] = Free]
  /\ mixed' = TRUE
  /\ UNCHANGED <<templates, pipes>>

PipelineInit ==
  /\ templates \in FirstLists
  /\ pipes = [k \in Keys |->
       [there |-> k \in KeysOf(templates), active |-> k \in KeysOf(templates),
        stages |-> UNION {templates[i].stages : i \in {j \in DOMAIN templates :
                                                       templates[j].key = k}}]]
  /\ admin = [r \in Requests |-> Free]
  /\ mixed = FALSE

\* The list of the configuration is never empty, and names no pipeline twice;
\* a request holds a row it found empty only until it retired it.
PipelineTypeOK ==
  /\ templates \in Seq(Template) \ {<<>>} /\ NamesOnce(templates)
  /\ pipes \in [Keys -> PipeRow]
  /\ admin \in [Requests -> [do : {"idle", "persist", "sync", "look", "retire"},
                             list : Seq(Template), todo : Seq(Template),
                             stale : SUBSET Keys, empty : SUBSET Keys]]
  /\ \A r \in Requests :
       /\ AdminBusy(r) => admin[r].list # <<>> /\ NamesOnce(admin[r].list)
       /\ admin[r].do # "retire" => admin[r].empty = {}
  /\ mixed \in BOOLEAN

(***************************************************************************)
(* Once no settings request is in service, and none ever overlapped        *)
(* another or died half way, a company has a pipeline, and every template  *)
(* has one row, active and with its stages: "Debes dejar al menos un       *)
(* pipeline activo para esta empresa" (binncrm/views.py).  Two removals at *)
(* a time may retire each other's row and leave none active.               *)
(***************************************************************************)
CopiedUpTo(rows, list, n) == \A i \in 1 .. n : rows[list[i].key] = Copy(list[i])

PipelinesFollow ==
  (~mixed /\ \A r \in Requests : ~AdminBusy(r)) =>
    templates # <<>> /\ CopiedUpTo(pipes, templates, Len(templates))

\* What it rests on: the request in service copies the list it saved, one row
\* after the other, and retires none of these.
CopiesInOrder ==
  ~mixed =>
    /\ \A q, r \in Requests : AdminBusy(q) /\ AdminBusy(r) => q = r
    /\ (\A r \in Requests : admin[r].do \in {"idle", "persist"}) =>
         CopiedUpTo(pipes, templates, Len(templates))
    /\ \A r \in Requests : admin[r].do \in {"sync", "look", "retire"} =>
         LET list == admin[r].list IN
           /\ templates = list
           /\ admin[r].do = "sync" =>
                \E n \in 0 .. Len(list) : /\ CopiedUpTo(pipes, list, n)
                                          /\ admin[r].todo = SubSeq(list, n + 1, Len(list))
           /\ admin[r].do # "sync" =>
                /\ CopiedUpTo(pipes, list, Len(list))
                /\ (admin[r].stale \union admin[r].empty) \intersect KeysOf(list) = {}
=============================================================================
