-------------------------- MODULE TeamworkProofs --------------------------
(***************************************************************************)
(* The boards and the assessments, for any pipelines, cards, questions and *)
(* requests at the same time.  The boards' invariant has two layers: what  *)
(* holds whatever the others do (Base), and what a request that nobody was *)
(* ahead of knows (Tidy).                                                  *)
(***************************************************************************)
EXTENDS Teamwork, FiniteSetTheorems, WellFoundedInduction, NaturalsInduction, TLAPS

-----------------------------------------------------------------------------
(***************************************************************************)
(* I. Pipelines.  The edits of the list of templates leave a list that is  *)
(* not empty and names no pipeline twice.                                  *)
(***************************************************************************)
GoodLists == {list \in Seq(Template) \ {<<>>} : NamesOnce(list)}

(* Where a key stands, and the list without it.                            *)
LEMMA PositionIsThere ==
  ASSUME NEW list \in Seq(Template), NEW k \in KeysOf(list)
  PROVE  Position(list, k) \in 1 .. Len(list) /\ list[Position(list, k)].key = k
<1>1. \E i \in DOMAIN list : list[i].key = k
  BY DEF KeysOf
<1> QED
  BY <1>1 DEF Position

LEMMA RemovedIsShorter ==
  ASSUME NEW list \in GoodLists, NEW k \in KeysOf(list)
  PROVE  /\ Remove(list, k) \in Seq(Template) /\ Len(Remove(list, k)) = Len(list) - 1
         /\ \A i \in 1 .. Len(list) - 1 :
              Remove(list, k)[i] = IF i < Position(list, k) THEN list[i] ELSE list[i + 1]
<1> DEFINE p == Position(list, k)
           L == SubSeq(list, 1, p - 1)
           R == SubSeq(list, p + 1, Len(list))
<1>1. list \in Seq(Template) /\ Len(list) \in Nat /\ p \in 1 .. Len(list)
  BY PositionIsThere DEF GoodLists
<1> HIDE DEF p
<1>2. L \in Seq(Template) /\ Len(L) = p - 1 /\ \A i \in 1 .. p - 1 : L[i] = list[i]
  BY <1>1
<1>3. R \in Seq(Template) /\ Len(R) = Len(list) - p /\ \A i \in 1 .. Len(list) - p : R[i] = list[i + p]
  BY <1>1
<1> HIDE DEF L, R
<1>4. L \o R \in Seq(Template) /\ Len(L \o R) = Len(list) - 1
  <2>1. L \o R \in Seq(Template) /\ Len(L \o R) = Len(L) + Len(R)
    BY <1>2, <1>3
  <2> QED
    BY <1>1, <1>2, <1>3, <2>1
<1>5. ASSUME NEW i \in 1 .. Len(list) - 1
      PROVE  (L \o R)[i] = IF i < p THEN list[i] ELSE list[i + 1]
  <2>1. CASE i < p
    <3>1. i \in 1 .. p - 1 /\ i \in 1 .. Len(L) /\ i \in 1 .. Len(L) + Len(R)
      BY <1>1, <1>2, <1>3, <2>1
    <3>2. (L \o R)[i] = L[i]
      BY <1>2, <1>3, <3>1
    <3> QED
      BY <1>2, <2>1, <3>1, <3>2
  <2>2. CASE ~(i < p)
    <3>1. (L \o R)[i] = R[i - (p - 1)]
      <4>1. i \in 1 .. Len(L) + Len(R) /\ ~(i <= Len(L)) /\ Len(L) = p - 1
        BY <1>1, <1>2, <1>3, <2>2
      <4> QED
        BY <1>2, <1>3, <4>1
    <3>2. i - (p - 1) \in 1 .. Len(list) - p
      BY <1>1, <2>2
    <3>3. R[i - (p - 1)] = list[i - (p - 1) + p]
      BY <1>3, <3>2
    <3>4. i - (p - 1) + p = i + 1
      BY <1>1
    <3> QED
      BY <2>2, <3>1, <3>3, <3>4
  <2> QED
    BY <2>1, <2>2
<1>6. Remove(list, k) = L \o R
  BY DEF Remove, L, R, p
<1> QED
  BY <1>4, <1>5, <1>6 DEF p

LEMMA RemoveKeeps ==
  ASSUME NEW list \in GoodLists, NEW k, Len(list) > 1
  PROVE  Remove(list, k) \in GoodLists
<1>1. CASE k \in KeysOf(list)
  <2> DEFINE p == Position(list, k)
             new == Remove(list, k)
  <2>1. /\ new \in Seq(Template) /\ Len(new) = Len(list) - 1 /\ Len(list) \in Nat
        /\ \A i \in 1 .. Len(list) - 1 : new[i] = IF i < p THEN list[i] ELSE list[i + 1]
        /\ p \in 1 .. Len(list)
    BY <1>1, RemovedIsShorter, PositionIsThere DEF GoodLists
  <2> HIDE DEF new, p
  <2>2. DOMAIN new = 1 .. Len(list) - 1 /\ DOMAIN list = 1 .. Len(list)
    BY <2>1 DEF GoodLists
  <2>3. ASSUME NEW i \in DOMAIN new, NEW j \in DOMAIN new, new[i].key = new[j].key
        PROVE  i = j
    <3>1. \A a, b \in 1 .. Len(list) : list[a].key = list[b].key => a = b
      BY <2>2 DEF GoodLists, NamesOnce
    <3>2. i \in 1 .. Len(list) /\ i + 1 \in 1 .. Len(list) /\ j \in 1 .. Len(list) /\ j + 1 \in 1 .. Len(list)
      BY <2>1, <2>2
    <3> DEFINE a == IF i < p THEN i ELSE i + 1
               b == IF j < p THEN j ELSE j + 1
    <3>3. new[i] = list[a] /\ new[j] = list[b]
      BY <2>1, <2>2
    <3>4. a = b
      BY <2>3, <3>1, <3>2, <3>3
    <3> QED
      BY <2>1, <3>2, <3>4
  <2>4. new # <<>>
    BY <2>1
  <2> QED
    BY <2>1, <2>3, <2>4 DEF GoodLists, NamesOnce, new
<1>2. CASE k \notin KeysOf(list)
  BY <1>2 DEF Remove
<1> QED
  BY <1>1, <1>2

LEMMA MakeDefaultKeeps ==
  ASSUME NEW list \in GoodLists, NEW k
  PROVE  MakeDefault(list, k) \in GoodLists
<1>1. CASE k \in KeysOf(list)
  <2> DEFINE p == Position(list, k)
             rest == Remove(list, k)
             new == <<list[p]>> \o rest
  <2>1. /\ rest \in Seq(Template) /\ Len(rest) = Len(list) - 1 /\ Len(list) \in Nat
        /\ \A i \in 1 .. Len(list) - 1 : rest[i] = IF i < p THEN list[i] ELSE list[i + 1]
        /\ p \in 1 .. Len(list) /\ list[p] \in Template
    BY <1>1, RemovedIsShorter, PositionIsThere DEF GoodLists
  <2> HIDE DEF rest, p
  <2>2. new \in Seq(Template) /\ Len(new) = Len(list) /\ new[1] = list[p]
        /\ \A i \in 2 .. Len(list) : new[i] = rest[i - 1]
    BY <2>1
  <2> HIDE DEF new
  <2>3. \A a, b \in 1 .. Len(list) : list[a].key = list[b].key => a = b
    BY <2>1 DEF GoodLists, NamesOnce
  <2>4. ASSUME NEW i \in 1 .. Len(list)
        PROVE  new[i] = list[IF i = 1 THEN p ELSE IF i - 1 < p THEN i - 1 ELSE i]
    <3>1. CASE i = 1
      BY <2>2, <3>1
    <3>2. CASE i # 1
      <4>1. i \in 2 .. Len(list) /\ i - 1 \in 1 .. Len(list) - 1
        BY <2>1, <3>2
      <4>2. new[i] = rest[i - 1]
        BY <2>2, <4>1
      <4>3. rest[i - 1] = IF i - 1 < p THEN list[i - 1] ELSE list[i - 1 + 1]
        BY <2>1, <4>1
      <4>4. i - 1 + 1 = i
        BY <4>1
      <4> QED
        BY <3>2, <4>2, <4>3, <4>4
    <3> QED
      BY <3>1, <3>2
  <2>5. ASSUME NEW i \in 1 .. Len(list), NEW j \in 1 .. Len(list), new[i].key = new[j].key
        PROVE  i = j
    <3> DEFINE a == IF i = 1 THEN p ELSE IF i - 1 < p THEN i - 1 ELSE i
               b == IF j = 1 THEN p ELSE IF j - 1 < p THEN j - 1 ELSE j
    <3>1. a \in 1 .. Len(list) /\ b \in 1 .. Len(list)
      BY <2>1
    <3>2. new[i] = list[a] /\ new[j] = list[b]
      BY <2>4
    <3> HIDE DEF a, b
    <3>3. a = b
      BY <2>3, <2>5, <3>1, <3>2
    <3> QED
      BY <2>1, <3>3 DEF a, b
  <2>6. new # <<>>
    BY <2>1, <2>2
  <2>7. MakeDefault(list, k) = new
    BY <1>1 DEF MakeDefault, new, rest, p
  <2> QED
    BY <2>2, <2>5, <2>6, <2>7 DEF GoodLists, NamesOnce
<1>2. CASE k \notin KeysOf(list)
  BY <1>2 DEF MakeDefault
<1> QED
  BY <1>1, <1>2

LEMMA ReplaceKeeps ==
  ASSUME NEW list \in GoodLists, NEW t \in Template
  PROVE  Replace(list, t) \in GoodLists
<1>0. list \in Seq(Template) /\ Len(list) \in Nat /\ DOMAIN list = 1 .. Len(list) /\ list # <<>>
      /\ \A a, b \in 1 .. Len(list) : list[a].key = list[b].key => a = b
  BY DEF GoodLists, NamesOnce
<1>1. CASE t.key \in KeysOf(list)
  <2> DEFINE new == [i \in DOMAIN list |-> IF list[i].key = t.key THEN t ELSE list[i]]
  <2>1. new \in Seq(Template) /\ Len(new) = Len(list) /\ \A i \in 1 .. Len(list) : new[i].key = list[i].key
    BY <1>0
  <2> HIDE DEF new
  <2>2. Replace(list, t) = new
    BY <1>1 DEF Replace, new
  <2>3. new # <<>> /\ NamesOnce(new)
    BY <1>0, <2>1 DEF NamesOnce
  <2> QED
    BY <2>1, <2>2, <2>3 DEF GoodLists
<1>2. CASE t.key \notin KeysOf(list)
  <2> DEFINE new == Append(list, t)
  <2>1. /\ new \in Seq(Template) /\ Len(new) = Len(list) + 1 /\ new[Len(list) + 1] = t
        /\ \A i \in 1 .. Len(list) : new[i] = list[i]
    BY <1>0
  <2> HIDE DEF new
  <2>2. \A i \in 1 .. Len(list) : list[i].key # t.key
    BY <1>0, <1>2 DEF KeysOf
  <2>3. new # <<>> /\ NamesOnce(new)
    BY <1>0, <2>1, <2>2 DEF NamesOnce
  <2> QED
    BY <1>2, <2>1, <2>3 DEF GoodLists, Replace, new
<1> QED
  BY <1>1, <1>2

LEMMA SwapKeeps ==
  ASSUME NEW list \in GoodLists, NEW i \in DOMAIN list, NEW j
  PROVE  Swap(list, i, j) \in GoodLists
<1>0. list \in Seq(Template) /\ Len(list) \in Nat /\ DOMAIN list = 1 .. Len(list) /\ list # <<>>
      /\ \A a, b \in 1 .. Len(list) : list[a].key = list[b].key => a = b
  BY DEF GoodLists, NamesOnce
<1>1. CASE j \in DOMAIN list
  <2> DEFINE new == [list EXCEPT ![i] = list[j], ![j] = list[i]]
  <2>1. /\ new \in Seq(Template) /\ Len(new) = Len(list)
        /\ \A a \in 1 .. Len(list) : new[a] = IF a = j THEN list[i] ELSE IF a = i THEN list[j] ELSE list[a]
    BY <1>0, <1>1
  <2> HIDE DEF new
  <2>2. new # <<>> /\ NamesOnce(new)
    BY <1>0, <1>1, <2>1 DEF NamesOnce
  <2> QED
    BY <1>1, <2>1, <2>2 DEF GoodLists, Swap, new
<1>2. CASE j \notin DOMAIN list
  BY <1>2 DEF Swap
<1> QED
  BY <1>1, <1>2

LEMMA EditsKeep ==
  ASSUME NEW list \in GoodLists, NEW new \in Edits(list)
  PROVE  new \in GoodLists
<1>1. ASSUME NEW t \in Template, NEW first \in BOOLEAN PROVE Saved(list, t, first) \in GoodLists
  BY ReplaceKeeps, MakeDefaultKeeps DEF Saved
<1>2. \A x \in Removals(list) : x \in GoodLists
  <2>1. Len(list) \in Nat
    BY DEF GoodLists
  <2> QED
    BY <2>1, RemoveKeeps DEF Removals
<1>3. \A k \in Keys : MakeDefault(list, k) \in GoodLists
  BY MakeDefaultKeeps
<1>4. \A i \in DOMAIN list, d \in {-1, 1} : Swap(list, i, i + d) \in GoodLists
  BY SwapKeeps
<1> QED
  BY <1>1, <1>2, <1>3, <1>4 DEF Edits

-----------------------------------------------------------------------------
(***************************************************************************)
(* The settings requests keep the types: what one may become.              *)
(***************************************************************************)
AdminState == [do : {"idle", "persist", "sync", "look", "retire"},
               list : Seq(Template), todo : Seq(Template),
               stale : SUBSET Keys, empty : SUBSET Keys]

SettingsStep(r) ==
  \/ Submit(r) \/ Persist(r) \/ Sync(r) \/ ListStale(r) \/ (\E used : Look(r, used))
  \/ Retire(r) \/ Answer(r) \/ AdminDies(r)

\* What a state of a request must be for the types to hold.
Sane(x) ==
  /\ x \in AdminState
  /\ x.do # "idle" => x.list # <<>> /\ NamesOnce(x.list)
  /\ x.do # "retire" => x.empty = {}

LEMMA SaneRequests ==
  PipelineTypeOK =>
    /\ templates \in GoodLists /\ pipes \in [Keys -> PipeRow] /\ mixed \in BOOLEAN
    /\ admin \in [Requests -> AdminState]
    /\ \A r \in Requests : Sane(admin[r])
BY DEF PipelineTypeOK, GoodLists, AdminState, Sane, AdminBusy

LEMMA TypesFromParts ==
  ASSUME templates' \in GoodLists, pipes' \in [Keys -> PipeRow], mixed' \in BOOLEAN,
         PipelineTypeOK, NEW r \in Requests, NEW x, Sane(x),
         admin' = [admin EXCEPT ![r] = x]
  PROVE  PipelineTypeOK'
<1>1. \A q \in Requests : Sane(admin[q]) /\ admin \in [Requests -> AdminState] /\ x \in AdminState
  BY SaneRequests DEF Sane
<1>2. admin' \in [Requests -> AdminState] /\ \A q \in Requests : Sane(admin'[q])
  BY <1>1
<1> QED
  BY <1>2 DEF PipelineTypeOK, GoodLists, AdminState, Sane, AdminBusy

(* The new state of the request each action serves.                        *)
LEMMA NextAdmin ==
  ASSUME PipelineTypeOK, NEW r \in Requests, SettingsStep(r)
  PROVE  \E x : Sane(x) /\ admin' = [admin EXCEPT ![r] = x] /\ admin'[r] = x
<1> DEFINE a == admin[r]
<1>0. Sane(a) /\ a \in AdminState /\ templates \in GoodLists
  BY SaneRequests DEF Sane
<1>1. SUFFICES \E x : Sane(x) /\ admin' = [admin EXCEPT ![r] = x]
  BY DEF PipelineTypeOK
<1>2. CASE Submit(r)
  <2>1. PICK list \in Edits(templates) :
          admin' = [admin EXCEPT ![r] = Asking("persist", list)]
    BY <1>2 DEF Submit
  <2>2. list \in GoodLists
    BY <1>0, <2>1, EditsKeep
  <2>3. Sane(Asking("persist", list))
    <3>1. list \in Seq(Template) /\ <<>> \in Seq(Template) /\ list # <<>> /\ NamesOnce(list)
      BY <2>2 DEF GoodLists
    <3> QED
      BY <3>1 DEF Sane, AdminState, Asking
  <2> QED
    BY <2>1, <2>3
<1>3. CASE Persist(r)
  <2>1. admin' = [admin EXCEPT ![r] = [a EXCEPT !.do = "sync", !.todo = a.list]] /\ a.do = "persist"
    BY <1>3 DEF Persist
  <2> HIDE DEF a
  <2>2. Sane([a EXCEPT !.do = "sync", !.todo = a.list])
    BY <1>0, <2>1 DEF Sane, AdminState
  <2> QED
    BY <2>1, <2>2
<1>4. CASE Sync(r)
  <2>1. admin' = [admin EXCEPT ![r] = [a EXCEPT !.todo = Tail(a.todo)]] /\ a.todo # <<>>
    BY <1>4 DEF Sync
  <2> HIDE DEF a
  <2>2. Sane([a EXCEPT !.todo = Tail(a.todo)])
    <3>1. Tail(a.todo) \in Seq(Template)
      BY <1>0, <2>1 DEF AdminState
    <3> QED
      BY <1>0, <3>1 DEF Sane, AdminState
  <2> QED
    BY <2>1, <2>2
<1>5. CASE ListStale(r)
  <2>1. PICK S \in SUBSET Keys :
          admin' = [admin EXCEPT ![r] = [a EXCEPT !.do = "look", !.stale = S]] /\ a.do = "sync"
    <3> DEFINE S == {k \in Keys \ KeysOf(a.list) : pipes[k].there /\ pipes[k].active}
    <3>1. S \in SUBSET Keys
      OBVIOUS
    <3>2. admin' = [admin EXCEPT ![r] = [a EXCEPT !.do = "look", !.stale = S]] /\ a.do = "sync"
      BY <1>5 DEF ListStale
    <3> QED
      BY <3>1, <3>2
  <2> HIDE DEF a
  <2>2. Sane([a EXCEPT !.do = "look", !.stale = S])
    BY <1>0, <2>1 DEF Sane, AdminState
  <2> QED
    BY <2>1, <2>2
<1>6. CASE \E used : Look(r, used)
  <2>1. PICK used : Look(r, used)
    BY <1>6
  <2>2. PICK k \in a.stale :
          admin' = [admin EXCEPT ![r] = [a EXCEPT !.stale = a.stale \ {k},
                     !.do = IF k \in used THEN "look" ELSE "retire",
                     !.empty = IF k \in used THEN {} ELSE {k}]]
    BY <2>1 DEF Look
  <2>3. a.do = "look"
    BY <2>1 DEF Look
  <2> HIDE DEF a
  <2>4. a.stale \ {k} \in SUBSET Keys /\ k \in Keys
    BY <1>0, <2>2 DEF AdminState
  <2>5. Sane([a EXCEPT !.stale = a.stale \ {k},
                       !.do = IF k \in used THEN "look" ELSE "retire",
                       !.empty = IF k \in used THEN {} ELSE {k}])
    <3>1. CASE k \in used
      BY <1>0, <2>3, <2>4, <3>1 DEF Sane, AdminState
    <3>2. CASE k \notin used
      BY <1>0, <2>3, <2>4, <3>2 DEF Sane, AdminState
    <3> QED
      BY <3>1, <3>2
  <2> QED
    BY <2>2, <2>5
<1>7. CASE Retire(r)
  <2>1. admin' = [admin EXCEPT ![r] = [a EXCEPT !.do = "look", !.empty = {}]] /\ a.do = "retire"
    BY <1>7 DEF Retire
  <2> HIDE DEF a
  <2>2. Sane([a EXCEPT !.do = "look", !.empty = {}])
    BY <1>0, <2>1 DEF Sane, AdminState
  <2> QED
    BY <2>1, <2>2
<1>8. CASE Answer(r) \/ AdminDies(r)
  <2>1. admin' = [admin EXCEPT ![r] = Free]
    BY <1>8 DEF Answer, AdminDies
  <2>2. Sane(Free)
    BY DEF Sane, Free, Asking, AdminState
  <2> QED
    BY <2>1, <2>2
<1> QED
  BY <1>2, <1>3, <1>4, <1>5, <1>6, <1>7, <1>8 DEF SettingsStep

LEMMA PipelineTypes ==
  ASSUME PipelineTypeOK, NEW r \in Requests, SettingsStep(r)
  PROVE  PipelineTypeOK'
<1>1. PICK x : Sane(x) /\ admin' = [admin EXCEPT ![r] = x] /\ admin'[r] = x
  BY NextAdmin
<1>2. Sane(admin[r]) /\ admin[r] \in AdminState /\ templates \in GoodLists /\ pipes \in [Keys -> PipeRow]
      /\ mixed \in BOOLEAN
  BY SaneRequests DEF Sane
<1>3. templates' \in GoodLists
  <2>1. CASE Persist(r)
    <3>1. templates' = admin[r].list /\ admin[r].do = "persist"
      BY <2>1 DEF Persist
    <3> QED
      BY <1>2, <3>1 DEF Sane, AdminState, GoodLists
  <2>2. CASE ~Persist(r)
    BY <1>2, <2>2 DEF SettingsStep, Submit, Sync, ListStale, Look, Retire, Answer, AdminDies
  <2> QED
    BY <2>1, <2>2
<1>4. pipes' \in [Keys -> PipeRow]
  <2>1. CASE Sync(r)
    <3>1. PICK t \in Template : pipes' = [pipes EXCEPT ![t.key] = Copy(t)]
      <4>1. admin[r].todo \in Seq(Template) /\ admin[r].todo # <<>>
        BY <1>2, <2>1 DEF Sync, AdminState
      <4>2. Head(admin[r].todo) \in Template
        BY <4>1
      <4> QED
        BY <2>1, <4>2 DEF Sync
    <3>2. Copy(t) \in PipeRow
      BY PipelineAssumption DEF Copy, PipeRow, Template
    <3> QED
      BY <1>2, <3>1, <3>2
  <2>2. CASE Retire(r)
    <3>1. \A k \in Keys : pipes[k] \in PipeRow /\ [pipes[k] EXCEPT !.active = FALSE] \in PipeRow
      BY <1>2 DEF PipeRow
    <3>2. \A k \in Keys : (IF k \in admin[r].empty
                               THEN [pipes[k] EXCEPT !.active = FALSE] ELSE pipes[k]) \in PipeRow
      BY <3>1
    <3> QED
      BY <2>2, <3>2 DEF Retire
  <2>3. CASE ~Sync(r) /\ ~Retire(r)
    BY <1>2, <2>3 DEF SettingsStep, Submit, Persist, ListStale, Look, Answer, AdminDies
  <2> QED
    BY <2>1, <2>2, <2>3
<1>5. mixed' \in BOOLEAN
  BY <1>2 DEF SettingsStep, Submit, Persist, Sync, ListStale, Look, Retire, Answer, AdminDies
<1> QED
  BY <1>1, <1>3, <1>4, <1>5, TypesFromParts

-----------------------------------------------------------------------------
(***************************************************************************)
(* The request in service copies its list, row after row, in every step.   *)
(***************************************************************************)
LEMMA CopiesStep ==
  ASSUME PipelineTypeOK, CopiesInOrder, NEW r \in Requests, SettingsStep(r)
  PROVE  CopiesInOrder'
<1>1. PICK x : Sane(x) /\ admin' = [admin EXCEPT ![r] = x] /\ admin'[r] = x
  BY NextAdmin
<1>2. /\ Sane(admin[r]) /\ admin \in [Requests -> AdminState] /\ pipes \in [Keys -> PipeRow]
      /\ templates \in GoodLists
  BY SaneRequests
<1>3. \A q \in Requests \ {r} : admin'[q] = admin[q]
  BY <1>1, <1>2
<1>4. SUFFICES ASSUME ~mixed' PROVE CopiesInOrder'
  BY DEF CopiesInOrder
<1>5. ~mixed
  BY <1>4 DEF SettingsStep, Submit, Persist, Sync, ListStale, Look, Retire, Answer, AdminDies
<1>6. \A p, q \in Requests : AdminBusy(p) /\ AdminBusy(q) => p = q
  BY <1>5 DEF CopiesInOrder
<1>7. CASE Submit(r)
  <2>1. \A q \in Requests : ~AdminBusy(q)
    BY <1>4, <1>7 DEF Submit
  <2>2. x.do = "persist"
    BY <1>1, <1>2, <1>7 DEF Submit, Asking
  <2>3. CopiedUpTo(pipes, templates, Len(templates))
    BY <1>5, <2>1 DEF CopiesInOrder, AdminBusy
  <2>4. UNCHANGED <<templates, pipes>>
    BY <1>7 DEF Submit
  <2>5. CopiedUpTo(pipes', templates', Len(templates'))
    BY <2>3, <2>4 DEF CopiedUpTo
  <2>6. \A p, q \in Requests : AdminBusy(p)' /\ AdminBusy(q)' => p = q
    BY <1>3, <2>1 DEF AdminBusy
  <2>7. \A q \in Requests : admin'[q].do \in {"idle", "persist"}
    BY <1>1, <1>3, <2>1, <2>2 DEF AdminBusy
  <2> QED
    BY <2>5, <2>6, <2>7 DEF CopiesInOrder
<1>8. CASE ~Submit(r)
  <2>1. AdminBusy(r)
    BY <1>8 DEF SettingsStep, Persist, Sync, ListStale, Look, Retire, Answer, AdminDies, AdminBusy
  <2>2. \A q \in Requests : q # r => admin[q].do = "idle" /\ admin'[q].do = "idle"
    BY <1>3, <1>6, <2>1 DEF AdminBusy
  <2>3. \A p, q \in Requests : AdminBusy(p)' /\ AdminBusy(q)' => p = q
    BY <2>2 DEF AdminBusy
  <2>4. admin[r].do \in {"sync", "look", "retire"} => templates = admin[r].list
    BY <1>5 DEF CopiesInOrder
  <2>5. admin[r].do \in {"look", "retire"} =>
          /\ CopiedUpTo(pipes, templates, Len(templates))
          /\ (admin[r].stale \union admin[r].empty) \intersect KeysOf(templates) = {}
    BY <1>5 DEF CopiesInOrder
  \* What is left to show of each action, of the one request in service.
  <2>6. SUFFICES
          /\ x.do = "idle" => CopiedUpTo(pipes', templates', Len(templates'))
          /\ x.do # "persist"
          /\ x.do # "idle" => templates' = x.list
          /\ x.do = "sync" => \E n \in 0 .. Len(x.list) :
               CopiedUpTo(pipes', x.list, n) /\ x.todo = SubSeq(x.list, n + 1, Len(x.list))
          /\ x.do \in {"look", "retire"} =>
               /\ CopiedUpTo(pipes', x.list, Len(x.list))
               /\ (x.stale \union x.empty) \intersect KeysOf(x.list) = {}
    <3>1. \A q \in Requests : admin'[q].do \in {"sync", "look", "retire"} => q = r
      BY <2>2
    <3>2. (\A q \in Requests : admin'[q].do \in {"idle", "persist"}) =>
            CopiedUpTo(pipes', templates', Len(templates'))
      BY <1>1, <1>2, <2>6 DEF Sane, AdminState
    <3>3. \A q \in Requests : admin'[q].do \in {"sync", "look", "retire"} =>
            LET list == admin'[q].list IN
           /\ templates' = list
           /\ admin'[q].do = "sync" =>
                \E n \in 0 .. Len(list) : /\ CopiedUpTo(pipes', list, n)
                                          /\ admin'[q].todo = SubSeq(list, n + 1, Len(list))
           /\ admin'[q].do # "sync" =>
                /\ CopiedUpTo(pipes', list, Len(list))
                /\ (admin'[q].stale \union admin'[q].empty) \intersect KeysOf(list) = {}
      <4> SUFFICES ASSUME NEW q \in Requests, admin'[q].do \in {"sync", "look", "retire"}
                   PROVE  LET list == x.list IN
           /\ templates' = list
           /\ x.do = "sync" =>
                \E n \in 0 .. Len(list) : /\ CopiedUpTo(pipes', list, n)
                                          /\ x.todo = SubSeq(list, n + 1, Len(list))
           /\ x.do # "sync" =>
                /\ CopiedUpTo(pipes', list, Len(list))
                /\ (x.stale \union x.empty) \intersect KeysOf(list) = {}
        BY <1>1, <3>1
      <4>1. x.do \in {"sync", "look", "retire"}
        BY <1>1, <3>1
      <4> QED
        BY <2>6, <4>1
    <3> QED
      BY <2>3, <3>2, <3>3 DEF CopiesInOrder, CopiedUpTo
  <2> DEFINE a == admin[r]
  <2>7. CASE Persist(r)
    <3>1. x = [a EXCEPT !.do = "sync", !.todo = a.list] /\ templates' = a.list
      BY <1>1, <1>2, <2>7 DEF Persist
    <3> HIDE DEF a
    <3>2. a \in AdminState
      BY <1>2 DEF a
    <3>3. x.do = "sync" /\ x.list = a.list /\ x.todo = a.list /\ templates' = x.list
      BY <3>1, <3>2 DEF AdminState
    <3>4. CopiedUpTo(pipes', x.list, 0) /\ x.todo = SubSeq(x.list, 0 + 1, Len(x.list))
      <4>1. x.list \in Seq(Template)
        BY <3>2, <3>3 DEF AdminState
      <4> QED
        BY <3>3, <4>1 DEF CopiedUpTo
    <3>5. 0 \in 0 .. Len(x.list)
      BY <3>2, <3>3 DEF AdminState
    <3> QED
      BY <3>3, <3>4, <3>5
  <2>8. CASE Sync(r)
    <3>1. x = [a EXCEPT !.todo = Tail(a.todo)] /\ a.do = "sync" /\ a.todo # <<>>
          /\ pipes' = [pipes EXCEPT ![Head(a.todo).key] = Copy(Head(a.todo))]
          /\ UNCHANGED templates
      BY <1>1, <1>2, <2>8 DEF Sync
    <3>2. PICK n \in 0 .. Len(a.list) : CopiedUpTo(pipes, a.list, n) /\ a.todo = SubSeq(a.list, n + 1, Len(a.list))
      BY <1>5, <3>1 DEF CopiesInOrder
    <3>3. templates = a.list /\ a \in AdminState
      BY <1>2, <2>4, <3>1
    <3> HIDE DEF a
    <3>4. x.do = "sync" /\ x.list = a.list /\ x.todo = Tail(a.todo)
      BY <3>1, <3>3 DEF AdminState
    <3> DEFINE list == x.list
    <3>5. list \in GoodLists /\ list = a.list /\ Len(list) \in Nat
      BY <1>2, <3>3, <3>4 DEF GoodLists
    <3> HIDE DEF list
    <3>6. n \in 0 .. Len(list) - 1 /\ Head(a.todo) = list[n + 1] /\ Tail(a.todo) = SubSeq(list, n + 2, Len(list))
      <4>1. list \in Seq(Template) /\ a.todo = SubSeq(list, n + 1, Len(list)) /\ a.todo # <<>> /\ n \in 0 .. Len(list)
        BY <3>1, <3>2, <3>5 DEF GoodLists
      <4>2. n # Len(list)
        BY <4>1
      <4>3. n \in 0 .. Len(list) - 1
        BY <3>5, <4>1, <4>2
      <4> QED
        BY <4>1, <4>3
    <3>7. CopiedUpTo(pipes', list, n + 1)
      <4>1. \A i, j \in 1 .. Len(list) : list[i].key = list[j].key => i = j
        BY <3>5 DEF GoodLists, NamesOnce
      <4>2. \A i \in 1 .. Len(list) : list[i] \in Template /\ list[i].key \in Keys
        <5>1. \A i \in 1 .. Len(list) : list[i] \in Template
          BY <3>5 DEF GoodLists
        <5> QED
          BY <5>1 DEF Template
      <4>3. pipes' = [pipes EXCEPT ![list[n + 1].key] = Copy(list[n + 1])]
        BY <3>1, <3>6
      <4>4. \A i \in 1 .. n : pipes[list[i].key] = Copy(list[i])
        BY <3>2, <3>5 DEF CopiedUpTo
      <4>5. \A i \in 1 .. n + 1 : pipes'[list[i].key] = Copy(list[i])
        <5> SUFFICES ASSUME NEW i \in 1 .. n + 1 PROVE pipes'[list[i].key] = Copy(list[i])
          OBVIOUS
        <5>1. i \in 1 .. Len(list) /\ n + 1 \in 1 .. Len(list)
          BY <3>5, <3>6
        <5>2. CASE i = n + 1
          BY <1>2, <4>2, <4>3, <5>1, <5>2
        <5>3. CASE i # n + 1
          <6>1. i \in 1 .. n /\ list[i].key # list[n + 1].key
            BY <3>5, <3>6, <4>1, <5>1, <5>3
          <6> QED
            BY <1>2, <4>2, <4>3, <4>4, <5>1, <6>1
        <5> QED
          BY <5>2, <5>3
      <4> QED
        BY <4>5 DEF CopiedUpTo
    <3>8. n + 1 \in 0 .. Len(list) /\ (n + 1) + 1 = n + 2
      BY <3>5, <3>6
    <3> QED
      BY <3>1, <3>3, <3>4, <3>5, <3>6, <3>7, <3>8 DEF list
  <2>9. CASE ListStale(r)
    <3> DEFINE S == {k \in Keys \ KeysOf(a.list) : pipes[k].there /\ pipes[k].active}
    <3>1. x = [a EXCEPT !.do = "look", !.stale = S] /\ a.do = "sync" /\ a.todo = <<>>
          /\ UNCHANGED <<templates, pipes>>
      BY <1>1, <1>2, <2>9 DEF ListStale
    <3>2. PICK n \in 0 .. Len(a.list) : CopiedUpTo(pipes, a.list, n) /\ a.todo = SubSeq(a.list, n + 1, Len(a.list))
      BY <1>5, <3>1 DEF CopiesInOrder
    <3>3. templates = a.list /\ a \in AdminState /\ a.empty = {}
      BY <1>2, <2>4, <3>1 DEF Sane
    <3>4. S \intersect KeysOf(a.list) = {} /\ S \subseteq Keys
      OBVIOUS
    <3> HIDE DEF a, S
    <3>5. x.do = "look" /\ x.list = a.list /\ x.stale = S /\ x.empty = {}
      BY <3>1, <3>3, <3>4 DEF AdminState
    <3>6. a.list \in Seq(Template) /\ Len(a.list) \in Nat
      BY <3>3 DEF AdminState
    <3>7. n = Len(a.list)
      BY <3>1, <3>2, <3>6
    <3>8. CopiedUpTo(pipes', a.list, Len(a.list))
      BY <3>1, <3>2, <3>7 DEF CopiedUpTo
    <3> QED
      BY <3>1, <3>3, <3>4, <3>5, <3>8
  <2>10. CASE \E used : Look(r, used)
    <3>1. PICK used : Look(r, used)
      BY <2>10
    <3>2. PICK k \in a.stale :
            admin' = [admin EXCEPT ![r] = [a EXCEPT !.stale = a.stale \ {k},
                       !.do = IF k \in used THEN "look" ELSE "retire",
                       !.empty = IF k \in used THEN {} ELSE {k}]]
      BY <3>1 DEF Look
    <3>3. a.do = "look" /\ UNCHANGED <<templates, pipes>>
      BY <3>1 DEF Look
    <3>4. x = [a EXCEPT !.stale = a.stale \ {k},
                       !.do = IF k \in used THEN "look" ELSE "retire",
                       !.empty = IF k \in used THEN {} ELSE {k}]
      BY <1>1, <1>2, <3>2
    <3>5. a \in AdminState /\ templates = a.list /\ CopiedUpTo(pipes, templates, Len(templates))
          /\ (a.stale \union a.empty) \intersect KeysOf(templates) = {}
      BY <1>2, <2>4, <2>5, <3>3
    <3> HIDE DEF a
    <3>6. x.do \in {"look", "retire"} /\ x.list = a.list
          /\ x.stale \union x.empty \subseteq a.stale
      BY <3>2, <3>4, <3>5 DEF AdminState
    <3>7. CopiedUpTo(pipes', a.list, Len(a.list))
      BY <3>3, <3>5 DEF CopiedUpTo
    <3> QED
      BY <3>3, <3>5, <3>6, <3>7
  <2>11. CASE Retire(r)
    <3>1. x = [a EXCEPT !.do = "look", !.empty = {}] /\ a.do = "retire"
          /\ UNCHANGED templates
          /\ pipes' = [k \in Keys |-> IF k \in a.empty
                               THEN [pipes[k] EXCEPT !.active = FALSE] ELSE pipes[k]]
      BY <1>1, <1>2, <2>11 DEF Retire
    <3>2. a \in AdminState /\ templates = a.list /\ CopiedUpTo(pipes, templates, Len(templates))
          /\ (a.stale \union a.empty) \intersect KeysOf(templates) = {}
      BY <1>2, <2>4, <2>5, <3>1
    <3> HIDE DEF a
    <3>3. x.do = "look" /\ x.list = a.list /\ x.stale = a.stale /\ x.empty = {}
      BY <3>1, <3>2 DEF AdminState
    <3>4. \A i \in 1 .. Len(templates) : templates[i].key \in Keys \ a.empty
      <4>1. \A i \in 1 .. Len(templates) : templates[i] \in Template
        BY <1>2 DEF GoodLists
      <4>2. \A i \in 1 .. Len(templates) : templates[i].key \in KeysOf(templates)
        BY <1>2 DEF GoodLists, KeysOf
      <4> QED
        BY <3>2, <4>1, <4>2 DEF Template
    <3>5. CopiedUpTo(pipes', a.list, Len(a.list))
      BY <3>1, <3>2, <3>4 DEF CopiedUpTo
    <3> QED
      BY <3>1, <3>2, <3>3, <3>5
  <2>12. CASE Answer(r)
    <3>1. x = Free /\ admin[r].do = "look" /\ UNCHANGED <<templates, pipes>>
      BY <1>1, <1>2, <2>12 DEF Answer
    <3>2. x.do = "idle"
      BY <3>1 DEF Free, Asking
    <3>3. CopiedUpTo(pipes', templates', Len(templates'))
      BY <2>5, <3>1 DEF CopiedUpTo
    <3> QED
      BY <3>2, <3>3
  <2>13. CASE AdminDies(r)
    BY <1>4, <2>13 DEF AdminDies
  <2> QED
    BY <1>8, <2>7, <2>8, <2>9, <2>10, <2>11, <2>12, <2>13 DEF SettingsStep
<1> QED
  BY <1>7, <1>8

LEMMA PipelineFrame ==
  PipelineTypeOK /\ CopiesInOrder /\ UNCHANGED pipelineVars => PipelineTypeOK' /\ CopiesInOrder'
BY DEF pipelineVars, PipelineTypeOK, CopiesInOrder, CopiedUpTo, AdminBusy

LEMMA PipelinesStart == PipelineInit => PipelineTypeOK /\ CopiesInOrder
<1> SUFFICES ASSUME PipelineInit PROVE PipelineTypeOK /\ CopiesInOrder
  OBVIOUS
<1>1. templates \in GoodLists /\ templates \in Seq(Template) /\ Len(templates) \in Nat
  BY PipelineAssumption DEF PipelineInit, GoodLists
<1>2. \A i \in 1 .. Len(templates) : templates[i] \in Template /\ templates[i].stages \subseteq Stages /\ templates[i].key \in Keys
  <2>1. \A i \in 1 .. Len(templates) : templates[i] \in Template
    BY <1>1
  <2> QED
    BY <2>1, PipelineAssumption DEF Template
<1>3. ASSUME NEW k \in Keys PROVE pipes[k] \in PipeRow
  <2>1. UNION {templates[i].stages : i \in {j \in DOMAIN templates : templates[j].key = k}} \subseteq Stages
    BY <1>1, <1>2
  <2> QED
    BY <2>1 DEF PipelineInit, PipeRow
<1>4. pipes \in [Keys -> PipeRow]
  BY <1>3 DEF PipelineInit
<1>5. admin = [r \in Requests |-> Free] /\ Free.do = "idle" /\ Free.empty = {} /\ ~mixed
      /\ Free \in AdminState
  BY DEF PipelineInit, Free, Asking, AdminState
<1>6. PipelineTypeOK
  <2>1. admin \in [Requests -> AdminState] /\ \A r \in Requests : admin[r] = Free
    BY <1>5
  <2>2. templates \in Seq(Template) \ {<<>>} /\ NamesOnce(templates)
    BY <1>1 DEF GoodLists
  <2>3. mixed \in BOOLEAN
    BY DEF PipelineInit
  <2>4. \A r \in Requests : ~AdminBusy(r) /\ admin[r].empty = {}
    BY <1>5, <2>1 DEF AdminBusy
  <2> QED
    BY <1>4, <2>1, <2>2, <2>3, <2>4 DEF PipelineTypeOK, AdminState
<1>7. CopiedUpTo(pipes, templates, Len(templates))
  <2> SUFFICES ASSUME NEW i \in 1 .. Len(templates)
               PROVE  pipes[templates[i].key] = Copy(templates[i])
    BY DEF CopiedUpTo
  <2>1. {j \in DOMAIN templates : templates[j].key = templates[i].key} = {i}
    BY <1>1 DEF GoodLists, NamesOnce
  <2> DEFINE k == templates[i].key
             S == {templates[n].stages : n \in {j \in DOMAIN templates : templates[j].key = k}}
  <2>2. pipes[k] = [there |-> k \in KeysOf(templates), active |-> k \in KeysOf(templates),
                    stages |-> UNION S]
    BY <1>2 DEF PipelineInit
  <2>3. S = {templates[i].stages}
    BY <2>1
  <2>4. k \in KeysOf(templates) /\ UNION S = templates[i].stages
    BY <1>1, <2>3 DEF KeysOf
  <2> QED
    BY <2>2, <2>4 DEF Copy
<1> QED
  BY <1>5, <1>6, <1>7 DEF CopiesInOrder, AdminBusy

-----------------------------------------------------------------------------
(***************************************************************************)
(* II. The boards.  Rows written over others.                              *)
(***************************************************************************)
(* Rows written over others.                                               *)
LEMMA OverIs ==
  ASSUME NEW new, NEW old
  PROVE  /\ DOMAIN Over(new, old) = DOMAIN new \union DOMAIN old
         /\ \A d \in DOMAIN new : Over(new, old)[d] = new[d]
         /\ \A d \in DOMAIN old : d \notin DOMAIN new => Over(new, old)[d] = old[d]
BY DEF Over

LEMMA OnlyIs ==
  ASSUME NEW d, NEW row
  PROVE  DOMAIN Only(d, row) = {d} /\ Only(d, row)[d] = row
BY DEF Only

LEMMA OverOnlyIs ==
  ASSUME NEW d, NEW row, NEW old
  PROVE  /\ DOMAIN Over(Only(d, row), old) = {d} \union DOMAIN old
         /\ Over(Only(d, row), old)[d] = row
         /\ \A e \in DOMAIN old : e # d => Over(Only(d, row), old)[e] = old[e]
<1> DEFINE one == Only(d, row)
<1>1. DOMAIN one = {d} /\ one[d] = row
  BY DEF Only
<1> HIDE DEF one
<1>2. /\ DOMAIN Over(one, old) = {d} \union DOMAIN old
      /\ Over(one, old)[d] = row
      /\ \A e \in DOMAIN old : e # d => Over(one, old)[e] = old[e]
  BY <1>1 DEF Over
<1> QED
  BY <1>2 DEF one

LEMMA PartialIs ==
  ASSUME NEW S, NEW f
  PROVE  f \in Partial(S) <=>
           DOMAIN f \subseteq Cards /\ f = [d \in DOMAIN f |-> f[d]] /\ \A d \in DOMAIN f : f[d] \in S
<1>1. ASSUME f \in Partial(S)
      PROVE  DOMAIN f \subseteq Cards /\ f = [d \in DOMAIN f |-> f[d]] /\ \A d \in DOMAIN f : f[d] \in S
  <2>1. PICK D \in SUBSET Cards : f \in [D -> S]
    BY <1>1 DEF Partial
  <2> QED
    BY <2>1
<1>2. ASSUME DOMAIN f \subseteq Cards, f = [d \in DOMAIN f |-> f[d]], \A d \in DOMAIN f : f[d] \in S
      PROVE  f \in Partial(S)
  <2>1. f \in [DOMAIN f -> S]
    BY <1>2
  <2> QED
    BY <1>2, <2>1 DEF Partial
<1> QED
  BY <1>1, <1>2

LEMMA NothingIs ==
  /\ DOMAIN Nothing = {}
  /\ \A S : Nothing \in Partial(S)
  /\ \A S : \A f \in Partial(S) : DOMAIN f = {} => f = Nothing
<1>1. DOMAIN Nothing = {}
  BY DEF Nothing
<1>2. ASSUME NEW S PROVE Nothing \in Partial(S)
  <2>1. Nothing = [d \in DOMAIN Nothing |-> Nothing[d]]
    BY <1>1 DEF Nothing
  <2> QED
    BY <1>1, <2>1, PartialIs
<1>3. ASSUME NEW S, NEW f \in Partial(S), DOMAIN f = {} PROVE f = Nothing
  <2>1. f = [d \in DOMAIN f |-> f[d]]
    BY PartialIs
  <2> QED
    BY <1>3, <2>1 DEF Nothing
<1> QED
  BY <1>1, <1>2, <1>3

LEMMA OverPartial ==
  ASSUME NEW S, NEW f \in Partial(S), NEW g \in Partial(S)
  PROVE  Over(f, g) \in Partial(S)
<1>1. DOMAIN f \subseteq Cards /\ \A d \in DOMAIN f : f[d] \in S
  BY PartialIs
<1>2. DOMAIN g \subseteq Cards /\ \A d \in DOMAIN g : g[d] \in S
  BY PartialIs
<1>3. Over(f, g) = [d \in DOMAIN Over(f, g) |-> Over(f, g)[d]]
  BY DEF Over
<1>4. DOMAIN Over(f, g) \subseteq Cards /\ \A d \in DOMAIN Over(f, g) : Over(f, g)[d] \in S
  <2>1. DOMAIN Over(f, g) = DOMAIN f \union DOMAIN g
    BY OverIs
  <2>2. \A d \in DOMAIN f : Over(f, g)[d] = f[d]
    BY OverIs
  <2>3. \A d \in DOMAIN g : d \notin DOMAIN f => Over(f, g)[d] = g[d]
    BY OverIs
  <2> QED
    BY <1>1, <1>2, <2>1, <2>2, <2>3
<1> QED
  BY <1>3, <1>4, PartialIs

LEMMA OnlyPartial ==
  ASSUME NEW S, NEW d \in Cards, NEW row \in S
  PROVE  Only(d, row) \in Partial(S)
<1>1. Only(d, row) = [e \in DOMAIN Only(d, row) |-> Only(d, row)[e]]
  BY DEF Only
<1>2. DOMAIN Only(d, row) \subseteq Cards /\ \A e \in DOMAIN Only(d, row) : Only(d, row)[e] \in S
  <2>1. DOMAIN Only(d, row) = {d}
    BY OnlyIs
  <2>2. Only(d, row)[d] = row
    BY OnlyIs
  <2> QED
    BY <2>1, <2>2
<1> QED
  BY <1>1, <1>2, PartialIs

LEMMA RowOver ==
  ASSUME NEW y \in Partial(Row), NEW row \in Row, NEW d \in Cards
  PROVE  /\ Over(Only(d, row), y) \in Partial(Row)
         /\ DOMAIN Over(Only(d, row), y) = {d} \union DOMAIN y
         /\ Over(Only(d, row), y)[d] = row
         /\ \A e \in DOMAIN y : e # d => Over(Only(d, row), y)[e] = y[e]
<1>1. Over(Only(d, row), y) \in Partial(Row)
  BY OnlyPartial, OverPartial
<1>2. DOMAIN Over(Only(d, row), y) = {d} \union DOMAIN y
  BY OverOnlyIs
<1>3. Over(Only(d, row), y)[d] = row
  BY OverOnlyIs
<1>4. ASSUME NEW e \in DOMAIN y, e # d PROVE Over(Only(d, row), y)[e] = y[e]
  <2>1. e \notin DOMAIN Only(d, row)
    BY <1>4 DEF Only
  <2> QED
    BY <1>4, <2>1 DEF Over
<1> QED
  BY <1>1, <1>2, <1>3, <1>4

LEMMA OverCards ==
  ASSUME NEW w \in Partial(Row), NEW C \in [Cards -> Row \union {NoCard}]
  PROVE  /\ Over(w, C) \in [Cards -> Row \union {NoCard}]
         /\ \A d \in Cards : Over(w, C)[d] = IF d \in DOMAIN w THEN w[d] ELSE C[d]
         /\ There(Over(w, C)) = There(C) \union DOMAIN w
<1>1. DOMAIN w \subseteq Cards /\ \A d \in DOMAIN w : w[d] \in Row
  BY PartialIs
<1>2. DOMAIN Over(w, C) = Cards
  BY <1>1, OverIs
<1>3. \A d \in Cards : Over(w, C)[d] = IF d \in DOMAIN w THEN w[d] ELSE C[d]
  <2>1. \A d \in DOMAIN w : Over(w, C)[d] = w[d]
    BY OverIs
  <2>2. \A d \in DOMAIN C : d \notin DOMAIN w => Over(w, C)[d] = C[d]
    BY OverIs
  <2> QED
    BY <2>1, <2>2
<1>4. Over(w, C) = [d \in Cards |-> Over(w, C)[d]]
  BY <1>2 DEF Over
<1>5. \A d \in Cards : Over(w, C)[d] \in Row \union {NoCard}
  BY <1>1, <1>3
<1>6. Over(w, C) \in [Cards -> Row \union {NoCard}]
  BY <1>4, <1>5
<1>7. There(Over(w, C)) = There(C) \union DOMAIN w
  <2>1. \A d \in DOMAIN w : w[d] # NoCard
    BY <1>1, CardAssumption
  <2> QED
    BY <1>1, <1>3, <2>1 DEF There
<1> QED
  BY <1>3, <1>6, <1>7

LEMMA OverNothing ==
  ASSUME NEW C \in [Cards -> Row \union {NoCard}]
  PROVE  Over(Nothing, C) = C
BY NothingIs, OverCards DEF Over

(* A row is one that is there, and In tells which.                         *)
LEMMA ThereIs ==
  ASSUME NEW C \in [Cards -> Row \union {NoCard}], NEW d \in There(C)
  PROVE  d \in Cards /\ C[d] \in Row /\ d # 0 /\ d \in Nat
BY CardAssumption DEF There

LEMMA RowIs ==
  ASSUME NEW row \in Row
  PROVE  /\ row.col \in Column /\ row.order \in Nat /\ row.live \in BOOLEAN
         /\ row.col.pipe \in Keys /\ row.col.stage \in Stages
BY DEF Row, Column

LEMMA InIs ==
  ASSUME NEW C, NEW c
  PROVE  \A d : d \in In(C, c) <=> d \in There(C) /\ C[d].col = c /\ C[d].live
BY DEF In

-----------------------------------------------------------------------------
(***************************************************************************)
(* Finite columns, and the last number of one.                             *)
(***************************************************************************)
LEMMA ThereFinite ==
  ASSUME NEW C, NEW S \in SUBSET There(C)
  PROVE  IsFiniteSet(S) /\ Cardinality(S) \in Nat
<1>1. S \in SUBSET Cards
  BY DEF There
<1> QED
  BY <1>1, CardAssumption, FS_Subset, FS_CardinalityType

LEMMA LeastNumber ==
  ASSUME NEW K \in SUBSET Nat, K # {}
  PROVE  \E n \in K : \A m \in K : n <= m
<1> DEFINE R == OpToRel(<, Nat)
<1>1. IsWellFoundedOn(R, Nat)
  BY NatLessThanWellFounded
<1>2. \A m, n \in Nat : m < n => <<m, n>> \in R
  BY DEF OpToRel
<1> HIDE DEF R
<1>3. PICK n \in K : \A m \in K : ~(<<m, n>> \in R)
  BY <1>1, WFMin, Zenon
<1>4. \A m \in K : ~(m < n)
  BY <1>2, <1>3, Zenon
<1> QED
  BY <1>4

LEMMA TopIs ==
  ASSUME NEW C \in [Cards -> Row \union {NoCard}], NEW S \in SUBSET There(C)
  PROVE  Top(C, S) \in Nat /\ \A d \in S : C[d].order <= Top(C, S)
<1>1. \A d \in S : C[d].order \in Nat
  BY ThereIs, RowIs
<1>2. CASE S = {}
  BY <1>2 DEF Top
<1>3. CASE S # {}
  <2> DEFINE Above(d) == {e \in S : C[e].order > C[d].order}
             K == {Cardinality(Above(d)) : d \in S}
  <2>1. \A d \in S : IsFiniteSet(Above(d)) /\ Cardinality(Above(d)) \in Nat
    <3> SUFFICES ASSUME NEW d \in S
                 PROVE  IsFiniteSet(Above(d)) /\ Cardinality(Above(d)) \in Nat
      OBVIOUS
    <3>1. Above(d) \in SUBSET There(C)
      OBVIOUS
    <3> QED
      BY <3>1, ThereFinite
  <2>2. K \in SUBSET Nat /\ K # {}
    BY <1>3, <2>1
  <2> HIDE DEF K
  <2>4. PICK n \in K : \A m \in K : n <= m
    BY <2>2, LeastNumber
  <2>5. PICK d \in S : n = Cardinality(Above(d))
    BY <2>4 DEF K
  <2>6. Above(d) = {}
    <3> SUFFICES ASSUME NEW e \in Above(d) PROVE FALSE
      OBVIOUS
    <3>1. e \in S /\ Above(e) \in SUBSET Above(d) /\ e \notin Above(e)
      BY <1>1
    <3>2. Above(e) # Above(d)
      BY <3>1
    <3> HIDE DEF Above
    <3>3. Cardinality(Above(e)) <= Cardinality(Above(d)) /\ Cardinality(Above(e)) # Cardinality(Above(d))
      BY <2>1, <3>1, <3>2, FS_Subset
    <3>4. Cardinality(Above(e)) < Cardinality(Above(d))
      BY <2>1, <3>1, <3>3
    <3>5. Cardinality(Above(e)) \in K
      BY <3>1 DEF K
    <3> QED
      BY <2>1, <2>4, <2>5, <3>1, <3>4, <3>5
  <2>7. \A e \in S : C[e].order <= C[d].order
    BY <1>1, <2>6
  <2>8. \E n0 \in {C[e].order : e \in S} : \A e \in S : C[e].order <= n0
    BY <2>7
  <2>9. Top(C, S) \in {C[e].order : e \in S} /\ \A e \in S : C[e].order <= Top(C, S)
    BY <1>3, <2>8 DEF Top
  <2> QED
    BY <1>1, <2>9
<1> QED
  BY <1>2, <1>3

(* What a request r does to the board in one step: it becomes x, has o     *)
(* written in its transaction, and makes the rows w visible.               *)
Effect(r, x, o, w, l) ==
  /\ req' = [req EXCEPT ![r] = x]
  /\ own' = [own EXCEPT ![r] = o]
  /\ cards' = Over(w, cards)
  /\ late' = [q \in Requests |-> IF q = r THEN l ELSE late[q] \/ w # Nothing]

(* What a step of a request must establish, whatever it read: the rows it  *)
(* writes are rows, no other transaction holds them, and what it becomes   *)
(* is a request that fits the rows of the others.                          *)
Sound(r, x, o, w, l) ==
  /\ Effect(r, x, o, w, l)
  /\ o \in Partial(Row) /\ w \in Partial(Row) /\ l \in BOOLEAN
  /\ DOMAIN o \intersect Locked(r) = {} /\ DOMAIN w \intersect Locked(r) = {}
  /\ DOMAIN o \subseteq There(Over(w, cards))
  /\ \/ x = Idle /\ o = Nothing
     \/ /\ x \in Job
        /\ Serves(board, x, o, Over(w, cards)) /\ Keeps(x, o, Over(w, cards))

\* What is known when a request takes a step.
Now(r) ==
  /\ TypeOK /\ Locks /\ r \in Requests
  /\ Busy(r) => Serves(board, req[r], own[r], cards) /\ Keeps(req[r], own[r], cards)

LEMMA JobIs ==
  ASSUME NEW a \in Job
  PROVE  /\ a.do \in {"append", "save", "number", "update", "commit"}
         /\ a.kind \in {"move", "edit", "create"} /\ a.card \in Cards \union {0}
         /\ a.to \in Column /\ a.from \in Column /\ a.turn \in Column /\ a.copy \in Row
         /\ a.pos \in Nat /\ a.tx \in BOOLEAN /\ a.todo \in Partial(Nat)
BY DEF Job

LEMMA KnownNow ==
  ASSUME NEW r, Now(r)
  PROVE  /\ cards \in [Cards -> Row \union {NoCard}]
         /\ req \in [Requests -> Job \union {Idle}] /\ own \in [Requests -> Partial(Row)]
         /\ late \in [Requests -> BOOLEAN] /\ own[r] \in Partial(Row) /\ late[r] \in BOOLEAN
         /\ DOMAIN own[r] \subseteq There(cards) /\ DOMAIN own[r] \intersect Locked(r) = {}
         /\ View(r) \in [Cards -> Row \union {NoCard}] /\ There(View(r)) = There(cards)
         /\ \A d \in Cards : View(r)[d] = IF d \in DOMAIN own[r] THEN own[r][d] ELSE cards[d]
         /\ Busy(r) => req[r] \in Job
         /\ ~Busy(r) => own[r] = Nothing
<1>1. /\ cards \in [Cards -> Row \union {NoCard}]
      /\ req \in [Requests -> Job \union {Idle}] /\ own \in [Requests -> Partial(Row)]
      /\ late \in [Requests -> BOOLEAN] /\ r \in Requests
      /\ ~Busy(r) => own[r] = Nothing
  BY DEF Now, TypeOK
<1>2. own[r] \in Partial(Row) /\ late[r] \in BOOLEAN
  BY <1>1
<1>3. DOMAIN own[r] \subseteq There(cards) /\ DOMAIN own[r] \intersect Locked(r) = {}
  BY <1>1 DEF Now, Locks, Locked
<1>4. Busy(r) => req[r] \in Job
  BY <1>1 DEF Busy, Idle
<1>5. /\ View(r) \in [Cards -> Row \union {NoCard}]
      /\ \A d \in Cards : View(r)[d] = IF d \in DOMAIN own[r] THEN own[r][d] ELSE cards[d]
      /\ There(View(r)) = There(cards) \union DOMAIN own[r]
  BY <1>1, <1>2, OverCards DEF View
<1> QED
  BY <1>1, <1>2, <1>3, <1>4, <1>5

\* A private step writes no row for others to see.
LEMMA PrivateEffect ==
  ASSUME NEW r, Now(r), NEW x, NEW o, NEW l \in BOOLEAN,
         req' = [req EXCEPT ![r] = x], own' = [own EXCEPT ![r] = o], cards' = cards,
         late' = [late EXCEPT ![r] = l]
  PROVE  Effect(r, x, o, Nothing, l)
<1>1. cards \in [Cards -> Row \union {NoCard}] /\ late \in [Requests -> BOOLEAN]
  BY KnownNow
<1>2. late' = [q \in Requests |-> IF q = r THEN l ELSE late[q] \/ Nothing # Nothing]
  BY <1>1
<1>3. cards' = Over(Nothing, cards)
  BY <1>1, OverNothing
<1> QED
  BY <1>2, <1>3 DEF Effect

LEMMA QuietEffect ==
  ASSUME NEW r, Now(r), NEW x, NEW o,
         req' = [req EXCEPT ![r] = x], own' = [own EXCEPT ![r] = o], UNCHANGED <<cards, late>>
  PROVE  Effect(r, x, o, Nothing, late[r])
<1>1. cards \in [Cards -> Row \union {NoCard}] /\ late \in [Requests -> BOOLEAN]
  BY KnownNow
<1>2. late' = [q \in Requests |-> IF q = r THEN late[r] ELSE late[q] \/ Nothing # Nothing]
  BY <1>1
<1>3. cards' = Over(Nothing, cards)
  BY <1>1, OverNothing
<1> QED
  BY <1>2, <1>3 DEF Effect

LEMMA PublicEffect ==
  ASSUME NEW r, Now(r), NEW x, NEW w, Publish(r, w), req' = [req EXCEPT ![r] = x]
  PROVE  Effect(r, x, Nothing, w, late[r])
<1>1. late' = [q \in Requests |-> IF q = r THEN late[r] ELSE late[q] \/ w # Nothing]
  BY KnownNow DEF Publish
<1> QED
  BY <1>1 DEF Effect, Publish

LEMMA ArriveSound ==
  ASSUME NEW r, Now(r), NEW x \in Job, Arrive(r, x),
         Serves(board, x, Nothing, cards)
  PROVE  Sound(r, x, Nothing, Nothing, FALSE)
<1>1. /\ req' = [req EXCEPT ![r] = x] /\ UNCHANGED <<cards, own>> /\ ~Busy(r)
      /\ late' = [late EXCEPT ![r] = FALSE]
  BY DEF Arrive
<1>2. own' = [own EXCEPT ![r] = Nothing]
  BY <1>1, KnownNow
<1>3. Effect(r, x, Nothing, Nothing, FALSE)
  BY <1>1, <1>2, PrivateEffect
<1>4. Over(Nothing, cards) = cards
  BY KnownNow, OverNothing
<1>5. Keeps(x, Nothing, cards)
  BY NothingIs DEF Keeps
<1> QED
  BY <1>3, <1>4, <1>5, NothingIs DEF Sound

-----------------------------------------------------------------------------
(***************************************************************************)
(* First layer.  Whatever the others do, a step of a request writes rows   *)
(* that no other transaction holds, and leaves a request that fits them.   *)
(***************************************************************************)
LEMMA ReceiveSound ==
  ASSUME NEW r, Now(r), Receive(r)
  PROVE  \E x, o, w, l : Sound(r, x, o, w, l)
<1>0. /\ cards \in [Cards -> Row \union {NoCard}] /\ Nothing \in Partial(Nat)
      /\ Cardinality(Cards) \in Nat /\ board \in {"deals", "collections"}
      /\ DOMAIN Nothing = {}
  BY KnownNow, NothingIs, CardAssumption, FS_CardinalityType DEF Now, TypeOK
<1>1. CASE Move(r)
  <2>1. PICK d \in There(cards), pos \in 0 .. Cardinality(Cards) - 1 : \E c \in Reach(cards[d].col) :
          Arrive(r, [do |-> "save", kind |-> "move", card |-> d, to |-> c,
                     from |-> cards[d].col, copy |-> cards[d], pos |-> pos,
                     tx |-> TRUE, todo |-> Nothing, turn |-> c])
    BY <1>1 DEF Move
  <2>a. PICK c \in Reach(cards[d].col) :
          Arrive(r, [do |-> "save", kind |-> "move", card |-> d, to |-> c,
                     from |-> cards[d].col, copy |-> cards[d], pos |-> pos,
                     tx |-> TRUE, todo |-> Nothing, turn |-> c])
    BY <2>1
  <2>2. d \in Cards /\ cards[d] \in Row /\ cards[d].col \in Column /\ pos \in Nat
        /\ c \in Column /\ c.pipe = cards[d].col.pipe /\ d # 0
    BY <1>0, <2>1, <2>a, ThereIs, RowIs DEF Reach
  <2> DEFINE x == [do |-> "save", kind |-> "move", card |-> d, to |-> c,
                   from |-> cards[d].col, copy |-> cards[d], pos |-> pos,
                   tx |-> TRUE, todo |-> Nothing, turn |-> c]
  <2>3. x \in Job
    BY <1>0, <2>2 DEF Job
  <2>4. Serves(board, x, Nothing, cards)
    BY <1>0, <2>1, <2>2 DEF Serves
  <2> QED
    BY <2>a, <2>3, <2>4, ArriveSound
<1>2. CASE Edit(r)
  <2>1. PICK d \in There(cards), c \in Offered, live \in BOOLEAN :
          Arrive(r, [do |-> IF c # cards[d].col THEN "append" ELSE "save", kind |-> "edit",
                  card |-> d, to |-> c, from |-> cards[d].col,
                  copy |-> [col |-> c, order |-> cards[d].order, live |-> live],
                  pos |-> 0, tx |-> board = "collections", todo |-> Nothing, turn |-> c])
    BY <1>2 DEF Edit
  <2>2. d \in Cards /\ cards[d].order \in Nat /\ cards[d].col \in Column /\ c \in Column /\ d # 0
    BY <1>0, <2>1, ThereIs, RowIs DEF Offered
  <2> DEFINE x == [do |-> IF c # cards[d].col THEN "append" ELSE "save", kind |-> "edit",
                  card |-> d, to |-> c, from |-> cards[d].col,
                  copy |-> [col |-> c, order |-> cards[d].order, live |-> live],
                  pos |-> 0, tx |-> board = "collections", todo |-> Nothing, turn |-> c]
  <2>3. x \in Job
    BY <1>0, <2>2 DEF Job, Row
  <2>4. Serves(board, x, Nothing, cards)
    BY <1>0, <2>1, <2>2 DEF Serves
  <2> QED
    BY <2>1, <2>3, <2>4, ArriveSound
<1>3. CASE Create(r)
  <2>1. PICK c \in Offered, live \in BOOLEAN :
          Arrive(r, [do |-> "append", kind |-> "create", card |-> 0, to |-> c, from |-> c,
               copy |-> [col |-> c, order |-> 0, live |-> live], pos |-> 0,
               tx |-> FALSE, todo |-> Nothing, turn |-> c])
    BY <1>3 DEF Create
  <2>2. c \in Column
    BY DEF Offered
  <2> DEFINE x == [do |-> "append", kind |-> "create", card |-> 0, to |-> c, from |-> c,
               copy |-> [col |-> c, order |-> 0, live |-> live], pos |-> 0,
               tx |-> FALSE, todo |-> Nothing, turn |-> c]
  <2>3. x \in Job
    BY <1>0, <2>2 DEF Job, Row
  <2>4. Serves(board, x, Nothing, cards)
    BY <1>0, <2>2 DEF Serves
  <2> QED
    BY <2>1, <2>3, <2>4, ArriveSound
<1> QED
  BY <1>1, <1>2, <1>3 DEF Receive

(* A step that changes the request alone.                                  *)
LEMMA PrivateSound ==
  ASSUME NEW r, Now(r), Busy(r), NEW x \in Job, req' = [req EXCEPT ![r] = x], Still,
         Serves(board, x, own[r], cards), x.kind = req[r].kind, x.card = req[r].card,
         x.tx = req[r].tx
  PROVE  Sound(r, x, own[r], Nothing, late[r])
<1>1. own' = [own EXCEPT ![r] = own[r]] /\ UNCHANGED <<cards, late>>
  BY KnownNow DEF Still
<1>2. Effect(r, x, own[r], Nothing, late[r])
  BY <1>1, QuietEffect
<1>3. Over(Nothing, cards) = cards
  BY KnownNow, OverNothing
<1>4. Keeps(x, own[r], cards)
  BY DEF Now, Keeps
<1> QED
  BY <1>2, <1>3, <1>4, KnownNow, NothingIs DEF Sound

LEMMA AppendSound ==
  ASSUME NEW r, Now(r), AppendToEnd(r)
  PROVE  \E x, o, w, l : Sound(r, x, o, w, l)
<1> DEFINE a == req[r]
           top == Top(View(r), In(View(r), req[r].to) \ {req[r].card}) + 1
           copy == [a.copy EXCEPT !.order = top]
           x == [a EXCEPT !.do = "save", !.copy = copy]
<1>1. Busy(r) /\ a.do = "append" /\ a \in Job /\ Serves(board, a, own[r], cards)
  BY KnownNow DEF AppendToEnd, Busy, Now
<1>2. req' = [req EXCEPT ![r] = x] /\ Still
  BY DEF AppendToEnd
<1>3. top \in Nat
  <2>1. In(View(r), a.to) \ {a.card} \in SUBSET There(View(r))
    BY InIs
  <2> QED
    BY <2>1, KnownNow, TopIs
<1> HIDE DEF a, top
<1>4. copy \in Row /\ copy.col = a.copy.col
  BY <1>1, <1>3, JobIs DEF Row
<1> HIDE DEF copy
<1>5. /\ x \in Job /\ x.do = "save" /\ x.copy = copy /\ x.kind = a.kind /\ x.card = a.card
      /\ x.to = a.to /\ x.from = a.from /\ x.turn = a.turn /\ x.tx = a.tx /\ x.todo = a.todo
  BY <1>1, <1>4 DEF Job
<1> HIDE DEF x
<1>6. Serves(board, x, own[r], cards)
  BY <1>1, <1>4, <1>5 DEF Serves
<1> QED
  BY <1>1, <1>2, <1>5, <1>6, PrivateSound DEF a

LEMMA NextColumnSound ==
  ASSUME NEW r, Now(r), Updated(r)
  PROVE  \E x, o, w, l : Sound(r, x, o, w, l)
<1> DEFINE a == req[r]
           x == [a EXCEPT !.do = IF a.turn = a.from THEN "commit" ELSE "number", !.turn = a.from]
<1>1. Busy(r) /\ a.do = "update" /\ a.todo = Nothing /\ a \in Job /\ Serves(board, a, own[r], cards)
  BY KnownNow DEF Updated, Busy, Now
<1>2. req' = [req EXCEPT ![r] = x] /\ Still
  BY DEF Updated
<1> HIDE DEF a
<1>3. /\ x \in Job /\ x.do = (IF a.turn = a.from THEN "commit" ELSE "number") /\ x.copy = a.copy
      /\ x.kind = a.kind /\ x.card = a.card
      /\ x.to = a.to /\ x.from = a.from /\ x.turn = a.from /\ x.tx = a.tx /\ x.todo = a.todo
  BY <1>1 DEF Job
<1> HIDE DEF x
<1>4. Serves(board, x, own[r], cards)
  BY <1>1, <1>3 DEF Serves
<1> QED
  BY <1>1, <1>2, <1>3, <1>4, PrivateSound DEF a

LEMMA EndSound ==
  ASSUME NEW r, Now(r), Commit(r) \/ Dies(r)
  PROVE  \E x, o, w, l : Sound(r, x, o, w, l)
<1>1. CASE Commit(r)
  <2>1. Effect(r, Idle, Nothing, own[r], late[r])
    BY <1>1, PublicEffect DEF Commit
  <2> QED
    BY <2>1, KnownNow, NothingIs DEF Sound
<1>2. CASE Dies(r)
  <2>2. Effect(r, Idle, Nothing, Nothing, late[r])
    BY <1>2, QuietEffect DEF Dies
  <2> QED
    BY <2>2, KnownNow, NothingIs DEF Sound
<1> QED
  BY <1>1, <1>2

LEMMA InsertSound ==
  ASSUME NEW r, Now(r), Insert(r)
  PROVE  \E x, o, w, l : Sound(r, x, o, w, l)
<1>1. PICK d \in Cards \ There(cards) : Publish(r, Only(d, req[r].copy))
  BY DEF Insert
<1>2. req' = [req EXCEPT ![r] = Idle] /\ Busy(r) /\ req[r].copy \in Row
  BY KnownNow, JobIs DEF Insert, Busy
<1>3. Effect(r, Idle, Nothing, Only(d, req[r].copy), late[r])
  BY <1>1, <1>2, PublicEffect
<1>4. Only(d, req[r].copy) \in Partial(Row) /\ DOMAIN Only(d, req[r].copy) = {d}
  BY <1>2, OnlyPartial, OnlyIs
<1>5. d \notin Locked(r)
  BY <1>1 DEF Now, Locks, Locked
<1> QED
  BY <1>3, <1>4, <1>5, KnownNow, NothingIs DEF Sound

-----------------------------------------------------------------------------
(***************************************************************************)
(* The rows a save and an update write.                                    *)
(***************************************************************************)
\* The row a save writes.
LEMMA SavedRowIs ==
  ASSUME NEW r, Now(r), req[r].do = "save", req[r].kind # "create"
  PROVE  /\ SavedRow(r) \in Row
         /\ req[r].kind = "move" =>
              /\ SavedRow(r).col = [cards[req[r].card].col EXCEPT !.stage = req[r].to.stage]
              /\ SavedRow(r).col.pipe = cards[req[r].card].col.pipe
              /\ SavedRow(r).col.stage = req[r].to.stage
              /\ SavedRow(r).live = cards[req[r].card].live
              /\ SavedRow(r).order = cards[req[r].card].order
         /\ req[r].kind # "move" => SavedRow(r) = req[r].copy
<1> DEFINE a == req[r]
           c == View(r)[a.card]
<1>1. Busy(r) /\ a \in Job /\ Serves(board, a, own[r], cards)
  BY KnownNow DEF Busy, Now
<1>2. own[r] = Nothing /\ a.card \in There(cards) /\ a.copy \in Row /\ a.to \in Column
  BY <1>1, JobIs DEF Serves
<1>3. c = cards[a.card] /\ c \in Row
  BY <1>2, KnownNow, NothingIs, ThereIs
<1>4. CASE a.kind = "move"
  <2>1. SavedRow(r) = [c EXCEPT !.col = [c.col EXCEPT !.stage = a.to.stage]]
    BY <1>4 DEF SavedRow
  <2> HIDE DEF c, a
  <2>2. c.col \in Column /\ a.to.stage \in Stages
    BY <1>2, <1>3, RowIs DEF Column
  <2> DEFINE col == [c.col EXCEPT !.stage = a.to.stage]
  <2>3. col \in Column /\ col.pipe = c.col.pipe /\ col.stage = a.to.stage
    BY <2>2 DEF Column
  <2> HIDE DEF col
  <2>4. [c EXCEPT !.col = col] \in Row /\ [c EXCEPT !.col = col].col = col
        /\ [c EXCEPT !.col = col].order = c.order /\ [c EXCEPT !.col = col].live = c.live
    BY <1>3, <2>3 DEF Row
  <2>5. SavedRow(r) = [c EXCEPT !.col = col]
    BY <2>1 DEF col
  <2>6. SavedRow(r).col = [cards[a.card].col EXCEPT !.stage = a.to.stage]
    BY <1>3, <2>4, <2>5 DEF col
  <2> QED
    BY <1>3, <1>4, <2>3, <2>4, <2>5, <2>6 DEF a
<1>5. CASE a.kind # "move"
  BY <1>2, <1>5 DEF SavedRow
<1> QED
  BY <1>4, <1>5

LEMMA SaveSound ==
  ASSUME NEW r, Now(r), Save(r)
  PROVE  \E x, o, w, l : Sound(r, x, o, w, l)
<1> DEFINE a == req[r]
           row == SavedRow(r)
           one == Only(a.card, row)
           x == [a EXCEPT !.do = IF a.kind = "move" \/ a.to # a.from THEN "number" ELSE "commit"]
<1>1. /\ Busy(r) /\ a.do = "save" /\ a.kind # "create" /\ a \in Job
      /\ Serves(board, a, own[r], cards) /\ a.card \notin Locked(r)
  BY KnownNow DEF Save, Busy, Now
<1>2. /\ req' = [req EXCEPT ![r] = x]
      /\ row \in Row
      /\ a.kind = "move" => row.col.pipe = cards[a.card].col.pipe /\ row.live = cards[a.card].live
  BY <1>1, SavedRowIs DEF Save
<1>3. own[r] = Nothing /\ a.card \in There(cards) /\ a.card \in Cards /\ a.tx \in BOOLEAN
  BY <1>1, KnownNow, ThereIs, JobIs DEF Serves
<1>4. IF a.tx THEN own' = [own EXCEPT ![r] = Over(one, own[r])] /\ UNCHANGED <<cards, late>>
      ELSE Publish(r, one)
  BY DEF Save
<1> HIDE DEF a, row
<1>5. /\ x \in Job /\ x.do = (IF a.kind = "move" \/ a.to # a.from THEN "number" ELSE "commit")
      /\ x.copy = a.copy /\ x.kind = a.kind /\ x.card = a.card
      /\ x.to = a.to /\ x.from = a.from /\ x.turn = a.turn /\ x.tx = a.tx /\ x.todo = a.todo
  BY <1>1 DEF Job
<1> HIDE DEF x
<1>6. one \in Partial(Row) /\ DOMAIN one = {a.card} /\ one[a.card] = row
  BY <1>2, <1>3, OnlyPartial, OnlyIs
<1>7. CASE a.tx
  <2> DEFINE o == Over(one, own[r])
  <2>1. o \in Partial(Row) /\ DOMAIN o = {a.card} /\ o[a.card] = row
    <3>1. o \in Partial(Row)
      BY <1>6, KnownNow, OverPartial
    <3>2. PICK d, n, y : d = a.card /\ n = row /\ y = own[r]
      OBVIOUS
    <3>3. DOMAIN Over(Only(d, n), y) = {d} \union DOMAIN y
      BY OverOnlyIs
    <3>4. Over(Only(d, n), y)[d] = n
      BY OverOnlyIs
    <3>5. o = Over(Only(d, n), y) /\ DOMAIN y = {}
      BY <1>3, <3>2, NothingIs
    <3> QED
      BY <3>1, <3>2, <3>3, <3>4, <3>5
  <2>2. Effect(r, x, o, Nothing, late[r])
    BY <1>2, <1>4, <1>7, QuietEffect
  <2> HIDE DEF o
  <2>3. Over(Nothing, cards) = cards
    BY KnownNow, OverNothing
  <2>4. Serves(board, x, o, cards)
    BY <1>1, <1>5, <1>7 DEF Serves
  <2>5. Keeps(x, o, cards)
    BY <1>2, <1>5, <1>7, <2>1 DEF Keeps
  <2> QED
    BY <1>1, <1>3, <1>5, <2>1, <2>2, <2>3, <2>4, <2>5, KnownNow, NothingIs DEF Sound
<1>8. CASE ~a.tx
  <2>1. Effect(r, x, Nothing, one, late[r])
    BY <1>2, <1>4, <1>8, PublicEffect
  <2>2. There(Over(one, cards)) = There(cards) \union {a.card}
    BY <1>6, KnownNow, OverCards
  <2>3. Serves(board, x, Nothing, Over(one, cards))
    <3>1. There(Over(one, cards)) = There(cards)
      BY <1>3, <2>2
    <3> QED
      BY <1>1, <1>5, <1>8, <3>1 DEF Serves
  <2>4. Keeps(x, Nothing, Over(one, cards))
    BY NothingIs DEF Keeps
  <2> QED
    BY <1>1, <1>5, <1>6, <2>1, <2>3, <2>4, KnownNow, NothingIs DEF Sound
<1> QED
  BY <1>3, <1>7, <1>8

\* The row an update writes, over those written before.
LEMMA UpdatedRowIs ==
  ASSUME NEW r, Now(r), req[r].do = "update", NEW d \in DOMAIN req[r].todo
  PROVE  LET row == [View(r)[d] EXCEPT !.order = req[r].todo[d]]
             o == Over(Only(d, row), own[r])
         IN /\ d \in There(cards) /\ row \in Row /\ row.order = req[r].todo[d]
            /\ row.col = View(r)[d].col /\ row.live = View(r)[d].live
            /\ o \in Partial(Row) /\ DOMAIN o = {d} \union DOMAIN own[r]
            /\ o[d] = row /\ \A e \in DOMAIN own[r] : e # d => o[e] = own[r][e]
<1> DEFINE a == req[r]
           v == View(r)[d]
           row == [v EXCEPT !.order = a.todo[d]]
           one == Only(d, row)
           o == Over(one, own[r])
<1>1. Busy(r) /\ a \in Job /\ Serves(board, a, own[r], cards) /\ own[r] \in Partial(Row)
  BY KnownNow DEF Busy, Now
<1>2. d \in There(cards) /\ d \in Cards /\ v \in Row /\ a.todo[d] \in Nat
  <2>1. d \in There(cards)
    BY <1>1 DEF Serves
  <2>2. a.todo \in Partial(Nat)
    BY <1>1, JobIs
  <2>3. a.todo[d] \in Nat
    BY <2>2, PartialIs
  <2> QED
    BY <2>1, <2>3, KnownNow, ThereIs
<1> HIDE DEF a, v
<1>3. row \in Row /\ row.order = a.todo[d] /\ row.col = v.col /\ row.live = v.live
  BY <1>2 DEF Row
<1> HIDE DEF row
<1>4. one \in Partial(Row) /\ DOMAIN one = {d} /\ one[d] = row
  BY <1>2, <1>3, OnlyPartial, OnlyIs
<1>0. PICK y, n : y = own[r] /\ n = row
  OBVIOUS
<1>5. DOMAIN Over(Only(d, n), y) = {d} \union DOMAIN y
  BY OverOnlyIs
<1>6. Over(Only(d, n), y)[d] = n
  BY OverOnlyIs
<1>7. ASSUME NEW e \in DOMAIN y, e # d
      PROVE  Over(Only(d, n), y)[e] = y[e]
  <2>1. e \notin DOMAIN Only(d, n)
    BY <1>7 DEF Only
  <2> QED
    BY <1>7, <2>1 DEF Over
<1>9. o = Over(Only(d, n), y)
  BY <1>0
<1> HIDE DEF one, o
<1>8. o \in Partial(Row)
  BY <1>1, <1>4, OverPartial DEF o
<1> QED
  <2>1. DOMAIN o = {d} \union DOMAIN own[r] /\ o[d] = row
        /\ \A e \in DOMAIN own[r] : e # d => o[e] = own[r][e]
    BY <1>0, <1>5, <1>6, <1>7, <1>9
  <2> QED
    BY <1>2, <1>3, <1>8, <2>1 DEF o, one, row, a, v

LEMMA UpdateSound ==
  ASSUME NEW r, Now(r), Update(r)
  PROVE  \E x, o, w, l : Sound(r, x, o, w, l)
<1>1. PICK d \in DOMAIN req[r].todo \ Locked(r) : UpdateRow(r, d)
  BY DEF Update
<1> DEFINE a == req[r]
           row == [View(r)[d] EXCEPT !.order = a.todo[d]]
           left == DOMAIN a.todo \ {d}
           todo == [e \in left |-> a.todo[e]]
           x == [a EXCEPT !.todo = todo]
           o == Over(Only(d, row), own[r])
<1>2. /\ Busy(r) /\ a.do = "update" /\ a \in Job /\ Serves(board, a, own[r], cards)
      /\ Keeps(a, own[r], cards)
  BY KnownNow DEF Update, Busy, Now
<1>3. /\ req' = [req EXCEPT ![r] = x]
      /\ IF left = {} /\ ~a.tx THEN Publish(r, o)
         ELSE own' = [own EXCEPT ![r] = o] /\ UNCHANGED <<cards, late>>
  BY <1>1 DEF UpdateRow
<1>4. /\ d \in There(cards) /\ row.col = View(r)[d].col /\ row.live = View(r)[d].live
      /\ o \in Partial(Row) /\ DOMAIN o = {d} \union DOMAIN own[r]
      /\ o[d] = row /\ \A e \in DOMAIN own[r] : e # d => o[e] = own[r][e]
  BY <1>2, UpdatedRowIs
<1>5. todo \in Partial(Nat) /\ DOMAIN todo = left /\ left \subseteq There(cards)
  <2>1. a.todo \in Partial(Nat)
    BY <1>2, JobIs
  <2>2. DOMAIN a.todo \subseteq Cards /\ \A e \in DOMAIN a.todo : a.todo[e] \in Nat
    BY <2>1, PartialIs
  <2>3. DOMAIN todo \subseteq Cards /\ todo = [e \in DOMAIN todo |-> todo[e]]
        /\ \A e \in DOMAIN todo : todo[e] \in Nat
    BY <2>2
  <2> QED
    BY <1>2, <2>3, PartialIs DEF Serves
<1>6. DOMAIN o \intersect Locked(r) = {} /\ DOMAIN o \subseteq There(cards)
  BY <1>1, <1>4, KnownNow
<1> HIDE DEF a, row, todo, o
<1>7. /\ x \in Job /\ x.todo = todo /\ x.do = "update" /\ x.copy = a.copy /\ x.kind = a.kind
      /\ x.card = a.card /\ x.to = a.to /\ x.from = a.from /\ x.turn = a.turn /\ x.tx = a.tx
  BY <1>2, <1>5 DEF Job
<1> HIDE DEF x
<1>8. Keeps(x, o, cards)
  <2> SUFFICES ASSUME NEW e \in DOMAIN o
               PROVE  /\ (e # x.card \/ ~x.tx) => o[e].col = cards[e].col /\ o[e].live = cards[e].live
                      /\ x.kind = "move" => o[e].col.pipe = cards[e].col.pipe /\ o[e].live = cards[e].live
    BY DEF Keeps
  <2>1. CASE e \in DOMAIN own[r]
    <3>1. o[e].col = own[r][e].col /\ o[e].live = own[r][e].live
      BY <1>4, <2>1, KnownNow, ThereIs
    <3> QED
      BY <1>2, <1>7, <2>1, <3>1 DEF Keeps
  <2>2. CASE e \notin DOMAIN own[r]
    <3>1. e = d /\ View(r)[e] = cards[e]
      BY <1>4, <2>2, KnownNow, ThereIs
    <3> QED
      BY <1>4, <3>1
  <2> QED
    BY <2>1, <2>2
<1>9. CASE left = {} /\ ~a.tx
  <2>1. Effect(r, x, Nothing, o, late[r])
    BY <1>3, <1>9, PublicEffect
  <2>2. There(Over(o, cards)) = There(cards)
    <3>1. There(Over(o, cards)) = There(cards) \union DOMAIN o
      BY <1>4, KnownNow, OverCards
    <3> QED
      BY <1>6, <3>1
  <2>3. Serves(board, x, Nothing, Over(o, cards))
    BY <1>2, <1>5, <1>7, <1>9, <2>2 DEF Serves
  <2>4. Keeps(x, Nothing, Over(o, cards))
    BY NothingIs DEF Keeps
  <2> QED
    BY <1>4, <1>6, <1>7, <2>1, <2>3, <2>4, KnownNow, NothingIs DEF Sound
<1>10. CASE ~(left = {} /\ ~a.tx)
  <2>1. Effect(r, x, o, Nothing, late[r])
    BY <1>3, <1>10, QuietEffect
  <2>2. Over(Nothing, cards) = cards
    BY KnownNow, OverNothing
  <2>3. x.todo = Nothing /\ ~x.tx => FALSE
    BY <1>5, <1>7, <1>10, NothingIs
  <2>4. Serves(board, x, o, cards)
    BY <1>2, <1>5, <1>7, <2>3 DEF Serves
  <2> QED
    BY <1>4, <1>6, <1>7, <1>8, <2>1, <2>2, <2>4, KnownNow, NothingIs DEF Sound
<1> QED
  BY <1>9, <1>10

-----------------------------------------------------------------------------
(***************************************************************************)
(* Listings: a column has all its cards, once, by their numbers, and a     *)
(* card put in it pushes those after it back.                              *)
(***************************************************************************)
(* A listing of a column has all its cards, once, by their numbers.        *)
LEMMA ListsIs ==
  ASSUME NEW C \in [Cards -> Row \union {NoCard}], NEW S \in SUBSET There(C), NEW L \in Lists(C, S)
  PROVE  /\ Cardinality(S) \in Nat /\ L \in Seq(S) /\ Len(L) = Cardinality(S)
         /\ \A i, j \in 1 .. Len(L) : L[i] = L[j] => i = j
         /\ \A i, j \in 1 .. Len(L) : C[L[i]].order < C[L[j]].order => i < j
         /\ \A d \in S : \E i \in 1 .. Len(L) : L[i] = d
<1> DEFINE n == Cardinality(S)
<1>1. n \in Nat /\ IsFiniteSet(S)
  BY ThereFinite
<1>2. L \in [1 .. n -> S]
  BY DEF Lists
<1>3. \A i, j \in 1 .. n : i < j => L[i] # L[j] /\ C[L[i]].order <= C[L[j]].order
  BY <1>2 DEF Lists
<1> HIDE DEF n
<1>4. L \in Seq(S) /\ Len(L) = n
  BY <1>1, <1>2
<1>5. \A i, j \in 1 .. n : L[i] = L[j] => i = j
  <2> SUFFICES ASSUME NEW i \in 1 .. n, NEW j \in 1 .. n, i # j PROVE L[i] # L[j]
    OBVIOUS
  <2>1. i < j \/ j < i
    BY <1>1
  <2> QED
    BY <1>3, <2>1
<1>6. \A i, j \in 1 .. n : C[L[i]].order < C[L[j]].order => i < j
  <2> SUFFICES ASSUME NEW i \in 1 .. n, NEW j \in 1 .. n, ~(i < j)
               PROVE  ~(C[L[i]].order < C[L[j]].order)
    OBVIOUS
  <2>1. L[i] \in S /\ L[j] \in S
    BY <1>2
  <2>2. C[L[i]].order \in Nat /\ C[L[j]].order \in Nat
    BY <2>1, ThereIs, RowIs
  <2>3. i = j \/ j < i
    BY <1>1
  <2>4. C[L[j]].order <= C[L[i]].order
    BY <1>3, <2>2, <2>3
  <2> QED
    BY <2>2, <2>4
<1>7. \A d \in S : \E i \in 1 .. n : L[i] = d
  <2>1. L \in Injection(1 .. n, S)
    BY <1>2, <1>5 DEF Injection, IsInjective
  <2>2. Cardinality(1 .. n) = n
    BY <1>1, FS_Interval
  <2>3. L \in Surjection(1 .. n, S)
    BY <1>1, <2>1, <2>2, FS_Injection DEF n
  <2> QED
    BY <2>3 DEF Surjection
<1> QED
  BY <1>1, <1>4, <1>5, <1>6, <1>7 DEF n

LEMMA ConcatIs ==
  ASSUME NEW S, NEW s \in Seq(S), NEW t \in Seq(S)
  PROVE  /\ s \o t \in Seq(S) /\ Len(s \o t) = Len(s) + Len(t)
         /\ \A i \in 1 .. Len(s) + Len(t) :
              (s \o t)[i] = IF i <= Len(s) THEN s[i] ELSE t[i - Len(s)]
OBVIOUS

(* A card put in a list pushes those after it back.                        *)
LEMMA PlacedIs ==
  ASSUME NEW S, NEW L \in Seq(S), NEW pos \in Nat, NEW d \in S
  PROVE  /\ Placed(L, pos, d) \in Seq(S) /\ Len(Placed(L, pos, d)) = Len(L) + 1
         /\ Least(pos, Len(L)) \in 0 .. Len(L) /\ Len(L) \in Nat
         /\ \A i \in 1 .. Len(L) + 1 : Placed(L, pos, d)[i] =
              IF i <= Least(pos, Len(L)) THEN L[i]
              ELSE IF i = Least(pos, Len(L)) + 1 THEN d ELSE L[i - 1]
<1> DEFINE p == Least(pos, Len(L))
           A == SubSeq(L, 1, p)
           B == SubSeq(L, p + 1, Len(L))
           D == <<d>>
<1>1. Len(L) \in Nat /\ p \in 0 .. Len(L)
  BY DEF Least
<1> HIDE DEF p
<1>2. A \in Seq(S) /\ Len(A) = p /\ \A i \in 1 .. p : A[i] = L[i]
  BY <1>1
<1>3. B \in Seq(S) /\ Len(B) = Len(L) - p /\ \A i \in 1 .. Len(L) - p : B[i] = L[i + p]
  BY <1>1
<1>4. D \in Seq(S) /\ Len(D) = 1 /\ D[1] = d
  OBVIOUS
<1> HIDE DEF A, B, D
<1>5. /\ A \o D \in Seq(S) /\ Len(A \o D) = p + 1 /\ (A \o D)[p + 1] = d
      /\ \A i \in 1 .. p : (A \o D)[i] = L[i]
  <2>1. A \o D \in Seq(S) /\ Len(A \o D) = Len(A) + Len(D)
    BY <1>2, <1>4, ConcatIs
  <2>2. Len(A) \in Nat /\ Len(A) = p /\ Len(D) = 1
    BY <1>2, <1>4
  <2>3. (A \o D)[p + 1] = d
    <3>1. p + 1 \in 1 .. Len(A) + Len(D) /\ ~(p + 1 <= Len(A)) /\ p + 1 - Len(A) = 1
      BY <1>1, <2>2
    <3>2. (A \o D)[p + 1] = D[p + 1 - Len(A)]
      BY <1>2, <1>4, <3>1, ConcatIs
    <3> QED
      BY <1>4, <3>1, <3>2
  <2>4. ASSUME NEW i \in 1 .. p PROVE (A \o D)[i] = L[i]
    <3>1. i \in 1 .. Len(A) + Len(D) /\ i \in 1 .. Len(A) /\ i <= Len(A)
      BY <1>1, <2>2
    <3>2. (A \o D)[i] = A[i]
      BY <1>2, <1>4, <3>1
    <3> QED
      BY <1>2, <3>2
  <2> QED
    BY <2>1, <2>2, <2>3, <2>4
<1> DEFINE E == A \o D
<1> HIDE DEF E
<1>6. E \o B \in Seq(S) /\ Len(E \o B) = Len(L) + 1
  <2>1. E \in Seq(S) /\ Len(E) = p + 1
    BY <1>5 DEF E
  <2>2. E \o B \in Seq(S) /\ Len(E \o B) = Len(E) + Len(B)
    BY <1>3, <2>1
  <2> QED
    BY <1>1, <1>3, <2>1, <2>2
<1>7. ASSUME NEW i \in 1 .. Len(L) + 1
      PROVE  (E \o B)[i] = IF i <= p THEN L[i] ELSE IF i = p + 1 THEN d ELSE L[i - 1]
  <2>1. E \in Seq(S) /\ Len(E) = p + 1 /\ i \in 1 .. Len(E) + Len(B)
    BY <1>1, <1>3, <1>5 DEF E
  <2>2. CASE i <= p + 1
    <3>1. i <= Len(E) /\ i \in 1 .. Len(E)
      BY <1>1, <2>1, <2>2
    <3>2. (E \o B)[i] = E[i]
      BY <1>3, <2>1, <3>1
    <3>3. i \in 1 .. p \/ i = p + 1
      BY <1>1, <2>2
    <3>4. i = p + 1 => ~(i <= p)
      BY <1>1
    <3>5. i \in 1 .. p => i <= p
      BY <1>1
    <3>6. E[p + 1] = d /\ \A j \in 1 .. p : E[j] = L[j]
      BY <1>5 DEF E
    <3> QED
      BY <3>2, <3>3, <3>4, <3>5, <3>6
  <2>3. CASE ~(i <= p + 1)
    <3>1. ~(i <= Len(E)) /\ i - Len(E) = i - (p + 1) /\ i - (p + 1) \in 1 .. Len(L) - p
      BY <1>1, <2>1, <2>3
    <3>2. (E \o B)[i] = B[i - Len(E)]
      BY <1>3, <2>1, <3>1
    <3>3. B[i - (p + 1)] = L[i - (p + 1) + p]
      BY <1>3, <3>1
    <3>4. i - (p + 1) + p = i - 1 /\ ~(i <= p) /\ i # p + 1
      BY <1>1, <2>3
    <3>5. (E \o B)[i] = L[i - 1]
      BY <3>1, <3>2, <3>3, <3>4
    <3> QED
      BY <3>4, <3>5
  <2> QED
    BY <2>2, <2>3
<1>8. Placed(L, pos, d) = E \o B
  BY DEF Placed, E, A, B, D, p
<1> QED
  BY <1>1, <1>6, <1>7, <1>8 DEF p

\* So the others keep their order, and the card is where it was dropped.
Distinct(L) == \A i, j \in 1 .. Len(L) : L[i] = L[j] => i = j

Puts(L, pos, d, P) ==
  LET p == Least(pos, Len(L)) IN
  /\ Len(P) = Len(L) + 1 /\ p + 1 \in 1 .. Len(P) /\ P[p + 1] = d
  /\ \A i \in 1 .. Len(P) : i # p + 1 => \E k \in 1 .. Len(L) : P[i] = L[k]
  /\ \A i, j \in 1 .. Len(P) : i # p + 1 /\ j # p + 1 =>
       \E k, m \in 1 .. Len(L) : P[i] = L[k] /\ P[j] = L[m] /\ (k < m => i < j)
  /\ \A i \in 1 .. Len(L) : \E j \in 1 .. Len(P) : P[j] = L[i]

LEMMA PlacedKeeps ==
  ASSUME NEW T, NEW L \in Seq(T), NEW pos \in Nat, NEW d \in T,
         \A i \in 1 .. Len(L) : L[i] # d, Distinct(L)
  PROVE  /\ Placed(L, pos, d) \in Seq(T) /\ Distinct(Placed(L, pos, d))
         /\ Puts(L, pos, d, Placed(L, pos, d))
<1> DEFINE P == Placed(L, pos, d)
           p == Least(pos, Len(L))
           at(i) == IF i <= p THEN i ELSE i - 1
           n == Len(L)
<1>2. /\ P \in Seq(T) /\ Len(P) = n + 1 /\ p \in 0 .. n /\ n \in Nat
      /\ \A i \in 1 .. n + 1 : P[i] = IF i <= p THEN L[i]
                                           ELSE IF i = p + 1 THEN d ELSE L[i - 1]
  <2> DEFINE Q == Placed(L, pos, d)
  <2>1. Q \in Seq(T) /\ Len(Q) = Len(L) + 1
    BY PlacedIs
  <2>2. Least(pos, Len(L)) \in 0 .. Len(L) /\ Len(L) \in Nat
    BY PlacedIs
  <2>3. \A i \in 1 .. Len(L) + 1 : Q[i] = IF i <= Least(pos, Len(L)) THEN L[i]
               ELSE IF i = Least(pos, Len(L)) + 1 THEN d ELSE L[i - 1]
    BY PlacedIs
  <2> QED
    BY <2>1, <2>2, <2>3
<1>3. \A i \in 1 .. n : L[i] # d /\ \A j \in 1 .. n : L[i] = L[j] => i = j
  BY DEF Distinct
<1> HIDE DEF P, p, n
<1>4. p + 1 \in 1 .. n + 1 /\ P[p + 1] = d
  <2>1. p + 1 \in 1 .. n + 1 /\ ~(p + 1 <= p)
    BY <1>2
  <2> QED
    BY <1>2, <2>1
<1>5. ASSUME NEW i \in 1 .. n + 1, i # p + 1
      PROVE  at(i) \in 1 .. n /\ P[i] = L[at(i)] /\ at(i) \in Int
             /\ (i <= p => at(i) = i) /\ (~(i <= p) => at(i) = i - 1)
  BY <1>2, <1>5
<1> HIDE DEF at
<1>6. ASSUME NEW i \in 1 .. n + 1, NEW j \in 1 .. n + 1, P[i] = P[j]
      PROVE  i = j
  <2>1. CASE i = p + 1 \/ j = p + 1
    BY <1>3, <1>4, <1>5, <1>6, <2>1
  <2>2. CASE i # p + 1 /\ j # p + 1
    <3>1. at(i) \in 1 .. n /\ at(j) \in 1 .. n /\ L[at(i)] = L[at(j)]
      BY <1>5, <1>6, <2>2
    <3>2. at(i) = at(j)
      BY <1>3, <3>1
    <3>3. i \in Int /\ j \in Int /\ p \in Int
      BY <1>2
    <3> QED
      BY <2>2, <3>2, <3>3 DEF at
  <2> QED
    BY <2>1, <2>2
<1>7. ASSUME NEW i \in 1 .. n
      PROVE  \E j \in 1 .. n + 1 : P[j] = L[i]
  <2>1. CASE i <= p
    <3>1. i \in 1 .. n + 1
      BY <1>2
    <3> QED
      BY <1>2, <2>1, <3>1
  <2>2. CASE ~(i <= p)
    <3>1. i + 1 \in 1 .. n + 1 /\ ~(i + 1 <= p) /\ i + 1 # p + 1 /\ (i + 1) - 1 = i
      BY <1>2, <2>2
    <3>2. P[i + 1] = L[(i + 1) - 1]
      BY <1>2, <3>1
    <3> QED
      BY <3>1, <3>2
  <2> QED
    BY <2>1, <2>2
<1>8. ASSUME NEW i \in 1 .. n + 1, NEW j \in 1 .. n + 1, i # p + 1, j # p + 1
      PROVE  \E k, m \in 1 .. n : P[i] = L[k] /\ P[j] = L[m] /\ (k < m => i < j)
  <2>1. at(i) \in 1 .. n /\ at(j) \in 1 .. n /\ P[i] = L[at(i)] /\ P[j] = L[at(j)]
    BY <1>5, <1>8
  <2>2. at(i) < at(j) => i < j
    <3>1. i \in Int /\ j \in Int /\ p \in Int
      BY <1>2
    <3> QED
      BY <1>8, <3>1 DEF at
  <2> QED
    BY <2>1, <2>2
<1>9. \A i \in 1 .. n + 1 : i # p + 1 => \E k \in 1 .. n : P[i] = L[k]
  BY <1>5
<1>10. Puts(L, pos, d, P)
  BY <1>2, <1>4, <1>7, <1>8, <1>9 DEF Puts, p, n
<1>11. Distinct(P)
  BY <1>2, <1>6 DEF Distinct
<1> QED
  BY <1>2, <1>10, <1>11 DEF P

-----------------------------------------------------------------------------
(***************************************************************************)
(* The numbers that a listing gives.                                       *)
(***************************************************************************)
Moving(a) == a.kind = "move" /\ a.turn = a.to
Rest(r) == In(View(r), req[r].turn) \ (IF Moving(req[r]) THEN {req[r].card} ELSE {})
Known(r, d) == IF Moving(req[r]) /\ d = req[r].card THEN req[r].copy.order ELSE View(r)[d].order

\* P lists the cards a column is about to have, in their order.
Listing(r, P) ==
  LET a == req[r] IN
  /\ P \in Seq(There(cards)) /\ Len(P) \in Nat
  /\ \A i, j \in 1 .. Len(P) : P[i] = P[j] => i = j
  /\ \A i \in 1 .. Len(P) : P[i] \in Rest(r) \/ (Moving(a) /\ P[i] = a.card)
  /\ \A d \in Rest(r) : \E i \in 1 .. Len(P) : P[i] = d
  /\ \A i, j \in 1 .. Len(P) : P[i] \in Rest(r) /\ P[j] \in Rest(r)
       /\ View(r)[P[i]].order < View(r)[P[j]].order => i < j
  /\ Moving(a) => LET p == Least(a.pos, Cardinality(Rest(r))) + 1
                  IN p \in 1 .. Len(P) /\ P[p] = a.card
  /\ Len(P) = Cardinality(Rest(r)) + (IF Moving(a) THEN 1 ELSE 0)

LEMMA ListingIs ==
  ASSUME NEW r, Now(r), req[r].do = "number", NEW L \in Lists(View(r), Rest(r))
  PROVE  Listing(r, IF Moving(req[r]) THEN Placed(L, req[r].pos, req[r].card) ELSE L)
<1> DEFINE a == req[r]
           v == View(r)
           S == Rest(r)
<1>1. Busy(r) /\ a \in Job /\ Serves(board, a, own[r], cards)
  BY KnownNow DEF Busy, Now
<1>2. v \in [Cards -> Row \union {NoCard}] /\ There(v) = There(cards) /\ S \in SUBSET There(v)
  <2>1. S \in SUBSET There(v)
    BY InIs DEF Rest
  <2> QED
    BY <2>1, KnownNow
<1>3. /\ Cardinality(S) \in Nat /\ L \in Seq(S) /\ Len(L) = Cardinality(S)
      /\ \A i, j \in 1 .. Len(L) : L[i] = L[j] => i = j
      /\ \A i, j \in 1 .. Len(L) : v[L[i]].order < v[L[j]].order => i < j
      /\ \A d \in S : \E i \in 1 .. Len(L) : L[i] = d
  BY <1>2, ListsIs
<1>4. \A i \in 1 .. Len(L) : L[i] \in S
  BY <1>3
<1>5. CASE ~Moving(a)
  <2> HIDE DEF a, v, S
  <2>1. L \in Seq(There(cards))
    BY <1>2, <1>3
  <2>2. Listing(r, L)
    BY <1>3, <1>4, <1>5, <2>1 DEF Listing, a, v, S
  <2> QED
    BY <1>5, <2>2 DEF a
<1>6. CASE Moving(a)
  <2> DEFINE P == Placed(L, a.pos, a.card)
             p == Least(a.pos, Len(L))
  <2>1. a.card \in There(cards) /\ a.card \notin S /\ a.pos \in Nat
    BY <1>1, <1>6, JobIs DEF Serves, Moving, Rest
  <2> HIDE DEF a, v, S
  <2>2. P \in Seq(There(cards)) /\ Distinct(P) /\ Puts(L, a.pos, a.card, P)
    <3>1. PICK pos, d, T : pos = a.pos /\ d = a.card /\ T = There(cards)
      OBVIOUS
    <3>2. pos \in Nat /\ d \in T /\ L \in Seq(T)
      BY <1>2, <1>3, <2>1, <3>1
    <3>3. Distinct(L) /\ \A i \in 1 .. Len(L) : L[i] # d
      BY <1>3, <1>4, <2>1, <3>1 DEF Distinct
    <3>4. Placed(L, pos, d) \in Seq(T) /\ Distinct(Placed(L, pos, d))
          /\ Puts(L, pos, d, Placed(L, pos, d))
      BY <3>2, <3>3, PlacedKeeps
    <3> QED
      BY <3>1, <3>4
  <2> HIDE DEF P, p
  <2>3. Len(P) \in Nat /\ Len(P) = Cardinality(S) + 1
    BY <1>3, <2>2 DEF Puts
  <2>4. \A i \in 1 .. Len(P) : P[i] \in S \/ P[i] = a.card
    BY <1>4, <2>2 DEF Puts
  <2>5. \A d \in S : \E i \in 1 .. Len(P) : P[i] = d
    BY <1>3, <2>2 DEF Puts
  <2>6. ASSUME NEW i \in 1 .. Len(P), NEW j \in 1 .. Len(P), P[i] \in S, P[j] \in S,
               v[P[i]].order < v[P[j]].order
        PROVE  i < j
    <3>1. i # p + 1 /\ j # p + 1
      BY <2>1, <2>2, <2>6 DEF Puts, p
    <3>2. PICK k \in 1 .. Len(L), m \in 1 .. Len(L) :
            P[i] = L[k] /\ P[j] = L[m] /\ (k < m => i < j)
      BY <2>2, <3>1 DEF Puts, p
    <3> QED
      BY <1>3, <2>6, <3>2
  <2>7. p = Least(a.pos, Cardinality(S))
    BY <1>3 DEF p
  <2>8. Listing(r, P)
    BY <1>6, <2>2, <2>3, <2>4, <2>5, <2>6, <2>7 DEF Listing, Distinct, Puts, a, v, S, p
  <2> QED
    BY <1>6, <2>8 DEF a, P
<1> QED
  BY <1>5, <1>6

\* The numbers of a listing that change, and those that need not.
Numbering(r, P, T) ==
  /\ T \in Partial(Nat)
  /\ \A d \in DOMAIN T : \E i \in 1 .. Len(P) : P[i] = d
  /\ \A i \in 1 .. Len(P) : IF P[i] \in DOMAIN T THEN T[P[i]] = i ELSE Known(r, P[i]) = i

LEMMA NumberIs ==
  ASSUME NEW r, Now(r), Number(r)
  PROVE  \E P, T : /\ Listing(r, P) /\ Numbering(r, P, T) /\ Still
                   /\ req' = [req EXCEPT ![r] = [@ EXCEPT !.do = "update", !.todo = T]]
<1> DEFINE a == req[r]
<1>1. PICK L \in Lists(View(r), Rest(r)) :
        LET P == IF Moving(a) THEN Placed(L, a.pos, a.card) ELSE L
            changed == {i \in DOMAIN P : Known(r, P[i]) # i}
        IN req' = [req EXCEPT ![r] = [@ EXCEPT !.do = "update",
              !.todo = [d \in {P[i] : i \in changed} |-> CHOOSE i \in changed : P[i] = d]]]
  BY DEF Number, Rest, Known, Moving
<1> DEFINE P == IF Moving(a) THEN Placed(L, a.pos, a.card) ELSE L
           changed == {i \in DOMAIN P : Known(r, P[i]) # i}
           T == [d \in {P[i] : i \in changed} |-> CHOOSE i \in changed : P[i] = d]
<1>2. Listing(r, P)
  BY ListingIs DEF Number
<1>3. req' = [req EXCEPT ![r] = [@ EXCEPT !.do = "update", !.todo = T]]
  BY <1>1
<1> HIDE DEF P
<1>4. P \in Seq(There(cards)) /\ Len(P) \in Nat /\ DOMAIN P = 1 .. Len(P)
      /\ \A i, j \in 1 .. Len(P) : P[i] = P[j] => i = j
  BY <1>2 DEF Listing
<1>5. \A i \in changed : P[i] \in DOMAIN T /\ T[P[i]] = i /\ i \in Nat /\ P[i] \in Cards
  <2> SUFFICES ASSUME NEW i \in changed
               PROVE  P[i] \in DOMAIN T /\ T[P[i]] = i /\ i \in Nat /\ P[i] \in Cards
    OBVIOUS
  <2>1. P[i] \in {P[j] : j \in changed}
    OBVIOUS
  <2>2. \A j \in changed : P[j] = P[i] => j = i
    BY <1>4
  <2>3. (CHOOSE j \in changed : P[j] = P[i]) = i
    BY <2>2
  <2>4. P[i] \in There(cards) /\ i \in Nat
    BY <1>4
  <2> QED
    BY <2>1, <2>3, <2>4 DEF There
<1>6. \A d \in DOMAIN T : \E i \in changed : P[i] = d
  OBVIOUS
<1>7. T \in Partial(Nat)
  <2>1. T = [d \in DOMAIN T |-> T[d]]
    OBVIOUS
  <2> HIDE DEF T, changed
  <2>2. DOMAIN T \subseteq Cards /\ \A d \in DOMAIN T : T[d] \in Nat
    BY <1>5, <1>6
  <2> QED
    BY <2>1, <2>2, PartialIs
<1>8. \A d \in DOMAIN T : \E i \in 1 .. Len(P) : P[i] = d
  BY <1>4, <1>6
<1>9. ASSUME NEW i \in 1 .. Len(P)
      PROVE  IF P[i] \in DOMAIN T THEN T[P[i]] = i ELSE Known(r, P[i]) = i
  <2>1. CASE i \in changed
    BY <1>5, <2>1
  <2>2. CASE i \notin changed
    <3>1. Known(r, P[i]) = i
      BY <1>4, <2>2 DEF Puts
    <3>2. P[i] \notin DOMAIN T
      <4> SUFFICES ASSUME P[i] \in DOMAIN T PROVE FALSE
        OBVIOUS
      <4>1. PICK j \in changed : P[j] = P[i]
        BY <1>6
      <4> QED
        BY <1>4, <2>2, <4>1
    <3> QED
      BY <3>1, <3>2
  <2> QED
    BY <2>1, <2>2
<1> HIDE DEF T
<1> QED
  BY <1>2, <1>3, <1>7, <1>8, <1>9 DEF Numbering, Number

LEMMA NumberSound ==
  ASSUME NEW r, Now(r), Number(r)
  PROVE  \E x, o, w, l : Sound(r, x, o, w, l)
<1> DEFINE a == req[r]
<1>1. PICK P, T : /\ Listing(r, P) /\ Numbering(r, P, T) /\ Still
                  /\ req' = [req EXCEPT ![r] = [a EXCEPT !.do = "update", !.todo = T]]
  BY NumberIs
<1>2. Busy(r) /\ a.do = "number" /\ a \in Job /\ Serves(board, a, own[r], cards)
  BY KnownNow DEF Number, Busy, Now
<1>3. T \in Partial(Nat) /\ DOMAIN T \subseteq There(cards)
  BY <1>1 DEF Numbering, Listing
<1> DEFINE x == [a EXCEPT !.do = "update", !.todo = T]
<1> HIDE DEF a
<1>4. /\ x \in Job /\ x.do = "update" /\ x.todo = T /\ x.copy = a.copy
      /\ x.kind = a.kind /\ x.card = a.card
      /\ x.to = a.to /\ x.from = a.from /\ x.turn = a.turn /\ x.tx = a.tx
  BY <1>2, <1>3 DEF Job
<1> HIDE DEF x
<1>5. Serves(board, x, own[r], cards)
  BY <1>2, <1>3, <1>4 DEF Serves
<1>6. req' = [req EXCEPT ![r] = x]
  BY <1>1 DEF a, x
<1> QED
  BY <1>1, <1>2, <1>4, <1>5, <1>6, PrivateSound DEF a

-----------------------------------------------------------------------------
(***************************************************************************)
(* The first layer is inductive: types, locks, and rows that stay in their *)
(* column but for the request's own card.                                  *)
(***************************************************************************)
Base ==
  /\ TypeOK /\ CopiesInOrder /\ Locks
  /\ \A r \in Requests : Busy(r) =>
       Serves(board, req[r], own[r], cards) /\ Keeps(req[r], own[r], cards)

LEMMA StepSound ==
  ASSUME Base, NEW r \in Requests, Receive(r) \/ Work(r)
  PROVE  \E x, o, w, l : Sound(r, x, o, w, l)
<1>1. Now(r)
  BY DEF Base, Now
<1> QED
  BY <1>1, ReceiveSound, AppendSound, SaveSound, InsertSound, NumberSound, UpdateSound,
     NextColumnSound, EndSound DEF Work

LEMMA OthersKeep ==
  ASSUME NEW b, NEW a, NEW y, NEW C, NEW D, There(C) \subseteq There(D),
         \A d \in DOMAIN y : D[d] = C[d], Serves(b, a, y, C), Keeps(a, y, C)
  PROVE  Serves(b, a, y, D) /\ Keeps(a, y, D)
<1>1. Serves(b, a, y, D)
  BY DEF Serves
<1>2. Keeps(a, y, D)
  BY DEF Keeps
<1> QED
  BY <1>1, <1>2

(* A sound step leaves the board as it should be.                          *)
LEMMA SoundKeeps ==
  ASSUME Base, NEW r \in Requests, NEW x, NEW o, NEW w, NEW l, Sound(r, x, o, w, l),
         ~AdminBusy(r), UNCHANGED <<pipelineVars, board>>
  PROVE  Base'
<1>1. /\ cards \in [Cards -> Row \union {NoCard}]
      /\ req \in [Requests -> Job \union {Idle}] /\ own \in [Requests -> Partial(Row)]
      /\ late \in [Requests -> BOOLEAN] /\ board \in {"deals", "collections"}
      /\ \A q \in Requests : (~Busy(q) => own[q] = Nothing) /\ ~(Busy(q) /\ AdminBusy(q))
  BY DEF Base, TypeOK
<1>2. /\ req' = [req EXCEPT ![r] = x] /\ own' = [own EXCEPT ![r] = o] /\ cards' = Over(w, cards)
      /\ late' = [q \in Requests |-> IF q = r THEN l ELSE late[q] \/ w # Nothing]
  BY DEF Sound, Effect
<1>3. /\ o \in Partial(Row) /\ w \in Partial(Row) /\ l \in BOOLEAN
      /\ DOMAIN o \intersect Locked(r) = {} /\ DOMAIN w \intersect Locked(r) = {}
      /\ DOMAIN o \subseteq There(cards')
      /\ x \in Job \union {Idle}
      /\ x.do = "idle" => o = Nothing
      /\ x.do # "idle" => Serves(board, x, o, cards') /\ Keeps(x, o, cards')
  BY <1>2, JobIs DEF Sound, Idle
<1>4. /\ cards' \in [Cards -> Row \union {NoCard}]
      /\ There(cards') = There(cards) \union DOMAIN w
      /\ \A d \in Cards \ DOMAIN w : cards'[d] = cards[d]
  BY <1>1, <1>2, <1>3, OverCards
<1>5. /\ req'[r] = x /\ own'[r] = o
      /\ \A q \in Requests \ {r} : req'[q] = req[q] /\ own'[q] = own[q]
  BY <1>1, <1>2
<1>6. PipelineTypeOK' /\ CopiesInOrder'
  BY PipelineFrame DEF Base, TypeOK
<1>7. TypeOK'
  <2>1. req' \in [Requests -> Job \union {Idle}] /\ own' \in [Requests -> Partial(Row)]
        /\ late' \in [Requests -> BOOLEAN]
    BY <1>1, <1>2, <1>3
  <2>2. ASSUME NEW q \in Requests
        PROVE  (req'[q].do = "idle" => own'[q] = Nothing)
               /\ ~(req'[q].do # "idle" /\ admin'[q].do # "idle")
    <3>1. admin' = admin /\ admin[r].do = "idle"
      BY DEF AdminBusy, pipelineVars
    <3>2. CASE q = r
      BY <1>3, <1>5, <3>1, <3>2
    <3>3. CASE q # r
      BY <1>1, <1>5, <3>1, <3>3 DEF Busy, AdminBusy
    <3> QED
      BY <3>2, <3>3
  <2> QED
    BY <1>1, <1>4, <1>6, <2>1, <2>2 DEF TypeOK, Busy, AdminBusy
<1>8. \A q \in Requests \ {r} : DOMAIN own[q] \intersect DOMAIN o = {} /\ DOMAIN own[q] \intersect DOMAIN w = {}
  BY <1>3 DEF Locked
<1>9. Locks'
  <2>1. \A q \in Requests : DOMAIN own'[q] \subseteq There(cards')
    BY <1>3, <1>4, <1>5 DEF Base, Locks
  <2>2. ASSUME NEW p \in Requests, NEW q \in Requests, p # q
        PROVE  DOMAIN own'[p] \intersect DOMAIN own'[q] = {}
    <3>1. CASE p = r
      BY <1>5, <1>8, <2>2, <3>1
    <3>2. CASE q = r
      BY <1>5, <1>8, <2>2, <3>2
    <3>3. CASE p # r /\ q # r
      BY <1>5, <2>2, <3>3 DEF Base, Locks
    <3> QED
      BY <3>1, <3>2, <3>3
  <2> QED
    BY <2>1, <2>2 DEF Locks
<1>10. ASSUME NEW q \in Requests, req'[q].do # "idle"
       PROVE  Serves(board, req'[q], own'[q], cards') /\ Keeps(req'[q], own'[q], cards')
  <2>1. CASE q = r
    BY <1>3, <1>5, <1>10, <2>1
  <2>2. CASE q # r
    <3>1. Serves(board, req[q], own[q], cards) /\ Keeps(req[q], own[q], cards)
      BY <1>5, <1>10, <2>2 DEF Base, Busy
    <3>2. \A d \in DOMAIN own[q] : cards'[d] = cards[d]
      <4>1. DOMAIN own[q] \subseteq Cards
        BY <1>1 DEF Base, Locks, There
      <4> QED
        BY <1>4, <1>8, <2>2, <4>1
    <3> QED
      BY <1>4, <1>5, <2>2, <3>1, <3>2, OthersKeep
  <2> QED
    BY <2>1, <2>2
<1> QED
  BY <1>6, <1>7, <1>9, <1>10 DEF Base, Busy

(* A step of the settings touches no card.                                 *)
LEMMA SettingsKeep ==
  ASSUME Base, NEW r \in Requests, SettingsStep(r), Submit(r) => ~Busy(r),
         late' \in [Requests -> BOOLEAN], UNCHANGED <<board, cards, req, own>>
  PROVE  Base'
<1>1. PipelineTypeOK' /\ CopiesInOrder'
  BY PipelineTypes, CopiesStep DEF Base, TypeOK
<1>2. ASSUME NEW q \in Requests PROVE ~(Busy(q) /\ admin'[q].do # "idle")
  <2>1. PICK x : admin' = [admin EXCEPT ![r] = x]
    BY NextAdmin DEF Base, TypeOK
  <2>2. admin \in [Requests -> AdminState] /\ ~(Busy(q) /\ AdminBusy(q))
    BY SaneRequests DEF Base, TypeOK
  <2>3. CASE q = r
    <3>1. AdminBusy(r) \/ Submit(r)
      BY DEF SettingsStep, Persist, Sync, ListStale, Look, Retire, Answer, AdminDies, AdminBusy
    <3> QED
      BY <2>2, <2>3, <3>1
  <2>4. CASE q # r
    BY <2>1, <2>2, <2>4 DEF AdminBusy
  <2> QED
    BY <2>3, <2>4
<1>3. TypeOK'
  BY <1>1, <1>2 DEF Base, TypeOK, Busy, AdminBusy
<1>4. Locks'
  BY DEF Base, Locks
<1> QED
  BY <1>1, <1>3, <1>4 DEF Base, Busy

LEMMA BaseStep == Base /\ [Next]_vars => Base'
<1> SUFFICES ASSUME Base, [Next]_vars PROVE Base'
  OBVIOUS
<1>1. CASE UNCHANGED vars
  <2>1. PipelineTypeOK' /\ CopiesInOrder'
    BY <1>1, PipelineFrame DEF Base, TypeOK, vars
  <2>2. UNCHANGED <<board, cards, req, own, late, admin>>
    BY <1>1 DEF vars, boardVars, pipelineVars
  <2>3. TypeOK'
    BY <2>1, <2>2 DEF Base, TypeOK, Busy, AdminBusy
  <2>4. Locks'
    BY <2>2 DEF Base, Locks
  <2> QED
    BY <2>1, <2>2, <2>3, <2>4 DEF Base, Busy
<1>2. ASSUME NEW r \in Requests, Receive(r) \/ Work(r), UNCHANGED <<pipelineVars, board>>
      PROVE  Base'
  <2>1. PICK x, o, w, l : Sound(r, x, o, w, l)
    BY <1>2, StepSound
  <2>2. ~AdminBusy(r)
    <3>1. CASE Receive(r)
      BY <3>1 DEF Receive, Move, Edit, Create, Arrive
    <3>2. CASE Work(r)
      <4>1. Busy(r)
        BY <3>2 DEF Work, AppendToEnd, Save, Insert, Number, Update, Updated, Commit, Dies, Busy
      <4> QED
        BY <4>1 DEF Base, TypeOK
    <3> QED
      BY <1>2, <3>1, <3>2
  <2> QED
    BY <1>2, <2>1, <2>2, SoundKeeps
<1>3. ASSUME NEW r \in Requests, OpenSettings(r) \/ Settings(r), UNCHANGED <<board, cards, req, own>>
      PROVE  Base'
  <2>1. SettingsStep(r) /\ (Submit(r) => ~Busy(r))
    <3>1. CASE OpenSettings(r)
      BY <3>1 DEF OpenSettings, SettingsStep
    <3>2. CASE Settings(r)
      <4>1. SettingsStep(r) /\ AdminBusy(r)
        BY <3>2 DEF Settings, SettingsStep, Persist, Sync, ListStale, Look, Retire, Answer, AdminDies, AdminBusy
      <4> QED
        BY <4>1 DEF Base, TypeOK
    <3> QED
      BY <1>3, <3>1, <3>2
  <2>2. late' \in [Requests -> BOOLEAN]
    <3>1. late \in [Requests -> BOOLEAN]
      BY DEF Base, TypeOK
    <3> QED
      BY <1>3, <3>1 DEF OpenSettings, Settings
  <2> QED
    BY <1>3, <2>1, <2>2, SettingsKeep
<1> QED
  BY <1>1, <1>2, <1>3 DEF Next

LEMMA BaseStart == Init => Base
<1> SUFFICES ASSUME Init PROVE Base
  OBVIOUS
<1>1. PipelineTypeOK /\ CopiesInOrder
  BY PipelinesStart DEF Init
<1>2. /\ req = [r \in Requests |-> Idle] /\ own = [r \in Requests |-> Nothing]
      /\ late = [r \in Requests |-> FALSE] /\ Nothing \in Partial(Row) /\ DOMAIN Nothing = {}
      /\ Idle.do = "idle" /\ board \in {"deals", "collections"}
      /\ cards \in [Cards -> Row \union {NoCard}]
  BY NothingIs, CardAssumption DEF Init, Idle
<1>3. \A r \in Requests : ~Busy(r) /\ own[r] = Nothing
  BY <1>2 DEF Busy
<1>4. TypeOK
  BY <1>1, <1>2, <1>3 DEF TypeOK
<1>5. Locks
  BY <1>2 DEF Locks
<1> QED
  BY <1>1, <1>3, <1>4, <1>5 DEF Base

-----------------------------------------------------------------------------
(***************************************************************************)
(* Second layer.  As long as nobody else wrote, what a request read stands,*)
(* and what it wrote follows from it: one lemma for each of its steps.     *)
(***************************************************************************)
(* What was read stands, and what is written follows from it.              *)
Stands(b, P, x, o, C) == StillOffered(b, P, x) /\ StillRead(x, C) /\ Follows(x, o, C)

LEMMA ReceiveStands ==
  ASSUME NEW r, Now(r), Receive(r)
  PROVE  Stands(board, pipes, req'[r], own'[r], cards')
<1>0. \A x : Arrive(r, x) => req'[r] = x /\ cards' = cards
  BY DEF Arrive, Now, TypeOK
<1>1. CASE Move(r)
  <2>1. PICK d \in There(cards), pos \in 0 .. Cardinality(Cards) - 1 : \E c \in Reach(cards[d].col) :
          Arrive(r, [do |-> "save", kind |-> "move", card |-> d, to |-> c,
                     from |-> cards[d].col, copy |-> cards[d], pos |-> pos,
                     tx |-> TRUE, todo |-> Nothing, turn |-> c])
    BY <1>1 DEF Move
  <2>2. PICK c \in Reach(cards[d].col) :
          Arrive(r, [do |-> "save", kind |-> "move", card |-> d, to |-> c,
                     from |-> cards[d].col, copy |-> cards[d], pos |-> pos,
                     tx |-> TRUE, todo |-> Nothing, turn |-> c])
    BY <2>1
  <2>3. cards' = cards
        /\ req'[r] = [do |-> "save", kind |-> "move", card |-> d, to |-> c,
                     from |-> cards[d].col, copy |-> cards[d], pos |-> pos,
                     tx |-> TRUE, todo |-> Nothing, turn |-> c]
    BY <1>0, <2>2
  <2> QED
    BY <2>3 DEF Stands, StillOffered, StillRead, Follows, Resequences
<1>2. CASE Edit(r)
  <2>1. PICK d \in There(cards), c \in Offered, live \in BOOLEAN :
          Arrive(r, [do |-> IF c # cards[d].col THEN "append" ELSE "save", kind |-> "edit",
                  card |-> d, to |-> c, from |-> cards[d].col,
                  copy |-> [col |-> c, order |-> cards[d].order, live |-> live],
                  pos |-> 0, tx |-> board = "collections", todo |-> Nothing, turn |-> c])
    BY <1>2 DEF Edit
  <2>2. cards' = cards
        /\ req'[r] = [do |-> IF c # cards[d].col THEN "append" ELSE "save", kind |-> "edit",
                  card |-> d, to |-> c, from |-> cards[d].col,
                  copy |-> [col |-> c, order |-> cards[d].order, live |-> live],
                  pos |-> 0, tx |-> board = "collections", todo |-> Nothing, turn |-> c]
    BY <1>0, <2>1
  <2>3. board = "deals" => pipes[c.pipe].active
    BY <2>1 DEF Offered
  <2> QED
    BY <2>2, <2>3 DEF Stands, StillOffered, StillRead, Follows, Resequences
<1>3. CASE Create(r)
  <2>1. PICK c \in Offered, live \in BOOLEAN :
          Arrive(r, [do |-> "append", kind |-> "create", card |-> 0, to |-> c, from |-> c,
               copy |-> [col |-> c, order |-> 0, live |-> live], pos |-> 0,
               tx |-> FALSE, todo |-> Nothing, turn |-> c])
    BY <1>3 DEF Create
  <2>2. cards' = cards
        /\ req'[r] = [do |-> "append", kind |-> "create", card |-> 0, to |-> c, from |-> c,
               copy |-> [col |-> c, order |-> 0, live |-> live], pos |-> 0,
               tx |-> FALSE, todo |-> Nothing, turn |-> c]
    BY <1>0, <2>1
  <2>3. board = "deals" => pipes[c.pipe].active
    BY <2>1 DEF Offered
  <2> QED
    BY <2>2, <2>3 DEF Stands, StillOffered, StillRead, Follows, Resequences
<1> QED
  BY <1>1, <1>2, <1>3 DEF Receive

LEMMA AppendStands ==
  ASSUME NEW r, Now(r), AppendToEnd(r), Stands(board, pipes, req[r], own[r], cards)
  PROVE  Stands(board, pipes, req'[r], own'[r], cards')
<1>1. PICK a, C, v, top : /\ a = req[r] /\ C = cards /\ v = View(r)
                          /\ top = Top(View(r), In(View(r), req[r].to) \ {req[r].card})
  OBVIOUS
<1>2. /\ a.do = "append" /\ a \in Job /\ Serves(board, a, own[r], C) /\ Stands(board, pipes, a, own[r], C)
      /\ C \in [Cards -> Row \union {NoCard}]
  BY <1>1, KnownNow DEF AppendToEnd, Busy, Now
<1>3. v = C
  BY <1>1, <1>2, OverNothing DEF View, Serves
<1>4. top \in Nat /\ \A d \in In(C, a.to) \ {a.card} : C[d].order <= top
  <2>1. In(C, a.to) \ {a.card} \in SUBSET There(C)
    BY InIs
  <2> QED
    BY <1>1, <1>2, <1>3, <2>1, TopIs
<1>5. \A d \in In(C, a.to) \ {a.card} : C[d].order < top + 1
  <2>1. \A d \in In(C, a.to) : C[d].order \in Nat
    BY <1>2, InIs, ThereIs, RowIs
  <2> QED
    BY <1>4, <2>1
<1> DEFINE copy == [a.copy EXCEPT !.order = top + 1]
           x == [a EXCEPT !.do = "save", !.copy = copy]
<1>6. req'[r] = x /\ cards' = C /\ own' = own
  BY <1>1, KnownNow DEF AppendToEnd, Still, Now
<1>7. copy.order = top + 1
  BY <1>2, JobIs DEF Row
<1> HIDE DEF copy
<1>8. /\ x.do = "save" /\ x.copy = copy /\ x.kind = a.kind /\ x.card = a.card
      /\ x.to = a.to /\ x.from = a.from
  BY <1>2 DEF Job
<1> HIDE DEF x
<1>9. StillRead(x, C)
  BY <1>2, <1>5, <1>7, <1>8 DEF Stands, StillRead, Serves
<1>10. StillOffered(board, pipes, x) /\ Follows(x, own[r], C)
  BY <1>2, <1>8 DEF Stands, StillOffered, Follows, Resequences
<1> QED
  BY <1>6, <1>9, <1>10 DEF Stands

LEMMA NextColumnStands ==
  ASSUME NEW r, Now(r), Updated(r), Stands(board, pipes, req[r], own[r], cards)
  PROVE  Stands(board, pipes, req'[r], own'[r], cards')
<1>1. PICK a, y, C : a = req[r] /\ y = own[r] /\ C = cards
  OBVIOUS
<1>2. /\ a.do = "update" /\ a \in Job /\ Serves(board, a, y, C) /\ Follows(a, y, C)
  BY <1>1, KnownNow DEF Updated, Busy, Now, Stands
<1> DEFINE x == [a EXCEPT !.do = IF a.turn = a.from THEN "commit" ELSE "number", !.turn = a.from]
<1>3. req'[r] = x /\ own' = own /\ cards' = C
  BY <1>1, KnownNow DEF Updated, Still, Now
<1>4. /\ x.do = (IF a.turn = a.from THEN "commit" ELSE "number") /\ x.copy = a.copy
      /\ x.kind = a.kind /\ x.card = a.card /\ x.pos = a.pos
      /\ x.to = a.to /\ x.from = a.from /\ x.turn = a.from /\ x.tx = a.tx /\ x.todo = a.todo
  BY <1>2 DEF Job
<1> HIDE DEF x
<1>5. StillOffered(board, pipes, x) /\ StillRead(x, C)
  BY <1>4 DEF StillOffered, StillRead
<1>6. Entered(a, y, C) /\ Numbers(a, y, C)
  BY <1>2 DEF Follows, Resequences
<1>7. Done(x) = Done(a)
  BY <1>2, <1>4 DEF Done, Serves
<1>8. \A v, d : Rank(x, v, d) = Rank(a, v, d)
  BY <1>4 DEF Rank
<1>9. Entered(x, y, C)
  BY <1>2, <1>4, <1>6 DEF Entered, Serves
<1>10. Numbers(x, y, C)
  <2>1. \A v, c : Numbered(x, v, c) <=> Numbered(a, v, c)
    BY <1>8 DEF Numbered
  <2>2. \A v, c : Placing(x, v, C, c) <=> Placing(a, v, C, c)
    BY <1>4, <1>8 DEF Placing
  <2>3. Landed(x, Over(y, C), C) <=> Landed(a, Over(y, C), C)
    BY <1>4, <1>8 DEF Landed
  <2> QED
    BY <1>4, <1>6, <1>7, <2>1, <2>2, <2>3 DEF Numbers
<1>11. Follows(x, y, C)
  BY <1>2, <1>4, <1>9, <1>10 DEF Follows, Serves
<1> QED
  BY <1>1, <1>3, <1>5, <1>11 DEF Stands

-----------------------------------------------------------------------------
(***************************************************************************)
(* A save and an update: what the request sees after them.                 *)
(***************************************************************************)
LEMMA SaveStands ==
  ASSUME NEW r, Now(r), Save(r), Stands(board, pipes, req[r], own[r], cards)
  PROVE  Stands(board, pipes, req'[r], own'[r], cards')
<1>1. PICK a, y, C, row, d : a = req[r] /\ y = own[r] /\ C = cards /\ row = SavedRow(r) /\ d = req[r].card
  OBVIOUS
<1>2. /\ a.do = "save" /\ a.kind # "create" /\ a \in Job /\ Serves(board, a, y, C)
      /\ StillRead(a, C) /\ C \in [Cards -> Row \union {NoCard}]
  BY <1>1, KnownNow DEF Save, Busy, Now, Stands
<1>3. y = Nothing /\ d \in There(C) /\ d \in Cards /\ C[d] \in Row /\ a.tx \in BOOLEAN /\ a.turn = a.to
      /\ a.todo = Nothing /\ C[d].col = a.from /\ d = a.card /\ a.to \in Column /\ a.from \in Column
  <2>1. y = Nothing /\ d \in There(C) /\ a.tx \in BOOLEAN /\ a.turn = a.to /\ a.todo = Nothing /\ d = a.card
    BY <1>1, <1>2, JobIs DEF Serves
  <2>2. d \in Cards /\ C[d] \in Row
    BY <1>2, <2>1, ThereIs
  <2>3. C[d].col = a.from
    BY <1>2, <2>1 DEF StillRead
  <2> QED
    BY <1>2, <2>1, <2>2, <2>3, JobIs
\* The row is in the column posted; a move keeps its number.
<1>4. row \in Row /\ row.col = a.to
      /\ (a.kind = "move" => row.order = C[d].order) /\ (a.kind # "move" => row = a.copy)
  <2>1. /\ row \in Row
        /\ a.kind = "move" => /\ row.col.pipe = C[d].col.pipe /\ row.col.stage = a.to.stage
                              /\ row.order = C[d].order
        /\ a.kind # "move" => row = a.copy
    BY <1>1, <1>2, SavedRowIs
  <2>2. CASE a.kind = "move"
    <3>1. row.col \in Column /\ row.col.pipe = a.to.pipe /\ row.col.stage = a.to.stage
      BY <1>2, <1>3, <2>1, <2>2, RowIs DEF Serves
    <3>2. row.col = a.to
      BY <1>3, <3>1 DEF Column
    <3> QED
      BY <2>1, <2>2, <3>2
  <2>3. CASE a.kind # "move"
    BY <1>2, <2>1, <2>3 DEF Serves
  <2> QED
    BY <2>1, <2>2, <2>3
<1> DEFINE x == [a EXCEPT !.do = IF a.kind = "move" \/ a.to # a.from THEN "number" ELSE "commit"]
           one == Only(d, row)
<1>5. /\ req'[r] = x
      /\ IF a.tx THEN own' = [own EXCEPT ![r] = Over(one, y)] /\ UNCHANGED <<cards, late>>
                 ELSE Publish(r, one)
  BY <1>1, <1>2, KnownNow DEF Save, Now
<1>6. /\ x.do = (IF a.kind = "move" \/ a.to # a.from THEN "number" ELSE "commit")
      /\ x.copy = a.copy /\ x.kind = a.kind /\ x.card = a.card
      /\ x.to = a.to /\ x.from = a.from /\ x.turn = a.turn /\ x.tx = a.tx /\ x.todo = a.todo
  BY <1>2 DEF Job
<1> HIDE DEF x
<1>7. /\ one \in Partial(Row) /\ DOMAIN one = {d} /\ one[d] = row
      /\ DOMAIN Over(one, y) = {d} /\ Over(one, y)[d] = row /\ Over(one, y) \in Partial(Row)
  <2>1. one \in Partial(Row) /\ y \in Partial(Row) /\ DOMAIN y = {}
    BY <1>3, <1>4, OnlyPartial, NothingIs
  <2>2. DOMAIN one = {d} /\ one[d] = row
    BY OnlyIs
  <2>3. Over(one, y) \in Partial(Row)
    BY <2>1, OverPartial
  <2> HIDE DEF one
  <2>4. DOMAIN Over(one, y) = {d} /\ Over(one, y)[d] = row
    BY <2>1, <2>2 DEF Over
  <2> QED
    BY <2>1, <2>2, <2>3, <2>4
<1> HIDE DEF one
<1>8. StillOffered(board, pipes, x) /\ StillRead(x, cards')
  BY <1>6 DEF StillOffered, StillRead
<1>9. PICK o, D : o = own'[r] /\ D = cards'
  OBVIOUS
\* What the request sees is the board with the row in its place.
<1>10. /\ Over(o, D)[d] = row /\ DOMAIN o \subseteq {d}
       /\ a.tx => D = C /\ DOMAIN o = {d} /\ o[d] = row
       /\ ~a.tx => DOMAIN o = {}
  <2>1. CASE a.tx
    <3>1. o = Over(one, y) /\ D = C
      BY <1>1, <1>5, <1>9, <2>1, KnownNow DEF Now
    <3>2. Over(o, C)[d] = row
      BY <1>2, <1>3, <1>7, <3>1, OverCards
    <3> QED
      BY <1>7, <2>1, <3>1, <3>2
  <2>2. CASE ~a.tx
    <3>1. o = Nothing /\ D = Over(one, C)
      BY <1>1, <1>5, <1>9, <2>2, KnownNow DEF Now, Publish
    <3>2. D \in [Cards -> Row \union {NoCard}] /\ D[d] = row
      BY <1>2, <1>3, <1>7, <3>1, OverCards
    <3>3. Over(o, D) = D
      BY <3>1, <3>2, OverNothing
    <3> QED
      BY <2>2, <3>1, <3>2, <3>3, NothingIs
  <2> QED
    BY <1>3, <2>1, <2>2
<1>11. CASE a.kind = "move" \/ a.to # a.from
  <2>1. x.do = "number" /\ Done(x) = {}
    BY <1>3, <1>6, <1>11 DEF Done
  <2>2. Entered(x, o, D)
    BY <1>2, <1>3, <1>4, <1>6, <1>10, <2>1 DEF Entered, StillRead, Serves
  <2>3. Numbers(x, o, D)
    BY <1>3, <1>6, <1>10, <2>1, NothingIs DEF Numbers
  <2> QED
    BY <1>5, <1>8, <1>9, <2>1, <2>2, <2>3 DEF Stands, Follows
<1>12. CASE ~(a.kind = "move" \/ a.to # a.from)
  <2>1. x.do = "commit" /\ ~Resequences(x)
    BY <1>6, <1>12 DEF Resequences
  <2>2. \A e \in DOMAIN o : e = x.card /\ o[e].col = D[e].col /\ o[e].order = D[e].order
    <3>1. row.col = C[d].col /\ row.order = C[d].order
      <4>1. a.kind = "edit" /\ a.copy.order = C[a.card].order
        BY <1>2, <1>12, JobIs DEF StillRead
      <4> QED
        BY <1>3, <1>4, <1>12, <4>1
    <3> QED
      BY <1>3, <1>6, <1>10, <3>1
  <2>3. Follows(x, o, D)
    BY <2>1, <2>2 DEF Follows
  <2> QED
    BY <1>5, <1>8, <1>9, <2>3 DEF Stands
<1> QED
  BY <1>11, <1>12

(* A row renumbered has the number it was about to have, in its column.    *)
LEMMA UpdateStands ==
  ASSUME NEW r, Now(r), Update(r), Stands(board, pipes, req[r], own[r], cards)
  PROVE  Stands(board, pipes, req'[r], own'[r], cards')
<1>1. PICK d \in DOMAIN req[r].todo \ Locked(r) : UpdateRow(r, d)
  BY DEF Update
<1>2. PICK a, y, C, v, row, todo :
        /\ a = req[r] /\ y = own[r] /\ C = cards /\ v = View(r)
        /\ row = [View(r)[d] EXCEPT !.order = req[r].todo[d]]
        /\ todo = [e \in DOMAIN req[r].todo \ {d} |-> req[r].todo[e]]
  OBVIOUS
<1>3. /\ a.do = "update" /\ a \in Job /\ Serves(board, a, y, C) /\ Follows(a, y, C)
      /\ C \in [Cards -> Row \union {NoCard}] /\ y \in Partial(Row) /\ DOMAIN y \subseteq There(C)
      /\ v = Over(y, C) /\ v \in [Cards -> Row \union {NoCard}] /\ There(v) = There(C)
  BY <1>2, KnownNow DEF Update, Busy, Now, Stands, View
<1>4. Entered(a, y, C) /\ Numbers(a, y, C)
  BY <1>3 DEF Follows, Resequences
<1> DEFINE x == [a EXCEPT !.todo = todo]
           o1 == Over(Only(d, row), y)
           v1 == Over(o1, C)
<1>5. /\ req'[r] = x
      /\ IF DOMAIN a.todo \ {d} = {} /\ ~a.tx THEN Publish(r, o1)
         ELSE own' = [own EXCEPT ![r] = o1] /\ UNCHANGED <<cards, late>>
  BY <1>1, <1>2, KnownNow DEF UpdateRow, Now
<1>6. /\ x.do = a.do /\ x.copy = a.copy /\ x.kind = a.kind /\ x.card = a.card /\ x.todo = todo /\ x.pos = a.pos
      /\ x.to = a.to /\ x.from = a.from /\ x.turn = a.turn /\ x.tx = a.tx
  BY <1>3 DEF Job
<1> HIDE DEF x
<1>7. /\ d \in There(C) /\ row.order = a.todo[d] /\ row.col = v[d].col /\ row.live = v[d].live
      /\ o1 \in Partial(Row) /\ DOMAIN o1 = {d} \union DOMAIN y
      /\ o1[d] = row /\ \A e \in DOMAIN y : e # d => o1[e] = y[e]
  <2>1. d \in There(C) /\ row \in Row /\ row.order = a.todo[d] /\ row.col = v[d].col /\ row.live = v[d].live
    <3>1. d \in DOMAIN a.todo /\ a.todo \in Partial(Nat) /\ DOMAIN a.todo \subseteq There(C)
      BY <1>2, <1>3, JobIs DEF Serves
    <3>2. d \in There(C) /\ a.todo[d] \in Nat
      BY <3>1, PartialIs
    <3>3. v[d] \in Row
      BY <1>3, <3>2, ThereIs
    <3>4. row = [v[d] EXCEPT !.order = a.todo[d]]
      BY <1>2
    <3> QED
      BY <3>2, <3>3, <3>4 DEF Row
  <2>2. d \in Cards /\ Only(d, row) \in Partial(Row)
    BY <1>3, <2>1, ThereIs, OnlyPartial
  <2>3. o1 \in Partial(Row)
    BY <1>3, <2>2, OverPartial
  <2>4. DOMAIN o1 = {d} \union DOMAIN y
    BY OverOnlyIs
  <2>5. o1[d] = row
    BY OverOnlyIs
  <2>6. ASSUME NEW e \in DOMAIN y, e # d PROVE o1[e] = y[e]
    <3>1. e \notin DOMAIN Only(d, row)
      BY <2>6 DEF Only
    <3> QED
      BY <2>6, <3>1 DEF Over
  <2> QED
    BY <2>1, <2>3, <2>4, <2>5, <2>6
<1> HIDE DEF o1
<1>8. /\ v1 \in [Cards -> Row \union {NoCard}] /\ There(v1) = There(C)
      /\ \A e \in Cards : v1[e] = IF e = d THEN row ELSE v[e]
  <2>1. /\ v1 \in [Cards -> Row \union {NoCard}] /\ There(v1) = There(C) \union DOMAIN o1
        /\ \A e \in Cards : v1[e] = IF e \in DOMAIN o1 THEN o1[e] ELSE C[e]
    BY <1>3, <1>7, OverCards
  <2>2. \A e \in Cards : v[e] = IF e \in DOMAIN y THEN y[e] ELSE C[e]
    BY <1>3, OverCards
  <2> QED
    BY <1>3, <1>7, <2>1, <2>2
<1> HIDE DEF v1
<1>9. \A c : In(v1, c) = In(v, c)
  <2>1. \A e \in There(C) : v1[e].col = v[e].col /\ v1[e].live = v[e].live
    BY <1>7, <1>8 DEF There
  <2> QED
    BY <1>3, <1>8, <2>1 DEF In
<1>10. \A e \in There(C) : Rank(x, v1, e) = Rank(a, v, e)
  <2>1. DOMAIN todo = DOMAIN a.todo \ {d} /\ \A e \in DOMAIN todo : todo[e] = a.todo[e]
    BY <1>2
  <2>2. d \in DOMAIN a.todo /\ There(C) \subseteq Cards
    BY <1>2 DEF There
  <2> QED
    BY <1>6, <1>7, <1>8, <2>1, <2>2 DEF Rank
<1>11. PICK o, D : o = own'[r] /\ D = cards'
  OBVIOUS
<1>12. /\ Over(o, D) = v1 /\ DOMAIN o \subseteq {d} \union DOMAIN y
       /\ a.tx => D = C /\ o = o1
  <2>1. CASE DOMAIN a.todo \ {d} = {} /\ ~a.tx
    <3>1. o = Nothing /\ D = v1
      BY <1>2, <1>5, <1>11, <2>1, KnownNow DEF Now, Publish, v1
    <3> QED
      BY <1>8, <2>1, <3>1, OverNothing, NothingIs
  <2>2. CASE ~(DOMAIN a.todo \ {d} = {} /\ ~a.tx)
    <3>1. o = o1 /\ D = C
      BY <1>2, <1>5, <1>11, <2>2, KnownNow DEF Now
    <3> QED
      BY <1>7, <3>1 DEF v1
  <2> QED
    BY <2>1, <2>2
<1>13. StillOffered(board, pipes, x) /\ StillRead(x, D)
  BY <1>3, <1>6 DEF StillOffered, StillRead
<1>14. a.card \in There(C)
  BY <1>3 DEF Serves
<1>15. Entered(x, o, D)
  <2>1. v1[a.card].col = a.to
    <3>1. v[a.card].col = a.to /\ a.card \in Cards
      BY <1>3, <1>4, <1>14 DEF Entered, There
    <3> QED
      BY <1>7, <1>8, <3>1
  <2>2. a.kind = "move" => a.tx
    BY <1>3 DEF Serves
  <2> QED
    BY <1>3, <1>4, <1>6, <1>7, <1>12, <2>1, <2>2 DEF Entered
<1>16. Done(x) = Done(a)
  BY <1>6 DEF Done
<1>17. \A c : In(v1, c) \subseteq There(C)
  BY <1>8 DEF In
<1>18. \A c : Numbered(a, v, c) => Numbered(x, v1, c)
  BY <1>9, <1>10, <1>17 DEF Numbered
<1>19. ASSUME NEW c, Placing(a, v, C, c), a.kind = "move" PROVE Placing(x, v1, D, c)
  <2>1. D = C
    BY <1>3, <1>12, <1>19 DEF Serves
  <2>2. {Rank(x, v1, e) : e \in In(v1, c)} = {Rank(a, v, e) : e \in In(v, c)}
    BY <1>9, <1>10, <1>17
  <2>3. \A e \in In(C, c) : Rank(x, v1, e) = Rank(a, v, e)
    BY <1>10 DEF In
  <2> QED
    BY <1>6, <1>9, <1>19, <2>1, <2>2, <2>3 DEF Placing
<1>20. a.kind = "move" /\ Landed(a, v, C) => Landed(x, v1, D)
  <2>1. a.kind = "move" => D = C
    BY <1>3, <1>12 DEF Serves
  <2> QED
    BY <1>6, <1>10, <1>14, <2>1 DEF Landed
<1>21. Numbers(x, o, D)
  <2>1. \A e \in DOMAIN o \union DOMAIN x.todo : e \in DOMAIN y \union DOMAIN a.todo
    BY <1>2, <1>6, <1>12
  <2> QED
    BY <1>3, <1>4, <1>6, <1>9, <1>12, <1>16, <1>18, <1>19, <1>20, <2>1 DEF Numbers
<1>22. Follows(x, o, D)
  BY <1>3, <1>6, <1>15, <1>21 DEF Follows
<1> QED
  BY <1>5, <1>11, <1>13, <1>22 DEF Stands

-----------------------------------------------------------------------------
(***************************************************************************)
(* Renumbering: the request is about to have each card where it listed it. *)
(***************************************************************************)
(* But for the request's own card, its view has every card where it is.    *)
LEMMA ViewKeeps ==
  ASSUME NEW a, NEW y \in Partial(Row), NEW C \in [Cards -> Row \union {NoCard}], Keeps(a, y, C),
         DOMAIN y \subseteq There(C)
  PROVE  /\ \A c : \A d \in In(Over(y, C), c) : d # a.card => d \in In(C, c)
         /\ \A c : \A d \in In(C, c) : d # a.card => d \in In(Over(y, C), c)
         /\ a.kind = "move" => \A d \in There(C) : Over(y, C)[d].live = C[d].live
         /\ \A d \in There(C) : d \notin DOMAIN y => Over(y, C)[d] = C[d]
<1> DEFINE v == Over(y, C)
<1>1. /\ There(v) = There(C) /\ \A d \in Cards : v[d] = IF d \in DOMAIN y THEN y[d] ELSE C[d]
  BY OverCards
<1> HIDE DEF v
<1>2. There(C) \subseteq Cards
  BY DEF There
<1>3. \A d \in There(C) : d # a.card => v[d].col = C[d].col /\ v[d].live = C[d].live
  BY <1>1, <1>2 DEF Keeps
<1>4. a.kind = "move" => \A d \in There(C) : v[d].live = C[d].live
  BY <1>1, <1>2 DEF Keeps
<1>5. \A c : \A d \in In(v, c) : d # a.card => d \in In(C, c)
  BY <1>1, <1>3, InIs
<1>6. \A c : \A d \in In(C, c) : d # a.card => d \in In(v, c)
  BY <1>1, <1>3, InIs
<1>7. \A d \in There(C) : d \notin DOMAIN y => v[d] = C[d]
  BY <1>1, <1>2
<1> QED
  BY <1>4, <1>5, <1>6, <1>7 DEF v

(* The column just numbered: each card has the place it has in the list.   *)
LEMMA NumberStands ==
  ASSUME NEW r, Now(r), Number(r), Stands(board, pipes, req[r], own[r], cards)
  PROVE  Stands(board, pipes, req'[r], own'[r], cards')
<1>1. PICK P, T : /\ Listing(r, P) /\ Numbering(r, P, T) /\ Still
                  /\ req' = [req EXCEPT ![r] = [@ EXCEPT !.do = "update", !.todo = T]]
  BY NumberIs
<1>2. PICK a, y, C, v, S : a = req[r] /\ y = own[r] /\ C = cards /\ v = View(r) /\ S = Rest(r)
  OBVIOUS
<1>3. /\ a.do = "number" /\ a \in Job /\ Serves(board, a, y, C) /\ Keeps(a, y, C) /\ Follows(a, y, C)
      /\ C \in [Cards -> Row \union {NoCard}] /\ y \in Partial(Row) /\ DOMAIN y \subseteq There(C)
      /\ v = Over(y, C) /\ v \in [Cards -> Row \union {NoCard}] /\ There(v) = There(C)
  BY <1>2, KnownNow DEF Number, Busy, Now, Stands, View
<1>4. /\ Entered(a, y, C) /\ Numbers(a, y, C)
  BY <1>3 DEF Follows, Resequences
<1>5. /\ a.kind # "create" /\ a.card \in There(C) /\ a.todo = Nothing /\ DOMAIN a.todo = {}
      /\ a.pos \in Nat
  BY <1>3, NothingIs, JobIs DEF Serves
<1> DEFINE x == [a EXCEPT !.do = "update", !.todo = T]
<1>6. req'[r] = x /\ own'[r] = y /\ cards' = C
  BY <1>1, <1>2, KnownNow DEF Still, Now
<1>7. /\ x.do = "update" /\ x.copy = a.copy /\ x.kind = a.kind /\ x.card = a.card /\ x.todo = T
      /\ x.pos = a.pos /\ x.to = a.to /\ x.from = a.from /\ x.turn = a.turn /\ x.tx = a.tx
  BY <1>3 DEF Job
<1> HIDE DEF x
<1>8. S = In(v, a.turn) \ (IF Moving(a) THEN {a.card} ELSE {})
  BY <1>2 DEF Rest
<1>9. /\ Len(P) \in Nat
      /\ \A i, j \in 1 .. Len(P) : P[i] = P[j] => i = j
      /\ \A i \in 1 .. Len(P) : P[i] \in S \/ (Moving(a) /\ P[i] = a.card)
      /\ \A d \in S : \E i \in 1 .. Len(P) : P[i] = d
      /\ \A i, j \in 1 .. Len(P) : P[i] \in S /\ P[j] \in S /\ v[P[i]].order < v[P[j]].order => i < j
      /\ Moving(a) => Least(a.pos, Cardinality(S)) + 1 \in 1 .. Len(P)
                      /\ P[Least(a.pos, Cardinality(S)) + 1] = a.card
      /\ Len(P) = Cardinality(S) + (IF Moving(a) THEN 1 ELSE 0)
  BY <1>1, <1>2 DEF Listing
<1>10. /\ \A d \in DOMAIN T : \E i \in 1 .. Len(P) : P[i] = d
       /\ \A i \in 1 .. Len(P) : IF P[i] \in DOMAIN T THEN T[P[i]] = i
            ELSE (IF Moving(a) /\ P[i] = a.card THEN a.copy.order ELSE v[P[i]].order) = i
  BY <1>1, <1>2 DEF Numbering, Known
<1>11. Moving(a) => v[a.card].order = a.copy.order /\ v[a.card].col = a.turn
  BY <1>3, <1>4 DEF Moving, Entered
\* The rank of a card listed is its place.
<1>12. \A i \in 1 .. Len(P) : Rank(x, v, P[i]) = i
  BY <1>7, <1>10, <1>11 DEF Rank
<1>13. \A d \in In(v, a.turn) : \E i \in 1 .. Len(P) : P[i] = d
  BY <1>8, <1>9
<1>14. \A d \in DOMAIN T : d = a.card \/ d \in In(v, a.turn)
  <2>1. \A d \in S : d \in In(v, a.turn)
    BY <1>8
  <2>2. \A d \in DOMAIN T : d \in S \/ d = a.card
    BY <1>9, <1>10
  <2> QED
    BY <2>1, <2>2
<1>15. a.turn # a.to => DOMAIN T \subseteq In(v, a.turn)
  BY <1>8, <1>9, <1>10 DEF Moving
\* The column numbered before is as it was.
<1>16. \A d : d \notin DOMAIN T => Rank(x, v, d) = Rank(a, v, d)
  BY <1>5, <1>7 DEF Rank
<1>17. a.turn # a.to => \A d \in In(v, a.to) : d \notin In(v, a.turn)
  BY InIs
<1>18. a.turn # a.to => a.card \notin In(v, a.turn)
  BY <1>3, <1>4, InIs DEF Entered
<1>19. Done(x) = Done(a) \union {a.turn} /\ Done(a) = IF a.turn # a.to THEN {a.to} ELSE {}
  BY <1>3, <1>7 DEF Done
<1>20. Numbered(x, v, a.turn)
  BY <1>12, <1>13 DEF Numbered
<1>21. a.turn # a.to => Numbered(x, v, a.to)
  <2>1. a.turn # a.to => Numbered(a, v, a.to)
    BY <1>3, <1>4, <1>19 DEF Numbers
  <2> QED
    BY <1>15, <1>16, <1>17, <2>1 DEF Numbered
<1>22. ASSUME a.kind = "move" PROVE Placing(x, v, C, a.turn)
  <2>1. ASSUME C[a.card].live
        PROVE  {Rank(x, v, d) : d \in In(v, a.turn)} = 1 .. Cardinality(In(v, a.turn))
    <3>1. Cardinality(S) \in Nat /\ IsFiniteSet(S)
      <4>1. S \in SUBSET There(v)
        BY <1>8, InIs
      <4> QED
        BY <4>1, ThereFinite
    <3>2. Moving(a) => a.card \in In(v, a.turn)
      <4>1. v[a.card].live
        <5>1. a.kind = "move" => \A d \in There(C) : Over(y, C)[d].live = C[d].live
          BY <1>3, ViewKeeps
        <5> QED
          BY <1>3, <1>5, <1>22, <2>1, <5>1
      <4> QED
        BY <1>3, <1>5, <1>11, <4>1, InIs
    <3>3. Cardinality(In(v, a.turn)) = Len(P)
      <4>1. CASE Moving(a)
        <5>1. In(v, a.turn) = S \union {a.card} /\ a.card \notin S
          BY <1>8, <3>2, <4>1
        <5>2. Cardinality(S \union {a.card}) = Cardinality(S) + 1
          BY <3>1, <5>1, FS_AddElement
        <5> QED
          BY <1>9, <4>1, <5>1, <5>2
      <4>2. CASE ~Moving(a)
        BY <1>8, <1>9, <3>1, <4>2
      <4> QED
        BY <4>1, <4>2
    <3>4. \A i \in 1 .. Len(P) : P[i] \in In(v, a.turn)
      BY <1>8, <1>9, <3>2
    <3>5. \A i \in 1 .. Len(P) : i \in {Rank(x, v, d) : d \in In(v, a.turn)}
      BY <1>12, <3>4
    <3>6. \A d \in In(v, a.turn) : Rank(x, v, d) \in 1 .. Len(P)
      BY <1>12, <1>13
    <3> QED
      BY <3>3, <3>5, <3>6
  <2>2. ASSUME NEW d \in In(C, a.turn) \ {a.card}, NEW e \in In(C, a.turn) \ {a.card},
               C[d].order < C[e].order
        PROVE  Rank(x, v, d) < Rank(x, v, e)
    <3>1. \A f \in In(C, a.turn) \ {a.card} : f \in S /\ v[f] = C[f]
      <4> SUFFICES ASSUME NEW f \in In(C, a.turn) \ {a.card} PROVE f \in S /\ v[f] = C[f]
        OBVIOUS
      <4>1. f \in In(v, a.turn) /\ f \in There(C)
        BY <1>3, ViewKeeps, InIs
      <4>2. f \notin DOMAIN y
        BY <1>3, <1>4, <1>17, <1>19, <4>1 DEF Numbers
      <4> QED
        BY <1>3, <1>8, <4>1, <4>2, ViewKeeps
    <3>2. PICK i \in 1 .. Len(P), j \in 1 .. Len(P) : P[i] = d /\ P[j] = e
      BY <1>9, <3>1
    <3>3. i < j
      BY <1>9, <2>2, <3>1, <3>2
    <3> QED
      BY <1>12, <3>2, <3>3
  <2> QED
    BY <1>7, <2>1, <2>2 DEF Placing
<1>23. ASSUME a.kind = "move", a.turn # a.to PROVE Placing(x, v, C, a.to)
  <2>1. Placing(a, v, C, a.to)
    BY <1>3, <1>4, <1>19, <1>23 DEF Numbers
  <2>2. \A d \in In(v, a.to) : Rank(x, v, d) = Rank(a, v, d)
    BY <1>15, <1>16, <1>17, <1>23
  <2>3. {Rank(x, v, d) : d \in In(v, a.to)} = {Rank(a, v, d) : d \in In(v, a.to)}
    BY <2>2
  <2>4. \A d \in In(C, a.to) \ {a.card} : Rank(x, v, d) = Rank(a, v, d)
    BY <1>3, <2>2, ViewKeeps
  <2> QED
    BY <1>7, <2>1, <2>3, <2>4 DEF Placing
<1>24. ASSUME a.kind = "move" PROVE Landed(x, v, C)
  <2>1. CASE a.turn = a.to
    <3>1. Moving(a)
      BY <1>24, <2>1 DEF Moving
    <3>2. S = In(C, a.to) \ {a.card}
      <4>1. \A d \in S : d \in In(C, a.to) \ {a.card}
        BY <1>3, <1>8, <2>1, <3>1, ViewKeeps
      <4>2. \A d \in In(C, a.to) \ {a.card} : d \in S
        BY <1>3, <1>8, <2>1, <3>1, ViewKeeps
      <4> QED
        BY <4>1, <4>2
    <3>3. Rank(x, v, a.card) = Least(a.pos, Cardinality(S)) + 1
      BY <1>9, <1>12, <3>1
    <3> QED
      BY <1>7, <3>2, <3>3 DEF Landed
  <2>2. CASE a.turn # a.to
    <3>1. Landed(a, v, C)
      BY <1>3, <1>4, <1>19, <1>24, <2>2 DEF Numbers
    <3>2. Rank(x, v, a.card) = Rank(a, v, a.card)
      BY <1>15, <1>16, <1>18, <2>2
    <3> QED
      BY <1>7, <3>1, <3>2 DEF Landed
  <2> QED
    BY <2>1, <2>2
<1>25. \A d \in DOMAIN y \union DOMAIN x.todo : d = x.card \/ \E c \in Done(x) : d \in In(v, c)
  BY <1>3, <1>4, <1>7, <1>14, <1>19 DEF Numbers
<1>26. Numbers(x, y, C)
  <2>1. \A c \in Done(x) : c = a.turn \/ (c = a.to /\ a.turn # a.to)
    BY <1>19
  <2>2. \A c \in Done(x) : Numbered(x, Over(y, C), c)
    BY <1>3, <1>20, <1>21, <2>1
  <2>3. x.kind = "move" => \A c \in Done(x) : Placing(x, Over(y, C), C, c)
    BY <1>3, <1>7, <1>22, <1>23, <2>1
  <2> QED
    BY <1>3, <1>7, <1>24, <1>25, <2>2, <2>3 DEF Numbers
<1>27. Entered(x, y, C)
  BY <1>4, <1>7 DEF Entered
<1>28. StillOffered(board, pipes, x) /\ StillRead(x, C)
  BY <1>7 DEF StillOffered, StillRead
<1>29. Follows(x, y, C)
  BY <1>7, <1>26, <1>27 DEF Follows
<1> QED
  BY <1>6, <1>28, <1>29 DEF Stands

-----------------------------------------------------------------------------
(***************************************************************************)
(* The second layer is inductive on the first.                             *)
(***************************************************************************)
Tidy ==
  /\ StillEmpty
  /\ \A r \in Requests : Busy(r) /\ ~late[r] => Stands(board, pipes, req[r], own[r], cards)

LEMMA IInvIs == IInv <=> Base /\ Tidy
BY DEF IInv, Base, Tidy, Fits, Stands

LEMMA NowFromBase ==
  ASSUME Base, NEW r \in Requests
  PROVE  Now(r)
BY DEF Base, Now

LEMMA WorkStands ==
  ASSUME Base, Tidy, NEW r \in Requests, Receive(r) \/ Work(r), req'[r].do # "idle", ~late'[r]
  PROVE  Stands(board, pipes, req'[r], own'[r], cards')
<1>1. Now(r)
  BY NowFromBase
<1>2. CASE Receive(r)
  BY <1>1, <1>2, ReceiveStands
<1>3. CASE AppendToEnd(r) \/ Save(r) \/ Number(r) \/ Update(r) \/ Updated(r)
  <2>1. Busy(r)
    BY <1>3 DEF AppendToEnd, Save, Number, Update, Updated, Busy
  <2>2. late'[r] = late[r]
    <3>1. \A rows : Publish(r, rows) => late'[r] = late[r]
      BY <1>1, KnownNow DEF Publish, Now
    <3>2. CASE AppendToEnd(r) \/ Number(r) \/ Updated(r)
      <4>1. Still
        BY <3>2 DEF AppendToEnd, Number, Updated
      <4> QED
        BY <4>1 DEF Still
    <3>3. CASE Save(r)
      BY <3>1, <3>3 DEF Save
    <3>4. CASE Update(r)
      <4>1. PICK d : UpdateRow(r, d)
        BY <3>4 DEF Update
      <4>2. late' = late \/ \E rows : Publish(r, rows)
        BY <4>1 DEF UpdateRow
      <4> QED
        BY <3>1, <4>2
    <3> QED
      BY <1>3, <3>2, <3>3, <3>4
  <2>3. Stands(board, pipes, req[r], own[r], cards)
    BY <2>1, <2>2 DEF Tidy
  <2> QED
    BY <1>1, <1>3, <2>3, AppendStands, SaveStands, NumberStands, UpdateStands, NextColumnStands
<1>4. CASE Insert(r) \/ Commit(r) \/ Dies(r)
  <2>1. req'[r] = Idle
    BY <1>1, <1>4, KnownNow DEF Insert, Commit, Dies, Now
  <2> QED
    BY <2>1 DEF Idle
<1> QED
  BY <1>2, <1>3, <1>4 DEF Work

(* The others see no row change, or are late.                              *)
LEMMA WorkTidy ==
  ASSUME Base, Tidy, NEW r \in Requests, Receive(r) \/ Work(r), ~AdminBusy(r),
         UNCHANGED <<pipelineVars, board>>
  PROVE  Tidy'
<1>1. PICK x, o, w, l : Sound(r, x, o, w, l)
  BY StepSound
<1>2. Now(r)
  BY NowFromBase
<1>3. /\ req' = [req EXCEPT ![r] = x] /\ own' = [own EXCEPT ![r] = o] /\ cards' = Over(w, cards)
      /\ late' = [q \in Requests |-> IF q = r THEN l ELSE late[q] \/ w # Nothing]
  BY <1>1 DEF Sound, Effect
<1>4. pipes' = pipes /\ admin' = admin
  BY DEF pipelineVars
<1>5. ASSUME NEW q \in Requests, q # r, ~late'[q]
      PROVE  ~late[q] /\ cards' = cards
  <2>1. ~late[q] /\ w = Nothing
    BY <1>3, <1>5
  <2> QED
    BY <1>2, <1>3, <2>1, KnownNow, OverNothing
<1>6. StillEmpty'
  <2> SUFFICES ASSUME NEW q \in Requests, admin'[q].do = "retire", ~late'[q]
               PROVE  admin'[q].empty \intersect Used' = {}
    BY DEF StillEmpty
  <2>1. q # r
    BY <1>4 DEF AdminBusy
  <2>2. ~late[q] /\ cards' = cards
    BY <1>5, <2>1
  <2>3. Used' = Used
    BY <2>2 DEF Used, There
  <2>4. admin[q].empty \intersect Used = {}
    BY <1>4, <2>2 DEF Tidy, StillEmpty
  <2> QED
    BY <1>4, <2>3, <2>4
<1>7. ASSUME NEW q \in Requests, req'[q].do # "idle", ~late'[q]
      PROVE  Stands(board, pipes, req'[q], own'[q], cards')
  <2>1. CASE q = r
    BY <1>7, <2>1, WorkStands
  <2>2. CASE q # r
    <3>1. req'[q] = req[q] /\ own'[q] = own[q]
      BY <1>2, <1>3, <2>2, KnownNow
    <3>2. ~late[q] /\ cards' = cards
      BY <1>5, <1>7, <2>2
    <3>3. Stands(board, pipes, req[q], own[q], cards)
      BY <1>7, <3>1, <3>2 DEF Tidy, Busy
    <3> QED
      BY <3>1, <3>2, <3>3
  <2> QED
    BY <2>1, <2>2
<1> QED
  BY <1>4, <1>6, <1>7 DEF Tidy, Busy

(* A pipeline to retire was found without deals, and rows of pipelines     *)
(* written make the requests under way late.                               *)
LEMMA SettingsTidy ==
  ASSUME Base, Tidy, NEW r \in Requests, OpenSettings(r) \/ Settings(r),
         UNCHANGED <<board, cards, req, own>>
  PROVE  Tidy'
<1>1. /\ admin \in [Requests -> AdminState] /\ late \in [Requests -> BOOLEAN]
      /\ \A q \in Requests : ~(Busy(q) /\ AdminBusy(q))
  BY SaneRequests DEF Base, TypeOK
<1>2. Used' = Used
  BY DEF Used, There
<1>3. SettingsStep(r)
  BY DEF OpenSettings, Settings, SettingsStep
<1>4. PICK x : admin' = [admin EXCEPT ![r] = x] /\ admin'[r] = x
  BY <1>3, NextAdmin DEF Base, TypeOK
<1>5. \A q \in Requests \ {r} : admin'[q] = admin[q]
  BY <1>1, <1>4
<1>6. \A q \in Requests \ {r} : late[q] => late'[q]
  BY <1>1 DEF OpenSettings, Settings
<1>7. admin'[r].do = "retire" => admin'[r].empty \intersect Used = {}
  <2> SUFFICES ASSUME x.do = "retire" PROVE x.empty \intersect Used = {}
    BY <1>4
  <2> DEFINE a == admin[r]
  <2>0. a \in AdminState
    BY <1>1
  <2>1. CASE Look(r, Used)
    <3>1. PICK k \in a.stale :
            x = [a EXCEPT !.stale = a.stale \ {k},
                       !.do = IF k \in Used THEN "look" ELSE "retire",
                       !.empty = IF k \in Used THEN {} ELSE {k}]
      BY <1>1, <1>4, <2>1 DEF Look
    <3> HIDE DEF a
    <3>2. x.do = (IF k \in Used THEN "look" ELSE "retire") /\ x.empty = IF k \in Used THEN {} ELSE {k}
      BY <2>0, <3>1 DEF AdminState
    <3> QED
      BY <3>2
  <2>2. CASE Submit(r)
    <3>1. x.do = "persist"
      BY <1>1, <1>4, <2>2 DEF Submit, Asking
    <3> QED
      BY <3>1
  <2>3. CASE Persist(r)
    <3>1. x = [a EXCEPT !.do = "sync", !.todo = admin[r].list]
      BY <1>1, <1>4, <2>3 DEF Persist
    <3> HIDE DEF a
    <3>2. x.do = "sync"
      BY <2>0, <3>1 DEF AdminState
    <3> QED
      BY <3>2
  <2>4. CASE Sync(r)
    <3>1. x = [a EXCEPT !.todo = Tail(admin[r].todo)] /\ a.do = "sync"
      BY <1>1, <1>4, <2>4 DEF Sync
    <3> HIDE DEF a
    <3>2. x.do = "sync"
      BY <2>0, <3>1 DEF AdminState
    <3> QED
      BY <3>2
  <2>5. CASE ListStale(r)
    <3> DEFINE S == {k \in Keys \ KeysOf(admin[r].list) : pipes[k].there /\ pipes[k].active}
    <3>1. x = [a EXCEPT !.do = "look", !.stale = S]
      BY <1>1, <1>4, <2>5 DEF ListStale
    <3> HIDE DEF a, S
    <3>2. x.do = "look"
      BY <2>0, <3>1 DEF AdminState
    <3> QED
      BY <3>2
  <2>6. CASE Retire(r)
    <3>1. x = [a EXCEPT !.do = "look", !.empty = {}]
      BY <1>1, <1>4, <2>6 DEF Retire
    <3> HIDE DEF a
    <3>2. x.do = "look"
      BY <2>0, <3>1 DEF AdminState
    <3> QED
      BY <3>2
  <2>7. CASE Answer(r) \/ AdminDies(r)
    <3>1. x.do = "idle"
      BY <1>1, <1>4, <2>7 DEF Answer, AdminDies, Free, Asking
    <3> QED
      BY <3>1
  <2> QED
    BY <2>1, <2>2, <2>3, <2>4, <2>5, <2>6, <2>7 DEF OpenSettings, Settings
<1>8. StillEmpty'
  <2> SUFFICES ASSUME NEW q \in Requests, admin'[q].do = "retire", ~late'[q]
               PROVE  admin'[q].empty \intersect Used = {}
    BY <1>2 DEF StillEmpty
  <2> QED
    BY <1>5, <1>6, <1>7 DEF Tidy, StillEmpty
<1>9. ASSUME NEW q \in Requests, Busy(q), ~late'[q]
      PROVE  ~late[q] /\ pipes' = pipes
  <2>1. CASE Sync(r) \/ Retire(r)
    BY <1>1, <1>9, <2>1 DEF Settings, OpenSettings, Submit, Persist, ListStale, Answer, AdminDies, Look, Sync, Retire, AdminBusy
  <2>2. CASE ~(Sync(r) \/ Retire(r))
    <3>1. pipes' = pipes
      BY <2>2 DEF Settings, OpenSettings, Submit, Persist, ListStale, Answer, AdminDies, Look
    <3>2. CASE q # r
      BY <1>6, <1>9, <3>1, <3>2
    <3>3. CASE q = r
      <4>1. ~AdminBusy(r)
        BY <1>1, <1>9, <3>3
      <4>2. OpenSettings(r)
        BY <4>1 DEF Settings, Persist, ListStale, Answer, AdminDies, Look, Sync, Retire, AdminBusy
      <4> QED
        BY <1>9, <3>1, <3>3, <4>2 DEF OpenSettings
    <3> QED
      BY <3>2, <3>3
  <2> QED
    BY <2>1, <2>2
<1>10. ASSUME NEW q \in Requests, Busy(q), ~late'[q]
       PROVE  Stands(board, pipes', req[q], own[q], cards)
  <2>1. ~late[q] /\ pipes' = pipes
    BY <1>9, <1>10
  <2>2. Stands(board, pipes, req[q], own[q], cards)
    BY <1>10, <2>1 DEF Tidy
  <2> QED
    BY <2>1, <2>2
<1> QED
  BY <1>8, <1>10 DEF Tidy, Busy

LEMMA TidyStep == Base /\ Tidy /\ [Next]_vars => Tidy'
<1> SUFFICES ASSUME Base, Tidy, [Next]_vars PROVE Tidy'
  OBVIOUS
<1>1. CASE UNCHANGED vars
  BY <1>1 DEF vars, boardVars, pipelineVars, Tidy, StillEmpty, Used, There, Busy
<1>2. ASSUME NEW r \in Requests, Receive(r) \/ Work(r), UNCHANGED <<pipelineVars, board>>
      PROVE  Tidy'
  <2>1. ~AdminBusy(r)
    <3>1. CASE Receive(r)
      BY <3>1 DEF Receive, Move, Edit, Create, Arrive
    <3>2. CASE Work(r)
      <4>1. Busy(r)
        BY <3>2 DEF Work, AppendToEnd, Save, Insert, Number, Update, Updated, Commit, Dies, Busy
      <4> QED
        BY <4>1 DEF Base, TypeOK
    <3> QED
      BY <1>2, <3>1, <3>2
  <2> QED
    BY <1>2, <2>1, WorkTidy
<1>3. ASSUME NEW r \in Requests, OpenSettings(r) \/ Settings(r), UNCHANGED <<board, cards, req, own>>
      PROVE  Tidy'
  BY <1>3, SettingsTidy
<1> QED
  BY <1>1, <1>2, <1>3 DEF Next

LEMMA BoardStart == Init => IInv
<1> SUFFICES ASSUME Init PROVE IInv
  OBVIOUS
<1>1. Base
  BY BaseStart
<1>2. \A r \in Requests : ~Busy(r) /\ ~AdminBusy(r)
  BY DEF Init, PipelineInit, Busy, Idle, AdminBusy, Free, Asking
<1>3. Tidy
  BY <1>2 DEF Tidy, StillEmpty, AdminBusy
<1> QED
  BY <1>1, <1>3, IInvIs

LEMMA BoardStep == IInv /\ [Next]_vars => IInv'
<1> SUFFICES ASSUME IInv, [Next]_vars PROVE IInv'
  OBVIOUS
<1>1. Base' /\ Tidy'
  BY IInvIs, BaseStep, TidyStep
<1> QED
  BY <1>1 DEF IInv, Base, Tidy, Fits, Stands, Busy

-----------------------------------------------------------------------------
(***************************************************************************)
(* What a step may do to the rows that others see.                         *)
(***************************************************************************)
\* What a step makes of the rows: only these change the column of a row, or
\* whether it is on the board.
SavesCopy(r, d) ==
  /\ req[r].do = "save" /\ req[r].kind = "edit" /\ ~req[r].tx /\ d = req[r].card /\ d \in There(cards)
  /\ req'[r].do # "save" /\ cards'[d] = req[r].copy

Inserts(r, d) ==
  /\ req[r].do = "save" /\ req[r].kind = "create" /\ d \notin There(cards)
  /\ req'[r].do = "idle" /\ cards'[d] = req[r].copy

Commits(r, d) ==
  /\ req[r].do = "commit" /\ d = req[r].card /\ d \in DOMAIN own[r] /\ req[r].tx
  /\ d \in There(cards) /\ req'[r].do = "idle" /\ cards'[d] = own[r][d]

Alike(d) == d \in There(cards) /\ cards'[d].col = cards[d].col /\ cards'[d].live = cards[d].live

LEMMA WhatChanges ==
  ASSUME Base, NEW r \in Requests, Receive(r) \/ Work(r), NEW d \in There(cards')
  PROVE  Alike(d) \/ SavesCopy(r, d) \/ Inserts(r, d) \/ Commits(r, d)
<1>1. Now(r)
  BY NowFromBase
<1>2. PICK a, y, C : a = req[r] /\ y = own[r] /\ C = cards
  OBVIOUS
<1>3. /\ C \in [Cards -> Row \union {NoCard}] /\ y \in Partial(Row) /\ DOMAIN y \subseteq There(C)
      /\ a.do # "idle" => a \in Job /\ Serves(board, a, y, C) /\ Keeps(a, y, C)
      /\ req \in [Requests -> Job \union {Idle}] /\ Idle.do = "idle"
  BY <1>1, <1>2, KnownNow DEF Now, Busy, Idle
<1>4. CASE cards' = cards
  BY <1>4 DEF Alike
<1>5. CASE Save(r) /\ ~a.tx
  <2>1. /\ a.do = "save" /\ a.kind # "create" /\ Publish(r, Only(a.card, SavedRow(r)))
    BY <1>2, <1>5 DEF Save
  <2>2. a.kind = "edit" /\ a.card \in There(C)
    BY <1>3, <1>5, <2>1, JobIs DEF Serves
  <2>3. SavedRow(r) = a.copy /\ a.copy \in Row
    BY <1>2, <1>3, <2>1, <2>2, JobIs DEF SavedRow
  <2>4. PICK w : w = Only(a.card, a.copy)
    OBVIOUS
  <2>5. w \in Partial(Row) /\ DOMAIN w = {a.card} /\ w[a.card] = a.copy
    BY <2>2, <2>3, <2>4, <1>3, ThereIs, OnlyPartial, OnlyIs
  <2>6. cards' = Over(w, C)
    BY <1>2, <2>1, <2>3, <2>4 DEF Publish
  <2>7. \A e \in Cards : cards'[e] = IF e = a.card THEN a.copy ELSE C[e]
    <3>1. \A e \in Cards : Over(w, C)[e] = IF e \in DOMAIN w THEN w[e] ELSE C[e]
      BY <1>3, <2>5, OverCards
    <3> QED
      BY <2>5, <2>6, <3>1
  <2>8. d \in Cards /\ There(cards') = There(C)
    <3>1. There(Over(w, C)) = There(C) \union DOMAIN w
      BY <1>3, <2>5, OverCards
    <3> QED
      BY <2>2, <2>5, <2>6, <3>1 DEF There
  <2>9. req'[r].do # "save"
    <3> DEFINE x == [a EXCEPT !.do = IF a.kind = "move" \/ a.to # a.from THEN "number" ELSE "commit"]
    <3>1. req'[r] = x
      BY <1>2, <1>3, <1>5 DEF Save
    <3>2. x.do \in {"number", "commit"}
      BY <1>3, <2>1 DEF Job
    <3> QED
      BY <3>1, <3>2
  <2>10. CASE d = a.card
    BY <1>2, <1>5, <2>1, <2>2, <2>7, <2>8, <2>9, <2>10 DEF SavesCopy
  <2>11. CASE d # a.card
    BY <1>2, <2>7, <2>8, <2>11 DEF Alike
  <2> QED
    BY <2>10, <2>11
<1>6. CASE Insert(r)
  <2>1. PICK e \in Cards \ There(C) : Publish(r, Only(e, a.copy))
    BY <1>2, <1>6 DEF Insert
  <2>2. a.do = "save" /\ a.kind = "create" /\ req'[r] = Idle /\ a.copy \in Row
    BY <1>2, <1>3, <1>6, JobIs DEF Insert
  <2>3. PICK w : w = Only(e, a.copy)
    OBVIOUS
  <2>4. w \in Partial(Row) /\ DOMAIN w = {e} /\ w[e] = a.copy
    BY <2>2, <2>3, OnlyPartial, OnlyIs
  <2>5. cards' = Over(w, C)
    BY <1>2, <2>1, <2>3 DEF Publish
  <2>6. \A f \in Cards : cards'[f] = IF f = e THEN a.copy ELSE C[f]
    <3>1. \A f \in Cards : Over(w, C)[f] = IF f \in DOMAIN w THEN w[f] ELSE C[f]
      BY <1>3, <2>4, OverCards
    <3> QED
      BY <2>4, <2>5, <3>1
  <2>7. d \in Cards /\ There(cards') = There(C) \union {e}
    <3>1. There(Over(w, C)) = There(C) \union DOMAIN w
      BY <1>3, <2>4, OverCards
    <3> QED
      BY <2>4, <2>5, <3>1 DEF There
  <2>8. CASE d = e
    BY <1>2, <1>3, <2>2, <2>6, <2>7, <2>8 DEF Inserts
  <2>9. CASE d # e
    BY <1>2, <2>6, <2>7, <2>9 DEF Alike
  <2> QED
    BY <2>8, <2>9
<1>7. CASE Update(r) /\ cards' # cards
  <2>1. PICK n \in DOMAIN a.todo : UpdateRow(r, n)
    BY <1>2, <1>7 DEF Update
  <2>2. PICK row, w : row = [View(r)[n] EXCEPT !.order = a.todo[n]] /\ w = Over(Only(n, row), y)
    OBVIOUS
  <2>3. cards' = Over(w, C) /\ ~a.tx /\ a.do = "update"
    BY <1>2, <1>7, <2>1, <2>2 DEF UpdateRow, Publish, Update
  <2>4. /\ n \in There(C) /\ row.col = View(r)[n].col /\ row.live = View(r)[n].live
        /\ w \in Partial(Row) /\ DOMAIN w = {n} \union DOMAIN y
        /\ w[n] = row /\ \A e \in DOMAIN y : e # n => w[e] = y[e]
    <3>1. View(r) \in [Cards -> Row \union {NoCard}] /\ There(View(r)) = There(C)
      BY <1>1, <1>2, KnownNow
    <3>2. a.todo \in Partial(Nat) /\ DOMAIN a.todo \subseteq There(C)
      BY <1>3, <2>3, JobIs DEF Serves
    <3>3. n \in There(C) /\ n \in Cards /\ View(r)[n] \in Row /\ a.todo[n] \in Nat
      BY <2>1, <3>1, <3>2, PartialIs, ThereIs
    <3>4. row \in Row /\ row.col = View(r)[n].col /\ row.live = View(r)[n].live
      BY <2>2, <3>3 DEF Row
    <3>5. w = Over(Only(n, row), y) /\ w \in Partial(Row) /\ DOMAIN w = {n} \union DOMAIN y /\ w[n] = row
      BY <1>3, <2>2, <3>3, <3>4, RowOver
    <3>6. \A e \in DOMAIN y : e # n => Over(Only(n, row), y)[e] = y[e]
      BY <1>3, <3>3, <3>4, RowOver
    <3> QED
      BY <3>3, <3>4, <3>5, <3>6
  <2>5. /\ There(Over(w, C)) = There(C) \union DOMAIN w
        /\ \A e \in Cards : Over(w, C)[e] = IF e \in DOMAIN w THEN w[e] ELSE C[e]
    BY <1>3, <2>4, OverCards
  <2>6. d \in Cards /\ d \in There(C)
    BY <1>3, <2>3, <2>4, <2>5 DEF There
  <2>7. \A e \in DOMAIN y : y[e].col = C[e].col /\ y[e].live = C[e].live
    BY <1>3, <2>3 DEF Keeps
  <2>8. View(r)[n].col = C[n].col /\ View(r)[n].live = C[n].live
    <3>1. n \in Cards /\ \A e \in Cards : View(r)[e] = IF e \in DOMAIN y THEN y[e] ELSE C[e]
      BY <1>1, <1>2, <2>4, KnownNow DEF There
    <3> QED
      BY <2>7, <3>1
  <2>9. Over(w, C)[d].col = C[d].col /\ Over(w, C)[d].live = C[d].live
    BY <2>4, <2>5, <2>6, <2>7, <2>8
  <2> QED
    BY <1>2, <2>3, <2>6, <2>9 DEF Alike
<1>8. CASE Commit(r)
  <2>1. a.do = "commit" /\ cards' = Over(y, C) /\ req'[r] = Idle
    BY <1>1, <1>2, <1>8, KnownNow DEF Commit, Publish, Now
  <2>2. /\ There(Over(y, C)) = There(C) \union DOMAIN y
        /\ \A e \in Cards : Over(y, C)[e] = IF e \in DOMAIN y THEN y[e] ELSE C[e]
    BY <1>3, OverCards
  <2>3. d \in Cards /\ d \in There(C)
    BY <1>3, <2>1, <2>2 DEF There
  <2>4. CASE d \in DOMAIN y /\ d = a.card /\ a.tx
    BY <1>2, <1>3, <2>1, <2>2, <2>3, <2>4 DEF Commits
  <2>5. CASE d \in DOMAIN y /\ ~(d = a.card /\ a.tx)
    <3>1. y[d].col = C[d].col /\ y[d].live = C[d].live
      BY <1>3, <2>1, <2>5, JobIs DEF Keeps
    <3> QED
      BY <1>2, <2>1, <2>2, <2>3, <2>5, <3>1 DEF Alike
  <2>6. CASE d \notin DOMAIN y
    BY <1>2, <2>1, <2>2, <2>3, <2>6 DEF Alike
  <2> QED
    BY <2>4, <2>5, <2>6
<1>9. CASE Receive(r)
  <2>1. cards' = cards
    BY <1>9 DEF Receive, Move, Edit, Create, Arrive
  <2> QED
    BY <1>4, <2>1
<1>10. CASE AppendToEnd(r) \/ Number(r) \/ Updated(r) \/ Dies(r)
  <2>1. cards' = cards
    <3>1. CASE AppendToEnd(r) \/ Number(r) \/ Updated(r)
      <4>1. Still
        BY <3>1 DEF AppendToEnd, Number, Updated
      <4> QED
        BY <4>1 DEF Still
    <3>2. CASE Dies(r)
      BY <3>2 DEF Dies
    <3> QED
      BY <1>10, <3>1, <3>2
  <2> QED
    BY <1>4, <2>1
<1>11. CASE Save(r) /\ a.tx
  <2>1. cards' = cards
    BY <1>2, <1>11 DEF Save
  <2> QED
    BY <1>4, <2>1
<1> QED
  BY <1>3, <1>4, <1>5, <1>6, <1>7, <1>8, <1>9, <1>10, <1>11, JobIs DEF Work, Save

OwnRequests == \A d \in There(cards) :
  (cards'[d].col # cards[d].col \/ cards'[d].live # cards[d].live) =>
    \E r \in Requests : req'[r] # req[r] /\ Busy(r) /\ req[r].card = d

LEMMA OwnStep ==
  ASSUME Base, Next
  PROVE  OwnRequests
<1> SUFFICES ASSUME NEW d \in There(cards),
                    cards'[d].col # cards[d].col \/ cards'[d].live # cards[d].live
             PROVE  \E r \in Requests : req'[r] # req[r] /\ Busy(r) /\ req[r].card = d
  BY DEF OwnRequests
<1>1. PICK r \in Requests : Receive(r) \/ Work(r) \/ UNCHANGED cards
  BY DEF Next
<1>2. Receive(r) \/ Work(r)
  BY <1>1
<1>3. d \in There(cards')
  <2>1. PICK x, o, w, l : Sound(r, x, o, w, l)
    BY <1>2, StepSound
  <2>2. cards \in [Cards -> Row \union {NoCard}]
    BY DEF Base, TypeOK
  <2>3. There(Over(w, cards)) = There(cards) \union DOMAIN w
    BY <2>1, <2>2, OverCards DEF Sound
  <2> QED
    BY <2>1, <2>3 DEF Sound, Effect
<1>4. Alike(d) \/ SavesCopy(r, d) \/ Inserts(r, d) \/ Commits(r, d)
  BY <1>2, <1>3, WhatChanges
<1> QED
  BY <1>4 DEF Alike, SavesCopy, Inserts, Commits, Busy

RaceHides == \A k \in Hidden(pipes', Used') \ Hidden(pipes, Used) :
  \E r \in Requests : late[r] /\ (req'[r] # req[r] \/ admin'[r] # admin[r])

LEMMA HideStep ==
  ASSUME IInv, Next
  PROVE  RaceHides
<1> SUFFICES ASSUME NEW k \in Hidden(pipes', Used'), k \notin Hidden(pipes, Used),
                    \A r \in Requests : req'[r] # req[r] \/ admin'[r] # admin[r] => ~late[r]
             PROVE  FALSE
  BY DEF RaceHides
<1>0. Base /\ Tidy /\ late \in [Requests -> BOOLEAN] /\ pipes \in [Keys -> PipeRow]
      /\ admin \in [Requests -> AdminState]
  BY IInvIs, SaneRequests DEF Base, TypeOK
<1>1. k \in Used' /\ ~pipes'[k].active
  BY DEF Hidden
<1>2. k \in Used => pipes[k].active
  BY DEF Hidden
<1>3. ASSUME NEW r \in Requests, Receive(r) \/ Work(r), UNCHANGED <<pipelineVars, board>>
      PROVE  FALSE
  <2>1. pipes' = pipes /\ board' = board
    BY <1>3 DEF pipelineVars
  <2>2. k \notin Used /\ board = "deals"
    BY <1>1, <1>2, <2>1 DEF Used
  <2>3. PICK d \in There(cards') : cards'[d].col.pipe = k
    BY <1>1, <2>1, <2>2 DEF Used
  <2>4. ~Alike(d)
    BY <2>2, <2>3 DEF Alike, Used
  <2>5. SavesCopy(r, d) \/ Inserts(r, d) \/ Commits(r, d)
    BY <1>0, <1>3, <2>4, WhatChanges
  <2>6. /\ Busy(r) /\ ~late[r]
        /\ req[r] \in Job /\ Serves(board, req[r], own[r], cards) /\ Keeps(req[r], own[r], cards)
        /\ Stands(board, pipes, req[r], own[r], cards)
    <3>1. Busy(r) /\ req'[r] # req[r]
      BY <2>5 DEF SavesCopy, Inserts, Commits, Busy
    <3>2. Now(r)
      BY <1>0, NowFromBase
    <3> QED
      BY <1>0, <3>1, <3>2, KnownNow DEF Tidy, Base
  <2>7. CASE SavesCopy(r, d) \/ Inserts(r, d)
    <3>1. req[r].do = "save" /\ req[r].kind # "move" /\ cards'[d] = req[r].copy
      BY <2>7 DEF SavesCopy, Inserts
    <3>2. req[r].copy.col = req[r].to
      BY <2>6, <3>1 DEF Serves
    <3>3. pipes[req[r].to.pipe].active
      BY <2>2, <2>6, <3>1 DEF Stands, StillOffered
    <3> QED
      BY <1>1, <2>1, <2>3, <3>1, <3>2, <3>3
  <2>8. CASE Commits(r, d)
    <3>1. req[r].kind = "move"
      BY <2>2, <2>6, <2>8, JobIs DEF Commits, Serves
    <3>2. cards'[d].col.pipe = cards[d].col.pipe /\ d \in There(cards)
      BY <2>6, <2>8, <3>1 DEF Commits, Keeps
    <3> QED
      BY <2>2, <2>3, <3>2 DEF Used
  <2> QED
    BY <2>5, <2>7, <2>8
<1>4. ASSUME NEW r \in Requests, OpenSettings(r) \/ Settings(r), UNCHANGED <<board, cards, req, own>>
      PROVE  FALSE
  <2>1. Used' = Used
    BY <1>4 DEF Used, There
  <2>2. k \in Used /\ pipes[k].active /\ k \in Keys
    <3>1. k \in Keys
      <4>1. \A d \in There(cards) : cards[d].col.pipe \in Keys
        <5>1. cards \in [Cards -> Row \union {NoCard}]
          BY <1>0 DEF Base, TypeOK
        <5> QED
          BY <5>1, ThereIs, RowIs
      <4> QED
        BY <1>1, <2>1, <4>1 DEF Used
    <3> QED
      BY <1>1, <1>2, <2>1, <3>1
  <2>3. CASE Sync(r)
    <3>1. pipes' = [pipes EXCEPT ![Head(admin[r].todo).key] = Copy(Head(admin[r].todo))]
      BY <2>3 DEF Sync
    <3>2. pipes'[k].active
      BY <1>0, <2>2, <3>1 DEF Copy
    <3> QED
      BY <1>1, <3>2
  <2>4. CASE Retire(r)
    <3>1. k \in admin[r].empty /\ admin[r].do = "retire"
      <4>1. k \notin admin[r].empty => pipes'[k] = pipes[k]
        BY <2>2, <2>4 DEF Retire
      <4> QED
        BY <1>1, <2>2, <2>4, <4>1 DEF Retire
    <3>2. admin'[r] # admin[r]
      <4>1. PICK x : x = [admin[r] EXCEPT !.do = "look", !.empty = {}]
        OBVIOUS
      <4>2. x.do = "look"
        BY <1>0, <4>1 DEF AdminState
      <4>3. admin'[r] = x
        BY <1>0, <2>4, <4>1 DEF Retire
      <4> QED
        BY <3>1, <4>2, <4>3
    <3>3. ~late[r]
      BY <3>2
    <3> QED
      BY <1>0, <2>2, <3>1, <3>3 DEF Tidy, StillEmpty
  <2>5. CASE ~Sync(r) /\ ~Retire(r)
    <3>1. pipes' = pipes
      BY <1>4, <2>5 DEF OpenSettings, Settings, Submit, Persist, ListStale, Answer, AdminDies, Look
    <3> QED
      BY <1>1, <2>2, <3>1
  <2> QED
    BY <2>3, <2>4, <2>5
<1> QED
  BY <1>3, <1>4 DEF Next

-----------------------------------------------------------------------------
(***************************************************************************)
(* Moves land, and ties have a cause.                                      *)
(***************************************************************************)
(* A move that commits found its columns as it had read them.              *)
MoveLands(r) ==
  LET x == req[r]
      others == In(cards, x.to) \ {x.card}
  IN /\ In(cards', x.to) = others \union {x.card}
     /\ {cards'[d].order : d \in In(cards', x.to)} = 1 .. Cardinality(In(cards', x.to))
     /\ cards'[x.card].order = Least(x.pos, Cardinality(others)) + 1
     /\ KeepOrder(others)
     /\ x.from # x.to =>
          /\ {cards'[d].order : d \in In(cards', x.from)} = 1 .. Cardinality(In(cards', x.from))
          /\ KeepOrder(In(cards, x.from) \ {x.card})

LEMMA MoveStep ==
  ASSUME IInv, NEW r \in Requests, Commit(r), req[r].kind = "move", ~late[r],
         cards[req[r].card].live
  PROVE  MoveLands(r)
<1>1. PICK a, y, C, v : a = req[r] /\ y = own[r] /\ C = cards /\ v = cards'
  OBVIOUS
<1>2. Base /\ Tidy /\ Now(r)
  BY IInvIs, NowFromBase
<1>3. /\ a.do = "commit" /\ a \in Job /\ Serves(board, a, y, C) /\ Keeps(a, y, C) /\ Follows(a, y, C)
      /\ C \in [Cards -> Row \union {NoCard}] /\ y \in Partial(Row) /\ DOMAIN y \subseteq There(C)
      /\ v = Over(y, C) /\ a.kind = "move" /\ C[a.card].live
  BY <1>1, <1>2, KnownNow DEF Commit, Publish, Busy, Now, Tidy, Stands
<1>4. Entered(a, y, C) /\ Numbers(a, y, C)
  BY <1>3 DEF Follows, Resequences
<1>5. a.to \in Done(a) /\ a.from \in Done(a)
  BY <1>3 DEF Done, Serves
<1>6. a.todo = Nothing /\ a.card \in There(C) /\ There(v) = There(C)
  <2>1. There(Over(y, C)) = There(C) \union DOMAIN y
    BY <1>3, OverCards
  <2> QED
    BY <1>3, <2>1 DEF Serves
<1>7. \A d : Rank(a, v, d) = v[d].order
  BY <1>6, NothingIs DEF Rank
<1>8. Placing(a, v, C, a.to) /\ Placing(a, v, C, a.from) /\ Landed(a, v, C)
  BY <1>3, <1>4, <1>5 DEF Numbers
<1>9. ASSUME NEW c, Placing(a, v, C, c)
      PROVE  /\ {v[d].order : d \in In(v, c)} = 1 .. Cardinality(In(v, c))
             /\ \A d, e \in In(C, c) \ {a.card} : C[d].order < C[e].order => v[d].order < v[e].order
  <2>1. {Rank(a, v, d) : d \in In(v, c)} = {v[d].order : d \in In(v, c)}
    BY <1>7
  <2> QED
    BY <1>3, <1>7, <1>9, <2>1 DEF Placing
<1>10. In(v, a.to) = (In(C, a.to) \ {a.card}) \union {a.card}
  <2>1. v[a.card].col = a.to
    BY <1>3, <1>4 DEF Entered
  <2>2. v[a.card].live
    <3>1. a.kind = "move" => \A d \in There(C) : Over(y, C)[d].live = C[d].live
      BY <1>3, ViewKeeps
    <3> QED
      BY <1>3, <1>6, <3>1
  <2>3. a.card \in In(v, a.to)
    BY <1>6, <2>1, <2>2, InIs
  <2>4. \A d \in In(v, a.to) : d # a.card => d \in In(C, a.to)
    BY <1>3, ViewKeeps
  <2>5. \A d \in In(C, a.to) : d # a.card => d \in In(v, a.to)
    BY <1>3, ViewKeeps
  <2> QED
    BY <2>3, <2>4, <2>5
<1>11. v[a.card].order = Least(a.pos, Cardinality(In(C, a.to) \ {a.card})) + 1
  BY <1>7, <1>8 DEF Landed
<1> QED
  BY <1>1, <1>8, <1>9, <1>10, <1>11 DEF MoveLands, KeepOrder

(* Of rows written by a request whose columns are numbered, none has the   *)
(* number of another.                                                      *)
Tied(C, d, e) ==
  /\ d \in There(C) /\ e \in There(C) /\ d # e /\ C[d].col = C[e].col
  /\ C[d].live /\ C[e].live /\ C[d].order = C[e].order

AllNumbered(x, v) == \A c \in Done(x) : Numbered(x, v, c)
Covered(x, v, o) == \A d \in DOMAIN o : d = x.card \/ \E c \in Done(x) : d \in In(v, c)

LEMMA NumberedRows ==
  ASSUME NEW x, NEW v, NEW o, x.do \in {"update", "commit"}, x.turn \in {x.to, x.from},
         x.todo = Nothing, AllNumbered(x, v), v[x.card].col = x.to, Covered(x, v, o),
         NEW d, NEW e, Tied(v, d, e)
  PROVE  d \notin DOMAIN o /\ e \notin DOMAIN o
<1>1. x.to \in Done(x)
  BY DEF Done
<1>2. \A f \in DOMAIN o : v[f].col \in Done(x)
  BY <1>1, InIs DEF Covered
<1>3. ASSUME v[d].col \in Done(x) PROVE FALSE
  <2>1. Numbered(x, v, v[d].col)
    BY <1>3 DEF AllNumbered
  <2>2. d \in In(v, v[d].col) /\ e \in In(v, v[d].col) /\ d # e
    BY InIs DEF Tied
  <2>3. Rank(x, v, d) = Rank(x, v, e)
    BY NothingIs DEF Rank, Tied
  <2> QED
    BY <2>1, <2>2, <2>3 DEF Numbered
<1> QED
  BY <1>2, <1>3 DEF Tied

\* A card was on the board already, or is a new one.
Back(d) == d \in There(cards) /\ ~cards[d].live

LEMMA TieStep ==
  ASSUME IInv, Next, NEW d, NEW e, Tied(cards', d, e)
  PROVE  \/ Tied(cards, d, e)
         \/ \E r \in Requests : Busy(r) /\ req'[r] # req[r] /\ late[r]
         \/ Back(d) \/ Back(e)
<1> SUFFICES ASSUME ~Tied(cards, d, e), ~Back(d), ~Back(e),
                    \A r \in Requests : Busy(r) /\ req'[r] # req[r] => ~late[r]
             PROVE  FALSE
  OBVIOUS
<1>1. PICK r \in Requests : Receive(r) \/ Work(r) \/ UNCHANGED cards
  BY DEF Next
<1>2. PICK a, y, C, v, x, o : a = req[r] /\ y = own[r] /\ C = cards /\ v = cards' /\ x = req'[r] /\ o = own'[r]
  OBVIOUS
<1>3. Base /\ Tidy /\ Now(r)
  BY IInvIs, NowFromBase
<1>4. /\ C \in [Cards -> Row \union {NoCard}] /\ y \in Partial(Row) /\ DOMAIN y \subseteq There(C)
      /\ a.do # "idle" => a \in Job /\ Serves(board, a, y, C) /\ Keeps(a, y, C)
      /\ req \in [Requests -> Job \union {Idle}] /\ Idle.do = "idle"
  BY <1>2, <1>3, KnownNow DEF Now, Busy, Idle
<1>5. v # C
  BY <1>2
<1>6. a.do # "idle" /\ x # a => Stands(board, pipes, a, y, C)
  BY <1>2, <1>3 DEF Tidy, Busy
<1>7. CASE Save(r)
  <2>1. /\ a.do = "save" /\ a.kind # "create" /\ ~a.tx /\ Publish(r, Only(a.card, SavedRow(r)))
    BY <1>2, <1>5, <1>7 DEF Save
  <2>2. a.kind = "edit" /\ a.card \in There(C) /\ a.card \in Cards /\ a.copy \in Row /\ a.copy.col = a.to
    BY <1>4, <2>1, JobIs, ThereIs DEF Serves
  <2>3. SavedRow(r) = a.copy
    BY <1>2, <2>1, <2>2 DEF SavedRow
  <2>4. PICK w : w = Only(a.card, a.copy)
    OBVIOUS
  <2>5. w \in Partial(Row) /\ DOMAIN w = {a.card} /\ w[a.card] = a.copy
    BY <2>2, <2>4, OnlyPartial, OnlyIs
  <2>6. v = Over(w, C)
    BY <1>2, <2>1, <2>3, <2>4 DEF Publish
  <2>7. /\ \A f \in Cards : Over(w, C)[f] = IF f \in DOMAIN w THEN w[f] ELSE C[f]
        /\ There(Over(w, C)) = There(C) \union DOMAIN w
    BY <1>4, <2>5, OverCards
  <2>8. There(v) = There(C) /\ \A f \in There(C) : v[f] = IF f = a.card THEN a.copy ELSE C[f]
    BY <2>2, <2>5, <2>6, <2>7 DEF There
  <2>9. x.do # "save"
    <3> DEFINE z == [a EXCEPT !.do = IF a.kind = "move" \/ a.to # a.from THEN "number" ELSE "commit"]
    <3>1. x = z
      BY <1>2, <1>4, <1>7 DEF Save
    <3>2. z.do \in {"number", "commit"}
      BY <1>4, <2>1 DEF Job
    <3> QED
      BY <3>1, <3>2
  <2>10. StillRead(a, C)
    BY <1>6, <2>1, <2>9 DEF Stands
  <2>11. d = a.card \/ e = a.card
    BY <1>2, <2>8 DEF Tied
  <2>12. PICK f : f \in {d, e} \ {a.card}
    BY DEF Tied
  <2>13. /\ f \in There(C) /\ f # a.card /\ C[f].col = a.to /\ C[f].live /\ C[f].order = a.copy.order
         /\ a.copy.live
    BY <1>2, <2>2, <2>8, <2>11, <2>12 DEF Tied
  <2>14. C[a.card].live
    BY <1>2, <2>2, <2>11 DEF Back
  <2>15. CASE a.to = a.from
    <3>1. C[a.card].col = a.from /\ a.copy.order = C[a.card].order
      BY <2>1, <2>2, <2>10, <2>15 DEF StillRead
    <3> QED
      BY <1>2, <2>2, <2>11, <2>12, <2>13, <2>14, <2>15, <3>1 DEF Tied
  <2>16. CASE a.to # a.from
    <3>1. f \in In(C, a.to) \ {a.card}
      BY <2>13, InIs
    <3>2. C[f].order < a.copy.order
      BY <2>1, <2>2, <2>10, <2>16, <3>1 DEF StillRead
    <3>3. a.copy.order \in Nat
      BY <2>2, RowIs
    <3> QED
      BY <2>13, <3>2, <3>3
  <2> QED
    BY <2>15, <2>16
<1>8. CASE Insert(r)
  <2>1. PICK n \in Cards \ There(C) : Publish(r, Only(n, a.copy))
    BY <1>2, <1>8 DEF Insert
  <2>2. a.do = "save" /\ a.kind = "create" /\ x = Idle /\ a.copy \in Row /\ a.copy.col = a.to /\ a.card = 0
    BY <1>2, <1>4, <1>8, JobIs DEF Insert, Serves
  <2>3. PICK w : w = Only(n, a.copy)
    OBVIOUS
  <2>4. w \in Partial(Row) /\ DOMAIN w = {n} /\ w[n] = a.copy
    BY <2>2, <2>3, OnlyPartial, OnlyIs
  <2>5. v = Over(w, C)
    BY <1>2, <2>1, <2>3 DEF Publish
  <2>6. /\ \A f \in Cards : Over(w, C)[f] = IF f \in DOMAIN w THEN w[f] ELSE C[f]
        /\ There(Over(w, C)) = There(C) \union DOMAIN w
    BY <1>4, <2>4, OverCards
  <2>7. There(v) = There(C) \union {n} /\ v[n] = a.copy /\ \A f \in There(C) : v[f] = C[f]
    BY <2>1, <2>4, <2>5, <2>6 DEF There
  <2>8. StillRead(a, C)
    BY <1>4, <1>6, <2>2 DEF Stands
  <2>9. d = n \/ e = n
    BY <1>2, <2>7 DEF Tied
  <2>10. PICK f : f \in {d, e} \ {n}
    BY DEF Tied
  <2>11. f \in There(C) /\ C[f].col = a.to /\ C[f].live /\ C[f].order = a.copy.order
    BY <1>2, <2>2, <2>7, <2>9, <2>10 DEF Tied
  <2>12. f \in In(C, a.to) \ {a.card}
    BY <1>4, <2>2, <2>11, ThereIs, InIs
  <2>13. C[f].order < a.copy.order
    BY <2>2, <2>8, <2>12 DEF StillRead
  <2>14. a.copy.order \in Nat
    BY <2>2, RowIs
  <2> QED
    BY <2>11, <2>13, <2>14
<1>9. CASE Update(r)
  <2>1. PICK n \in DOMAIN a.todo \ Locked(r) : UpdateRow(r, n)
    BY <1>2, <1>9 DEF Update
  <2>2. PICK row, w, todo : row = [View(r)[n] EXCEPT !.order = a.todo[n]] /\ w = Over(Only(n, row), y)
                            /\ todo = [f \in DOMAIN a.todo \ {n} |-> a.todo[f]]
    OBVIOUS
  <2>3. /\ v = Over(w, C) /\ ~a.tx /\ a.do = "update" /\ o = Nothing /\ DOMAIN a.todo \ {n} = {}
        /\ x = [a EXCEPT !.todo = todo]
    BY <1>2, <1>3, <1>4, <1>5, <1>9, <2>1, <2>2, KnownNow DEF UpdateRow, Publish, Update, Now
  <2>4. DOMAIN todo = {} /\ todo = Nothing
    BY <2>2, <2>3 DEF Nothing
  <2>5. /\ x.do = "update" /\ x.todo = Nothing /\ x.turn = a.turn /\ x.to = a.to /\ x.from = a.from
        /\ x.card = a.card
    BY <1>4, <2>3, <2>4 DEF Job
  <2>6. x # a
    BY <2>1, <2>5, NothingIs
  <2>7. Stands(board, pipes, a, y, C)
    BY <1>6, <2>3, <2>6
  <2>8. Stands(board, pipes, x, o, v)
    BY <1>2, <1>3, <1>9, <2>7, UpdateStands
  <2>9. /\ Numbers(a, y, C) /\ Numbers(x, o, v) /\ Entered(x, o, v)
    BY <2>3, <2>5, <2>7, <2>8 DEF Stands, Follows, Resequences
  <2>10. /\ View(r) = Over(y, C) /\ View(r) \in [Cards -> Row \union {NoCard}] /\ There(View(r)) = There(C)
    BY <1>2, <1>3, KnownNow DEF View
  <2>11. a.todo \in Partial(Nat) /\ DOMAIN a.todo \subseteq There(C) /\ a.turn \in {a.to, a.from}
         /\ a.card \in There(C)
    BY <1>4, <2>3, JobIs DEF Serves
  <2>12. n \in There(C) /\ n \in Cards /\ View(r)[n] \in Row /\ a.todo[n] \in Nat
    BY <2>1, <2>10, <2>11, PartialIs, ThereIs
  <2>13. row \in Row /\ row.col = View(r)[n].col /\ row.live = View(r)[n].live
    BY <2>2, <2>12 DEF Row
  <2>14. w \in Partial(Row) /\ DOMAIN w = {n} \union DOMAIN y /\ w[n] = row
    <3>1. y \in Partial(Row) /\ row \in Row /\ n \in Cards
      BY <1>4, <2>12, <2>13
    <3>2. Over(Only(n, row), y) \in Partial(Row)
      BY <3>1, RowOver
    <3>3. DOMAIN Over(Only(n, row), y) = {n} \union DOMAIN y /\ Over(Only(n, row), y)[n] = row
      BY <3>1, RowOver
    <3> QED
      BY <2>2, <3>2, <3>3
  <2>15. \A f \in DOMAIN y : f # n => w[f] = y[f]
    <3> SUFFICES ASSUME NEW f \in DOMAIN y, f # n PROVE Over(Only(n, row), y)[f] = y[f]
      BY <2>2
    <3>1. f \notin DOMAIN Only(n, row)
      BY DEF Only
    <3> QED
      BY <3>1 DEF Over
  <2>16. There(v) = There(C) /\ v \in [Cards -> Row \union {NoCard}]
    <3>1. There(Over(w, C)) = There(C) \union DOMAIN w /\ Over(w, C) \in [Cards -> Row \union {NoCard}]
      BY <1>4, <2>14, OverCards
    <3> QED
      BY <1>4, <2>3, <2>12, <2>14, <3>1
  <2>17. \A f \in There(C) : v[f].col = View(r)[f].col /\ v[f].live = View(r)[f].live
    <3>1. \A f \in Cards : Over(w, C)[f] = IF f \in DOMAIN w THEN w[f] ELSE C[f]
      BY <1>4, <2>14, OverCards
    <3>2. \A f \in Cards : Over(y, C)[f] = IF f \in DOMAIN y THEN y[f] ELSE C[f]
      BY <1>4, OverCards
    <3>3. There(C) \subseteq Cards
      BY DEF There
    <3> QED
      BY <2>3, <2>10, <2>13, <2>14, <2>15, <3>1, <3>2, <3>3
  <2>18. \A c : In(v, c) = In(View(r), c)
    BY <2>10, <2>16, <2>17 DEF In
  <2>19. Done(x) = Done(a)
    BY <2>3, <2>5 DEF Done
  <2>20. \A f \in DOMAIN w : f = x.card \/ \E c \in Done(x) : f \in In(v, c)
    <3>1. \A f \in DOMAIN y \union DOMAIN a.todo : f = a.card \/ \E c \in Done(a) : f \in In(View(r), c)
      BY <2>9, <2>10 DEF Numbers
    <3> QED
      BY <2>1, <2>5, <2>14, <2>18, <2>19, <3>1
  <2>21. Over(o, v) = v
    BY <2>3, <2>16, OverNothing
  <2>22. v[x.card].col = x.to /\ \A c \in Done(x) : Numbered(x, v, c)
    BY <2>9, <2>21 DEF Entered, Numbers
  <2>23. d \notin DOMAIN w /\ e \notin DOMAIN w
    <3>1. AllNumbered(x, v) /\ Covered(x, v, w) /\ Tied(v, d, e)
      BY <1>2, <2>20, <2>22 DEF AllNumbered, Covered
    <3>2. x.do = "update" /\ x.turn \in {x.to, x.from} /\ x.todo = Nothing /\ v[x.card].col = x.to
      BY <2>5, <2>11, <2>22
    <3> QED
      BY <3>1, <3>2, NumberedRows
  <2>24. \A f \in There(C) : f \notin DOMAIN w => v[f] = C[f]
    <3>1. \A f \in Cards : Over(w, C)[f] = IF f \in DOMAIN w THEN w[f] ELSE C[f]
      BY <1>4, <2>14, OverCards
    <3> QED
      BY <2>3, <3>1 DEF There
  <2> QED
    BY <1>2, <2>16, <2>23, <2>24 DEF Tied
<1>10. CASE Commit(r)
  <2>1. a.do = "commit" /\ v = Over(y, C) /\ x = Idle
    BY <1>2, <1>3, <1>4, <1>10 DEF Commit, Publish
  <2>2. Follows(a, y, C)
    BY <1>4, <1>6, <2>1 DEF Stands
  <2>3. /\ a.card \in There(C) /\ a.todo = Nothing /\ a.turn \in {a.to, a.from} /\ a.kind \in {"move", "edit"}
    BY <1>4, <2>1, JobIs DEF Serves
  <2>4. /\ There(v) = There(C) /\ \A f \in There(C) : f \notin DOMAIN y => v[f] = C[f]
        /\ \A f \in DOMAIN y : v[f] = y[f]
    <3>1. /\ There(Over(y, C)) = There(C) \union DOMAIN y
          /\ \A f \in Cards : Over(y, C)[f] = IF f \in DOMAIN y THEN y[f] ELSE C[f]
      BY <1>4, OverCards
    <3>2. There(C) \subseteq Cards
      BY DEF There
    <3> QED
      BY <1>4, <2>1, <3>1, <3>2
  <2>5. CASE Resequences(a)
    <3>1. Entered(a, y, C) /\ Numbers(a, y, C)
      BY <2>2, <2>5 DEF Follows
    <3>2. /\ v[a.card].col = a.to /\ \A c \in Done(a) : Numbered(a, v, c)
          /\ \A f \in DOMAIN y : f = a.card \/ \E c \in Done(a) : f \in In(v, c)
      BY <2>1, <3>1 DEF Entered, Numbers
    <3>3. d \notin DOMAIN y /\ e \notin DOMAIN y
      <4>1. AllNumbered(a, v) /\ Covered(a, v, y) /\ Tied(v, d, e)
        BY <1>2, <3>2 DEF AllNumbered, Covered
      <4> QED
        BY <2>1, <2>3, <3>2, <4>1, NumberedRows
    <3> QED
      BY <1>2, <2>4, <3>3 DEF Tied
  <2>6. CASE ~Resequences(a)
    <3>1. \A f \in DOMAIN y : f = a.card /\ y[f].col = C[f].col /\ y[f].order = C[f].order
      BY <2>1, <2>2, <2>3, <2>6 DEF Follows, Resequences
    <3>2. \A f \in There(C) : v[f].col = C[f].col /\ v[f].order = C[f].order
      BY <2>4, <3>1
    <3>3. \A f \in {d, e} : f \in There(C) /\ C[f].live
      BY <1>2, <1>4, <2>4, ThereIs, RowIs DEF Tied, Back
    <3> QED
      BY <1>2, <2>4, <3>2, <3>3 DEF Tied
  <2> QED
    BY <2>5, <2>6
<1>11. CASE Receive(r)
  BY <1>2, <1>5, <1>11 DEF Receive, Move, Edit, Create, Arrive
<1>12. CASE AppendToEnd(r) \/ Number(r) \/ Updated(r)
  <2>1. Still
    BY <1>12 DEF AppendToEnd, Number, Updated
  <2> QED
    BY <1>2, <1>5, <2>1 DEF Still
<1>13. CASE Dies(r)
  BY <1>2, <1>5, <1>13 DEF Dies
<1> QED
  BY <1>1, <1>2, <1>5, <1>7, <1>8, <1>9, <1>10, <1>11, <1>12, <1>13 DEF Work

-----------------------------------------------------------------------------
(***************************************************************************)
(* III. The theorems about the boards.                                     *)
(***************************************************************************)
(* A behaviour of the two scenes is one of the boards and one of the       *)
(* assessments: each component promises there what it promises alone.      *)
THEOREM ScenesAreBoards == TeamworkSpec => Spec /\ Forms!Spec
<1>1. TeamworkInit => Init /\ Forms!Init
  BY DEF TeamworkInit
<1>2. [TeamworkNext]_<<scene, vars, formVars>> => [Next]_vars /\ [Forms!Next]_(Forms!vars)
  <2> SUFFICES ASSUME [TeamworkNext]_<<scene, vars, formVars>>
               PROVE  [Next]_vars /\ [Forms!Next]_(Forms!vars)
    OBVIOUS
  <2>1. UNCHANGED formVars => UNCHANGED Forms!vars
    BY DEF formVars, Forms!vars
  <2>2. CASE UNCHANGED <<scene, vars, formVars>>
    BY <2>1, <2>2
  <2>3. CASE TeamworkNext
    BY <2>1, <2>3 DEF TeamworkNext
  <2> QED
    BY <2>2, <2>3
<1> QED
  BY <1>1, <1>2, PTL DEF TeamworkSpec, Spec, Forms!Spec

(* The inductive invariant: what is written stays where it was, what was   *)
(* read stands until another writes, and what a request has numbered so    *)
(* far has each number once.                                               *)
THEOREM BoardInvariant == Spec => []IInv
BY BoardStart, BoardStep, PTL DEF Spec

(* With no settings request under way, and none that overlapped another or *)
(* died, the rows of the pipelines follow the templates                    *)
(* (sync_tenant_pipelines, for any number of templates and requests).      *)
THEOREM PipelinesAlwaysFollow == Spec => []PipelinesFollow
<1>1. IInv => PipelinesFollow
  BY DEF IInv, TypeOK, PipelineTypeOK, CopiesInOrder, PipelinesFollow, AdminBusy
<1> QED
  BY <1>1, BoardInvariant, PTL

(* Renumbering a column (_resequence_stage) writes rows it read before, but*)
(* no card changes column, or leaves the board, by it.                     *)
THEOREM CardsMoveByRequest == Spec => OnlyItsOwnRequests
<1>1. IInv /\ [Next]_vars => [OwnRequests]_vars
  BY IInvIs, OwnStep
<1> QED
  BY <1>1, BoardInvariant, PTL DEF Spec, OnlyItsOwnRequests, OwnRequests

(* A pipeline with deals is retired (sync_tenant_pipelines), or a retired  *)
(* one is given a deal (deal_create, deal_edit), only by a request that had*)
(* not seen what another one wrote.                                        *)
THEOREM HidingIsARace == Spec => HidingNeedsARace
<1>1. IInv /\ [Next]_vars => [RaceHides]_vars
  BY HideStep
<1> QED
  BY <1>1, BoardInvariant, PTL DEF Spec, HidingNeedsARace, RaceHides

(* Appending and renumbering (_append_deal_to_stage_end, _resequence_stage)*)
(* give two cards of a column one number only in a request another one wrote*)
(* ahead of; else it is an edit that puts an archived card back.           *)
THEOREM TiesAlwaysHaveACause == Spec => TiesHaveACause
<1> DEFINE Caused == \A p \in Ties(cards') \ Ties(cards) :
             \/ \E r \in Requests : Busy(r) /\ req'[r] # req[r] /\ late[r]
             \/ \E i \in 1 .. 2 : p[i] \in There(cards) /\ ~cards[p[i]].live
<1>1. IInv /\ [Next]_vars => [Caused]_vars
  <2> SUFFICES ASSUME IInv, Next, NEW p \in Ties(cards') \ Ties(cards)
               PROVE  \/ \E r \in Requests : Busy(r) /\ req'[r] # req[r] /\ late[r]
                      \/ \E i \in 1 .. 2 : p[i] \in There(cards) /\ ~cards[p[i]].live
    BY DEF Caused
  <2>1. Tied(cards', p[1], p[2]) /\ ~Tied(cards, p[1], p[2])
    <3>1. p \in There(cards') \X There(cards') /\ Tied(cards', p[1], p[2])
      BY DEF Ties, Tied
    <3>2. Tied(cards, p[1], p[2]) => p \in Ties(cards)
      <4> SUFFICES ASSUME Tied(cards, p[1], p[2]) PROVE p \in Ties(cards)
        OBVIOUS
      <4>1. p = <<p[1], p[2]>>
        BY <3>1
      <4> QED
        BY <4>1 DEF Ties, Tied
    <3> QED
      BY <3>1, <3>2
  <2>2. \/ \E r \in Requests : Busy(r) /\ req'[r] # req[r] /\ late[r]
        \/ Back(p[1]) \/ Back(p[2])
    BY <2>1, TieStep
  <2> QED
    BY <2>2 DEF Back
<1> QED
  BY <1>1, BoardInvariant, PTL DEF Spec, TiesHaveACause

(* A move (deal_move, collection_move) nobody wrote ahead of lands where it*)
(* was dropped, and leaves both columns numbered without gaps.             *)
THEOREM MovesAlwaysLand == Spec => MovesLand
<1> DEFINE Lands == \A r \in Requests :
      (Commit(r) /\ req[r].kind = "move" /\ ~late[r] /\ cards[req[r].card].live) => MoveLands(r)
<1>1. IInv /\ [Next]_vars => [Lands]_vars
  BY MoveStep
<1>2. Spec => [][Lands]_vars
  BY <1>1, BoardInvariant, PTL DEF Spec
<1> QED
  BY <1>2, PTL DEF MovesLand, MoveLands

-----------------------------------------------------------------------------
(***************************************************************************)
(* IV. The assessments.  The answers left fit the score, and what was      *)
(* completed is closed to the client.                                      *)
(***************************************************************************)
(* What the client or the team posted, without the blanks.                 *)
LEMMA KeptAreRatings ==
  ASSUME NEW form \in Forms!Form
  PROVE  /\ Forms!Answered(form) \subseteq Questions
         /\ Forms!Kept(form) \in Forms!Scores
         /\ DOMAIN Forms!Kept(form) = Forms!Answered(form)
         /\ \A q \in Forms!Answered(form) : Forms!Kept(form)[q] = form[q]
<1>1. Forms!Answered(form) \subseteq Questions /\ \A q \in Forms!Answered(form) : form[q] \in Ratings
  BY DEF Forms!Answered, Forms!Form
<1>2. Forms!Kept(form) \in [Forms!Answered(form) -> Ratings]
  BY <1>1 DEF Forms!Kept
<1> QED
  BY <1>1, <1>2 DEF Forms!Scores, Forms!Kept

(* What a transaction with all its answers written leaves.                 *)
LEMMA AllHeld ==
  ASSUME Forms!TypeOK, Forms!HeldFits, NEW r \in Answerers, Forms!Busy(r), asks[r].left = {}
  PROVE  /\ asks[r].form \in Forms!Form /\ held[r] = asks[r].form
         /\ Forms!Over(held[r], answers) \in Forms!Form
         /\ \A q \in Forms!Answered(asks[r].form) : Forms!Over(held[r], answers)[q] = asks[r].form[q]
<1>1. asks[r].form \in Forms!Form /\ answers \in Forms!Form
  BY DEF Forms!TypeOK, Forms!Answering
<1>2. held[r] = asks[r].form
  <2>1. held[r] \in Forms!Form /\ \A q \in Questions : held[r][q] = asks[r].form[q]
    BY DEF Forms!TypeOK, Forms!HeldFits
  <2>2. held[r] = [q \in Questions |-> held[r][q]] /\ asks[r].form = [q \in Questions |-> asks[r].form[q]]
    BY <1>1, <2>1 DEF Forms!Form
  <2>3. [q \in Questions |-> held[r][q]] = [q \in Questions |-> asks[r].form[q]]
    BY <2>1
  <2> QED
    BY <2>2, <2>3
<1> QED
  BY <1>1, <1>2 DEF Forms!Over, Forms!Form, Forms!Answered

LEMMA FormsInit == Forms!Init => Forms!IInv
<1> SUFFICES ASSUME Forms!Init PROVE Forms!IInv
  OBVIOUS
<1>1. Forms!NoForm \in Forms!Form /\ Forms!Kept(Forms!NoForm) \in Forms!Scores /\ Forms!Answered(Forms!NoForm) = {}
  <2>1. Forms!NoForm \in Forms!Form
    BY DEF Forms!NoForm, Forms!Form
  <2> QED
    BY <2>1, KeptAreRatings DEF Forms!NoForm, Forms!Answered
<1>2. Forms!TypeOK
  <2>1. sub.score = Forms!Kept(Forms!NoForm) /\ sub \in [status : Forms!States, submitted : BOOLEAN,
                                     by : {"nobody", "team", "client"}, score : Forms!Scores]
    BY <1>1 DEF Forms!Init, Forms!States
  <2>2. sub.status # "completed"
    BY DEF Forms!Init
  <2>3. Forms!Idle \in Forms!Answering
    BY <1>1 DEF Forms!Idle, Forms!Answering
  <2>4. last \in [form : Forms!Form, seen : Nat]
    BY <1>1, TeamworkAssumption DEF Forms!Init
  <2>5. asks \in [Answerers -> Forms!Answering] /\ held \in [Answerers -> Forms!Form]
    BY <1>1, <2>3 DEF Forms!Init
  <2>6. answers \in Forms!Form /\ saves \in Nat /\ closedBy \in Nat /\ visits \in 0 .. MaxVisits
    BY <1>1, TeamworkAssumption DEF Forms!Init
  <2>7. expired \in BOOLEAN
    BY Zenon DEF Forms!Init
  <2> QED
    BY <2>1, <2>2, <2>4, <2>5, <2>6, <2>7 DEF Forms!TypeOK
<1>3. Forms!HeldFits /\ Forms!LoadsInOrder
  <2>1. \A r \in Answerers : ~Forms!Busy(r) /\ held[r] = Forms!NoForm
    BY DEF Forms!Init, Forms!Idle, Forms!Busy
  <2> QED
    BY <2>1 DEF Forms!HeldFits, Forms!LoadsInOrder, Forms!NoForm
<1>4. Forms!ScoreFitsAnswers
  <2>1. DOMAIN Forms!Kept(Forms!NoForm) = {}
    BY <1>1, KeptAreRatings
  <2> QED
    BY <2>1 DEF Forms!Init, Forms!ScoreFitsAnswers
<1> QED
  BY <1>2, <1>3, <1>4 DEF Forms!IInv

(* Every step keeps the types, what transactions hold, and what they know. *)
LEMMA FormsStep ==
  ASSUME Forms!IInv, [Forms!Next]_(Forms!vars)
  PROVE  Forms!IInv'
<1> USE DEF Forms!IInv
<1>0. asks \in [Answerers -> Forms!Answering] /\ held \in [Answerers -> Forms!Form] /\ saves \in Nat /\ closedBy \in Nat
  BY DEF Forms!TypeOK
<1>1. CASE UNCHANGED Forms!vars
  BY <1>1 DEF Forms!vars, Forms!TypeOK, Forms!HeldFits, Forms!LoadsInOrder, Forms!ScoreFitsAnswers, Forms!Busy
<1>2. ASSUME NEW r \in Answerers, NEW who \in {"team", "client"}, NEW form \in Forms!Form,
             NEW final \in BOOLEAN, Forms!Arrive(r, who, form, final),
             who = "client" => final /\ sub.status # "completed", UNCHANGED expired
      PROVE  Forms!IInv'
  <2> DEFINE new == [do |-> "answers", who |-> who, form |-> form, final |-> final,
                     at |-> sub.submitted, left |-> Forms!Answered(form), seen |-> saves]
  <2>1. new \in Forms!Answering
    BY <1>0, KeptAreRatings DEF Forms!Answering, Forms!TypeOK
  <2>2. asks' = [asks EXCEPT ![r] = new] /\ visits' = visits + 1 /\ visits < MaxVisits
        /\ UNCHANGED <<sub, answers, expired, held, last, saves, closedBy>>
    BY <1>2 DEF Forms!Arrive
  <2> HIDE DEF new
  <2>3. Forms!TypeOK'
    BY <2>1, <2>2, TeamworkAssumption DEF Forms!TypeOK
  <2>4. Forms!HeldFits'
    <3>1. \A q \in Questions : held[r][q] = Blank
      BY <1>2 DEF Forms!Arrive, Forms!HeldFits, Forms!Busy
    <3>2. \A q \in Questions : held[r][q] = IF q \notin Forms!Answered(form) THEN form[q] ELSE Blank
      BY <3>1 DEF Forms!Answered
    <3>3. \A s \in Answerers \ {r} : asks'[s] = asks[s]
      BY <2>2
    <3>4. asks'[r].do = "answers" /\ asks'[r].form = form /\ asks'[r].left = Forms!Answered(form)
      BY <1>0, <2>2 DEF new
    <3>5. ASSUME NEW s \in Answerers \ {r}, NEW q \in Questions
          PROVE  held'[s][q] = IF asks'[s].do # "idle" /\ q \notin asks'[s].left THEN asks'[s].form[q] ELSE Blank
      BY <2>2, <3>3 DEF Forms!HeldFits, Forms!Busy
    <3>6. \A q \in Questions :
            held'[r][q] = IF asks'[r].do # "idle" /\ q \notin asks'[r].left THEN asks'[r].form[q] ELSE Blank
      BY <2>2, <3>2, <3>4
    <3> QED
      BY <3>5, <3>6 DEF Forms!HeldFits, Forms!Busy
  <2>5. Forms!LoadsInOrder'
    <3>1. asks'[r] = new /\ \A s \in Answerers \ {r} : asks'[s] = asks[s]
      BY <1>0, <2>2
    <3> QED
      BY <1>0, <1>2, <2>2, <3>1 DEF Forms!LoadsInOrder, Forms!Busy, new
  <2> QED
    BY <2>2, <2>3, <2>4, <2>5 DEF Forms!ScoreFitsAnswers
<1>3. ASSUME NEW r \in Answerers, Forms!WriteAnswer(r) PROVE Forms!IInv'
  <2>1. PICK q \in asks[r].left :
          /\ held' = [held EXCEPT ![r] = [@ EXCEPT ![q] = asks[r].form[q]]]
          /\ asks' = [asks EXCEPT ![r].left = @ \ {q}]
    BY <1>3 DEF Forms!WriteAnswer
  <2>2. /\ UNCHANGED <<sub, answers, expired, last, saves, closedBy, visits>>
        /\ asks[r].do = "answers" /\ q \in Questions /\ asks[r].form \in Forms!Form /\ asks[r] \in Forms!Answering
    BY <1>0, <1>3, <2>1 DEF Forms!WriteAnswer, Forms!Answering
  <2>3. /\ \A s \in Answerers \ {r} : asks'[s] = asks[s] /\ held'[s] = held[s]
        /\ asks'[r] = [asks[r] EXCEPT !.left = @ \ {q}]
        /\ held'[r] = [held[r] EXCEPT ![q] = asks[r].form[q]]
    BY <1>0, <2>1
  <2>4. /\ asks'[r].do = "answers" /\ asks'[r].form = asks[r].form /\ asks'[r].left = asks[r].left \ {q}
        /\ asks'[r].seen = asks[r].seen /\ asks'[r].at = asks[r].at /\ asks'[r].who = asks[r].who
        /\ asks'[r].final = asks[r].final /\ asks'[r] \in Forms!Answering
    BY <2>2, <2>3 DEF Forms!Answering
  <2>5. held'[r] \in Forms!Form
    BY <1>0, <2>2, <2>3 DEF Forms!Form
  <2>6. Forms!TypeOK'
    <3>1. asks' \in [Answerers -> Forms!Answering] /\ held' \in [Answerers -> Forms!Form]
      BY <1>0, <2>1, <2>3, <2>4, <2>5
    <3> QED
      BY <2>2, <3>1 DEF Forms!TypeOK
  <2>7. Forms!HeldFits'
    <3>1. \A p \in Questions : held[r][p] = IF p \notin asks[r].left THEN asks[r].form[p] ELSE Blank
      BY <2>2 DEF Forms!HeldFits, Forms!Busy
    <3>0. held[r] \in Forms!Form
      BY <1>0
    <3>2. \A p \in Questions : held'[r][p] = IF p \notin asks'[r].left THEN asks'[r].form[p] ELSE Blank
      BY <2>2, <2>3, <2>4, <3>0, <3>1 DEF Forms!Form
    <3>3. ASSUME NEW s \in Answerers \ {r}, NEW p \in Questions
          PROVE  held'[s][p] = IF asks'[s].do # "idle" /\ p \notin asks'[s].left THEN asks'[s].form[p] ELSE Blank
      BY <2>3 DEF Forms!HeldFits, Forms!Busy
    <3>4. \A p \in Questions :
            held'[r][p] = IF asks'[r].do # "idle" /\ p \notin asks'[r].left THEN asks'[r].form[p] ELSE Blank
      BY <2>4, <3>2
    <3> QED
      BY <3>3, <3>4 DEF Forms!HeldFits, Forms!Busy
  <2>8. Forms!LoadsInOrder'
    <3> SUFFICES ASSUME NEW s \in Answerers, asks'[s].do # "idle"
                 PROVE  /\ asks'[s].seen <= saves
                        /\ asks'[s].seen = saves => asks'[s].at = sub.submitted
                        /\ asks'[s].who = "client" => asks'[s].final
                        /\ sub.status = "completed" /\ asks'[s].who = "client" => asks'[s].seen < closedBy
      BY <2>2 DEF Forms!LoadsInOrder, Forms!Busy
    <3>1. asks[s].do # "idle"
      BY <2>2, <2>3
    <3>2. /\ asks'[s].seen = asks[s].seen /\ asks'[s].at = asks[s].at
          /\ asks'[s].who = asks[s].who /\ asks'[s].final = asks[s].final
      BY <2>3, <2>4
    <3> QED
      BY <3>1, <3>2 DEF Forms!LoadsInOrder, Forms!Busy
  <2> QED
    BY <2>2, <2>6, <2>7, <2>8 DEF Forms!ScoreFitsAnswers
<1>4. ASSUME NEW r \in Answerers, asks' = [asks EXCEPT ![r] = Forms!Idle], held' = [held EXCEPT ![r] = Forms!NoForm]
      PROVE  /\ asks' \in [Answerers -> Forms!Answering] /\ held' \in [Answerers -> Forms!Form]
             /\ Forms!HeldFits' /\ asks'[r].do = "idle" /\ \A s \in Answerers \ {r} : asks'[s] = asks[s]
  <2>1. Forms!Idle \in Forms!Answering /\ Forms!NoForm \in Forms!Form /\ Forms!Idle.do = "idle"
    BY DEF Forms!Idle, Forms!Answering, Forms!NoForm, Forms!Form
  <2>2. asks' \in [Answerers -> Forms!Answering] /\ held' \in [Answerers -> Forms!Form]
    BY <1>0, <1>4, <2>1
  <2>3. /\ asks'[r].do = "idle" /\ held'[r] = Forms!NoForm
        /\ \A s \in Answerers \ {r} : asks'[s] = asks[s] /\ held'[s] = held[s]
    BY <1>0, <1>4, <2>1
  <2> QED
    BY <2>2, <2>3 DEF Forms!HeldFits, Forms!Busy, Forms!NoForm
<1>5. ASSUME NEW r \in Answerers, Forms!SaveSubmission(r) PROVE Forms!IInv'
  <2>1. /\ asks[r].do = "answers" /\ Forms!Busy(r) /\ asks[r].left = {} /\ asks[r] \in Forms!Answering
        /\ asks[r].form \in Forms!Form
    BY <1>0, <1>5 DEF Forms!SaveSubmission, Forms!Busy, Forms!Answering
  <2>2. /\ answers' \in Forms!Form
        /\ \A q \in Forms!Answered(asks[r].form) : answers'[q] = asks[r].form[q]
    BY <1>5, <2>1, AllHeld DEF Forms!SaveSubmission
  <2>3. /\ asks' \in [Answerers -> Forms!Answering] /\ held' \in [Answerers -> Forms!Form]
        /\ Forms!HeldFits' /\ asks'[r].do = "idle" /\ \A s \in Answerers \ {r} : asks'[s] = asks[s]
    BY <1>4, <1>5 DEF Forms!SaveSubmission
  <2>4. /\ sub'.status = IF asks[r].final THEN "completed" ELSE "in_progress"
        /\ sub'.score = Forms!Kept(asks[r].form)
        /\ last'.form = asks[r].form /\ saves' = saves + 1
        /\ closedBy' = IF asks[r].final /\ sub.status # "completed" THEN saves + 1 ELSE closedBy
        /\ UNCHANGED <<expired, visits>>
    BY <1>5 DEF Forms!SaveSubmission
  <2>5. Forms!Kept(asks[r].form) \in Forms!Scores
    BY <2>1, KeptAreRatings
  <2>6. Forms!TypeOK'
    <3>1. (asks[r].final \/ asks[r].at) \in BOOLEAN
      OBVIOUS
    <3>2. sub' \in [status : Forms!States, submitted : BOOLEAN, by : {"nobody", "team", "client"}, score : Forms!Scores]
      BY <1>5, <2>1, <2>5, <3>1 DEF Forms!SaveSubmission, Forms!Answering, Forms!States
    <3>3. last' \in [form : Forms!Form, seen : Nat]
      BY <1>5, <2>1 DEF Forms!SaveSubmission, Forms!Answering
    <3>4. sub'.status = "completed" => sub'.submitted
      BY <1>5 DEF Forms!SaveSubmission
    <3>5. saves' \in Nat /\ closedBy' \in Nat
      BY <1>0, <2>4
    <3> QED
      BY <2>2, <2>3, <2>4, <3>2, <3>3, <3>4, <3>5 DEF Forms!TypeOK
  <2>7. Forms!LoadsInOrder'
    <3> SUFFICES ASSUME NEW s \in Answerers \ {r}, Forms!Busy(s)
                 PROVE  /\ asks'[s].seen <= saves'
                        /\ asks'[s].seen = saves' => asks'[s].at = sub'.submitted
                        /\ asks'[s].who = "client" => asks'[s].final
                        /\ sub'.status = "completed" /\ asks'[s].who = "client" => asks'[s].seen < closedBy'
      BY <2>3 DEF Forms!LoadsInOrder, Forms!Busy
    <3>1. asks[s] \in Forms!Answering /\ asks'[s] = asks[s]
      BY <1>0, <2>3
    <3>2. asks[s].seen \in Nat /\ asks[s].seen <= saves
      BY <3>1 DEF Forms!LoadsInOrder, Forms!Answering
    <3>3. sub'.status = "completed" /\ asks[s].who = "client" => asks[s].seen < closedBy'
      BY <1>0, <2>4, <3>2 DEF Forms!LoadsInOrder
    <3>4. asks[s].who = "client" => asks[s].final
      BY DEF Forms!LoadsInOrder
    <3> QED
      BY <1>0, <2>4, <3>1, <3>2, <3>3, <3>4
  <2>8. Forms!ScoreFitsAnswers'
    BY <2>1, <2>2, <2>4, KeptAreRatings DEF Forms!ScoreFitsAnswers
  <2> QED
    BY <2>3, <2>6, <2>7, <2>8
<1>6. ASSUME NEW r \in Answerers, Forms!Dies(r) PROVE Forms!IInv'
  <2>1. /\ asks' \in [Answerers -> Forms!Answering] /\ held' \in [Answerers -> Forms!Form]
        /\ Forms!HeldFits' /\ asks'[r].do = "idle" /\ \A s \in Answerers \ {r} : asks'[s] = asks[s]
    BY <1>4, <1>6 DEF Forms!Dies
  <2>2. UNCHANGED <<sub, answers, expired, last, saves, closedBy, visits>>
    BY <1>6 DEF Forms!Dies
  <2> QED
    BY <2>1, <2>2 DEF Forms!TypeOK, Forms!LoadsInOrder, Forms!Busy, Forms!ScoreFitsAnswers
<1>7. CASE Forms!Expire
  BY <1>7 DEF Forms!Expire, Forms!TypeOK, Forms!HeldFits, Forms!LoadsInOrder, Forms!ScoreFitsAnswers, Forms!Busy
<1>8. ASSUME NEW r \in Answerers, Forms!TeamAnswers(r) \/ Forms!ClientAnswers(r) PROVE Forms!IInv'
  <2>1. CASE Forms!TeamAnswers(r)
    <3>1. PICK form \in Forms!Form, final \in BOOLEAN : Forms!Arrive(r, "team", form, final)
      BY <2>1 DEF Forms!TeamAnswers
    <3> QED
      BY <1>2, <3>1 DEF Forms!Arrive
  <2>2. CASE Forms!ClientAnswers(r)
    <3>1. PICK form \in Forms!Form : Forms!Arrive(r, "client", form, TRUE)
      BY <2>2 DEF Forms!ClientAnswers
    <3>2. sub.status # "completed" /\ UNCHANGED expired
      BY <2>2, <3>1 DEF Forms!ClientAnswers, Forms!Arrive
    <3> QED
      BY <1>2, <3>1, <3>2
  <2> QED
    BY <1>8, <2>1, <2>2
<1> QED
  BY <1>1, <1>3, <1>5, <1>6, <1>7, <1>8 DEF Forms!Next

(* What transactions hold and know is an invariant.                        *)
THEOREM AnswersInvariant == Forms!Spec => []Forms!IInv
BY FormsInit, FormsStep, PTL DEF Forms!Spec

(* The answers stored fit the score (save_submission_answers), however     *)
(* many requests of the team and the client are served at a time.          *)
THEOREM ScoreAlwaysFits == TeamworkSpec => []ScoreFitsAnswers
<1>1. Forms!IInv => ScoreFitsAnswers
  BY DEF Forms!IInv, ScoreFitsAnswers
<1> QED
  BY <1>1, ScenesAreBoards, AnswersInvariant, PTL

(* A completed assessment is closed to the client                          *)
(* (assessment_public_response), but for a request that was under way, and *)
(* keeps its date but from a draft that was.                               *)
THEOREM CompletedStaysClosed == TeamworkSpec => CompletedIsClosed
<1> DEFINE Closed ==
      /\ sub.status = "completed" /\ sub' # sub =>
           \/ sub'.by = "client" /\ sub'.status = "completed" /\ last'.seen < closedBy
           \/ sub'.by = "team"
      /\ sub.submitted /\ ~sub'.submitted => last'.seen < saves
<1>1. Forms!IInv /\ [Forms!Next]_(Forms!vars) => [Closed]_(Forms!vars)
  <2> SUFFICES ASSUME Forms!IInv, Forms!Next PROVE Closed
    BY DEF Forms!vars
  <2>1. CASE UNCHANGED sub
    BY <2>1
  <2>2. ASSUME NEW r \in Answerers, Forms!SaveSubmission(r) PROVE Closed
    <3>1. /\ asks[r] \in Forms!Answering /\ Forms!Busy(r) /\ saves \in Nat
          /\ sub'.status = IF asks[r].final THEN "completed" ELSE "in_progress"
          /\ sub'.submitted = (asks[r].final \/ asks[r].at)
          /\ sub'.by = asks[r].who /\ last'.seen = asks[r].seen
      BY <2>2 DEF Forms!SaveSubmission, Forms!IInv, Forms!TypeOK, Forms!Busy
    <3>2. /\ asks[r].seen <= saves /\ (asks[r].seen = saves => asks[r].at = sub.submitted)
          /\ asks[r].who = "client" => asks[r].final
          /\ sub.status = "completed" /\ asks[r].who = "client" => asks[r].seen < closedBy
      BY <3>1 DEF Forms!IInv, Forms!LoadsInOrder
    <3> QED
      BY <3>1, <3>2 DEF Forms!Answering
  <2> QED
    BY <2>1, <2>2 DEF Forms!Next, Forms!Expire, Forms!TeamAnswers, Forms!ClientAnswers, Forms!Arrive, Forms!WriteAnswer, Forms!Dies
<1> QED
  BY <1>1, ScenesAreBoards, AnswersInvariant, PTL DEF Forms!Spec, CompletedIsClosed, Forms!CompletedIsClosed
=============================================================================
