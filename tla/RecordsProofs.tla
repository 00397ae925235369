--------------------------- MODULE RecordsProofs ---------------------------
(* The trails, the dates, the links and the keys of the rows that a team   *)
(* writes, for any rows, statuses and requests at the same time.           *)
EXTENDS Records, FiniteSetTheorems, WellFoundedInduction, TLAPS

(* A process that serves nobody, and a row that is not there, are typed.   *)
LEMMA IdleIsJob ==
  /\ NoRow \in Jobs /\ Absent \in AnyRow
  /\ NoRow.do = "idle" /\ NoRow.row = NoClient /\ NoRow.seen = 0 /\ NoRow.checked = 0
  /\ NoRow.old = Absent /\ NoRow.new = Absent /\ ~NoRow.tell /\ NoRow.file = {}
  /\ NoRow.from = "plain" /\ NoRow.to = "plain"
  /\ Absent.status = "plain" /\ ~Absent.there /\ ~Absent.sent /\ ~Absent.answered
  /\ Absent.links = {} /\ Absent.client = NoClient /\ Absent.keys = {}
  /\ NoRow.asked = {} /\ {} \in KeySets
BY RecordsAssumption DEF NoRow, Absent, Jobs, AnyRow, AnyStatus, Moments, KeySets

(* What a row that a form, a click or an import saves may be.              *)
LEMMA RowsAreRows ==
  ASSUME NEW x \in Rows, NEW v \in RowsOf(x) \cup {Absent}
  PROVE  /\ v \in AnyRow /\ v.status \in AnyStatus
         /\ v \in RowsOf(x) => v.there /\ v.status \in Statuses(x)
BY IdleIsJob DEF RowsOf, AnyRow, Rows, Linkable, Statuses, AnyStatus

(* A process that becomes q is q, and the others stay.                     *)
LEMMA Becoming ==
  ASSUME TypeOK, NEW r \in Requests, NEW q \in Jobs, req' = [req EXCEPT ![r] = q]
  PROVE  /\ req' \in [Requests -> Jobs]
         /\ \A p \in Requests : req'[p] = IF p = r THEN q ELSE req[p]
BY DEF TypeOK

Auditing == {r \in Requests : req[r].do = "audit"}

(* The requests that are named last are finitely many.                     *)
LEMMA AuditingIsFinite ==
  /\ IsFiniteSet(Auditing) /\ Cardinality(Auditing) \in Nat
  /\ IsFiniteSet(Auditing') /\ Cardinality(Auditing') \in Nat
<1>1. Auditing \subseteq Requests /\ Auditing' \subseteq Requests
  BY DEF Auditing
<1> QED
  BY <1>1, RecordsAssumption, FS_Subset, FS_CardinalityType

(* What the history tells and the audit does not name yet.                 *)
Told == {e.at : e \in history}
Unnamed == Told \ audit
Agreeing == audit \subseteq Told /\ Cardinality(Unnamed) <= deaths + Cardinality(Auditing)

LEMMA TrailsMean ==
  /\ TrailsAgree <=> Agreeing
  /\ TrailsAgree' <=> Agreeing'
BY DEF TrailsAgree, Agreeing, Unnamed, Told, Auditing

LEMMA UnnamedIsFinite ==
  ASSUME TypeOK
  PROVE  IsFiniteSet(Unnamed) /\ Cardinality(Unnamed) \in Nat
<1>1. Unnamed \subseteq 0 .. MaxSaves
  BY DEF TypeOK, Unnamed, Told, Moments
<1>2. IsFiniteSet(0 .. MaxSaves)
  BY RecordsAssumption, FS_Interval
<1> QED
  BY <1>1, <1>2, FS_Subset, FS_CardinalityType

(* A request that tells nothing takes a step.                              *)
TypedBut(r, q) ==
  /\ q \in Jobs /\ (q.do = "idle" => q = NoRow)
  /\ req' = [req EXCEPT ![r] = q]

Quiet(r, q) ==
  /\ TypedBut(r, q) /\ Fits(q)
  /\ q.do \notin {"tell", "audit"} /\ req[r].do # "tell"
  /\ UNCHANGED <<row, saves>> /\ UNCHANGED trail /\ UNCHANGED ghosts
  /\ deaths' \in 0 .. MaxDeaths
  /\ \/ deaths' = deaths + 1
     \/ req[r].do # "audit" /\ deaths' = deaths

LEMMA QuietKeepsReports ==
  ASSUME TypeOK, NEW r \in Requests, NEW q, TypedBut(r, q),
         UNCHANGED <<row, saves, history, lost>>,
         q.do # "tell", req[r].do # "tell", ReportsTell
  PROVE  ReportsTell'
<1>1. \A p \in Requests : req'[p] = IF p = r THEN q ELSE req[p]
  BY Becoming DEF TypedBut
<1>2. ASSUME NEW x PROVE Reports(x)' = Reports(x)
  BY <1>1 DEF Reports, EventsOf
<1>3. ASSUME NEW x, NEW a, NEW b PROVE Slipped(x, a, b)' <=> Slipped(x, a, b)
  BY DEF Slipped
<1>4. Now' = Now
  BY DEF Now
<1> QED
  BY <1>2, <1>3, <1>4 DEF ReportsTell

LEMMA QuietKeepsIInv ==
  ASSUME IInv, NEW r \in Requests, NEW q, Quiet(r, q)
  PROVE  IInv'
<1>0. TypeOK
  BY DEF IInv, DatesFitStatus
<1>1. \A p \in Requests : req'[p] = IF p = r THEN q ELSE req[p]
  BY <1>0, Becoming DEF Quiet, TypedBut
<1>2. Now' = Now /\ UNCHANGED <<row, saves, history, audit, lost, checked, rehomed, keyed, unasked>>
  BY DEF Quiet, Now, trail, ghosts
<1>3. TypeOK'
  <2>1. req' \in [Requests -> Jobs]
    BY <1>0, Becoming DEF Quiet, TypedBut
  <2>2. \A p \in Requests : Idle(p)' => req'[p] = NoRow
    BY <1>0, <1>1 DEF Idle, TypeOK, Quiet, TypedBut
  <2> QED
    BY <1>0, <1>2, <2>1, <2>2 DEF TypeOK, Quiet
<1>4. DatesFitStatus'
  BY <1>2, <1>3 DEF IInv, DatesFitStatus
<1>5. RequestsFit'
  <2>1. \A p \in Requests : Fits(req'[p])
    BY <1>1 DEF IInv, RequestsFit, Quiet
  <2> QED
    BY <1>2, <2>1 DEF RequestsFit, Fits, Holds, LoadStands, LoadIsDated, CheckStands, LookStands,
                      SavedSince, Excused, Raced
<1>6. MomentsPass'
  BY <1>2 DEF IInv, MomentsPass
<1>7. ReportsTell'
  BY <1>0, <1>2, QuietKeepsReports DEF IInv, Quiet
<1>8. LinksAgree' /\ TwinsNeedARace'
  BY <1>2 DEF IInv, LinksAgree, TwinsNeedARace, Excused, Raced
<1>9. TellersDiffer'
  BY <1>1, <1>2 DEF IInv, TellersDiffer, Quiet
<1>10. TrailsAgree'
  <2>3. Agreeing /\ audit' = audit /\ Told' = Told /\ Unnamed' = Unnamed
    BY <1>2, TrailsMean DEF IInv, Unnamed, Told
  <2>1. CASE req[r].do = "audit"
    <3>1. Auditing' = Auditing \ {r} /\ r \in Auditing
      BY <1>1, <2>1 DEF Auditing, Quiet
    <3>2. Cardinality(Auditing') = Cardinality(Auditing) - 1
      BY <3>1, AuditingIsFinite, FS_RemoveElement
    <3>3. deaths' = deaths + 1 /\ deaths \in Nat
      BY <1>0, <2>1 DEF Quiet, TypeOK
    <3>4. deaths' + Cardinality(Auditing') = deaths + Cardinality(Auditing)
      BY <3>2, <3>3, AuditingIsFinite
    <3> QED
      BY <1>0, <2>3, <3>4, UnnamedIsFinite, TrailsMean DEF Agreeing
  <2>2. CASE req[r].do # "audit"
    <3>1. Auditing' = Auditing
      BY <1>1, <2>2 DEF Auditing, Quiet
    <3>2. deaths' >= deaths /\ deaths \in Nat /\ deaths' \in Nat
      BY <1>0, <2>2 DEF Quiet, TypeOK
    <3> QED
      BY <1>0, <2>3, <3>1, <3>2, AuditingIsFinite, UnnamedIsFinite, TrailsMean DEF Agreeing
  <2> QED
    BY <2>1, <2>2
<1> QED
  BY <1>4, <1>5, <1>6, <1>7, <1>8, <1>9, <1>10 DEF IInv

-----------------------------------------------------------------------------
(* What a form links to is of one client, which is the row's.              *)
LEMMA OwnersAreOne ==
  ASSUME TypeOK, NEW f, f.client \in Clients \cup {NoClient},
         f.links \subseteq Deals \cup Proposals, Cardinality(Owners(f)) <= 1
  PROVE  /\ Owner(f) \in Clients \cup {NoClient}
         /\ \A l \in f.links : row[l].client = Owner(f)
<1> DEFINE T == {row[l].client : l \in f.links}
           g == [l \in f.links |-> row[l].client]
<1>1. IsFiniteSet(f.links)
  <2>1. IsFiniteSet(Deals \cup Proposals)
    BY RecordsAssumption, FS_Union
  <2> QED
    BY <2>1, FS_Subset
<1>2. g \in Surjection(f.links, T)
  BY DEF Surjection
<1> HIDE DEF g, T
<1>3. IsFiniteSet(T)
  BY <1>1, <1>2, FS_Surjection
<1>4. Owners(f) = T \cup ({f.client} \ {NoClient})
  BY DEF Owners, T
<1>5. IsFiniteSet({f.client} \ {NoClient})
  BY FS_Singleton, FS_RemoveElement
<1>6. IsFiniteSet(Owners(f))
  BY <1>3, <1>4, <1>5, FS_Union
<1>7. Cardinality(Owners(f)) \in {0, 1}
  BY <1>6, FS_CardinalityType
<1>8. \A a, b \in Owners(f) : a = b
  <2>1. CASE Cardinality(Owners(f)) = 0
    BY <1>6, <2>1, FS_EmptySet
  <2>2. CASE Cardinality(Owners(f)) = 1
    BY <1>6, <2>2, FS_Singleton
  <2> QED
    BY <1>7, <2>1, <2>2
<1>9. Owners(f) # {} => Owner(f) \in Owners(f)
  BY DEF Owner
<1>10. \A l \in f.links : row[l].client \in Owners(f) /\ l \in Rows
  BY <1>4 DEF T, Rows
<1>11. Owners(f) \subseteq Clients \cup {NoClient}
  BY <1>4, <1>10 DEF T, TypeOK, AnyRow
<1> QED
  BY <1>8, <1>9, <1>10, <1>11 DEF Owner

(* The row a form makes of the one it loaded.                              *)
LEMMA FilledRow ==
  ASSUME NEW x \in Rows, NEW f, NEW old \in AnyRow,
         f.links \subseteq Linkable(x), f.status \in Statuses(x), f.live \in BOOLEAN,
         f.keys \in IF x \in Clients THEN KeySets ELSE {{}},
         Owner(f) \in Clients \cup {NoClient}
  PROVE  /\ Filled(old, f) \in RowsOf(x)
         /\ Filled(old, f).status = f.status /\ Filled(old, f).links = f.links
         /\ Filled(old, f).client = Owner(f) /\ Filled(old, f).keys = f.keys
         /\ (old.status = "draft" => ~old.answered) => Dated(Filled(old, f))
<1> DEFINE sent == old.sent \/ f.status = "sent"
           answered == \/ f.status \in Answers
                       \/ old.answered /\ (f.status = "draft" => old.status = "draft")
<1>1. Filled(old, f) = [there |-> TRUE, live |-> f.live, client |-> Owner(f),
                        links |-> f.links, status |-> f.status, sent |-> sent,
                        answered |-> answered, keys |-> f.keys]
  BY DEF Filled
<1>2. sent \in BOOLEAN /\ answered \in BOOLEAN
  BY DEF AnyRow
<1>3. (old.status = "draft" => ~old.answered) =>
        /\ f.status = "sent" => sent
        /\ f.status \in Answers => answered
        /\ f.status = "draft" => ~answered
  BY RecordsAssumption DEF AnyRow
<1> HIDE DEF sent, answered
<1> QED
  BY <1>1, <1>2, <1>3 DEF RowsOf, Dated

(* Requests that load, check or look, or die, save and tell nothing.       *)
LEMMA QuietDo ==
  ASSUME IInv, NEW r \in Requests, NEW q \in Jobs, req' = [req EXCEPT ![r] = q],
         Fits(q), q.do \notin {"idle", "tell", "audit"}, req[r].do \notin {"tell", "audit"},
         UNCHANGED <<row, saves, deaths>>, UNCHANGED trail, UNCHANGED ghosts
  PROVE  IInv'
BY QuietKeepsIInv DEF Quiet, TypedBut, IInv, DatesFitStatus, TypeOK

(* What an old row says of its dates.                                      *)
LEMMA RowIsDated ==
  ASSUME IInv, NEW x \in Rows
  PROVE  /\ row[x] \in AnyRow /\ row[x] \in RowsOf(x) \cup {Absent}
         /\ x \in Proposals /\ row[x].status = "draft" => ~row[x].answered
<1>1. row[x] \in AnyRow /\ row[x] \in RowsOf(x) \cup {Absent}
  BY DEF IInv, DatesFitStatus, TypeOK
<1>2. row[x].there \/ row[x] = Absent
  BY <1>1, RowsAreRows
<1> QED
  BY <1>1, <1>2, IdleIsJob DEF IInv, DatesFitStatus, Dated

LEMMA NowIsMoment ==
  ASSUME IInv
  PROVE  TypeOK /\ Now \in Nat /\ Now \in Moments /\ 0 \in Moments /\ Now <= MaxSaves
BY RecordsAssumption DEF IInv, DatesFitStatus, TypeOK, Moments

LEMMA LoadKeeps ==
  ASSUME IInv, NEW r \in Requests, NEW x \in Rows, Load(r, x)
  PROVE  IInv'
<1> DEFINE q == [NoRow EXCEPT !.do = "form", !.row = x, !.old = row[x], !.seen = Now]
<1>1. /\ q.do = "form" /\ q.row = x /\ q.old = row[x] /\ q.seen = Now /\ q.checked = 0
      /\ q \in Jobs
  <2>1. row[x] \in AnyRow /\ Now \in Moments
    BY RowIsDated, NowIsMoment
  <2> QED
    BY <2>1, IdleIsJob DEF Jobs
<1>2. req' = [req EXCEPT ![r] = q] /\ req[r].do = "idle"
  BY DEF Load, Idle
<1> HIDE DEF q
<1>3. Fits(q)
  BY <1>1, RowIsDated, NowIsMoment
  DEF Fits, Holds, LoadStands, LoadIsDated, CheckStands, LookStands
<1> QED
  BY <1>1, <1>2, <1>3, QuietDo DEF Load

LEMMA ClickKeeps ==
  ASSUME IInv, NEW r \in Requests, NEW x \in Tasks, Click(r, x)
  PROVE  IInv'
<1> DEFINE q == [NoRow EXCEPT !.do = "flip", !.row = x, !.old = row[x], !.seen = Now]
<1>0. x \in Rows
  BY DEF Rows
<1>1. /\ q.do = "flip" /\ q.row = x /\ q.old = row[x] /\ q.seen = Now /\ q.checked = 0
      /\ q \in Jobs
  <2>1. row[x] \in AnyRow /\ Now \in Moments
    BY <1>0, RowIsDated, NowIsMoment
  <2> QED
    BY <1>0, <2>1, IdleIsJob DEF Jobs
<1>2. req' = [req EXCEPT ![r] = q] /\ req[r].do = "idle" /\ row[x].there
  BY DEF Click, Idle
<1> HIDE DEF q
<1>3. Fits(q)
  BY <1>0, <1>1, <1>2, NowIsMoment
  DEF Fits, Holds, LoadStands, LoadIsDated, CheckStands, LookStands
<1> QED
  BY <1>1, <1>2, <1>3, QuietDo DEF Click

LEMMA UploadKeeps ==
  ASSUME IInv, NEW r \in Requests, NEW file \in SUBSET KeySets, NEW update \in BOOLEAN,
         Upload(r, file, update)
  PROVE  IInv'
<1> DEFINE q == [NoRow EXCEPT !.do = "file", !.file = file, !.tell = update]
<1>1. q.do = "file" /\ q.seen = 0 /\ q.checked = 0 /\ q \in Jobs
  BY IdleIsJob DEF Jobs
<1>2. req' = [req EXCEPT ![r] = q] /\ req[r].do = "idle"
  BY DEF Upload, Idle
<1> HIDE DEF q
<1>3. Fits(q)
  BY <1>1, NowIsMoment DEF Fits, Holds, LoadStands, LoadIsDated, CheckStands, LookStands
<1> QED
  BY <1>1, <1>2, <1>3, QuietDo DEF Upload

LEMMA CheckKeeps ==
  ASSUME IInv, NEW r \in Requests, Check(r)
  PROVE  IInv'
<1> DEFINE p == req[r]
           x == p.row
<1>1. p \in Jobs /\ p.do = "form" /\ Fits(p) /\ x \in Rows
  BY DEF IInv, DatesFitStatus, TypeOK, RequestsFit, Fits, Holds, Check
<1>2. PICK f \in Forms(x), other \in BOOLEAN :
        /\ Valid(x, f)
        /\ req' = [req EXCEPT ![r] =
              [req[r] EXCEPT !.do = "save", !.new = Filled(p.old, f),
                             !.checked = IF f.links = {} THEN 0 ELSE Now,
                             !.tell = ~p.old.there \/ other \/ Differs(p.old, f)]]
  BY DEF Check
<1> DEFINE new == Filled(p.old, f)
           at == IF f.links = {} THEN 0 ELSE Now
           tell == ~p.old.there \/ other \/ Differs(p.old, f)
           q == [p EXCEPT !.do = "save", !.new = new, !.checked = at, !.tell = tell]
<1>3. /\ f.links \subseteq Linkable(x) /\ f.links \subseteq Deals \cup Proposals
      /\ f.client \in Clients \cup {NoClient} /\ f.status \in Statuses(x)
      /\ f.live \in BOOLEAN /\ f.keys \in IF x \in Clients THEN KeySets ELSE {{}}
      /\ Cardinality(Owners(f)) <= 1
  BY <1>2 DEF Forms, Linkable, Valid
<1>4. /\ Owner(f) \in Clients \cup {NoClient}
      /\ \A l \in f.links : row[l].client = Owner(f)
  BY <1>3, NowIsMoment, OwnersAreOne
<1>5. p.old \in AnyRow
  BY <1>1 DEF Jobs
<1>6. /\ new \in RowsOf(x) /\ new.status = f.status /\ new.links = f.links
      /\ new.client = Owner(f)
      /\ (p.old.status = "draft" => ~p.old.answered) => Dated(new)
  BY <1>1, <1>3, <1>4, <1>5, FilledRow
<1>7. at \in Moments /\ at <= Now /\ tell \in BOOLEAN /\ (~tell => new.status = p.old.status)
  BY <1>5, <1>6, NowIsMoment DEF Differs, AnyRow
<1> HIDE DEF new, at, tell
<1>8. /\ q.do = "save" /\ q.row = x /\ q.old = p.old /\ q.seen = p.seen /\ q.new = new
      /\ q.checked = at /\ q.tell = tell /\ q \in Jobs
  <2>1. new \in AnyRow
    BY <1>1, <1>6, RowsAreRows
  <2> QED
    BY <1>1, <1>7, <2>1 DEF Jobs
<1>9. req' = [req EXCEPT ![r] = q]
  BY <1>2 DEF new, at, tell
<1> HIDE DEF q
<1>10. Holds(q)
  BY <1>1, <1>7, <1>8, <1>6 DEF Fits, Holds
<1>11. LoadStands(q)
  <2>1. SavedSince(x, p.seen) \/ row[x].status = p.old.status
    BY <1>1 DEF Fits, LoadStands
  <2> QED
    BY <1>6, <1>7, <1>8, <2>1 DEF LoadStands
<1>12. LoadIsDated(q)
  <2>1. x \in Proposals => (p.old.status = "draft" => ~p.old.answered)
    BY <1>1 DEF Fits, LoadIsDated
  <2> QED
    BY <1>6, <1>8, <2>1 DEF LoadIsDated
<1>13. CheckStands(q) /\ LookStands(q)
  BY <1>4, <1>6, <1>8 DEF CheckStands, LookStands
<1>14. Fits(q)
  BY <1>10, <1>11, <1>12, <1>13 DEF Fits
<1> QED
  BY <1>1, <1>8, <1>9, <1>14, QuietDo DEF Check

LEMMA PresetKeeps ==
  ASSUME IInv, NEW r \in Requests, NEW x \in Tasks, Preset(r, x)
  PROVE  IInv'
<1>1. PICK c \in Clients \cup {NoClient}, L \in SUBSET Deals :
        LET links == {l \in L : row[l].live}
            f == [client |-> IF c # NoClient /\ row[c].live THEN c ELSE NoClient,
                  links |-> links, status |-> "open", live |-> TRUE, keys |-> {}]
        IN  /\ Cardinality(L) <= 1 /\ Cardinality(Owners(f)) = 1
            /\ req' = [req EXCEPT ![r] = [NoRow EXCEPT !.do = "save", !.row = x,
                         !.new = Filled(Absent, f), !.seen = Now, !.checked = Now,
                         !.tell = TRUE]]
  BY DEF Preset
<1> DEFINE f == [client |-> IF c # NoClient /\ row[c].live THEN c ELSE NoClient,
                 links |-> {l \in L : row[l].live}, status |-> "open", live |-> TRUE,
                 keys |-> {}]
           new == Filled(Absent, f)
           q == [NoRow EXCEPT !.do = "save", !.row = x, !.new = new, !.seen = Now,
                              !.checked = Now, !.tell = TRUE]
<1>2. /\ f.client \in Clients \cup {NoClient} /\ f.links \subseteq Deals
      /\ f.status = "open" /\ f.live = TRUE /\ f.keys = {} /\ Cardinality(Owners(f)) = 1
  BY <1>1
<1>3. req' = [req EXCEPT ![r] = q]
  BY <1>1
<1> HIDE DEF f
<1>4. x \in Rows /\ x \notin Proposals /\ x \notin Clients /\ Deals \subseteq Linkable(x)
      /\ "open" \in Statuses(x)
  <2>1. x \in Rows /\ x \notin Proposals /\ x \notin Clients
    BY RecordsAssumption DEF Rows
  <2> QED
    BY <2>1 DEF Linkable, Statuses
<1>5. /\ Owner(f) \in Clients \cup {NoClient}
      /\ \A l \in f.links : row[l].client = Owner(f)
  BY <1>2, NowIsMoment, OwnersAreOne
<1>6. /\ new \in RowsOf(x) /\ new.links = f.links /\ new.client = Owner(f)
  <2>1. /\ f.links \subseteq Linkable(x) /\ f.status \in Statuses(x) /\ f.live \in BOOLEAN
        /\ f.keys \in IF x \in Clients THEN KeySets ELSE {{}}
    BY <1>2, <1>4
  <2> QED
    BY <1>4, <1>5, <2>1, IdleIsJob, FilledRow
<1> HIDE DEF new
<1>7. /\ q.do = "save" /\ q.row = x /\ q.old = Absent /\ q.seen = Now /\ q.new = new
      /\ q.checked = Now /\ q.tell = TRUE /\ q \in Jobs
  <2>1. new \in AnyRow
    BY <1>4, <1>6, RowsAreRows
  <2> QED
    BY <1>4, <2>1, IdleIsJob, NowIsMoment DEF Jobs
<1>8. row[x].status = "plain"
  BY <1>4, RowIsDated, RowsAreRows, IdleIsJob DEF Preset
<1> HIDE DEF q
<1>9. Fits(q)
  BY <1>4, <1>5, <1>6, <1>7, <1>8, NowIsMoment, IdleIsJob
  DEF Fits, Holds, LoadStands, LoadIsDated, CheckStands, LookStands
<1>10. req[r].do = "idle"
  BY DEF Preset, Idle
<1> QED
  BY <1>3, <1>7, <1>9, <1>10, QuietDo DEF Preset

LEMMA SkipKeeps ==
  ASSUME IInv, NEW r \in Requests, NEW want \in KeySets, Skip(r, want)
  PROVE  IInv'
<1> DEFINE p == req[r]
           q == [p EXCEPT !.file = p.file \ {want}]
<1>1. /\ p \in Jobs /\ p.do = "file" /\ p.seen <= Now /\ p.checked <= Now
  <2>1. p \in Jobs /\ Fits(p)
    BY DEF IInv, DatesFitStatus, TypeOK, RequestsFit
  <2> QED
    BY <2>1 DEF Skip, Fits, Holds
<1>2. /\ q.do = "file" /\ q.seen = p.seen /\ q.checked = p.checked /\ q \in Jobs
  BY <1>1 DEF Jobs
<1>3. req' = [req EXCEPT ![r] = q]
  BY DEF Skip
<1> HIDE DEF q
<1>4. Fits(q)
  <2>1. Holds(q)
    BY <1>1, <1>2 DEF Holds
  <2>2. LoadStands(q) /\ CheckStands(q) /\ LookStands(q) /\ LoadIsDated(q)
    BY <1>2 DEF LoadStands, CheckStands, LookStands, LoadIsDated
  <2> QED
    BY <2>1, <2>2 DEF Fits
<1> QED
  BY <1>1, <1>2, <1>3, <1>4, QuietDo DEF Skip

(* Of some moments, or some ranks, one is the first.                       *)
LEMMA FirstMoment ==
  ASSUME NEW T \in SUBSET Nat, T # {}
  PROVE  \E n \in T : \A m \in T : n <= m
<1> DEFINE R == OpToRel(<, Nat)
<1>1. IsWellFoundedOn(R, Nat)
  BY NatLessThanWellFounded
<1>2. \A m, n \in Nat : m < n => <<m, n>> \in R
  BY DEF OpToRel
<1> HIDE DEF R
<1>3. PICK n \in T : \A m \in T : ~(<<m, n>> \in R)
  BY <1>1, WFMin, Zenon
<1>4. \A m \in T : ~(m < n)
  BY <1>2, <1>3, Zenon
<1> QED
  BY <1>4

(* The look for the keys of a row stops at the first that a client has: up *)
(* to it nobody else has one, but for twins.                               *)
LEMMA LookFinds ==
  ASSUME IInv, NEW want \in KeySets, NEW x \in Clients,
         x \in IF Found(want) # {} THEN Found(want)
               ELSE {z \in Clients : ~row[z].there /\ Free(z)},
         NEW y \in Clients \ {x}, NEW k \in want \cap row[y].keys,
         \A h \in want \cap row[x].keys : Rank[k] <= Rank[h]
  PROVE  Excused(x, y, k)
<1>1. /\ want \subseteq Keys /\ \A h \in Keys : Rank[h] \in Nat
      /\ \A i, j \in want : Rank[i] = Rank[j] => i = j
  BY RecordsAssumption DEF KeySets
<1>2. y \in Matches(k)
  <2>1. y \in Rows /\ (~row[y].there => row[y].keys = {})
    <3>1. y \in Rows
      BY DEF Rows
    <3>2. row[y] \in RowsOf(y) \cup {Absent}
      BY <3>1, RowIsDated
    <3>3. row[y] \in RowsOf(y) => row[y].there
      BY DEF RowsOf
    <3> QED
      BY <3>1, <3>2, <3>3, IdleIsJob
  <2> QED
    BY <2>1 DEF Matches
<1>3. Found(want) # {}
  <2> DEFINE hits == {h \in want : Matches(h) # {}}
  <2>1. PICK h \in hits : \A j \in hits : Rank[h] <= Rank[j]
    <3> DEFINE ranks == {Rank[h] : h \in hits}
    <3>1. ranks \subseteq Nat /\ ranks # {}
      BY <1>1, <1>2
    <3>2. PICK n \in ranks : \A i \in ranks : n <= i
      <4>1. ranks \in SUBSET Nat
        BY <3>1
      <4> HIDE DEF ranks
      <4> QED
        BY <3>1, <4>1, FirstMoment
    <3> QED
      BY <3>2
  <2>2. Matches(h) \subseteq Found(want)
    BY <2>1 DEF Found
  <2> QED
    BY <2>1, <2>2
<1>4. PICK j \in want : /\ \A h \in want : Matches(h) # {} => Rank[j] <= Rank[h]
                        /\ x \in Matches(j)
  BY <1>3 DEF Found
<1>5. j \in want \cap row[x].keys /\ Rank[j] <= Rank[k]
  BY <1>2, <1>4 DEF Matches
<1>6. j = k
  BY <1>1, <1>5
<1> QED
  BY <1>5, <1>6 DEF IInv, TwinsNeedARace

LEMMA FindKeeps ==
  ASSUME IInv, NEW r \in Requests, NEW want \in KeySets, Find(r, want)
  PROVE  IInv'
<1> DEFINE p == req[r]
           file == p.file \ {want}
<1>1. /\ p \in Jobs /\ p.do = "file" /\ file \in SUBSET KeySets
      /\ p.seen <= Now /\ p.checked <= Now
  <2>1. p \in Jobs /\ Fits(p)
    BY DEF IInv, DatesFitStatus, TypeOK, RequestsFit
  <2> QED
    BY <2>1 DEF Find, Fits, Holds, Jobs
<1>2. UNCHANGED <<row, saves, deaths>> /\ UNCHANGED trail /\ UNCHANGED ghosts
  BY DEF Find
<1> HIDE DEF file
<1>0. PICK x \in IF Found(want) # {} THEN Found(want)
                 ELSE {y \in Clients : ~row[y].there /\ Free(y)}, live \in BOOLEAN :
       \E kept \in SUBSET {k \in row[x].keys : \A j \in want : Rank[j] # Rank[k]} :
         req' = [req EXCEPT ![r] =
           [p EXCEPT !.do = "import", !.row = x, !.old = row[x],
                     !.new = Filled(row[x], [client |-> NoClient, links |-> {},
                               status |-> "plain", live |-> live, keys |-> kept \cup want]),
                     !.seen = Now, !.file = file,
                     !.asked = {k \in want : \A h \in want \cap row[x].keys : Rank[k] <= Rank[h]}]]
  BY DEF Find, file
<1>3. PICK kept \in SUBSET {k \in row[x].keys : \A j \in want : Rank[j] # Rank[k]} :
         req' = [req EXCEPT ![r] =
           [p EXCEPT !.do = "import", !.row = x, !.old = row[x],
                     !.new = Filled(row[x], [client |-> NoClient, links |-> {},
                               status |-> "plain", live |-> live, keys |-> kept \cup want]),
                     !.seen = Now, !.file = file,
                     !.asked = {k \in want : \A h \in want \cap row[x].keys : Rank[k] <= Rank[h]}]]
  BY <1>0
<1> DEFINE f == [client |-> NoClient, links |-> {}, status |-> "plain",
                 live |-> live, keys |-> kept \cup want]
           new == Filled(row[x], f)
           asked == {k \in want : \A h \in want \cap row[x].keys : Rank[k] <= Rank[h]}
           q == [p EXCEPT !.do = "import", !.row = x, !.old = row[x], !.new = new,
                          !.seen = Now, !.file = file, !.asked = asked]
<1>4. x \in Clients /\ x \in Rows /\ x \notin Proposals
  <2>1. x \in Clients
    BY <1>3 DEF Found, Matches
  <2> QED
    BY <2>1, RecordsAssumption DEF Rows
<1>5. kept \cup want \in KeySets
  <2>1. row[x].keys \in KeySets
    BY <1>4, RowIsDated DEF AnyRow
  <2>2. \A k \in kept : k \in row[x].keys /\ \A j \in want : Rank[j] # Rank[k]
    OBVIOUS
  <2> QED
    BY <2>1, <2>2 DEF KeySets
<1>6. /\ f.links = {} /\ f.client = NoClient /\ f.keys = kept \cup want /\ f.live = live
      /\ f.status = "plain"
  OBVIOUS
<1>7. req' = [req EXCEPT ![r] = q]
  BY <1>3
<1> HIDE DEF f
<1>8. Owner(f) = NoClient
  BY <1>6 DEF Owner, Owners
<1>9. "plain" \in Statuses(x)
  BY <1>4, RecordsAssumption DEF Statuses
<1>10. new \in RowsOf(x) /\ new.links = {}
  <2>1. row[x] \in AnyRow
    BY <1>4, RowIsDated
  <2>2. /\ f.links \subseteq Linkable(x) /\ f.status \in Statuses(x) /\ f.live \in BOOLEAN
        /\ f.keys \in IF x \in Clients THEN KeySets ELSE {{}}
        /\ Owner(f) \in Clients \cup {NoClient}
    BY <1>4, <1>5, <1>6, <1>8, <1>9
  <2>3. Filled(row[x], f) \in RowsOf(x) /\ Filled(row[x], f).links = f.links
    BY <1>4, <2>1, <2>2, FilledRow, Zenon
  <2> QED
    BY <1>6, <2>3
<1> HIDE DEF new
<1>11. asked \subseteq Keys /\ asked \subseteq want
       /\ \A k \in asked : \A h \in want \cap row[x].keys : Rank[k] <= Rank[h]
  BY DEF KeySets
<1> HIDE DEF asked
<1>12. /\ q.do = "import" /\ q.row = x /\ q.new = new /\ q.seen = Now
       /\ q.checked = p.checked /\ q.asked = asked /\ q \in Jobs
  <2>1. new \in AnyRow /\ row[x] \in AnyRow
    BY <1>4, <1>10, RowIsDated, RowsAreRows
  <2> QED
    BY <1>1, <1>4, <1>11, <2>1, NowIsMoment DEF Jobs
<1> HIDE DEF q
<1>13. Holds(q)
  BY <1>1, <1>4, <1>10, <1>12, NowIsMoment DEF Holds
<1>14. LoadStands(q) /\ CheckStands(q) /\ LoadIsDated(q)
  BY <1>4, <1>12 DEF LoadStands, CheckStands, LoadIsDated
<1>15. LookStands(q)
  <2> SUFFICES ASSUME NEW y \in Clients \ {x}, NEW k \in asked \cap row[y].keys
               PROVE  Excused(x, y, k)
    BY <1>12 DEF LookStands
  <2> QED
    BY <1>3, <1>4, <1>11, LookFinds
<1>16. Fits(q)
  BY <1>13, <1>14, <1>15 DEF Fits
<1> QED
  BY <1>1, <1>2, <1>7, <1>12, <1>16, QuietDo

LEMMA NoRowFits ==
  ASSUME IInv
  PROVE  Fits(NoRow)
BY IdleIsJob, NowIsMoment DEF Fits, Holds, LoadStands, LoadIsDated, CheckStands, LookStands

LEMMA ImportedKeeps ==
  ASSUME IInv, NEW r \in Requests, Imported(r)
  PROVE  IInv'
<1>1. Quiet(r, NoRow)
  BY NoRowFits, IdleIsJob, NowIsMoment
  DEF Imported, Quiet, TypedBut, Done, TypeOK
<1> QED
  BY <1>1, QuietKeepsIInv

(* A request that dies before it has saved, or after it has told.          *)
LEMMA DiesQuietly ==
  ASSUME IInv, NEW r \in Requests, Dies(r), req[r].do # "tell"
  PROVE  IInv'
<1>1. deaths' \in 0 .. MaxDeaths /\ deaths' = deaths + 1
  BY NowIsMoment, RecordsAssumption DEF Dies, TypeOK
<1>2. UNCHANGED <<row, saves>> /\ UNCHANGED trail /\ UNCHANGED ghosts
  BY DEF Dies, trail
<1>3. TypedBut(r, NoRow)
  BY IdleIsJob DEF Dies, TypedBut, Done
<1>4. NoRow.do \notin {"tell", "audit"} /\ Fits(NoRow)
  BY NoRowFits, IdleIsJob
<1>5. Quiet(r, NoRow)
  BY <1>1, <1>2, <1>3, <1>4 DEF Quiet
<1> QED
  BY <1>5, QuietKeepsIInv

-----------------------------------------------------------------------------
(* What was told of a row, and what is about to be, has the moments of saves. *)
LEMMA ReportsHaveMoments ==
  ASSUME TypeOK, NEW x
  PROVE  \A e \in Reports(x) : e.at \in Nat /\ e.row = x
BY DEF TypeOK, Reports, EventsOf, Moments, Jobs

LEMMA FirstReport ==
  ASSUME NEW S, S # {}, \A e \in S : e.at \in Nat
  PROVE  \E d \in S : \A c \in S : d.at <= c.at
<1> DEFINE T == {e.at : e \in S}
<1>1. T \in SUBSET Nat /\ T # {}
  OBVIOUS
<1>2. PICK n \in T : \A m \in T : n <= m
  BY <1>1, FirstMoment
<1> QED
  BY <1>2

(* A request that dies before it tells: its save slipped.                  *)
LEMMA DiesUntold ==
  ASSUME IInv, NEW r \in Requests, Dies(r), req[r].do = "tell"
  PROVE  ReportsTell'
<1> DEFINE s == req[r].seen
<1>1. /\ TypeOK /\ UNCHANGED <<row, saves, history>> /\ lost' = lost \cup {s}
      /\ req' = [req EXCEPT ![r] = NoRow]
  BY NowIsMoment DEF Dies, Done
<1>2. \A p \in Requests : req'[p] = IF p = r THEN NoRow ELSE req[p]
  BY <1>1, IdleIsJob, Becoming
<1>3. s \in 1 .. Now /\ saves[s].row = req[r].row /\ Now \in Nat /\ Now' = Now
  BY <1>1, NowIsMoment DEF IInv, RequestsFit, Fits, Holds, Now
<1> SUFFICES ASSUME NEW x \in Proposals \cup Tasks, NEW e \in Reports(x)'
             PROVE  LET later == {d \in Reports(x)' : d.at > e.at}
                    IN  IF later = {} THEN row'[x].status = e.to \/ Slipped(x, e.at, Now)'
                        ELSE \E d \in later : /\ \A c \in later : d.at <= c.at
                                              /\ d.from = e.to \/ Slipped(x, e.at, d.at)'
  BY DEF ReportsTell
<1> DEFINE rep == [row |-> x, at |-> s, from |-> req[r].from, to |-> req[r].to]
           before == {d \in Reports(x) : d.at > e.at}
           later == {d \in Reports(x)' : d.at > e.at}
<1>4. /\ Reports(x)' \subseteq Reports(x)
      /\ Reports(x) \subseteq Reports(x)' \cup {rep}
      /\ req[r].row # x => Reports(x)' = Reports(x)
  BY <1>1, <1>2, IdleIsJob DEF Reports, EventsOf
<1>5. \A d \in Reports(x) : d.at \in Nat
  BY <1>1, ReportsHaveMoments
<1>6. rep.at = s
  OBVIOUS
<1>7. /\ \A a, b : Slipped(x, a, b) => Slipped(x, a, b)'
      /\ \A a, b \in Nat : req[r].row = x /\ a < s /\ s <= b => Slipped(x, a, b)'
  BY <1>1, <1>3 DEF Slipped
<1>8. later \subseteq before /\ before \subseteq later \cup {rep}
      /\ e \in Reports(x) /\ e.at \in Nat
  BY <1>4, <1>5
<1>9. IF before = {} THEN row[x].status = e.to \/ Slipped(x, e.at, Now)
      ELSE \E d \in before : /\ \A c \in before : d.at <= c.at
                             /\ d.from = e.to \/ Slipped(x, e.at, d.at)
  BY <1>8 DEF IInv, ReportsTell
<1> HIDE DEF rep, before, later
<1>10. CASE before = {}
  <2>1. later = {}
    BY <1>8, <1>10
  <2> QED
    BY <1>1, <1>3, <1>7, <1>9, <1>10, <2>1 DEF later
<1>11. CASE before # {}
  <2>1. PICK d \in before : /\ \A c \in before : d.at <= c.at
                            /\ d.from = e.to \/ Slipped(x, e.at, d.at)
    BY <1>9, <1>11
  <2>2. CASE d \in later
    BY <1>7, <1>8, <2>1, <2>2 DEF later
  <2>3. CASE d \notin later
    <3>1. d = rep /\ d.at = s /\ e.at < s /\ req[r].row = x
      BY <1>4, <1>6, <1>8, <2>1, <2>3 DEF before, later
    <3>2. CASE later = {}
      BY <1>3, <1>7, <1>8, <3>1, <3>2 DEF later
    <3>3. CASE later # {}
      <4>1. PICK c \in later : \A b \in later : c.at <= b.at
        BY <1>4, <1>5, <3>3, FirstReport DEF later
      <4>2. c.at \in Nat /\ s <= c.at
        BY <1>5, <1>8, <2>1, <3>1, <4>1 DEF before
      <4>3. Slipped(x, e.at, c.at)'
        BY <1>7, <1>8, <3>1, <4>2
      <4> QED
        BY <3>3, <4>1, <4>3 DEF later
    <3> QED
      BY <3>2, <3>3
  <2> QED
    BY <2>2, <2>3
<1> QED
  BY <1>10, <1>11

(* What no trail is needed for, when no row is written.                    *)
LEMMA NothingWritten ==
  ASSUME IInv, NEW r \in Requests, NEW q, TypedBut(r, q), Fits(q),
         UNCHANGED <<row, saves>>, UNCHANGED ghosts,
         history' \subseteq [row : Rows, at : Moments, from : AnyStatus, to : AnyStatus],
         audit' \subseteq Moments, lost' \subseteq Moments, deaths' \in 0 .. MaxDeaths
  PROVE  /\ DatesFitStatus' /\ RequestsFit' /\ LinksAgree' /\ TwinsNeedARace'
         /\ Now' = Now /\ \A p \in Requests : req'[p] = IF p = r THEN q ELSE req[p]
<1>0. TypeOK
  BY NowIsMoment
<1>1. \A p \in Requests : req'[p] = IF p = r THEN q ELSE req[p]
  BY <1>0, Becoming DEF TypedBut
<1>2. Now' = Now /\ UNCHANGED <<row, saves, checked, rehomed, keyed, unasked>>
  BY DEF Now, ghosts
<1>3. TypeOK'
  <2>1. req' \in [Requests -> Jobs]
    BY <1>0, Becoming DEF TypedBut
  <2>2. \A p \in Requests : Idle(p)' => req'[p] = NoRow
    BY <1>0, <1>1 DEF Idle, TypeOK, TypedBut
  <2> QED
    BY <1>0, <1>2, <2>1, <2>2 DEF TypeOK
<1>4. DatesFitStatus'
  BY <1>2, <1>3 DEF IInv, DatesFitStatus
<1>5. RequestsFit'
  <2>1. \A p \in Requests : Fits(req'[p])
    BY <1>1 DEF IInv, RequestsFit
  <2> QED
    BY <1>2, <2>1 DEF RequestsFit, Fits, Holds, LoadStands, LoadIsDated, CheckStands, LookStands,
                      SavedSince, Excused, Raced
<1>6. LinksAgree' /\ TwinsNeedARace'
  BY <1>2 DEF IInv, LinksAgree, TwinsNeedARace, Excused, Raced
<1> QED
  BY <1>1, <1>2, <1>4, <1>5, <1>6

LEMMA DiesTelling ==
  ASSUME IInv, NEW r \in Requests, Dies(r), req[r].do = "tell"
  PROVE  IInv'
<1>1. /\ TypeOK /\ UNCHANGED <<row, saves, history, audit>> /\ UNCHANGED ghosts
      /\ lost' = lost \cup {req[r].seen} /\ TypedBut(r, NoRow)
      /\ deaths' = deaths + 1 /\ deaths' \in 0 .. MaxDeaths /\ deaths \in Nat
  BY NowIsMoment, RecordsAssumption, IdleIsJob DEF Dies, Done, TypedBut, TypeOK
<1>2. lost' \subseteq Moments
  BY <1>1 DEF TypeOK, Jobs
<1>3. /\ DatesFitStatus' /\ RequestsFit' /\ LinksAgree' /\ TwinsNeedARace'
      /\ Now' = Now /\ \A p \in Requests : req'[p] = IF p = r THEN NoRow ELSE req[p]
  BY <1>1, <1>2, NoRowFits, NothingWritten DEF TypeOK
<1>4. UNCHANGED <<row, checked, rehomed, keyed>>
  BY <1>1 DEF ghosts
<1>5. MomentsPass'
  BY <1>1, <1>3, <1>4 DEF IInv, MomentsPass
<1>6. TellersDiffer'
  BY <1>1, <1>3, IdleIsJob DEF IInv, TellersDiffer
<1>7. TrailsAgree'
  <2>1. Auditing' = Auditing
    BY <1>3, IdleIsJob DEF Auditing
  <2>2. Agreeing /\ audit' = audit /\ Told' = Told /\ Unnamed' = Unnamed
    BY <1>1, TrailsMean DEF IInv, Unnamed, Told
  <2> QED
    BY <1>1, <2>1, <2>2, AuditingIsFinite, UnnamedIsFinite, TrailsMean DEF Agreeing
<1>8. ReportsTell'
  BY DiesUntold
<1> QED
  BY <1>3, <1>5, <1>6, <1>7, <1>8 DEF IInv

(* A history that is told when a save was about to tell it.                *)
LEMMA TellKeeps ==
  ASSUME IInv, NEW r \in Requests, Tell(r)
  PROVE  IInv'
<1> DEFINE p == req[r]
           s == p.seen
           rep == [row |-> p.row, at |-> s, from |-> p.from, to |-> p.to]
           q == [p EXCEPT !.do = "audit"]
<1>1. /\ TypeOK /\ p \in Jobs /\ p.do = "tell" /\ UNCHANGED <<row, saves, audit, lost, deaths>>
      /\ UNCHANGED ghosts /\ history' = history \cup {rep} /\ req' = [req EXCEPT ![r] = q]
  BY NowIsMoment DEF Tell, TypeOK, Goto
<1>2. q \in Jobs /\ q.do = "audit" /\ q.seen = s /\ q.row = p.row /\ q.checked = p.checked
  BY <1>1 DEF Jobs
<1> HIDE DEF q
<1>3. /\ s \in 1 .. Now /\ saves[s].row = p.row /\ p.row \in Rows /\ p.checked <= Now
      /\ s \in Moments /\ Fits(p)
  BY <1>1 DEF IInv, RequestsFit, Fits, Holds, Jobs
<1>4. Fits(q)
  <2>1. Holds(q)
    BY <1>2, <1>3, NowIsMoment DEF Holds
  <2> QED
    BY <1>2, <2>1 DEF Fits, LoadStands, LoadIsDated, CheckStands, LookStands
<1>5. TypedBut(r, q)
  BY <1>1, <1>2 DEF TypedBut
<1>6. rep \in [row : Rows, at : Moments, from : AnyStatus, to : AnyStatus] /\ rep.at = s
  BY <1>1, <1>3 DEF Jobs
<1>7. /\ DatesFitStatus' /\ RequestsFit' /\ LinksAgree' /\ TwinsNeedARace'
      /\ Now' = Now /\ \A o \in Requests : req'[o] = IF o = r THEN q ELSE req[o]
  <2>1. history' \subseteq [row : Rows, at : Moments, from : AnyStatus, to : AnyStatus]
    BY <1>1, <1>6 DEF TypeOK
  <2> QED
    BY <1>1, <1>4, <1>5, <2>1, NothingWritten DEF TypeOK
<1>8. UNCHANGED <<row, checked, rehomed, keyed>>
  BY <1>1 DEF ghosts
<1>9. MomentsPass'
  BY <1>1, <1>3, <1>6, <1>7, <1>8, NowIsMoment DEF IInv, MomentsPass
<1>10. TellersDiffer'
  <2>1. \A o \in Requests : req'[o].do \in {"tell", "audit"} =>
          req[o].do \in {"tell", "audit"} /\ req'[o].seen = req[o].seen
    BY <1>1, <1>2, <1>7
  <2>2. \A o \in Requests : req'[o].do = "audit" => \E e \in history' : e.at = req'[o].seen
    <3>1. ASSUME NEW o \in Requests, req'[o].do = "audit", o # r
          PROVE  \E e \in history' : e.at = req'[o].seen
      BY <1>1, <1>7, <3>1 DEF IInv, TellersDiffer
    <3>2. \E e \in history' : e.at = req'[r].seen
      BY <1>1, <1>2, <1>6, <1>7
    <3> QED
      BY <3>1, <3>2
  <2> QED
    BY <1>1, <2>1, <2>2 DEF IInv, TellersDiffer
<1>11. ReportsTell'
  <2>1. ASSUME NEW x PROVE Reports(x)' = Reports(x)
    <3>1. \A d : d \in Reports(x) <=>
            \/ d \in history /\ d.row = x
            \/ \E o \in Requests : /\ req[o].do = "tell" /\ req[o].row = x
                                  /\ d = [row |-> x, at |-> req[o].seen, from |-> req[o].from,
                                          to |-> req[o].to]
      BY DEF Reports, EventsOf
    <3>2. \A d : d \in Reports(x)' <=>
            \/ d \in history' /\ d.row = x
            \/ \E o \in Requests : /\ req'[o].do = "tell" /\ req'[o].row = x
                                  /\ d = [row |-> x, at |-> req'[o].seen, from |-> req'[o].from,
                                          to |-> req'[o].to]
      BY DEF Reports, EventsOf
    <3>3. \A o \in Requests : o # r => req'[o] = req[o]
      BY <1>7
    <3>4. req'[r].do # "tell"
      BY <1>2, <1>7
    <3>5. ASSUME NEW d PROVE d \in Reports(x) <=> d \in Reports(x)'
      <4>1. CASE d = rep /\ x = p.row
        BY <1>1, <3>1, <3>2, <4>1
      <4>2. CASE ~(d = rep /\ x = p.row)
        <5>1. d = rep => d.row = p.row
          OBVIOUS
        <5> QED
          BY <1>1, <3>1, <3>2, <3>3, <3>4, <4>2, <5>1
      <4> QED
        BY <4>1, <4>2
    <3> QED
      BY <3>5
  <2>2. ASSUME NEW x, NEW a, NEW b PROVE Slipped(x, a, b)' <=> Slipped(x, a, b)
    BY <1>1 DEF Slipped
  <2> QED
    BY <1>1, <1>7, <2>1, <2>2 DEF IInv, ReportsTell
<1>12. TrailsAgree'
  <2>1. Auditing' = Auditing \cup {r} /\ r \notin Auditing
    BY <1>1, <1>2, <1>7 DEF Auditing
  <2>2. Cardinality(Auditing') = Cardinality(Auditing) + 1
    BY <2>1, AuditingIsFinite, FS_AddElement
  <2>3. Agreeing /\ audit' = audit /\ Told' = Told \cup {s}
    BY <1>1, <1>6, TrailsMean DEF IInv, Told
  <2>4. Unnamed' = Unnamed \cup {s}
    BY <1>1, <2>3 DEF Unnamed, IInv, TellersDiffer
  <2>5. Cardinality(Unnamed') <= Cardinality(Unnamed) + 1 /\ Cardinality(Unnamed') \in Nat
    <3>1. IsFiniteSet(Unnamed) /\ Cardinality(Unnamed) \in Nat
      BY <1>1, UnnamedIsFinite
    <3>2. Cardinality(Unnamed \cup {s}) = IF s \in Unnamed THEN Cardinality(Unnamed)
                                          ELSE Cardinality(Unnamed) + 1
      BY <3>1, FS_AddElement
    <3> QED
      BY <2>4, <3>1, <3>2
  <2>6. deaths' = deaths /\ deaths \in Nat
    BY <1>1 DEF TypeOK
  <2>7. Cardinality(Unnamed') <= deaths' + Cardinality(Auditing')
    BY <1>1, <2>2, <2>3, <2>5, <2>6, AuditingIsFinite, UnnamedIsFinite DEF Agreeing
  <2> QED
    BY <2>3, <2>7, TrailsMean DEF Agreeing
<1> QED
  BY <1>7, <1>9, <1>10, <1>11, <1>12 DEF IInv

LEMMA AuditKeeps ==
  ASSUME IInv, NEW r \in Requests, Audit(r)
  PROVE  IInv'
<1> DEFINE s == req[r].seen
<1>1. /\ TypeOK /\ req[r] \in Jobs /\ req[r].do = "audit"
      /\ UNCHANGED <<row, history, saves, lost, deaths>> /\ UNCHANGED ghosts
      /\ audit' = audit \cup {s} /\ TypedBut(r, NoRow)
  BY NowIsMoment, IdleIsJob DEF Audit, TypeOK, Done, TypedBut
<1>2. s \in 1 .. Now /\ s \in Moments /\ s \notin audit /\ \E e \in history : e.at = s
  BY <1>1 DEF IInv, RequestsFit, Fits, Holds, Jobs, TellersDiffer
<1>3. /\ DatesFitStatus' /\ RequestsFit' /\ LinksAgree' /\ TwinsNeedARace'
      /\ Now' = Now /\ \A o \in Requests : req'[o] = IF o = r THEN NoRow ELSE req[o]
  <2>1. audit' \subseteq Moments
    BY <1>1, <1>2 DEF TypeOK
  <2> QED
    BY <1>1, <2>1, NoRowFits, NothingWritten DEF TypeOK
<1>4. UNCHANGED <<row, checked, rehomed, keyed>>
  BY <1>1 DEF ghosts
<1>5. MomentsPass'
  BY <1>1, <1>2, <1>3, <1>4, NowIsMoment DEF IInv, MomentsPass
<1>6. TellersDiffer'
  BY <1>1, <1>3, IdleIsJob DEF IInv, TellersDiffer
<1>7. ReportsTell'
  BY <1>1, IdleIsJob, QuietKeepsReports DEF IInv
<1>8. TrailsAgree'
  <2>1. Auditing' = Auditing \ {r} /\ r \in Auditing
    BY <1>1, <1>3, IdleIsJob DEF Auditing
  <2>2. Cardinality(Auditing') = Cardinality(Auditing) - 1
    BY <2>1, AuditingIsFinite, FS_RemoveElement
  <2>3. Agreeing /\ Told' = Told /\ s \in Told
    BY <1>1, <1>2, TrailsMean DEF IInv, Told
  <2>4. Unnamed' = Unnamed \ {s} /\ s \in Unnamed
    BY <1>1, <1>2, <2>3 DEF Unnamed
  <2>5. Cardinality(Unnamed') = Cardinality(Unnamed) - 1
    BY <1>1, <2>4, UnnamedIsFinite, FS_RemoveElement
  <2>6. deaths' = deaths /\ deaths \in Nat
    BY <1>1 DEF TypeOK
  <2>7. Cardinality(Unnamed') <= deaths' + Cardinality(Auditing')
    BY <1>1, <2>2, <2>3, <2>5, <2>6, AuditingIsFinite, UnnamedIsFinite DEF Agreeing
  <2>8. audit' \subseteq Told'
    BY <1>1, <2>3 DEF Agreeing
  <2> QED
    BY <2>7, <2>8, TrailsMean DEF Agreeing
<1> QED
  BY <1>3, <1>5, <1>6, <1>7, <1>8 DEF IInv

-----------------------------------------------------------------------------
(* Request r writes row x at moment m, and becomes q.                      *)
Wrote(r, x, m, new, asked, q) ==
  /\ x = req[r].row /\ m = Now + 1
  /\ x \in Rows /\ new \in RowsOf(x) /\ Write(r, new, asked)
  /\ q \in Jobs /\ req' = [req EXCEPT ![r] = q]
  /\ q.do \in {"idle", "tell", "file"} /\ (q.do = "idle" => q = NoRow)
  /\ req[r].do \notin {"tell", "audit"}
  /\ UNCHANGED trail /\ UNCHANGED deaths

(* It tells what it loaded and what it saved, at the moment of the save;   *)
(* and what it does not tell has not changed since it was loaded.          *)
Says(r, x, m, new, q) ==
  /\ IF q.do = "tell" THEN /\ q.row = x /\ q.seen = m
                           /\ q.from = req[r].old.status /\ q.to = new.status
     ELSE q.seen < m
  /\ q.checked < m
  /\ x \in Proposals \cup Tasks =>
       /\ SavedSince(x, req[r].seen) \/ row[x].status = req[r].old.status
       /\ q.do = "tell" \/ new.status = req[r].old.status

LEMMA WriteMeans ==
  ASSUME IInv, NEW r \in Requests, NEW x, NEW m, NEW new, NEW asked, NEW q,
         Wrote(r, x, m, new, asked, q)
  PROVE  /\ Now \in Nat /\ m \in Nat /\ m = Now + 1 /\ Now' = m /\ m \in Moments
         /\ row' = [row EXCEPT ![x] = new] /\ row \in [Rows -> AnyRow] /\ new \in AnyRow
         /\ new.there /\ saves' \in Seq([row : Rows, blind : BOOLEAN])
         /\ \A n \in 1 .. Now : saves'[n] = saves[n]
         /\ saves'[m].row = x /\ saves'[m].blind = SavedSince(x, req[r].seen)
         /\ \A p \in Requests : req'[p] = IF p = r THEN q ELSE req[p]
<1>1. /\ TypeOK /\ Now \in Nat /\ m = Now + 1 /\ Now < MaxSaves /\ x \in Rows /\ new \in RowsOf(x)
      /\ saves' = Append(saves, [row |-> x, blind |-> SavedSince(x, req[r].seen)])
      /\ row' = [row EXCEPT ![x] = new] /\ q \in Jobs /\ req' = [req EXCEPT ![r] = q]
  BY NowIsMoment DEF Wrote, Write
<1>2. SavedSince(x, req[r].seen) \in BOOLEAN
  BY DEF SavedSince
<1>3. saves \in Seq([row : Rows, blind : BOOLEAN]) /\ row \in [Rows -> AnyRow]
  BY <1>1 DEF TypeOK
<1> DEFINE s == [row |-> x, blind |-> SavedSince(x, req[r].seen)]
<1>4. s \in [row : Rows, blind : BOOLEAN] /\ saves' = Append(saves, s)
  BY <1>1, <1>2
<1>5. s.row = x /\ s.blind = SavedSince(x, req[r].seen)
  OBVIOUS
<1> HIDE DEF s
<1>6. /\ saves' \in Seq([row : Rows, blind : BOOLEAN]) /\ Len(saves') = Len(saves) + 1
      /\ \A n \in 1 .. Len(saves) : saves'[n] = saves[n]
      /\ saves'[Len(saves) + 1] = s
  BY <1>3, <1>4
<1>7. Now' = m /\ m \in Moments /\ m \in Nat
  BY <1>1, <1>6, RecordsAssumption DEF Now, Moments
<1>8. \A p \in Requests : req'[p] = IF p = r THEN q ELSE req[p]
  BY <1>1, Becoming
<1>9. new \in AnyRow /\ new.there
  BY <1>1, RowsAreRows
<1> QED
  BY <1>1, <1>3, <1>5, <1>6, <1>7, <1>8, <1>9 DEF Now

(* The keys that a client gets in a write.                                 *)
Got(x, new) == new.keys \ row[x].keys

(* A key that nobody looked for is remembered, and one that was looked for *)
(* is with the moments of the look and of the write.                       *)
LEMMA WriteKeys ==
  ASSUME IInv, NEW r \in Requests, NEW x, NEW m, NEW new, NEW asked, NEW q,
         Wrote(r, x, m, new, asked, q)
  PROVE  /\ keyed' = keyed \cup {[client |-> x, key |-> k, looked |-> req[r].seen, at |-> m] :
                                   k \in Got(x, new) \cap asked}
         /\ unasked' = unasked \cup ({x} \X (Got(x, new) \ asked))
         /\ \A k \in Got(x, new) \ asked : <<x, k>> \in unasked'
         /\ \A k \in Got(x, new) \cap asked : \E b \in keyed' :
              b.client = x /\ b.key = k /\ b.looked = req[r].seen /\ b.at = m
         /\ Got(x, new) # {} => x \in Clients
         /\ Got(x, new) \subseteq Keys
         /\ req[r].seen \in Nat /\ req[r].seen <= Now
<1>1. /\ x \in Rows /\ new \in RowsOf(x) /\ x = req[r].row /\ m = Now + 1
      /\ Write(r, new, asked)
  BY DEF Wrote
<1>2. keyed' = keyed \cup {[client |-> x, key |-> k, looked |-> req[r].seen, at |-> m] :
                             k \in Got(x, new) \cap asked}
  BY <1>1 DEF Write, Got
<1>3. unasked' = unasked \cup ({x} \X (Got(x, new) \ asked))
  BY <1>1 DEF Write, Got
<1>4. \A k \in Got(x, new) \ asked : <<x, k>> \in unasked'
  BY <1>3
<1>5. ASSUME NEW k \in Got(x, new) \cap asked
      PROVE  \E b \in keyed' : b.client = x /\ b.key = k /\ b.looked = req[r].seen /\ b.at = m
  <2> DEFINE b == [client |-> x, key |-> k, looked |-> req[r].seen, at |-> m]
  <2>1. b \in keyed'
    BY <1>2
  <2>2. b.client = x /\ b.key = k /\ b.looked = req[r].seen /\ b.at = m
    OBVIOUS
  <2> QED
    BY <2>1, <2>2
<1>6. Got(x, new) # {} => x \in Clients
  BY <1>1 DEF Got, RowsOf
<1>7. Got(x, new) \subseteq Keys
  BY <1>1 DEF Got, RowsOf, KeySets
<1>8. req[r].seen \in Nat /\ req[r].seen <= Now
  BY DEF IInv, DatesFitStatus, TypeOK, Jobs, Moments, RequestsFit, Fits, Holds
<1> QED
  BY <1>2, <1>3, <1>4, <1>5, <1>6, <1>7, <1>8

(* A later save keeps what the trails remember.                            *)
LEMMA WriteRemembers ==
  ASSUME IInv, NEW r \in Requests, NEW x, NEW m, NEW new, NEW asked, NEW q,
         Wrote(r, x, m, new, asked, q)
  PROVE  /\ \A y : \A n \in Nat : SavedSince(y, n) => SavedSince(y, n)'
         /\ \A n \in Nat : n < m => SavedSince(x, n)'
         /\ keyed \subseteq keyed' /\ unasked \subseteq unasked'
         /\ \A y, k, z : Excused(y, z, k) => Excused(y, z, k)'
<1>1. /\ Now \in Nat /\ m = Now + 1 /\ Now' = m /\ \A n \in 1 .. Now : saves'[n] = saves[n]
      /\ saves'[m].row = x
  BY WriteMeans
<1>2. keyed \subseteq keyed' /\ unasked \subseteq unasked'
  BY WriteKeys
<1>3. ASSUME NEW y, NEW n \in Nat, SavedSince(y, n) PROVE SavedSince(y, n)'
  <2>1. PICK k \in (n + 1) .. Now : saves[k].row = y
    BY <1>3 DEF SavedSince
  <2> QED
    BY <1>1, <2>1 DEF SavedSince
<1>4. \A n \in Nat : n < m => SavedSince(x, n)'
  BY <1>1 DEF SavedSince
<1>5. \A y, k, z : Excused(y, z, k) => Excused(y, z, k)'
  BY <1>2 DEF Excused, Raced
<1> QED
  BY <1>2, <1>3, <1>4, <1>5

LEMMA SlipsStay ==
  ASSUME IInv, NEW r \in Requests, NEW x, NEW m, NEW new, NEW asked, NEW q,
         Wrote(r, x, m, new, asked, q), NEW y, NEW a \in Nat
  PROVE  /\ \A b \in Nat : b < m /\ Slipped(y, a, b) => Slipped(y, a, b)'
         /\ Slipped(y, a, Now) => Slipped(y, a, m)'
         /\ a < m /\ SavedSince(x, req[r].seen) => Slipped(x, a, m)'
<1>1. /\ Now \in Nat /\ m \in Nat /\ m = Now + 1 /\ \A n \in 1 .. Now : saves'[n] = saves[n]
      /\ saves'[m].row = x /\ saves'[m].blind = SavedSince(x, req[r].seen)
  BY WriteMeans
<1>2. lost' = lost
  BY DEF Wrote, trail
<1>3. \A b \in Nat : b < m /\ Slipped(y, a, b) => Slipped(y, a, b)'
  BY <1>1, <1>2 DEF Slipped
<1>4. Slipped(y, a, Now) => Slipped(y, a, m)'
  BY <1>1, <1>2 DEF Slipped
<1>5. ASSUME a < m, SavedSince(x, req[r].seen) PROVE Slipped(x, a, m)'
  <2>1. saves'[m].row = x /\ saves'[m].blind /\ m \in (a + 1) .. m
    BY <1>1, <1>5
  <2> QED
    BY <2>1 DEF Slipped
<1> QED
  BY <1>3, <1>4, <1>5

(* The reports of a row in their order are the row's, with that of a save. *)
LEMMA WriteTells ==
  ASSUME IInv, NEW r \in Requests, NEW x, NEW m, NEW new, NEW asked, NEW q,
         Wrote(r, x, m, new, asked, q), Says(r, x, m, new, q)
  PROVE  ReportsTell'
<1>1. /\ Now \in Nat /\ m \in Nat /\ m = Now + 1 /\ Now' = m /\ x \in Rows
      /\ row' = [row EXCEPT ![x] = new] /\ row \in [Rows -> AnyRow]
      /\ \A p \in Requests : req'[p] = IF p = r THEN q ELSE req[p]
  <2>1. x \in Rows
    BY DEF Wrote
  <2> QED
    BY <2>1, WriteMeans
<1>2. TypeOK /\ history' = history /\ req[r].do # "tell"
  BY NowIsMoment DEF Wrote, trail
<1> SUFFICES ASSUME NEW y \in Proposals \cup Tasks, NEW e \in Reports(y)'
             PROVE  LET later == {d \in Reports(y)' : d.at > e.at}
                    IN  IF later = {} THEN row'[y].status = e.to \/ Slipped(y, e.at, Now)'
                        ELSE \E d \in later : /\ \A c \in later : d.at <= c.at
                                              /\ d.from = e.to \/ Slipped(y, e.at, d.at)'
  BY DEF ReportsTell
<1> DEFINE rep == [row |-> x, at |-> m, from |-> q.from, to |-> q.to]
           told == q.do = "tell" /\ y = x
           before == {d \in Reports(y) : d.at > e.at}
           later == {d \in Reports(y)' : d.at > e.at}
<1>3. \A d : d \in Reports(y)' <=> d \in Reports(y) \/ (told /\ d = rep)
  <2>1. \A d : d \in Reports(y) <=>
          \/ d \in history /\ d.row = y
          \/ \E o \in Requests : /\ req[o].do = "tell" /\ req[o].row = y
                                /\ d = [row |-> y, at |-> req[o].seen, from |-> req[o].from,
                                        to |-> req[o].to]
    BY DEF Reports, EventsOf
  <2>2. \A d : d \in Reports(y)' <=>
          \/ d \in history' /\ d.row = y
          \/ \E o \in Requests : /\ req'[o].do = "tell" /\ req'[o].row = y
                                /\ d = [row |-> y, at |-> req'[o].seen, from |-> req'[o].from,
                                        to |-> req'[o].to]
    BY DEF Reports, EventsOf
  <2>3. \A o \in Requests : o # r => req'[o] = req[o]
    BY <1>1
  <2>4. req'[r] = q /\ (q.do = "tell" => q.row = x /\ q.seen = m)
    BY <1>1 DEF Says
  <2> QED
    BY <1>2, <2>1, <2>2, <2>3, <2>4
<1>4. \A d \in Reports(y) : d.at \in Nat /\ d.at < m
  <2>1. \A d \in history : d.at \in Nat /\ d.at <= Now
    BY <1>2 DEF TypeOK, Moments, IInv, MomentsPass
  <2>2. \A o \in Requests : req[o].do = "tell" => req[o].seen \in Nat /\ req[o].seen <= Now
    BY <1>1 DEF IInv, RequestsFit, Fits, Holds
  <2> QED
    BY <1>1, <2>1, <2>2 DEF Reports, EventsOf
<1>5. told => rep.at = m /\ rep.from = req[r].old.status /\ rep.to = new.status
  BY DEF Says
<1> HIDE DEF rep
<1>6. CASE told /\ e = rep
  <2>1. later = {}
    BY <1>1, <1>3, <1>4, <1>5, <1>6
  <2>2. row'[y].status = e.to
    BY <1>1, <1>5, <1>6
  <2> QED
    BY <2>1, <2>2
<1>7. CASE ~(told /\ e = rep)
  <2>1. e \in Reports(y) /\ e.at \in Nat /\ e.at < m
    BY <1>3, <1>4, <1>7
  <2>2. IF before = {} THEN row[y].status = e.to \/ Slipped(y, e.at, Now)
        ELSE \E d \in before : /\ \A c \in before : d.at <= c.at
                               /\ d.from = e.to \/ Slipped(y, e.at, d.at)
    BY <2>1 DEF IInv, ReportsTell
  <2>3. /\ \A b \in Nat : b < m /\ Slipped(y, e.at, b) => Slipped(y, e.at, b)'
        /\ Slipped(y, e.at, Now) => Slipped(y, e.at, m)'
        /\ SavedSince(x, req[r].seen) => Slipped(x, e.at, m)'
    BY <2>1, SlipsStay
  <2>4. \A d : d \in later <=> d \in before \/ (told /\ d = rep)
    BY <1>1, <1>3, <1>5, <2>1
  <2>5. y # x => row'[y] = row[y]
    BY <1>1 DEF Rows
  <2>6. y = x => /\ row'[y] = new
                 /\ SavedSince(x, req[r].seen) \/ row[x].status = req[r].old.status
                 /\ told \/ new.status = req[r].old.status
    BY <1>1 DEF Says
  <2>7. \A d \in before : d.at \in Nat /\ d.at < m /\ d.at > e.at
    BY <1>4
  <2> SUFFICES IF later = {} THEN row'[y].status = e.to \/ Slipped(y, e.at, Now)'
               ELSE \E d \in later : /\ \A c \in later : d.at <= c.at
                                     /\ d.from = e.to \/ Slipped(y, e.at, d.at)'
    OBVIOUS
  <2> HIDE DEF before, later
  <2>8. CASE before = {} /\ ~told
    <3>1. later = {}
      BY <2>4, <2>8
    <3>2. row'[y].status = e.to \/ Slipped(y, e.at, m)'
      BY <2>2, <2>3, <2>5, <2>6, <2>8
    <3>3. Slipped(y, e.at, Now)' <=> Slipped(y, e.at, m)'
      BY <1>1 DEF Slipped
    <3> QED
      BY <3>1, <3>2, <3>3
  <2>9. CASE before = {} /\ told
    <3>1. later = {rep}
      BY <2>4, <2>9
    <3>2. rep.from = e.to \/ Slipped(y, e.at, m)'
      BY <1>5, <2>2, <2>3, <2>6, <2>9
    <3> QED
      BY <1>1, <1>5, <2>9, <3>1, <3>2
  <2>10. CASE before # {}
    <3>1. PICK d \in before : /\ \A c \in before : d.at <= c.at
                              /\ d.from = e.to \/ Slipped(y, e.at, d.at)
      BY <2>2, <2>10
    <3>2. d \in later /\ (d.from = e.to \/ Slipped(y, e.at, d.at)')
      BY <2>3, <2>4, <2>7, <3>1
    <3>3. \A c \in later : d.at <= c.at
      BY <1>1, <1>5, <2>4, <2>7, <3>1
    <3> QED
      BY <3>2, <3>3
  <2> QED
    BY <2>8, <2>9, <2>10
<1> QED
  BY <1>6, <1>7

(* What other requests hold still fits the rows when one is written.       *)
LEMMA WriteFits ==
  ASSUME IInv, NEW r \in Requests, NEW x, NEW m, NEW new, NEW asked, NEW q,
         Wrote(r, x, m, new, asked, q),
         NEW p \in Requests, p # r
  PROVE  Fits(req[p])' /\ req'[p] = req[p]
<1> DEFINE h == req[p]
<1>1. /\ Now \in Nat /\ m \in Nat /\ m = Now + 1 /\ Now' = m /\ new.there
      /\ row' = [row EXCEPT ![x] = new] /\ row \in [Rows -> AnyRow]
      /\ \A n \in 1 .. Now : saves'[n] = saves[n]
      /\ \A o \in Requests : req'[o] = IF o = r THEN q ELSE req[o]
  BY WriteMeans
<1>2. /\ TypeOK /\ x \in Rows /\ new \in RowsOf(x)
      /\ rehomed' = IF new.client # row[x].client THEN [rehomed EXCEPT ![x] = m] ELSE rehomed
  BY NowIsMoment DEF Wrote, Write
<1>3. /\ Holds(h) /\ LoadStands(h) /\ LoadIsDated(h) /\ CheckStands(h) /\ LookStands(h)
      /\ h \in Jobs /\ h.seen \in Nat /\ h.seen < m /\ h.checked \in Nat /\ h.checked < m
  <2>1. Fits(h) /\ h \in Jobs
    BY <1>2 DEF IInv, RequestsFit, TypeOK
  <2> QED
    BY <1>1, <2>1 DEF Fits, Holds, Jobs, Moments
<1>4. req'[p] = h
  BY <1>1
<1>5. Holds(h)'
  BY <1>1, <1>2, <1>3, <1>4 DEF Holds
<1>6. LoadStands(h)'
  <2>1. /\ SavedSince(h.row, h.seen) => SavedSince(h.row, h.seen)'
        /\ SavedSince(x, h.seen)'
    BY <1>3, <1>4, WriteRemembers
  <2>2. h.do \in {"form", "save", "flip"} =>
          SavedSince(h.row, h.seen)' \/ row'[h.row].status = h.old.status
    BY <1>1, <1>2, <1>3, <2>1 DEF LoadStands, Holds
  <2> QED
    BY <1>3, <1>4, <2>2 DEF LoadStands
<1>7. LoadIsDated(h)'
  BY <1>3, <1>4 DEF LoadIsDated
<1>8. CheckStands(h)'
  <2> SUFFICES ASSUME h.do = "save", NEW l \in h.new.links
               PROVE  row'[l].client = h.new.client \/ rehomed'[l] > h.checked
    BY <1>4 DEF CheckStands
  <2>1. l \in Rows
    BY <1>3 DEF Holds, RowsOf, Linkable, Rows
  <2>2. row[l].client = h.new.client \/ rehomed[l] > h.checked
    BY <1>3 DEF CheckStands
  <2>3. rehomed \in [Rows -> Moments]
    BY <1>2 DEF TypeOK
  <2>4. CASE l # x
    BY <1>1, <1>2, <2>1, <2>2, <2>3, <2>4
  <2>5. CASE l = x
    BY <1>1, <1>2, <1>3, <2>1, <2>2, <2>3, <2>5
  <2> QED
    BY <2>4, <2>5
<1>9. LookStands(h)'
  <2> SUFFICES ASSUME h.do = "import", NEW y \in Clients \ {h.row},
                      NEW k \in h.asked \cap row'[y].keys
               PROVE  \/ Excused(h.row, y, k)'
                      \/ \E b \in keyed' : b.client = y /\ b.key = k /\ b.at > h.seen
    BY <1>4 DEF LookStands
  <2>1. keyed \subseteq keyed' /\ (Excused(h.row, y, k) => Excused(h.row, y, k)')
    BY <1>4, WriteRemembers
  <2>2. CASE k \in row[y].keys
    BY <1>3, <2>1, <2>2 DEF LookStands
  <2>3. CASE k \notin row[y].keys
    <3>1. y = x /\ k \in Got(x, new)
      BY <1>1, <2>3 DEF Rows, Got
    <3>2. CASE k \in asked
      BY <1>3, <3>1, <3>2, WriteKeys
    <3>3. CASE k \notin asked
      <4>1. <<y, k>> \in unasked'
        BY <3>1, <3>3, WriteKeys
      <4> QED
        BY <4>1 DEF Excused
    <3> QED
      BY <3>2, <3>3
  <2> QED
    BY <2>2, <2>3
<1> QED
  BY <1>4, <1>5, <1>6, <1>7, <1>8, <1>9 DEF Fits

(* The links of the rows agree when the ones of the row that is written do. *)
LEMMA WriteLinks ==
  ASSUME IInv, NEW r \in Requests, NEW x, NEW m, NEW new, NEW asked, NEW q,
         Wrote(r, x, m, new, asked, q),
         \A y \in Rows : y # x => checked'[y] = checked[y],
         \A l \in new.links : l # x => row[l].client = new.client \/ rehomed[l] > checked'[x]
  PROVE  LinksAgree'
<1>1. /\ Now \in Nat /\ m = Now + 1 /\ row' = [row EXCEPT ![x] = new] /\ row \in [Rows -> AnyRow]
  BY WriteMeans
<1>2. /\ TypeOK /\ x \in Rows /\ new \in RowsOf(x)
      /\ rehomed' = IF new.client # row[x].client THEN [rehomed EXCEPT ![x] = m] ELSE rehomed
  BY NowIsMoment DEF Wrote, Write
<1>3. rehomed \in [Rows -> Moments] /\ \A y \in Rows : checked[y] \in Nat /\ checked[y] <= Now
  BY <1>2 DEF TypeOK, Moments, IInv, MomentsPass
<1>4. \A y \in Rows : row'[y] = IF y = x THEN new ELSE row[y]
  BY <1>1
<1>5. \A l \in Rows : l # x => rehomed'[l] = rehomed[l]
  BY <1>2, <1>3
<1>6. \/ row'[x].client = row[x].client /\ rehomed'[x] = rehomed[x]
      \/ rehomed'[x] = m
  BY <1>2, <1>3, <1>4
<1> SUFFICES ASSUME NEW y \in Rows, NEW l \in row'[y].links
             PROVE  row'[l].client = row'[y].client \/ rehomed'[l] > checked'[y]
  BY DEF LinksAgree
<1>7. CASE y = x
  <2>1. l \in new.links /\ l \in Rows
    BY <1>2, <1>4, <1>7 DEF RowsOf, Linkable, Rows
  <2> QED
    BY <1>4, <1>5, <1>7, <2>1
<1>8. CASE y # x
  <2>1. l \in row[y].links /\ l \in Rows /\ row'[y] = row[y] /\ checked'[y] = checked[y]
    BY <1>1, <1>4, <1>8 DEF AnyRow
  <2>2. row[l].client = row[y].client \/ rehomed[l] > checked[y]
    BY <2>1 DEF IInv, LinksAgree
  <2>3. CASE l = x
    BY <1>1, <1>3, <1>6, <2>1, <2>2, <2>3
  <2>4. CASE l # x
    BY <1>4, <1>5, <2>1, <2>2, <2>4
  <2> QED
    BY <2>3, <2>4
<1> QED
  BY <1>7, <1>8

(* Two clients share a key after a write if they did, or if the writer got *)
(* a key that nobody looked for, or looked for before the other got it.    *)
LEMMA WriteTwins ==
  ASSUME IInv, NEW r \in Requests, NEW x, NEW m, NEW new, NEW asked, NEW q,
         Wrote(r, x, m, new, asked, q),
         \A y \in Clients \ {x} : \A k \in Got(x, new) \cap asked \cap row[y].keys :
           Excused(x, y, k)'
  PROVE  TwinsNeedARace'
<1>1. row' = [row EXCEPT ![x] = new] /\ row \in [Rows -> AnyRow]
  BY WriteMeans
<1>2. \A y \in Clients : row'[y] = IF y = x THEN new ELSE row[y]
  BY <1>1 DEF Rows
<1>3. \A y, k, z : Excused(y, z, k) => Excused(y, z, k)'
  BY WriteRemembers
<1>4. \A y, k, z : Excused(y, z, k)' => Excused(z, y, k)'
  BY DEF Excused, Raced
<1>5. ASSUME x \in Clients, NEW y \in Clients \ {x}, NEW k \in new.keys \cap row[y].keys
      PROVE  Excused(x, y, k)'
  <2>1. CASE k \in row[x].keys
    <3>1. Excused(x, y, k)
      BY <1>5, <2>1 DEF IInv, TwinsNeedARace
    <3> QED
      BY <1>3, <3>1
  <2>2. CASE k \in Got(x, new) /\ k \notin asked
    <3>1. <<x, k>> \in unasked'
      BY <2>2, WriteKeys
    <3> QED
      BY <3>1 DEF Excused
  <2>3. CASE k \in Got(x, new) /\ k \in asked
    BY <1>5, <2>3
  <2> QED
    BY <2>1, <2>2, <2>3 DEF Got
<1> SUFFICES ASSUME NEW y \in Clients, NEW z \in Clients, y # z,
                    NEW k \in row'[y].keys \cap row'[z].keys
             PROVE  Excused(y, z, k)'
  BY DEF TwinsNeedARace
<1>6. CASE y = x
  BY <1>2, <1>5, <1>6
<1>7. CASE z = x
  BY <1>2, <1>4, <1>5, <1>7
<1>8. CASE y # x /\ z # x
  <2>1. Excused(y, z, k)
    BY <1>2, <1>8 DEF IInv, TwinsNeedARace
  <2> QED
    BY <1>3, <2>1
<1> QED
  BY <1>6, <1>7, <1>8

(* Types, moments and the audit after a write.                             *)
LEMMA WriteTypes ==
  ASSUME IInv, NEW r \in Requests, NEW x, NEW m, NEW new, NEW asked, NEW q,
         Wrote(r, x, m, new, asked, q), Says(r, x, m, new, q),
         checked' \in [Rows -> Moments]
  PROVE  TypeOK'
<1>1. /\ Now \in Nat /\ m = Now + 1 /\ Now' = m /\ m \in Moments /\ row' = [row EXCEPT ![x] = new]
      /\ row \in [Rows -> AnyRow] /\ new \in AnyRow
      /\ \A p \in Requests : req'[p] = IF p = r THEN q ELSE req[p]
  BY WriteMeans
<1>2. /\ TypeOK /\ x \in Rows /\ new \in RowsOf(x)
      /\ rehomed' = IF new.client # row[x].client THEN [rehomed EXCEPT ![x] = Now + 1] ELSE rehomed
      /\ q \in Jobs /\ (q.do = "idle" => q = NoRow) /\ req' = [req EXCEPT ![r] = q]
      /\ UNCHANGED <<history, audit, lost, deaths>>
  BY NowIsMoment DEF Wrote, Write, trail
<1>3. row' \in [Rows -> AnyRow] /\ \A y \in Rows : row'[y] \in RowsOf(y) \cup {Absent}
  BY <1>1, <1>2 DEF TypeOK
<1>4. rehomed' \in [Rows -> Moments]
  BY <1>1, <1>2 DEF TypeOK
<1>5. /\ keyed' \subseteq [client : Clients, key : Keys, looked : Moments, at : Moments]
      /\ unasked' \subseteq Clients \X Keys
  <2>1. req[r].seen \in Moments
    BY <1>2 DEF TypeOK, Jobs
  <2> QED
    BY <1>1, <1>2, <2>1, WriteKeys DEF TypeOK
<1>6. req' \in [Requests -> Jobs]
  BY <1>2, Becoming
<1>7. \A p \in Requests : Idle(p)' => req'[p] = NoRow
  BY <1>1, <1>2 DEF Idle, TypeOK
<1>8. saves' \in Seq([row : Rows, blind : BOOLEAN])
  BY WriteMeans
<1> QED
  BY <1>1, <1>2, <1>3, <1>4, <1>5, <1>6, <1>7, <1>8 DEF TypeOK

LEMMA WriteRest ==
  ASSUME IInv, NEW r \in Requests, NEW x, NEW m, NEW new, NEW asked, NEW q,
         Wrote(r, x, m, new, asked, q), Says(r, x, m, new, q),
         \A y \in Rows : checked'[y] \in Nat /\ checked'[y] < m
  PROVE  MomentsPass' /\ TellersDiffer' /\ TrailsAgree'
<1>1. /\ Now \in Nat /\ m \in Nat /\ m = Now + 1 /\ Now' = m
      /\ \A p \in Requests : req'[p] = IF p = r THEN q ELSE req[p]
  BY WriteMeans
<1>2. /\ TypeOK /\ x \in Rows
      /\ rehomed' = IF new.client # row[x].client THEN [rehomed EXCEPT ![x] = m] ELSE rehomed
      /\ q.do \in {"idle", "tell", "file"} /\ req[r].do \notin {"tell", "audit"}
      /\ UNCHANGED <<history, audit, deaths>>
  BY NowIsMoment DEF Wrote, Write, trail
<1>3. MomentsPass'
  <2>1. \A y \in Rows : rehomed'[y] <= m
    <3>1. rehomed \in [Rows -> Moments] /\ \A y \in Rows : rehomed[y] \in Nat /\ rehomed[y] <= Now
      BY <1>2 DEF TypeOK, Moments, IInv, MomentsPass
    <3> QED
      BY <1>1, <1>2, <3>1
  <2>2. \A k \in keyed' : k.looked <= m /\ k.at <= m
    <3>1. \A k \in keyed : k.looked \in Nat /\ k.at \in Nat /\ k.looked <= Now /\ k.at <= Now
      BY <1>2 DEF TypeOK, Moments, IInv, MomentsPass
    <3>2. \A k \in keyed' : k \in keyed \/ (k.looked = req[r].seen /\ k.at = m)
      BY WriteKeys
    <3>3. req[r].seen \in Nat /\ req[r].seen <= Now
      BY WriteKeys
    <3> QED
      BY <1>1, <3>1, <3>2, <3>3
  <2>3. /\ \A n \in audit : n \in Nat /\ n <= Now
        /\ \A e \in history : e.at \in Nat /\ e.at <= Now
    BY <1>2 DEF TypeOK, Moments, IInv, MomentsPass
  <2>4. (\A n \in audit' : n <= m) /\ (\A e \in history' : e.at <= m)
    BY <1>1, <1>2, <2>3
  <2>5. \A y \in Rows : checked'[y] <= m
    BY <1>1
  <2> QED
    BY <1>1, <2>1, <2>2, <2>4, <2>5 DEF MomentsPass
<1>4. TellersDiffer'
  <2>1. \A o \in Requests : o # r => req'[o] = req[o]
    BY <1>1
  <2>2. req'[r] = q /\ q.do # "audit" /\ (q.do = "tell" => q.seen = m)
    BY <1>1, <1>2 DEF Says
  <2>3. \A o \in Requests : req[o].seen \in Nat /\ req[o].seen <= Now
    BY <1>2 DEF TypeOK, Jobs, Moments, IInv, RequestsFit, Fits, Holds
  <2>4. m \notin audit
    BY <1>1, <1>2 DEF TypeOK, Moments, IInv, MomentsPass
  <2> QED
    BY <1>1, <1>2, <2>1, <2>2, <2>3, <2>4 DEF IInv, TellersDiffer
<1>5. TrailsAgree'
  <2>1. Auditing' = Auditing
    BY <1>1, <1>2 DEF Auditing
  <2>2. Agreeing /\ audit' = audit /\ Told' = Told /\ Unnamed' = Unnamed
    BY <1>2, TrailsMean DEF IInv, Unnamed, Told
  <2> QED
    BY <1>2, <2>1, <2>2, TrailsMean DEF Agreeing
<1> QED
  BY <1>3, <1>4, <1>5

(* A write that is as careful as those below keeps everything.             *)
LEMMA WriteKeeps ==
  ASSUME IInv, NEW r \in Requests, NEW x, NEW m, NEW new, NEW asked, NEW q,
         Wrote(r, x, m, new, asked, q), Says(r, x, m, new, q),
         x \in Proposals => Dated(new),
         checked' \in [Rows -> Moments], \A y \in Rows : y # x => checked'[y] = checked[y],
         checked'[x] < m,
         \A l \in new.links : l # x => row[l].client = new.client \/ rehomed[l] > checked'[x],
         \A y \in Clients \ {x} : \A k \in Got(x, new) \cap asked \cap row[y].keys :
           Excused(x, y, k)'
  PROVE  IInv'
<1>1. /\ Now \in Nat /\ m \in Nat /\ m = Now + 1 /\ Now' = m /\ row' = [row EXCEPT ![x] = new]
      /\ row \in [Rows -> AnyRow] /\ saves'[m].row = x
      /\ \A p \in Requests : req'[p] = IF p = r THEN q ELSE req[p]
  BY WriteMeans
<1>2. TypeOK'
  BY WriteTypes
<1>3. DatesFitStatus'
  <2>1. \A p \in Proposals : row'[p] = IF p = x THEN new ELSE row[p]
    BY <1>1 DEF Rows
  <2> QED
    BY <1>2, <2>1 DEF IInv, DatesFitStatus
<1>4. \A y \in Rows : checked'[y] \in Nat /\ checked'[y] < m
  <2>1. \A y \in Rows : checked[y] <= Now
    BY DEF IInv, MomentsPass
  <2>2. \A y \in Rows : checked'[y] \in Nat
    BY DEF Moments
  <2>3. ASSUME NEW y \in Rows, y # x PROVE checked'[y] < m
    BY <1>1, <2>1, <2>2, <2>3
  <2> QED
    BY <2>2, <2>3
<1>5. MomentsPass' /\ TellersDiffer' /\ TrailsAgree'
  BY <1>4, WriteRest
<1>6. ReportsTell' /\ LinksAgree' /\ TwinsNeedARace'
  BY WriteTells, WriteLinks, WriteTwins
<1>7. Fits(q)'
  <2>1. /\ x \in Rows /\ q \in Jobs /\ q.do \in {"idle", "tell", "file"}
    BY DEF Wrote
  <2>2. IF q.do = "tell" THEN q.row = x /\ q.seen = m ELSE q.seen < m
    BY DEF Says
  <2>3. q.checked < m /\ q.seen \in Nat /\ q.checked \in Nat
    BY <2>1 DEF Says, Jobs, Moments
  <2>4. Holds(q)'
    BY <1>1, <2>1, <2>2, <2>3 DEF Holds
  <2> QED
    BY <2>1, <2>4 DEF Fits, LoadStands, LoadIsDated, CheckStands, LookStands
<1>8. RequestsFit'
  <2> SUFFICES ASSUME NEW p \in Requests PROVE Fits(req[p])'
    BY DEF RequestsFit
  <2>1. CASE p # r
    BY <2>1, WriteFits
  <2>2. CASE p = r
    <3>1. req'[p] = q
      BY <1>1, <2>2
    <3> QED
      BY <1>7, <3>1 DEF Fits, Holds, LoadStands, LoadIsDated, CheckStands, LookStands
  <2> QED
    BY <2>1, <2>2
<1> QED
  BY <1>3, <1>5, <1>6, <1>8 DEF IInv

-----------------------------------------------------------------------------
(* What a request that tells is.                                           *)
LEMMA TellingIsJob ==
  ASSUME NEW x \in Rows, NEW from \in AnyStatus, NEW to \in AnyStatus, NEW m \in Moments
  PROVE  /\ Telling(x, from, to, m) \in Jobs /\ Telling(x, from, to, m).do = "tell"
         /\ Telling(x, from, to, m).row = x /\ Telling(x, from, to, m).seen = m
         /\ Telling(x, from, to, m).from = from /\ Telling(x, from, to, m).to = to
         /\ Telling(x, from, to, m).checked = 0
BY IdleIsJob DEF Telling, Jobs

LEMMA SaveKeeps ==
  ASSUME IInv, NEW r \in Requests, Save(r)
  PROVE  IInv'
<1> SUFFICES ASSUME NEW x, x = req[r].row, NEW m, m = Now + 1, NEW new, new = req[r].new,
                    NEW q, q = IF req[r].tell THEN Telling(x, req[r].old.status, new.status, m)
                               ELSE NoRow
             PROVE  IInv'
  OBVIOUS
<1>1. /\ TypeOK /\ req[r] \in Jobs /\ req[r].do = "save" /\ Fits(req[r])
      /\ Now \in Nat /\ m \in Nat /\ m \in Moments /\ Now < MaxSaves
  <2>1. /\ TypeOK /\ req[r] \in Jobs /\ req[r].do = "save" /\ Fits(req[r])
        /\ Now \in Nat /\ Now < MaxSaves
    BY NowIsMoment DEF Save, Keep, Write, IInv, RequestsFit, TypeOK
  <2> QED
    BY <2>1, RecordsAssumption DEF Moments
<1>2. /\ x \in Rows /\ new \in RowsOf(x) /\ req[r].seen <= Now /\ req[r].checked <= Now
      /\ req[r].seen \in Nat /\ req[r].checked \in Moments
  BY <1>1 DEF Fits, Holds, Jobs, Moments
<1>3. /\ q \in Jobs /\ q.checked = 0 /\ (q.do = "idle" => q = NoRow)
      /\ IF req[r].tell THEN q.do = "tell" /\ q.row = x /\ q.seen = m
                             /\ q.from = req[r].old.status /\ q.to = new.status
         ELSE q.do = "idle" /\ q.seen = 0
  <2>1. req[r].old.status \in AnyStatus /\ new.status \in AnyStatus
    BY <1>1 DEF Jobs, AnyRow
  <2>2. CASE req[r].tell
    BY <1>1, <1>2, <2>1, <2>2, TellingIsJob
  <2>3. CASE ~req[r].tell
    BY <2>3, IdleIsJob
  <2> QED
    BY <2>2, <2>3
<1>4. /\ Write(r, new, {}) /\ UNCHANGED deaths /\ UNCHANGED trail
      /\ checked' = [checked EXCEPT ![x] = req[r].checked] /\ req' = [req EXCEPT ![r] = q]
  BY DEF Save, Keep
<1>5. Wrote(r, x, m, new, {}, q)
  BY <1>1, <1>2, <1>3, <1>4 DEF Wrote
<1>6. Says(r, x, m, new, q)
  <2>1. /\ SavedSince(x, req[r].seen) \/ row[x].status = req[r].old.status
        /\ ~req[r].tell => new.status = req[r].old.status
    BY <1>1 DEF Fits, LoadStands
  <2> QED
    BY <1>1, <1>3, <2>1 DEF Says
<1>7. x \in Proposals => Dated(new)
  BY <1>1 DEF Fits, LoadIsDated
<1>8. /\ checked' \in [Rows -> Moments] /\ \A y \in Rows : y # x => checked'[y] = checked[y]
      /\ checked'[x] = req[r].checked /\ checked'[x] < m
  <2>1. /\ checked' \in [Rows -> Moments] /\ \A y \in Rows : y # x => checked'[y] = checked[y]
        /\ checked'[x] = req[r].checked
    BY <1>1, <1>2, <1>4 DEF TypeOK
  <2>2. req[r].checked \in Nat /\ req[r].checked < m
    BY <1>1, <1>2 DEF Moments
  <2> QED
    BY <2>1, <2>2
<1>9. \A l \in new.links : l # x => row[l].client = new.client \/ rehomed[l] > checked'[x]
  BY <1>1, <1>8 DEF Fits, CheckStands
<1> QED
  BY <1>5, <1>6, <1>7, <1>8, <1>9, WriteKeeps

LEMMA FlipKeeps ==
  ASSUME IInv, NEW r \in Requests, Flip(r)
  PROVE  IInv'
<1> SUFFICES ASSUME NEW x, x = req[r].row, NEW m, m = Now + 1, NEW to, to = Flipped(req[r].old),
                    NEW q, q = Telling(x, req[r].old.status, to, m)
             PROVE  IInv'
  OBVIOUS
<1>1. /\ TypeOK /\ req[r] \in Jobs /\ req[r].do = "flip" /\ Fits(req[r])
      /\ Now \in Nat /\ m \in Nat /\ m \in Moments
  <2>1. /\ TypeOK /\ req[r] \in Jobs /\ req[r].do = "flip" /\ Fits(req[r])
        /\ Now \in Nat /\ Now < MaxSaves
    BY NowIsMoment DEF Flip, Write, IInv, RequestsFit, TypeOK
  <2> QED
    BY <2>1, RecordsAssumption DEF Moments
<1>2. x \in Tasks /\ x \in Rows /\ x \notin Proposals /\ x \notin Clients /\ row[x].there
  BY <1>1, RecordsAssumption DEF Fits, Holds
<1>3. PICK new \in RowsOf(x) :
        /\ new.status = to /\ new.links = row[x].links /\ new.client = row[x].client
        /\ to \in AnyStatus /\ Write(r, new, {})
  <2> DEFINE w == [row[x] EXCEPT !.status = to]
  <2>1. row[x] \in RowsOf(x)
    BY <1>1, <1>2, IdleIsJob DEF TypeOK
  <2>2. to \in Statuses(x) /\ to \in AnyStatus
    BY <1>2 DEF Flipped, Statuses, AnyStatus
  <2>3. w \in RowsOf(x) /\ w.status = to /\ w.links = row[x].links /\ w.client = row[x].client
    BY <2>1, <2>2 DEF RowsOf
  <2>4. Write(r, w, {})
    BY DEF Flip
  <2> QED
    BY <2>2, <2>3, <2>4
<1>4. /\ q \in Jobs /\ q.do = "tell" /\ q.checked = 0 /\ q.row = x /\ q.seen = m
      /\ q.from = req[r].old.status /\ q.to = new.status
  <2>1. req[r].old.status \in AnyStatus
    BY <1>1 DEF Jobs, AnyRow
  <2> QED
    BY <1>1, <1>2, <1>3, <2>1, TellingIsJob
<1>5. /\ UNCHANGED <<checked, deaths>> /\ UNCHANGED trail
      /\ req' = [req EXCEPT ![r] = q]
  BY DEF Flip
<1>6. Wrote(r, x, m, new, {}, q)
  BY <1>1, <1>2, <1>3, <1>4, <1>5 DEF Wrote
<1>7. Says(r, x, m, new, q)
  <2>1. SavedSince(x, req[r].seen) \/ row[x].status = req[r].old.status
    BY <1>1 DEF Fits, LoadStands
  <2> QED
    BY <1>1, <1>4, <2>1 DEF Says
<1>8. /\ checked' \in [Rows -> Moments] /\ checked' = checked /\ checked'[x] < m
  BY <1>1, <1>2, <1>5 DEF TypeOK, Moments, IInv, MomentsPass
<1>9. \A l \in new.links : l # x => row[l].client = new.client \/ rehomed[l] > checked'[x]
  BY <1>2, <1>3, <1>8 DEF IInv, LinksAgree
<1>10. \A y \in Rows : y # x => checked'[y] = checked[y]
  BY <1>8
<1>11. x \in Proposals => Dated(new)
  BY <1>2
<1> QED
  BY <1>6, <1>7, <1>8, <1>9, <1>10, <1>11, WriteKeeps

LEMMA ImportRowKeeps ==
  ASSUME IInv, NEW r \in Requests, ImportRow(r)
  PROVE  IInv'
<1> SUFFICES ASSUME NEW x, x = req[r].row, NEW m, m = Now + 1, NEW new, new = req[r].new,
                    NEW asked, asked = req[r].asked,
                    NEW q, q = [NoRow EXCEPT !.do = "file", !.file = req[r].file,
                                             !.tell = req[r].tell]
             PROVE  IInv'
  OBVIOUS
<1>1. /\ TypeOK /\ req[r] \in Jobs /\ req[r].do = "import" /\ Fits(req[r])
      /\ Now \in Nat /\ m \in Nat
  BY NowIsMoment DEF ImportRow, IInv, RequestsFit, TypeOK
<1>2. /\ x \in Rows /\ x \in Clients /\ x \notin Proposals \cup Tasks /\ new \in RowsOf(x)
      /\ new.links = {}
  <2>1. x \in Rows /\ x \in Clients /\ new \in RowsOf(x) /\ new.links = {}
    BY <1>1 DEF Fits, Holds
  <2> QED
    BY <2>1, RecordsAssumption
<1>3. q \in Jobs /\ q.do = "file" /\ q.seen = 0 /\ q.checked = 0
  BY <1>1, IdleIsJob DEF Jobs
<1>4. /\ Write(r, new, asked) /\ UNCHANGED <<checked, deaths>> /\ UNCHANGED trail
      /\ req' = [req EXCEPT ![r] = q]
  BY DEF ImportRow
<1>5. Wrote(r, x, m, new, asked, q)
  BY <1>1, <1>2, <1>3, <1>4 DEF Wrote
<1>6. Says(r, x, m, new, q)
  BY <1>1, <1>2, <1>3 DEF Says
<1>7. /\ checked' \in [Rows -> Moments] /\ checked' = checked /\ checked'[x] < m
  BY <1>1, <1>2, <1>4 DEF TypeOK, Moments, IInv, MomentsPass
<1>8. ASSUME NEW y \in Clients \ {x}, NEW k \in Got(x, new) \cap asked \cap row[y].keys
      PROVE  Excused(x, y, k)'
  <2>1. \/ Excused(x, y, k)
        \/ \E b \in keyed : b.client = y /\ b.key = k /\ b.at > req[r].seen
    BY <1>1 DEF Fits, LookStands
  <2>2. keyed \subseteq keyed' /\ (Excused(x, y, k) => Excused(x, y, k)')
    BY <1>5, WriteRemembers
  <2>3. ASSUME NEW b \in keyed, b.client = y, b.key = k, b.at > req[r].seen
        PROVE  Excused(x, y, k)'
    <3>1. PICK a \in keyed' :
            a.client = x /\ a.key = k /\ a.looked = req[r].seen /\ a.at = m
      BY <1>5, WriteKeys
    <3>2. b.looked \in Nat /\ b.looked <= Now
      BY <1>1 DEF TypeOK, Moments, IInv, MomentsPass
    <3>3. a.at > b.looked /\ b.at > a.looked
      BY <1>1, <2>3, <3>1, <3>2
    <3> QED
      BY <2>2, <2>3, <3>1, <3>3 DEF Excused, Raced
  <2> QED
    BY <2>1, <2>2, <2>3
<1> QED
  BY <1>2, <1>5, <1>6, <1>7, <1>8, WriteKeeps

-----------------------------------------------------------------------------
LEMMA InitIInv ==
  ASSUME Init
  PROVE  IInv
<1>1. /\ row \in FirstRows /\ history = {} /\ audit = {} /\ saves = << >> /\ lost = {}
      /\ checked = [x \in Rows |-> 0] /\ rehomed = [x \in Rows |-> 0]
      /\ keyed = {} /\ unasked = {} /\ deaths = 0 /\ req = [r \in Requests |-> NoRow]
  BY DEF Init
<1>2. /\ Now = 0 /\ Now \in Moments /\ 0 \in Moments
      /\ saves \in Seq([row : Rows, blind : BOOLEAN])
  BY <1>1, RecordsAssumption DEF Now, Moments
<1>3. /\ row \in [Rows -> AnyRow] /\ \A x \in Rows : row[x] \in RowsOf(x) \cup {Absent}
      /\ \A x \in Rows : \A l \in row[x].links : row[l].client = row[x].client
      /\ \A p \in Proposals : row[p].there => Dated(row[p])
      /\ \A c, d \in Clients : c # d => row[c].keys \cap row[d].keys = {}
  BY <1>1, RecordsAssumption
<1>4. \A r \in Requests : req[r] = NoRow
  BY <1>1
<1>5. DatesFitStatus
  <2>1. req \in [Requests -> Jobs]
    BY <1>1, IdleIsJob
  <2> QED
    BY <1>1, <1>2, <1>3, <1>4, <2>1, RecordsAssumption DEF DatesFitStatus, TypeOK
<1>6. RequestsFit
  BY <1>2, <1>4, IdleIsJob
  DEF RequestsFit, Fits, Holds, LoadStands, LoadIsDated, CheckStands, LookStands
<1>7. MomentsPass
  BY <1>1, <1>2 DEF MomentsPass
<1>8. ReportsTell
  <2>1. \A x : Reports(x) = {}
    BY <1>1, <1>4, IdleIsJob DEF Reports, EventsOf
  <2> QED
    BY <2>1 DEF ReportsTell
<1>9. LinksAgree /\ TwinsNeedARace
  BY <1>3 DEF LinksAgree, TwinsNeedARace
<1>10. TrailsAgree
  <2>1. Unnamed = {} /\ Auditing = {} /\ audit \subseteq Told
    BY <1>1, <1>4, IdleIsJob DEF Unnamed, Told, Auditing
  <2> QED
    BY <1>1, <2>1, FS_EmptySet, TrailsMean DEF Agreeing
<1>11. TellersDiffer
  BY <1>4, IdleIsJob DEF TellersDiffer
<1> QED
  BY <1>5, <1>6, <1>7, <1>8, <1>9, <1>10, <1>11 DEF IInv

LEMMA StutterKeeps ==
  ASSUME IInv, UNCHANGED vars
  PROVE  IInv'
<1>1. UNCHANGED <<row, history, audit, saves, lost, checked, rehomed, keyed, unasked, req, deaths>>
  BY DEF vars
<1>2. Now' = Now
  BY <1>1 DEF Now
<1>3. DatesFitStatus'
  BY <1>1, <1>2 DEF IInv, DatesFitStatus, TypeOK, Idle
<1>4. RequestsFit'
  BY <1>1, <1>2 DEF IInv, RequestsFit, Fits, Holds, LoadStands, LoadIsDated, CheckStands, LookStands,
                    SavedSince, Excused, Raced
<1>5. MomentsPass' /\ LinksAgree' /\ TwinsNeedARace' /\ TellersDiffer'
  BY <1>1, <1>2 DEF IInv, MomentsPass, LinksAgree, TwinsNeedARace, TellersDiffer, Excused, Raced
<1>6. ReportsTell'
  BY <1>1, <1>2 DEF IInv, ReportsTell, Reports, EventsOf, Slipped
<1>7. TrailsAgree'
  BY <1>1 DEF IInv, TrailsAgree
<1> QED
  BY <1>3, <1>4, <1>5, <1>6, <1>7 DEF IInv

LEMMA NextKeeps ==
  ASSUME IInv, [Next]_vars
  PROVE  IInv'
<1>1. ASSUME NEW r \in Requests, Step(r) PROVE IInv'
  <2>1. CASE Check(r)
    BY <2>1, CheckKeeps
  <2>2. CASE Save(r)
    BY <2>2, SaveKeeps
  <2>3. CASE Flip(r)
    BY <2>3, FlipKeeps
  <2>4. CASE Tell(r)
    BY <2>4, TellKeeps
  <2>5. CASE Audit(r)
    BY <2>5, AuditKeeps
  <2>6. CASE ImportRow(r)
    BY <2>6, ImportRowKeeps
  <2>7. CASE Imported(r)
    BY <2>7, ImportedKeeps
  <2>8. CASE Dies(r)
    BY <2>8, DiesQuietly, DiesTelling
  <2>9. CASE \E want \in KeySets : Find(r, want) \/ Skip(r, want)
    BY <2>9, FindKeeps, SkipKeeps
  <2> QED
    BY <1>1, <2>1, <2>2, <2>3, <2>4, <2>5, <2>6, <2>7, <2>8, <2>9 DEF Step
<1>2. ASSUME NEW r \in Requests, NEW x \in Rows, Load(r, x) PROVE IInv'
  BY <1>2, LoadKeeps
<1>3. ASSUME NEW r \in Requests, NEW x \in Tasks, Preset(r, x) \/ Click(r, x) PROVE IInv'
  BY <1>3, PresetKeeps, ClickKeeps
<1>4. ASSUME NEW r \in Requests, NEW file \in SUBSET KeySets \ {{}}, NEW update \in BOOLEAN,
             Upload(r, file, update)
      PROVE  IInv'
  BY <1>4, UploadKeeps
<1>5. CASE UNCHANGED vars
  BY <1>5, StutterKeeps
<1> QED
  BY <1>1, <1>2, <1>3, <1>4, <1>5 DEF Next

(***************************************************************************)
(* Whatever the requests hold when they save, tell or die fits the rows    *)
(* that the others have saved since.                                       *)
(***************************************************************************)
THEOREM InductiveInvariant == Spec => []IInv
<1>1. Init => IInv
  BY InitIInv
<1>2. IInv /\ [Next]_vars => IInv'
  BY NextKeeps
<1> QED
  BY <1>1, <1>2, PTL DEF Spec

(***************************************************************************)
(* _sync_proposal_timestamps: every proposal has the dates of its status,  *)
(* whatever was saved between the load and the save of a form, and every   *)
(* row, request and trail keeps its type.                                  *)
(***************************************************************************)
THEOREM DatesFitStatusThm == Spec => []DatesFitStatus
<1>1. IInv => DatesFitStatus
  BY DEF IInv
<1> QED
  BY <1>1, InductiveInvariant, PTL

(***************************************************************************)
(* log_*_updated, log_activity_completion_changed: with no event about to  *)
(* be written, the history of a proposal or a task leads from status to    *)
(* status to the row's, except past a save over another's and one whose    *)
(* process died before it was told.                                        *)
(***************************************************************************)
THEOREM HistoryTellsRowsThm == Spec => []HistoryTellsRows
<1>1. IInv => HistoryTellsRows
  <2> SUFFICES ASSUME IInv, NEW x \in Proposals \cup Tasks, ~Pending(x), NEW e \in EventsOf(x)
               PROVE  LET later == {d \in EventsOf(x) : d.at > e.at}
                      IN  IF later = {} THEN row[x].status = e.to \/ Slipped(x, e.at, Now)
                          ELSE \E d \in later : /\ \A c \in later : d.at <= c.at
                                                /\ d.from = e.to \/ Slipped(x, e.at, d.at)
    BY DEF HistoryTellsRows
  <2>1. Reports(x) = EventsOf(x)
    BY DEF Reports, Pending
  <2> QED
    BY <2>1 DEF IInv, ReportsTell
<1> QED
  BY <1>1, InductiveInvariant, PTL

(***************************************************************************)
(* Proposal.clean and the forms: a row is of the client of what it is      *)
(* linked to, unless that went to another client after it was checked.     *)
(***************************************************************************)
THEOREM LinksAgreeThm == Spec => []LinksAgree
<1>1. IInv => LinksAgree
  BY DEF IInv
<1> QED
  BY <1>1, InductiveInvariant, PTL

(***************************************************************************)
(* _find_existing_entity: two clients share a key only if one of them got  *)
(* it from a form, or from the import of a row that had found it by        *)
(* another key, or two imports looked for it before either wrote it.       *)
(***************************************************************************)
THEOREM TwinsNeedARaceThm == Spec => []TwinsNeedARace
<1>1. IInv => TwinsNeedARace
  BY DEF IInv
<1> QED
  BY <1>1, InductiveInvariant, PTL

(***************************************************************************)
(* record_crm_audit_event after log_*: the audit names nothing that the    *)
(* history does not tell, and misses at most one event for each request    *)
(* that is, or died, between the two.                                      *)
(***************************************************************************)
THEOREM TrailsAgreeThm == Spec => []TrailsAgree
<1>1. IInv => TrailsAgree
  BY DEF IInv
<1> QED
  BY <1>1, InductiveInvariant, PTL
=============================================================================
