------------------------------ MODULE Records ------------------------------
(***************************************************************************)
(* The rows a team writes by form: clients, deals, proposals, tasks,       *)
(* documents and custom objects.  A POST loads the row, checks the form    *)
(* against the rows it links to, saves every column, and then writes what  *)
(* happened in the history of the row and in the audit of the company,     *)
(* each in a transaction of its own.  A task is completed and reopened by  *)
(* a click, and clients are also imported from a file, row by row.  Of a   *)
(* column only what these trails and links tell apart is kept; the boards' *)
(* columns of a deal are in module DealBoard.                              *)
(***************************************************************************)
EXTENDS Naturals, Sequences, FiniteSets

CONSTANTS Clients, Deals, Proposals, Tasks, Papers, Customs,
          Keys,        \* what identifies a client: legal ids, mails, phones
          Rank,        \* of a key: its kind, in the order they are looked for
          Answers,     \* the statuses of a proposal that was answered
          NoClient,
          Requests,
          MaxSaves, MaxDeaths,
          FirstRows    \* the rows there may be at first

Rows == Clients \cup Deals \cup Proposals \cup Tasks \cup Papers \cup Customs
Moments == 0 .. MaxSaves

Statuses(x) == IF x \in Proposals THEN {"draft", "sent"} \cup Answers
               ELSE IF x \in Tasks THEN {"open", "done"} ELSE {"plain"}

\* What the form of x may link it to.
Linkable(x) == IF x \in Customs THEN Deals \cup Proposals
               ELSE IF x \in Proposals \cup Tasks \cup Papers THEN Deals ELSE {}

\* At most one key of a kind.
KeySets == {S \in SUBSET Keys : \A j, k \in S : Rank[j] = Rank[k] => j = k}

Absent == [there |-> FALSE, live |-> FALSE, client |-> NoClient, links |-> {},
           status |-> "plain", sent |-> FALSE, answered |-> FALSE, keys |-> {}]
RowsOf(x) == [there : {TRUE}, live : BOOLEAN, client : Clients \cup {NoClient},
              links : SUBSET Linkable(x), status : Statuses(x), sent : BOOLEAN,
              answered : BOOLEAN, keys : IF x \in Clients THEN KeySets ELSE {{}}]

AnyStatus == {"draft", "sent", "open", "done", "plain"} \cup Answers
AnyRow == [there : BOOLEAN, live : BOOLEAN, client : Clients \cup {NoClient},
           links : SUBSET Rows, status : AnyStatus, sent : BOOLEAN,
           answered : BOOLEAN, keys : KeySets]

\* The dates of a proposal are those of its status.
Dated(p) ==
  /\ p.status = "sent" => p.sent
  /\ p.status \in Answers => p.answered
  /\ p.status = "draft" => ~p.answered

(* No row is of two tables that are written in ways of their own, and the  *)
(* rows there are at first are as the forms leave them.                    *)
ASSUME RecordsAssumption ==
  /\ Proposals \cap Tasks = {}
  /\ Clients \cap (Deals \cup Proposals \cup Tasks \cup Papers \cup Customs) = {}
  /\ "draft" \notin Answers /\ Rank \in [Keys -> Nat]
  /\ IsFiniteSet(Deals) /\ IsFiniteSet(Proposals) /\ IsFiniteSet(Requests)
  /\ MaxSaves \in Nat /\ MaxDeaths \in Nat
  /\ \A f \in FirstRows :
       /\ f \in [Rows -> AnyRow]
       /\ \A x \in Rows : /\ f[x] \in RowsOf(x) \cup {Absent}
                         /\ \A l \in f[x].links : f[l].client = f[x].client
       /\ \A p \in Proposals : f[p].there => Dated(f[p])
       /\ \A c, d \in Clients : c # d => f[c].keys \cap f[d].keys = {}

VARIABLES row,      \* the committed rows
          history,  \* TimelineEvent: what was told of a save
          audit,    \* the saves the audit of the company names
          saves,    \* the saves in their order: whose row, and whether it had
                    \* been saved by another since it was loaded (ghost)
          lost,     \* the saves whose process died before telling (ghost)
          checked,  \* when the links of a row were checked (ghost)
          rehomed,  \* when a row last went to another client (ghost)
          keyed,    \* when a key a client got was looked for, and written (ghost)
          unasked,  \* the keys a client got that nobody looked for (ghost)
          req,      \* the request each process serves
          deaths

vars == <<row, history, audit, saves, lost, checked, rehomed, keyed, unasked, req, deaths>>
trail == <<history, audit, lost>>
ghosts == <<checked, rehomed, keyed, unasked>>

NoRow == [do |-> "idle", row |-> NoClient, old |-> Absent, new |-> Absent,
          from |-> "plain", to |-> "plain",
          seen |-> 0, checked |-> 0, tell |-> FALSE, file |-> {}, asked |-> {}]
Telling(x, from, to, at) == [NoRow EXCEPT !.do = "tell", !.row = x, !.from = from,
                                          !.to = to, !.seen = at]
Now == Len(saves)
Idle(r) == req[r].do = "idle"
Goto(r, do) == req' = [req EXCEPT ![r] = [@ EXCEPT !.do = do]]
Done(r) == req' = [req EXCEPT ![r] = NoRow]
SavedSince(x, n) == \E m \in (n + 1) .. Now : saves[m].row = x

\* A row that is there, or an id for a new one.
Free(x) == row[x].there \/ \A r \in Requests : req[r].row # x

-----------------------------------------------------------------------------
(* The forms *)

Forms(x) == [client : Clients \cup {NoClient},
             links  : {L \in SUBSET Linkable(x) : Cardinality(L \cap Deals) <= 1
                                                  /\ Cardinality(L \cap Proposals) <= 1},
             status : Statuses(x),
             live   : IF x \in Tasks THEN {TRUE} ELSE BOOLEAN,
             keys   : IF x \in Clients THEN KeySets ELSE {{}}]

Owners(f) == {row[l].client : l \in f.links} \cup ({f.client} \ {NoClient})
Owner(f) == IF Owners(f) = {} THEN NoClient ELSE CHOOSE c \in Owners(f) : TRUE

\* Mutant: the client of the deal is not compared.
ValidUnlinked(x, f) ==
  /\ f.client # NoClient => row[f.client].live
  /\ \A l \in f.links : row[l].live
  /\ x \in Deals \cup Tasks => f.client # NoClient
  /\ x \in Proposals => Owners(f) # {}
  /\ x \in Clients => f.client = NoClient

\* A form offers active rows only; all must be of one client, which a deal
\* and a task must name, and a proposal may take from its deal.
Valid(x, f) ==
  /\ f.client # NoClient => row[f.client].live
  /\ \A l \in f.links : row[l].live
  /\ Cardinality(Owners(f)) <= 1
  /\ x \in Deals \cup Tasks => f.client # NoClient
  /\ x \in Proposals => Owners(f) # {}
  /\ x \in Clients => f.client = NoClient

\* _sync_proposal_timestamps: an answer is dated once, and a draft has none.
Filled(old, f) ==
  [there |-> TRUE, live |-> f.live, client |-> Owner(f), links |-> f.links,
   status |-> f.status,
   sent |-> old.sent \/ f.status = "sent",
   answered |-> \/ f.status \in Answers
                \/ old.answered /\ (f.status = "draft" => old.status = "draft"),
   keys |-> f.keys]

Differs(old, f) == \/ f.client # old.client \/ f.links # old.links
                   \/ f.status # old.status \/ f.live # old.live \/ f.keys # old.keys

\* The POST of an edit loads the row; no page edits a task.
Load(r, x) ==
  /\ Idle(r) /\ Free(x)
  /\ row[x].there => x \notin Tasks
  /\ req' = [req EXCEPT ![r] = [NoRow EXCEPT !.do = "form", !.row = x,
                                             !.old = row[x], !.seen = Now]]
  /\ UNCHANGED <<row, saves, deaths>> /\ UNCHANGED trail /\ UNCHANGED ghosts

\* form.is_valid, and what it makes of the row; another column may have changed too.
Check(r) ==
  /\ req[r].do = "form"
  /\ \E f \in Forms(req[r].row), other \in BOOLEAN :
       /\ Valid(req[r].row, f)
       /\ req' = [req EXCEPT ![r] =
             [@ EXCEPT !.do = "save", !.new = Filled(req[r].old, f),
                       !.checked = IF f.links = {} THEN 0 ELSE Now,
                       !.tell = ~req[r].old.there \/ other \/ Differs(req[r].old, f)]]
  /\ UNCHANGED <<row, saves, deaths>> /\ UNCHANGED trail /\ UNCHANGED ghosts

\* activity_preset_create: a deal or a client that is inactive is ignored.
Preset(r, x) ==
  /\ Idle(r) /\ ~row[x].there /\ Free(x)
  /\ \E c \in Clients \cup {NoClient}, L \in SUBSET Deals :
       LET links == {l \in L : row[l].live}
           f == [client |-> IF c # NoClient /\ row[c].live THEN c ELSE NoClient,
                 links |-> links, status |-> "open", live |-> TRUE, keys |-> {}]
       IN  /\ Cardinality(L) <= 1 /\ Cardinality(Owners(f)) = 1
           /\ req' = [req EXCEPT ![r] = [NoRow EXCEPT !.do = "save", !.row = x,
                        !.new = Filled(Absent, f), !.seen = Now, !.checked = Now,
                        !.tell = TRUE]]
  /\ UNCHANGED <<row, saves, deaths>> /\ UNCHANGED trail /\ UNCHANGED ghosts

\* The row of request r becomes new; of its keys those asked had to be looked
\* for when the row was.
Write(r, new, asked) ==
  LET x == req[r].row
      got == new.keys \ row[x].keys
  IN  /\ Now < MaxSaves
      /\ row' = [row EXCEPT ![x] = new]
      /\ saves' = Append(saves, [row |-> x, blind |-> SavedSince(x, req[r].seen)])
      /\ rehomed' = IF new.client # row[x].client
                    THEN [rehomed EXCEPT ![x] = Now + 1] ELSE rehomed
      /\ keyed' = keyed \cup {[client |-> x, key |-> k, looked |-> req[r].seen,
                               at |-> Now + 1] : k \in got \cap asked}
      /\ unasked' = unasked \cup ({x} \X (got \ asked))

\* The save of a form, and whether there is something to tell of it.
Keep(r, new) ==
  /\ req[r].do = "save"
  /\ Write(r, new, {})
  /\ checked' = [checked EXCEPT ![req[r].row] = req[r].checked]
  /\ req' = [req EXCEPT ![r] = IF req[r].tell
                                    THEN Telling(req[r].row, req[r].old.status, new.status, Now + 1)
                                    ELSE NoRow]
  /\ UNCHANGED deaths /\ UNCHANGED trail

\* Mutant: only the columns that changed are saved.
SaveChanged(r) ==
  LET new == req[r].new
  IN  Keep(r, [c \in DOMAIN new |-> IF new[c] # req[r].old[c] THEN new[c]
                                    ELSE row[req[r].row][c]])

\* save() writes every column, over what others saved in between.
Save(r) == Keep(r, req[r].new)

-----------------------------------------------------------------------------
(* Completing a task, telling, and importing *)

\* activity_toggle_complete loads the task, and saves only completed_at.
Click(r, x) ==
  /\ Idle(r) /\ row[x].there
  /\ req' = [req EXCEPT ![r] = [NoRow EXCEPT !.do = "flip", !.row = x,
                                             !.old = row[x], !.seen = Now]]
  /\ UNCHANGED <<row, saves, deaths>> /\ UNCHANGED trail /\ UNCHANGED ghosts

Flipped(old) == IF old.status = "done" THEN "open" ELSE "done"

Flip(r) ==
  /\ req[r].do = "flip"
  /\ LET to == Flipped(req[r].old)
     IN  /\ Write(r, [row[req[r].row] EXCEPT !.status = to], {})
         /\ req' = [req EXCEPT ![r] = Telling(req[r].row, req[r].old.status, to, Now + 1)]
  /\ UNCHANGED <<checked, deaths>> /\ UNCHANGED trail

\* Mutant: the event is dated when it is written.
TellNow(r) ==
  /\ req[r].do = "tell"
  /\ history' = history \cup {[row |-> req[r].row, at |-> Now,
                               from |-> req[r].from, to |-> req[r].to]}
  /\ Goto(r, "audit")
  /\ UNCHANGED <<row, audit, saves, lost, deaths>> /\ UNCHANGED ghosts

\* log_*_created, log_*_updated, log_activity_completion_changed: the event is
\* dated with the save, so that the history is in the order of the saves.
Tell(r) ==
  /\ req[r].do = "tell"
  /\ history' = history \cup {[row |-> req[r].row, at |-> req[r].seen,
                               from |-> req[r].from, to |-> req[r].to]}
  /\ Goto(r, "audit")
  /\ UNCHANGED <<row, audit, saves, lost, deaths>> /\ UNCHANGED ghosts

\* Mutant: the history is not told first.
AuditOnly(r) ==
  /\ req[r].do \in {"tell", "audit"}
  /\ audit' = audit \cup {req[r].seen}
  /\ Done(r)
  /\ UNCHANGED <<row, history, saves, lost, deaths>> /\ UNCHANGED ghosts

Audit(r) ==
  /\ req[r].do = "audit"
  /\ audit' = audit \cup {req[r].seen}
  /\ Done(r)
  /\ UNCHANGED <<row, history, saves, lost, deaths>> /\ UNCHANGED ghosts

\* entity_import: the rows of the file are looked for and saved one by one.
Upload(r, file, update) ==
  /\ Idle(r)
  /\ req' = [req EXCEPT ![r] = [NoRow EXCEPT !.do = "file", !.file = file, !.tell = update]]
  /\ UNCHANGED <<row, saves, deaths>> /\ UNCHANGED trail /\ UNCHANGED ghosts

Matches(k) == {x \in Clients : row[x].there /\ k \in row[x].keys}

\* Mutant: when a row has a legal id, its mail is not looked for.
FoundByOne(want) == UNION {Matches(k) : k \in
  {k \in want : \A h \in want : Rank[k] <= Rank[h]}}

\* _find_existing_entity looks for the keys of a row of the file one after the
\* other, legal id, mail and phone, up to the first that some client has.
Found(want) == UNION {Matches(k) : k \in
  {k \in want : \A h \in want : Matches(h) # {} => Rank[k] <= Rank[h]}}

\* A client that is found is skipped when existing ones are not to be updated.
Skip(r, want) ==
  /\ req[r].do = "file" /\ want \in req[r].file
  /\ Found(want) # {} /\ ~req[r].tell
  /\ req' = [req EXCEPT ![r] = [@ EXCEPT !.file = req[r].file \ {want}]]
  /\ UNCHANGED <<row, saves, deaths>> /\ UNCHANGED trail /\ UNCHANGED ghosts

\* One of those found, or a new one, gets all the keys of the row; of the other
\* kinds it loses those whose column is there and empty.  The look owed it the
\* keys up to the first that it has.
Find(r, want) ==
  /\ req[r].do = "file" /\ want \in req[r].file
  /\ Found(want) # {} => req[r].tell
  /\ \E x \in IF Found(want) # {} THEN Found(want)
                ELSE {y \in Clients : ~row[y].there /\ Free(y)}, live \in BOOLEAN :
     \E kept \in SUBSET {k \in row[x].keys : \A j \in want : Rank[j] # Rank[k]} :
       req' = [req EXCEPT ![r] =
         [@ EXCEPT !.do = "import", !.row = x, !.old = row[x],
                   !.new = Filled(row[x], [client |-> NoClient, links |-> {},
                             status |-> "plain", live |-> live, keys |-> kept \cup want]),
                   !.seen = Now, !.file = req[r].file \ {want},
                   !.asked = {k \in want : \A h \in want \cap row[x].keys : Rank[k] <= Rank[h]}]]
  /\ UNCHANGED <<row, saves, deaths>> /\ UNCHANGED trail /\ UNCHANGED ghosts

ImportRow(r) ==
  /\ req[r].do = "import"
  /\ Write(r, req[r].new, req[r].asked)
  /\ req' = [req EXCEPT ![r] = [NoRow EXCEPT !.do = "file", !.file = req[r].file,
                                             !.tell = req[r].tell]]
  /\ UNCHANGED <<checked, deaths>> /\ UNCHANGED trail

\* The audit names an import as a whole, and the history says nothing of it.
Imported(r) ==
  /\ req[r].do = "file" /\ req[r].file = {}
  /\ Done(r)
  /\ UNCHANGED <<row, saves, deaths>> /\ UNCHANGED trail /\ UNCHANGED ghosts

\* A process dies: each of its statements was committed by itself.
Dies(r) ==
  /\ ~Idle(r) /\ deaths < MaxDeaths
  /\ deaths' = deaths + 1
  /\ lost' = IF req[r].do = "tell" THEN lost \cup {req[r].seen} ELSE lost
  /\ Done(r)
  /\ UNCHANGED <<row, history, audit, saves>> /\ UNCHANGED ghosts

Init ==
  /\ row \in FirstRows
  /\ history = {} /\ audit = {} /\ saves = << >> /\ lost = {}
  /\ checked = [x \in Rows |-> 0] /\ rehomed = [x \in Rows |-> 0]
  /\ keyed = {} /\ unasked = {}
  /\ req = [r \in Requests |-> NoRow]
  /\ deaths = 0

Step(r) ==
  \/ Check(r) \/ Save(r) \/ Flip(r) \/ Tell(r) \/ Audit(r) \/ ImportRow(r) \/ Imported(r)
  \/ Dies(r)
  \/ \E want \in KeySets : Find(r, want) \/ Skip(r, want)

Next == \E r \in Requests :
  \/ Step(r)
  \/ \E x \in Rows : Load(r, x)
  \/ \E x \in Tasks : Preset(r, x) \/ Click(r, x)
  \/ \E file \in SUBSET KeySets \ {{}}, update \in BOOLEAN : Upload(r, file, update)

Spec == Init /\ [][Next]_vars

-----------------------------------------------------------------------------

Jobs == [do : {"idle", "form", "save", "flip", "tell", "audit", "file", "import"},
         row : Rows \cup {NoClient}, old : AnyRow, new : AnyRow,
         from : AnyStatus, to : AnyStatus, seen : Moments, checked : Moments,
         tell : BOOLEAN, file : SUBSET KeySets, asked : SUBSET Keys]

TypeOK ==
  /\ row \in [Rows -> AnyRow] /\ \A x \in Rows : row[x] \in RowsOf(x) \cup {Absent}
  /\ history \subseteq [row : Rows, at : Moments, from : AnyStatus, to : AnyStatus]
  /\ saves \in Seq([row : Rows, blind : BOOLEAN]) /\ Now \in Moments
  /\ audit \subseteq Moments /\ lost \subseteq Moments
  /\ checked \in [Rows -> Moments] /\ rehomed \in [Rows -> Moments]
  /\ keyed \subseteq [client : Clients, key : Keys, looked : Moments, at : Moments]
  /\ unasked \subseteq Clients \X Keys
  /\ deaths \in 0 .. MaxDeaths
  /\ req \in [Requests -> Jobs] /\ \A r \in Requests : Idle(r) => req[r] = NoRow

(***************************************************************************)
(* _sync_proposal_timestamps: a proposal that was sent or answered has the *)
(* date, and a draft has no date of an answer, although the dates are      *)
(* those of the row a request loaded and another may have saved since; and *)
(* every row, request and trail keeps its type.                            *)
(***************************************************************************)
DatesFitStatus ==
  /\ TypeOK
  /\ \A x \in Proposals : row[x].there => Dated(row[x])

(***************************************************************************)
(* The history of a proposal or a task, in its order, is the row's: each   *)
(* event starts where the one before ended, and the last one ends where    *)
(* the row is - except past a save over another's, or one whose process    *)
(* died before it was told.                                                *)
(***************************************************************************)
EventsOf(x) == {e \in history : e.row = x}
Pending(x) == \E r \in Requests : req[r].do = "tell" /\ req[r].row = x
Slipped(x, after, upto) == \E n \in (after + 1) .. upto :
  saves[n].row = x /\ (saves[n].blind \/ n \in lost)

HistoryTellsRows == \A x \in Proposals \cup Tasks : ~Pending(x) =>
  \A e \in EventsOf(x) :
    LET later == {d \in EventsOf(x) : d.at > e.at}
    IN  IF later = {} THEN row[x].status = e.to \/ Slipped(x, e.at, Now)
        ELSE \E d \in later : /\ \A c \in later : d.at <= c.at
                              /\ d.from = e.to \/ Slipped(x, e.at, d.at)

(***************************************************************************)
(* Proposal.clean and the forms: a row is of the client of the deal, or    *)
(* the proposal, it is linked to.  The forms compare them when they are    *)
(* checked, and nothing follows a deal that goes to another client later.  *)
(***************************************************************************)
LinksAgree == \A x \in Rows : \A l \in row[x].links :
  row[l].client = row[x].client \/ rehomed[l] > checked[x]

(***************************************************************************)
(* EntityImportForm: a row of a file that matches a client updates it, and *)
(* makes no other.  So two clients share a key only if two imports, at some*)
(* time, looked for it before either wrote it, or if one of the clients got*)
(* it from a write that had not looked for it: a form, or the import of a  *)
(* row that had found the client by a key of another kind.                 *)
(***************************************************************************)
Raced(x, y, k) == \E a, b \in keyed :
  /\ a.client = x /\ b.client = y /\ a.key = k /\ b.key = k
  /\ a.at > b.looked /\ b.at > a.looked

Excused(x, y, k) == <<x, k>> \in unasked \/ <<y, k>> \in unasked \/ Raced(x, y, k)

TwinsNeedARace == \A x, y \in Clients : x # y =>
  \A k \in row[x].keys \cap row[y].keys : Excused(x, y, k)

(***************************************************************************)
(* record_crm_audit_event after log_*: what the audit names the history    *)
(* tells, and what the history tells the audit names, but for the requests *)
(* between the two and those that died there.                              *)
(***************************************************************************)
TrailsAgree ==
  LET told == {e.at : e \in history}
  IN  /\ audit \subseteq told
      /\ Cardinality(told \ audit) <= deaths + Cardinality({r \in Requests : req[r].do = "audit"})

(***************************************************************************)
(* The parts of an inductive invariant: what each request holds, and what  *)
(* was so when it loaded or checked and may since have changed only by a   *)
(* save that the trails remember.                                          *)
(***************************************************************************)
Holds(q) ==
  /\ q.do \notin {"idle", "file"} => q.row \in Rows
  /\ q.do \in {"save", "import"} => q.new \in RowsOf(q.row)
  /\ q.do = "import" => q.row \in Clients /\ q.new.links = {}
  /\ q.do = "flip" => q.row \in Tasks /\ row[q.row].there
  /\ q.do \in {"tell", "audit"} => q.seen \in 1 .. Now /\ saves[q.seen].row = q.row
  /\ q.seen <= Now /\ q.checked <= Now

\* Since the row was loaded its status is the same, or it was saved; a save
\* that will not be told leaves the status that was loaded.
LoadStands(q) ==
  /\ q.do \in {"form", "save", "flip"} =>
       SavedSince(q.row, q.seen) \/ row[q.row].status = q.old.status
  /\ q.do = "save" /\ ~q.tell => q.new.status = q.old.status

LoadIsDated(q) == q.row \in Proposals =>
  /\ q.do \in {"form", "save"} /\ q.old.status = "draft" => ~q.old.answered
  /\ q.do = "save" => Dated(q.new)

\* The links a form checked agree, or changed clients since.
CheckStands(q) == q.do = "save" => \A l \in q.new.links :
  row[l].client = q.new.client \/ rehomed[l] > q.checked

\* Of the clients that have a key an import looked for and is about to write,
\* each got it since the import looked, or shared it with the row already.
LookStands(q) == q.do = "import" =>
  \A y \in Clients \ {q.row} : \A k \in q.asked \cap row[y].keys :
    Excused(q.row, y, k) \/ \E b \in keyed : b.client = y /\ b.key = k /\ b.at > q.seen

Fits(q) == Holds(q) /\ LoadStands(q) /\ LoadIsDated(q) /\ CheckStands(q) /\ LookStands(q)
RequestsFit == \A r \in Requests : Fits(req[r])

\* No moment is later than the last save.
MomentsPass ==
  /\ \A x \in Rows : checked[x] <= Now /\ rehomed[x] <= Now
  /\ \A k \in keyed : k.looked <= Now /\ k.at <= Now
  /\ \A n \in audit : n <= Now
  /\ \A e \in history : e.at <= Now

\* What was told of x, and what is about to be.
Reports(x) == EventsOf(x) \cup
  {[row |-> x, at |-> req[r].seen, from |-> req[r].from, to |-> req[r].to] :
     r \in {p \in Requests : req[p].do = "tell" /\ req[p].row = x}}

ReportsTell == \A x \in Proposals \cup Tasks : \A e \in Reports(x) :
  LET later == {d \in Reports(x) : d.at > e.at}
  IN  IF later = {} THEN row[x].status = e.to \/ Slipped(x, e.at, Now)
      ELSE \E d \in later : /\ \A c \in later : d.at <= c.at
                            /\ d.from = e.to \/ Slipped(x, e.at, d.at)

\* Each save is told by one request, and named after it was told.
TellersDiffer ==
  /\ \A r, q \in Requests :
       /\ r # q /\ req[r].do \in {"tell", "audit"} /\ req[q].do \in {"tell", "audit"}
       => req[r].seen # req[q].seen
  /\ \A r \in Requests :
       /\ req[r].do \in {"tell", "audit"} => req[r].seen \notin audit
       /\ req[r].do = "audit" => \E e \in history : e.at = req[r].seen

IInv ==
  /\ DatesFitStatus
  /\ RequestsFit
  /\ MomentsPass
  /\ ReportsTell
  /\ LinksAgree
  /\ TwinsNeedARace
  /\ TrailsAgree
  /\ TellersDiffer
=============================================================================
