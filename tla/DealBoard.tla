----------------------------- MODULE DealBoard -----------------------------
(***************************************************************************)
(* The two boards of a company: deals in the stages of its pipelines, and  *)
(* collections in their statuses.  A card carries its place in its column  *)
(* as a number, spaced by 100 (here by 1).  A move renumbers the column it *)
(* enters and the one it leaves in one transaction; an edit does so in one *)
(* for collections, statement by statement for deals.  Every statement is  *)
(* an action; updates lock the rows they write until their transaction     *)
(* commits, and reads see committed rows and the transaction's own.        *)
(***************************************************************************)
EXTENDS PipelineTemplates

CONSTANTS Cards,        \* the cards' ids, positive numbers: they break ties
          FirstCards,   \* the boards a company may start with
          NoCard,       \* the row of a card not created yet
          MaxArrivals   \* how many requests arrive in a behaviour

VARIABLES board,     \* which of the two boards this behaviour is about
          cards,     \* the committed rows of Deal, or of CollectionRecord
          req,       \* the request each process serves
          own,       \* the rows its transaction wrote and holds locked
          late,      \* another request wrote since it read its rows (ghost)
          arrivals

boardVars == <<board, cards, req, own, late, arrivals>>
vars == <<pipelineVars, boardVars>>

\* A column is a stage of a pipeline.  Collections have no pipeline: their
\* columns, the statuses, are modelled as stages of any one.
Column == [pipe : Keys, stage : Stages]
Row == [col : Column, order : Nat, live : BOOLEAN]

ASSUME CardAssumption ==
  /\ Cards \subseteq Nat \ {0} /\ IsFiniteSet(Cards)
  /\ NoCard \notin Row /\ FirstCards \subseteq [Cards -> Row \union {NoCard}]

Nothing == [d \in {} |-> 0]

Idle == [do |-> "idle"]
Busy(r) == req[r].do # "idle"
There(rows) == {d \in Cards : rows[d] # NoCard}
Used == IF board = "deals" THEN {cards[d].col.pipe : d \in There(cards)} ELSE {}

\* Rows written over others; a request reads its own over the committed ones,
\* and does not write the rows another transaction holds.
Over(new, old) == [d \in DOMAIN new \union DOMAIN old |->
                     IF d \in DOMAIN new THEN new[d] ELSE old[d]]
Only(d, row) == [e \in {d} |-> row]
View(r) == Over(own[r], cards)
Locked(r) == UNION {DOMAIN own[q] : q \in Requests \ {r}}

\* The columns the form offers: the stages of the active pipelines.
Offered == IF board = "deals"
             THEN {c \in Column : pipes[c.pipe].active /\ c.stage \in pipes[c.pipe].stages}
             ELSE {c \in Column : c.pipe = CHOOSE k \in Keys : TRUE}
\* The columns a card may be dragged to: the stages of its own pipeline.
Reach(c) == {x \in Column : x.pipe = c.pipe /\
               (board = "deals" => x.stage \in pipes[c.pipe].stages)}

In(rows, c) == {d \in There(rows) : rows[d].col = c /\ rows[d].live}

\* The orders in which a column may be listed: by number, deals then by id,
\* collections then by fields abstracted here.
Lists(rows, S) ==
  {L \in [1 .. Cardinality(S) -> S] : \A i, j \in DOMAIN L : i < j =>
     /\ L[i] # L[j]
     /\ rows[L[i]].order <= rows[L[j]].order
     /\ (rows[L[i]].order = rows[L[j]].order /\ board = "deals") => L[i] < L[j]}

Least(a, b) == IF a <= b THEN a ELSE b
Top(rows, S) == IF S = {} THEN 0
                ELSE CHOOSE n \in {rows[d].order : d \in S} :
                       \A d \in S : rows[d].order <= n

\* Rows become visible to all: every other request may now be late.
Publish(r, rows) ==
  /\ cards' = Over(rows, cards)
  /\ late' = [q \in Requests |-> late[q] \/ (q # r /\ rows # Nothing)]
  /\ own' = [own EXCEPT ![r] = Nothing]

Still == UNCHANGED <<cards, own, late>>

(***************************************************************************)
(* The handlers read the card; then they validate what was posted.         *)
(***************************************************************************)
Arrive(r, x) ==
  /\ ~Busy(r) /\ ~AdminBusy(r) /\ arrivals < MaxArrivals
  /\ arrivals' = arrivals + 1
  /\ req' = [req EXCEPT ![r] = x]
  /\ late' = [late EXCEPT ![r] = FALSE]
  /\ UNCHANGED <<cards, own>>

Move(r) ==
  \E d \in There(cards), pos \in 0 .. Cardinality(Cards) - 1 :
    \E c \in Reach(cards[d].col) :
      Arrive(r, [do |-> "save", kind |-> "move", card |-> d, to |-> c,
                 from |-> cards[d].col, copy |-> cards[d], pos |-> pos,
                 tx |-> TRUE, todo |-> Nothing, turn |-> c])

Edit(r) ==
  \E d \in There(cards), c \in Offered, live \in BOOLEAN :
    LET moved == c # cards[d].col
    IN Arrive(r, [do |-> IF moved THEN "append" ELSE "save", kind |-> "edit",
                  card |-> d, to |-> c, from |-> cards[d].col,
                  copy |-> [col |-> c, order |-> cards[d].order, live |-> live],
                  pos |-> 0, tx |-> board = "collections", todo |-> Nothing, turn |-> c])

Create(r) ==
  \E c \in Offered, live \in BOOLEAN :
    Arrive(r, [do |-> "append", kind |-> "create", card |-> 0, to |-> c, from |-> c,
               copy |-> [col |-> c, order |-> 0, live |-> live], pos |-> 0,
               tx |-> FALSE, todo |-> Nothing, turn |-> c])

\* Mutant: the place is the number of cards, not the last number.
AppendByCount(r) ==
  /\ req[r].do = "append"
  /\ LET others == In(View(r), req[r].to) \ {req[r].card}
     IN req' = [req EXCEPT ![r] = [@ EXCEPT !.do = "save",
                  !.copy = [req[r].copy EXCEPT !.order = Cardinality(others) + 1]]]
  /\ Still

\* A card that enters a column by its form goes after the last one read there.
AppendToEnd(r) ==
  /\ req[r].do = "append"
  /\ LET others == In(View(r), req[r].to) \ {req[r].card}
     IN req' = [req EXCEPT ![r] = [@ EXCEPT !.do = "save",
                  !.copy = [req[r].copy EXCEPT !.order = Top(View(r), others) + 1]]]
  /\ Still

\* A move writes the stage alone, an edit the whole row as it was read.
SavedRow(r) ==
  LET d == req[r].card
  IN IF req[r].kind = "move"
       THEN [View(r)[d] EXCEPT !.col = [View(r)[d].col EXCEPT !.stage = req[r].to.stage]]
       ELSE req[r].copy

Save(r) ==
  /\ req[r].do = "save" /\ req[r].kind # "create"
  /\ req[r].card \notin Locked(r)
  /\ IF req[r].tx
       THEN /\ own' = [own EXCEPT ![r] = Over(Only(req[r].card, SavedRow(r)), @)]
            /\ UNCHANGED <<cards, late>>
       ELSE Publish(r, Only(req[r].card, SavedRow(r)))
  /\ req' = [req EXCEPT ![r] = [@ EXCEPT !.do =
       IF req[r].kind = "move" \/ req[r].to # req[r].from THEN "number"
       ELSE "commit"]]

\* A new card takes the next free id.
Insert(r) ==
  /\ req[r].do = "save" /\ req[r].kind = "create"
  /\ \E d \in Cards \ There(cards) :
       /\ \A e \in Cards \ There(cards) : d <= e
       /\ Publish(r, Only(d, req[r].copy))
  /\ req' = [req EXCEPT ![r] = Idle]

(***************************************************************************)
(* Renumbering: the column is listed, the moved card put where it was      *)
(* dropped, and the rows whose number changes are updated, one by one      *)
(* within a statement that waits for each lock it needs.                   *)
(***************************************************************************)
\* Mutant: the position counts the moved card itself.
PlacedCountingItself(L, pos, d) ==
  LET p == Least(pos, Len(L) - 1)
  IN IF L = <<>> THEN <<d>> ELSE SubSeq(L, 1, p) \o <<d>> \o SubSeq(L, p + 1, Len(L))

Placed(L, pos, d) ==
  LET p == Least(pos, Len(L))
  IN SubSeq(L, 1, p) \o <<d>> \o SubSeq(L, p + 1, Len(L))

Number(r) ==
  /\ req[r].do = "number"
  /\ LET x == req[r]
         moving == x.kind = "move" /\ x.turn = x.to
         rest == In(View(r), x.turn) \ (IF moving THEN {x.card} ELSE {})
         known(d) == IF moving /\ d = x.card THEN x.copy.order ELSE View(r)[d].order
     IN \E L \in Lists(View(r), rest) :
          LET P == IF moving THEN Placed(L, x.pos, x.card) ELSE L
              changed == {i \in DOMAIN P : known(P[i]) # i}
          IN req' = [req EXCEPT ![r] = [@ EXCEPT !.do = "update",
                !.todo = [d \in {P[i] : i \in changed} |-> CHOOSE i \in changed : P[i] = d]]]
  /\ Still

\* Mutant: the rows are saved with the column they were read in.
UpdateRowWhole(r, d) ==
  LET row == [View(r)[d] EXCEPT !.order = req[r].todo[d], !.col = req[r].turn]
      left == DOMAIN req[r].todo \ {d}
  IN /\ req' = [req EXCEPT ![r] = [@ EXCEPT !.todo = [e \in left |-> req[r].todo[e]]]]
     /\ IF left = {} /\ ~req[r].tx
          THEN Publish(r, Over(Only(d, row), own[r]))
          ELSE own' = [own EXCEPT ![r] = Over(Only(d, row), @)] /\ UNCHANGED <<cards, late>>

UpdateRow(r, d) ==
  LET row == [View(r)[d] EXCEPT !.order = req[r].todo[d]]
      left == DOMAIN req[r].todo \ {d}
  IN /\ req' = [req EXCEPT ![r] = [@ EXCEPT !.todo = [e \in left |-> req[r].todo[e]]]]
     /\ IF left = {} /\ ~req[r].tx
          THEN Publish(r, Over(Only(d, row), own[r]))
          ELSE own' = [own EXCEPT ![r] = Over(Only(d, row), @)] /\ UNCHANGED <<cards, late>>

Update(r) ==
  /\ req[r].do = "update"
  /\ \E d \in DOMAIN req[r].todo \ Locked(r) : UpdateRow(r, d)

\* The column entered is renumbered first, then the one left.
Updated(r) ==
  /\ req[r].do = "update" /\ req[r].todo = Nothing
  /\ req' = [req EXCEPT ![r] = [@ EXCEPT
       !.do = IF req[r].turn = req[r].from THEN "commit" ELSE "number",
       !.turn = req[r].from]]
  /\ Still

Commit(r) ==
  /\ req[r].do = "commit"
  /\ Publish(r, own[r])
  /\ req' = [req EXCEPT ![r] = Idle]

\* A process dies, or the database picks its transaction as the victim of a
\* deadlock: what it had not committed is gone.
Dies(r) ==
  /\ Busy(r)
  /\ own' = [own EXCEPT ![r] = Nothing]
  /\ req' = [req EXCEPT ![r] = Idle]
  /\ UNCHANGED <<cards, late>>

(***************************************************************************)
(* Settings requests of the deals' pipelines share the processes.  For     *)
(* them, late says that a card was written since they looked for deals;    *)
(* their writes of pipelines make the board's requests late.               *)
(***************************************************************************)
OpenSettings(r) ==
  /\ board = "deals" /\ ~Busy(r) /\ arrivals < MaxArrivals
  /\ Submit(r)
  /\ arrivals' = arrivals + 1
  /\ UNCHANGED late

Settings(r) ==
  \/ /\ Persist(r) \/ ListStale(r) \/ Answer(r) \/ AdminDies(r)
     /\ UNCHANGED late
  \/ Look(r, Used) /\ late' = [late EXCEPT ![r] = FALSE]
  \/ (Sync(r) \/ Retire(r)) /\ late' = [q \in Requests |-> late[q] \/ Busy(q)]

Receive(r) == Move(r) \/ Edit(r) \/ Create(r)

Work(r) ==
  \/ AppendToEnd(r) \/ Save(r) \/ Insert(r) \/ Number(r) \/ Update(r)
  \/ Updated(r) \/ Commit(r) \/ Dies(r)

Init ==
  /\ PipelineInit
  /\ board \in {"deals", "collections"}
  /\ cards \in FirstCards
  /\ \A d \in There(cards) : cards[d].col \in Offered
  /\ req = [r \in Requests |-> Idle]
  /\ own = [r \in Requests |-> Nothing]
  /\ late = [r \in Requests |-> FALSE]
  /\ arrivals = 0

Next == \E r \in Requests :
  \/ Receive(r) /\ UNCHANGED <<pipelineVars, board>>
  \/ Work(r) /\ UNCHANGED <<pipelineVars, board, arrivals>>
  \/ OpenSettings(r) /\ UNCHANGED <<board, cards, req, own>>
  \/ Settings(r) /\ UNCHANGED <<board, cards, req, own, arrivals>>

Spec == Init /\ [][Next]_vars

-----------------------------------------------------------------------------
Partial(S) == UNION {[D -> S] : D \in SUBSET Cards}
Job == [do : {"append", "save", "number", "update", "commit"},
        kind : {"move", "edit", "create"}, card : Cards \union {0}, to : Column,
        from : Column, turn : Column, copy : Row, pos : Nat, tx : BOOLEAN,
        todo : Partial(Nat)]

\* Only rows are stored, and a request at rest holds none.
TypeOK ==
  /\ PipelineTypeOK
  /\ board \in {"deals", "collections"}
  /\ cards \in [Cards -> Row \union {NoCard}]
  /\ req \in [Requests -> Job \union {Idle}]
  /\ own \in [Requests -> Partial(Row)]
  /\ late \in [Requests -> BOOLEAN]
  /\ \A r \in Requests : /\ ~Busy(r) => own[r] = Nothing
                         /\ ~(Busy(r) /\ AdminBusy(r))

(***************************************************************************)
(* deal_move, collection_move: a move that no other request wrote during   *)
(* lands where it was dropped: the columns it enters and leaves end        *)
(* numbered from 1 without a gap, the card is at the position asked for or *)
(* last, and the other cards keep their order.                             *)
(***************************************************************************)
KeepOrder(S) == \A d, e \in S :
  cards[d].order < cards[e].order => cards'[d].order < cards'[e].order

MovesLand == [][\A r \in Requests :
  (Commit(r) /\ req[r].kind = "move" /\ ~late[r] /\ cards[req[r].card].live) =>
    LET x == req[r]
        others == In(cards, x.to) \ {x.card}
    IN /\ In(cards', x.to) = others \union {x.card}
       /\ {cards'[d].order : d \in In(cards', x.to)} = 1 .. Cardinality(In(cards', x.to))
       /\ cards'[x.card].order = Least(x.pos, Cardinality(others)) + 1
       /\ KeepOrder(others)
       /\ x.from # x.to =>
            /\ {cards'[d].order : d \in In(cards', x.from)} = 1 .. Cardinality(In(cards', x.from))
            /\ KeepOrder(In(cards, x.from) \ {x.card})]_vars

(***************************************************************************)
(* Renumbering (_resequence_stage, _resequence_collection_status) works on *)
(* lists that may be old; whatever the interleaving, a card changes column *)
(* or leaves the board by a request for that card alone.                   *)
(***************************************************************************)
OnlyItsOwnRequests == [][\A d \in There(cards) :
  (cards'[d].col # cards[d].col \/ cards'[d].live # cards[d].live) =>
    \E r \in Requests : req'[r] # req[r] /\ Busy(r) /\ req[r].card = d]_vars

(***************************************************************************)
(* Two cards of a column come to have one number only when a request       *)
(* writes what it read before another one wrote, or when an edit puts an   *)
(* archived card back on the board with the number it had.                 *)
(***************************************************************************)
Ties(rows) == {p \in There(rows) \X There(rows) :
  /\ p[1] # p[2] /\ rows[p[1]].col = rows[p[2]].col
  /\ rows[p[1]].live /\ rows[p[2]].live /\ rows[p[1]].order = rows[p[2]].order}

TiesHaveACause == [][\A p \in Ties(cards') \ Ties(cards) :
  \/ \E r \in Requests : Busy(r) /\ req'[r] # req[r] /\ late[r]
  \/ \E i \in 1 .. 2 : p[i] \in There(cards) /\ ~cards[p[i]].live]_vars

(***************************************************************************)
(* deal_create, deal_edit against pipeline_settings: an inactive pipeline  *)
(* is shown on no board.  One comes to hold a deal only when the request   *)
(* that saves the deal read the pipeline before it was retired, or the one *)
(* that retires it looked for deals before the deal was saved.             *)
(***************************************************************************)
Hidden(rows, used) == {k \in used : ~rows[k].active}

HidingNeedsARace == [][\A k \in Hidden(pipes', Used') \ Hidden(pipes, Used) :
  \E r \in Requests : late[r] /\ (req'[r] # req[r] \/ admin'[r] # admin[r])]_vars

(***************************************************************************)
(* The parts of an inductive invariant: of a request x on the board b,     *)
(* whose transaction wrote the rows o over the committed rows C.           *)
(***************************************************************************)
\* What is written is there, and locked by one request.
Locks ==
  /\ \A r \in Requests : DOMAIN own[r] \subseteq There(cards)
  /\ \A q, r \in Requests : q # r => DOMAIN own[q] \intersect DOMAIN own[r] = {}

Serves(b, x, o, C) ==
  /\ x.kind = "create" => x.card = 0 /\ ~x.tx /\ x.do \in {"append", "save"}
  /\ x.kind # "create" => x.card \in There(C) /\ (x.tx <=> (x.kind = "move" \/ b = "collections"))
  /\ x.kind = "move" => x.do # "append" /\ x.to.pipe = x.from.pipe
  /\ x.kind = "edit" /\ x.do \in {"append", "number", "update"} => x.to # x.from
  /\ x.turn \in {x.to, x.from}
  /\ x.do \in {"append", "save"} => o = Nothing /\ x.turn = x.to
  /\ x.do \in {"append", "save"} /\ x.kind # "move" => x.copy.col = x.to
  /\ x.do = "commit" => x.turn = x.from \/ x.to = x.from
  /\ x.do # "update" => x.todo = Nothing
  /\ x.todo = Nothing /\ ~x.tx => o = Nothing
  /\ DOMAIN x.todo \subseteq There(C)

\* But for the request's own card the rows written stay in their column.
Keeps(x, o, C) == \A d \in DOMAIN o :
  /\ (d # x.card \/ ~x.tx) => o[d].col = C[d].col /\ o[d].live = C[d].live
  /\ x.kind = "move" => o[d].col.pipe = C[d].col.pipe /\ o[d].live = C[d].live

\* What was read is still so, as long as nobody else wrote.
StillOffered(b, P, x) ==
  b = "deals" /\ x.kind # "move" /\ x.do \in {"append", "save"} => P[x.to.pipe].active

StillRead(x, C) ==
  /\ x.kind # "create" /\ x.do \in {"append", "save"} => C[x.card].col = x.from
  /\ x.kind = "move" /\ x.do = "save" => x.copy = C[x.card]
  /\ x.kind = "edit" /\ x.do = "save" /\ x.to = x.from => x.copy.order = C[x.card].order
  /\ x.kind # "move" /\ x.do = "save" /\ ~(x.kind = "edit" /\ x.to = x.from) =>
       \A d \in In(C, x.to) \ {x.card} : C[d].order < x.copy.order

\* The number a card is about to have, in the column c as the request sees it.
Rank(x, v, d) == IF d \in DOMAIN x.todo THEN x.todo[d] ELSE v[d].order

Numbered(x, v, c) == \A d, e \in In(v, c) : Rank(x, v, d) = Rank(x, v, e) => d = e

\* A move numbers its columns from 1, leaves the other cards in their order
\* and the card where it was dropped.
Placing(x, v, C, c) ==
  /\ C[x.card].live => {Rank(x, v, d) : d \in In(v, c)} = 1 .. Cardinality(In(v, c))
  /\ \A d, e \in In(C, c) \ {x.card} :
       C[d].order < C[e].order => Rank(x, v, d) < Rank(x, v, e)

Landed(x, v, C) ==
  Rank(x, v, x.card) = Least(x.pos, Cardinality(In(C, x.to) \ {x.card})) + 1

\* The columns numbered so far, and the rows renumbered for that.
Done(x) == (IF x.do = "number" THEN {} ELSE {x.turn})
             \union (IF x.turn # x.to THEN {x.to} ELSE {})

Numbers(x, o, C) ==
  /\ \A c \in Done(x) : Numbered(x, Over(o, C), c)
  /\ x.kind = "move" => /\ \A c \in Done(x) : Placing(x, Over(o, C), C, c)
                        /\ x.to \in Done(x) => Landed(x, Over(o, C), C)
  /\ \A d \in DOMAIN o \union DOMAIN x.todo :
       d = x.card \/ \E c \in Done(x) : d \in In(Over(o, C), c)

Entered(x, o, C) ==
  /\ Over(o, C)[x.card].col = x.to
  /\ x.tx => C[x.card].col = x.from /\ x.card \in DOMAIN o
  /\ x.kind = "move" => x.copy = C[x.card]
  /\ x.kind = "move" /\ x.do = "number" /\ x.turn = x.to =>
       Over(o, C)[x.card].order = x.copy.order

Resequences(x) ==
  x.do \in {"number", "update"} \/ (x.do = "commit" /\ (x.kind = "move" \/ x.to # x.from))

Follows(x, o, C) ==
  /\ Resequences(x) => Entered(x, o, C) /\ Numbers(x, o, C)
  /\ x.do = "commit" /\ x.kind = "edit" /\ x.to = x.from =>
       \A d \in DOMAIN o : d = x.card /\ o[d].col = C[d].col /\ o[d].order = C[d].order

Fits(r) == Busy(r) =>
  /\ Serves(board, req[r], own[r], cards) /\ Keeps(req[r], own[r], cards)
  /\ ~late[r] => /\ StillOffered(board, pipes, req[r])
                 /\ StillRead(req[r], cards)
                 /\ Follows(req[r], own[r], cards)

\* A pipeline found without deals has none yet, unless somebody wrote.
StillEmpty == \A r \in Requests :
  admin[r].do = "retire" /\ ~late[r] => admin[r].empty \intersect Used = {}

IInv == TypeOK /\ CopiesInOrder /\ Locks /\ StillEmpty /\ \A r \in Requests : Fits(r)
=============================================================================
