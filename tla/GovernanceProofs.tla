-------------------------- MODULE GovernanceProofs --------------------------
(* The races of governance, for any companies, users and requests.         *)
(*                                                                         *)
(* The limits keep the promise of a quota: every step of a request is a    *)
(* step of module Quota or changes nothing there, so the bound proved of   *)
(* Quota holds of seats, managers and local users.  The links and the      *)
(* grants have inductive invariants of their own.                          *)
EXTENDS Governance, FiniteSetTheorems, TLAPS

(* A new holding or company satisfies the inductive invariant.             *)
LEMMA InitIInv == Init => IInv
<1> SUFFICES ASSUME Init PROVE IInv
  OBVIOUS
<1>1. TypeOK
  BY AllocationAssumption DEF Init, TypeOK, Idle, Steps
<1>2. /\ \A w \in Workers : req[w].step = "idle" /\ req[w].limit = 0
      /\ account.limit = ceiling /\ account.enforce = TRUE
  BY DEF Init, Idle
<1>3. ReadsAreRecorded
  BY <1>1, <1>2 DEF ReadsAreRecorded, TypeOK
<1> QED
  BY <1>1, <1>3 DEF IInv

(* What a request that begins may look like.                               *)
Beginning(q) ==
  /\ q \in [step : Steps, slot : Slots, role : Roles, on : BOOLEAN,
            current : BOOLEAN, then : {"write", "flip"}, limit : Limits \cup {0}]
  /\ q.limit <= ceiling

(* A request that begins keeps the invariant.                              *)
LEMMA BeginKeepsIInv ==
  ASSUME IInv, NEW w \in Workers, NEW q, Beginning(q), Begin(w, q)
  PROVE  IInv'
<1> USE DEF IInv
<1>1. TypeOK'
  BY DEF Begin, Beginning, TypeOK, Roles, history
<1>2. \A v \in Workers : req'[v] = IF v = w THEN q ELSE req[v]
  BY DEF Begin, TypeOK
<1>3. q.slot \in Slots /\ q.role \in Roles /\ q.limit <= ceiling
  BY DEF Beginning
<1>4. UNCHANGED <<kind, rows, account, ceiling, waived, toggled>>
  BY DEF Begin, history
<1>5. Roles' = Roles
  BY <1>4 DEF Roles
<1>6. \A v \in Workers :
        /\ req'[v].step # "idle" => req'[v].slot \in Slots /\ req'[v].role \in Roles
        /\ req'[v].limit <= ceiling
  BY <1>2, <1>3 DEF ReadsAreRecorded
<1>7. ReadsAreRecorded'
  BY <1>4, <1>5, <1>6 DEF ReadsAreRecorded
<1> QED
  BY <1>1, <1>7

(* The five ways to begin: the request, and whether its first read lets it *)
(* take a place at once, which only a row that counts already does.        *)
Begins(w, s, q) ==
  /\ Begin(w, q)
  /\ Beginning(q)
  /\ q.slot = s
  /\ Allowed(q) => s \in Held

LEMMA StartsBegin ==
  ASSUME IInv, NEW w \in Workers, NEW s \in Slots,
         \/ \E on \in BOOLEAN : StartMembership(w, s, on)
         \/ \E role \in {"counted", "uncounted"}, on \in BOOLEAN :
              StartAccess(w, s, role, on)
         \/ StartAssign(w, s)
         \/ ToggleAccess(w, s)
         \/ ToggleUser(w, s)
  PROVE  \E q : Begins(w, s, q)
<1> USE AllocationAssumption DEF IInv
<1>0. ceiling \in Nat /\ 0 <= ceiling /\ account.limit <= ceiling
      /\ account.limit \in Limits
  BY DEF TypeOK, ReadsAreRecorded
<1>1. ASSUME NEW on \in BOOLEAN, StartMembership(w, s, on)
      PROVE  \E q : Begins(w, s, q)
  <2> DEFINE q == [Idle EXCEPT !.slot = s, !.role = "counted", !.on = on,
                           !.current = Counted(rows[s]),
                           !.step = IF on THEN "billing" ELSE "write"]
  <2>1. Begin(w, q)
    BY <1>1 DEF StartMembership
  <2>2. Beginning(q) /\ q.slot = s
    BY <1>0, <1>1 DEF StartMembership, Beginning, Idle, Steps, Roles, Counted
  <2>3. Allowed(q) => s \in Held
    BY <1>1 DEF StartMembership, Allowed, Idle, Held
  <2> QED
    BY <2>1, <2>2, <2>3 DEF Begins
<1>2. ASSUME NEW role \in {"counted", "uncounted"}, NEW on \in BOOLEAN,
             StartAccess(w, s, role, on)
      PROVE  \E q : Begins(w, s, q)
  <2> DEFINE q == [Idle EXCEPT !.slot = s, !.role = role, !.on = on,
                           !.current = Counted(rows[s]),
                           !.step = IF on /\ role = "counted" THEN "billing" ELSE "write"]
  <2>1. Begin(w, q)
    BY <1>2 DEF StartAccess
  <2>2. Beginning(q) /\ q.slot = s
    BY <1>0, <1>2 DEF StartAccess, Beginning, Idle, Steps, Counted
  <2>3. Allowed(q) => s \in Held
    BY <1>2 DEF StartAccess, Allowed, Idle, Held
  <2> QED
    BY <2>1, <2>2, <2>3 DEF Begins
<1>3. ASSUME StartAssign(w, s)
      PROVE  \E q : Begins(w, s, q)
  <2> DEFINE q == [Idle EXCEPT !.slot = s, !.role = "counted", !.on = TRUE,
                           !.limit = account.limit,
                           !.step = IF Counted(rows[s]) THEN "write" ELSE "count"]
  <2>1. Begin(w, q)
    BY <1>3 DEF StartAssign
  <2>2. Beginning(q) /\ q.slot = s
    BY <1>0, <1>3 DEF StartAssign, Beginning, Idle, Steps, Roles
  <2>3. Allowed(q) => s \in Held
    BY <1>3 DEF StartAssign, Allowed, Idle, Held
  <2> QED
    BY <2>1, <2>2, <2>3 DEF Begins
<1>4. ASSUME ToggleAccess(w, s)
      PROVE  \E q : Begins(w, s, q)
  <2> DEFINE q == [Idle EXCEPT !.slot = s, !.role = rows[s].role,
                           !.on = ~rows[s].active, !.step = "flip"]
  <2>1. Begin(w, q)
    BY <1>4 DEF ToggleAccess
  <2>2. rows[s] \in [role : Roles, active : BOOLEAN]
    BY <1>4 DEF ToggleAccess, TypeOK
  <2>3. Beginning(q) /\ q.slot = s
    BY <1>0, <2>2 DEF Beginning, Idle, Steps
  <2>4. Allowed(q) => s \in Held
    BY <1>4 DEF ToggleAccess, Allowed, Idle
  <2> QED
    BY <2>1, <2>3, <2>4 DEF Begins
<1>5. ASSUME ToggleUser(w, s)
      PROVE  \E q : Begins(w, s, q)
  <2> DEFINE q == [Idle EXCEPT !.slot = s, !.role = "counted",
                           !.on = ~rows[s].active, !.limit = account.limit,
                           !.then = "flip",
                           !.step = IF rows[s].active THEN "flip" ELSE "count"]
  <2>1. Begin(w, q)
    BY <1>5 DEF ToggleUser
  <2>2. rows[s] \in [role : Roles, active : BOOLEAN]
    BY <1>5 DEF ToggleUser, TypeOK
  <2>3. Beginning(q) /\ q.slot = s
    BY <1>0, <1>5, <2>2 DEF ToggleUser, Beginning, Idle, Steps, Roles
  <2>4. Allowed(q) => s \in Held
    BY <1>5 DEF ToggleUser, Allowed, Idle
  <2> QED
    BY <2>1, <2>3, <2>4 DEF Begins
<1> QED
  BY <1>1, <1>2, <1>3, <1>4, <1>5

(* Every query and every change of a limit keeps the invariant.            *)
LEMMA StepKeepsIInv ==
  ASSUME IInv, [Next]_vars
  PROVE  IInv'
<1> USE AllocationAssumption DEF IInv
<1>1. CASE UNCHANGED vars
  BY <1>1 DEF vars, history, TypeOK, Roles, ReadsAreRecorded
<1>2. ASSUME NEW w \in Workers, NEW s \in Slots,
             \/ \E on \in BOOLEAN : StartMembership(w, s, on)
             \/ \E role \in {"counted", "uncounted"}, on \in BOOLEAN :
                  StartAccess(w, s, role, on)
             \/ StartAssign(w, s)
             \/ ToggleAccess(w, s)
             \/ ToggleUser(w, s)
      PROVE  IInv'
  <2>1. PICK q : Begins(w, s, q)
    BY <1>2, StartsBegin
  <2> QED
    BY <2>1, BeginKeepsIInv DEF Begins
<1>3. ASSUME NEW w \in Workers, ReadBilling(w)
      PROVE  IInv'
  <2>1. TypeOK'
    BY <1>3 DEF ReadBilling, TypeOK, Roles, history, Steps
  <2>2. ReadsAreRecorded'
    BY <1>3 DEF ReadBilling, TypeOK, Roles, history, ReadsAreRecorded
  <2> QED
    BY <2>1, <2>2
<1>4. ASSUME NEW w \in Workers, Count(w)
      PROVE  IInv'
  <2>1. TypeOK'
    BY <1>4 DEF Count, TypeOK, Roles, history, Steps, Idle
  <2>2. ReadsAreRecorded'
    BY <1>4 DEF Count, TypeOK, Roles, history, ReadsAreRecorded, Idle
  <2> QED
    BY <2>1, <2>2
<1>5. ASSUME NEW w \in Workers, Write(w)
      PROVE  IInv'
  <2>1. req[w].role \in Roles /\ req[w].on \in BOOLEAN
    BY <1>5 DEF Write, TypeOK, ReadsAreRecorded
  <2>2. TypeOK'
    BY <1>5, <2>1 DEF Write, TypeOK, Roles, history, Steps, Idle
  <2>3. ReadsAreRecorded'
    BY <1>5 DEF Write, TypeOK, Roles, history, ReadsAreRecorded, Idle
  <2> QED
    BY <2>2, <2>3
<1>6. ASSUME NEW w \in Workers, Flip(w)
      PROVE  IInv'
  <2> DEFINE s == req[w].slot
  <2>1. s \in Slots /\ req[w].on \in BOOLEAN
    BY <1>6 DEF Flip, TypeOK, ReadsAreRecorded
  <2>2. rows' \in [Slots -> {NoRow} \cup [role : Roles, active : BOOLEAN]]
    BY <1>6, <2>1 DEF Flip, TypeOK
  <2>3. UNCHANGED <<kind, account, ceiling, waived>> /\ Roles' = Roles
    BY <1>6 DEF Flip, Roles
  <2>4. req' = [req EXCEPT ![w] = Idle]
    BY <1>6 DEF Flip
  <2>5. toggled' \subseteq Slots
    BY <1>6, <2>1 DEF Flip, TypeOK
  <2>6. TypeOK'
    BY <2>2, <2>3, <2>4, <2>5 DEF TypeOK, Idle, Steps
  <2>7. ReadsAreRecorded'
    BY <2>3, <2>4 DEF TypeOK, ReadsAreRecorded, Idle
  <2> QED
    BY <2>6, <2>7
<1>7. ASSUME NEW s \in Slots, Delete(s)
      PROVE  IInv'
  <2>1. TypeOK'
    BY <1>7 DEF Delete, TypeOK, Roles, history
  <2>2. ReadsAreRecorded'
    BY <1>7 DEF Delete, Roles, history, ReadsAreRecorded
  <2> QED
    BY <2>1, <2>2
<1>8. ASSUME NEW limit \in Limits, NEW enforce \in BOOLEAN, Relimit(limit, enforce)
      PROVE  IInv'
  <2>1. TypeOK'
    BY <1>8 DEF Relimit, TypeOK, Roles
  <2>2. /\ ceiling <= ceiling' /\ account'.limit <= ceiling'
        /\ ceiling \in Nat /\ ceiling' \in Nat
    BY <1>8 DEF Relimit, TypeOK
  <2>3. \A w \in Workers : req'[w] = req[w] /\ req[w].limit \in Nat
    <3>1. \A w \in Workers : req[w].limit \in Limits \cup {0}
      BY DEF TypeOK
    <3>2. Limits \cup {0} \subseteq Nat
      OBVIOUS
    <3>3. req' = req
      BY <1>8 DEF Relimit
    <3> QED
      BY <3>1, <3>2, <3>3
  <2>4. Roles' = Roles
    BY <1>8 DEF Relimit, Roles
  <2>5. \A w \in Workers :
          /\ req'[w].step # "idle" => req'[w].slot \in Slots /\ req'[w].role \in Roles
          /\ req'[w].limit <= ceiling'
    BY <2>2, <2>3 DEF ReadsAreRecorded
  <2>6. ~account'.enforce => waived'
    <3>1. account'.enforce = enforce
      BY <1>8 DEF Relimit
    <3>2. waived' = (waived \/ ~enforce)
      BY <1>8 DEF Relimit
    <3> QED
      BY <3>1, <3>2, Zenon
  <2>7. ReadsAreRecorded'
    BY <2>2, <2>4, <2>5, <2>6 DEF ReadsAreRecorded
  <2> QED
    BY <2>1, <2>7
<1> QED
  BY <1>1, <1>2, <1>3, <1>4, <1>5, <1>6, <1>7, <1>8
  DEF Next, BillingUpdate, LimitEdit

(* The inductive invariant, type correctness included, holds in every      *)
(* reachable state of the seats, the managers and the local users.         *)
THEOREM InductiveInvariant == Spec => []IInv
BY InitIInv, StepKeepsIInv, PTL DEF Spec

-----------------------------------------------------------------------------
(* The quota counts as the handlers do.                                    *)
LEMMA SameCount ==
  ASSUME NEW S
  PROVE  /\ Places!IsFiniteSet(S) <=> IsFiniteSet(S)
         /\ Places!Cardinality(S) = Cardinality(S)
<1>1. Places!IsFiniteSet(S) <=> IsFiniteSet(S)
  BY Zenon DEF IsFiniteSet, Places!IsFiniteSet
<1>2. Places!Cardinality(S) = Cardinality(S)
  BY Zenon DEF Cardinality, Places!Cardinality
<1> QED
  BY <1>1, <1>2

(* As many workers as W claim at most Cardinality(W) slots.                *)
LEMMA ClaimsOfWorkers ==
  ASSUME NEW c, NEW W \in SUBSET Workers
  PROVE  LET C == {c[v] : v \in W}
         IN  /\ IsFiniteSet(C) /\ IsFiniteSet(W)
             /\ Cardinality(C) <= Cardinality(W)
<1> DEFINE C == {c[v] : v \in W}
           f == [v \in W |-> c[v]]
<1>1. IsFiniteSet(W)
  BY FS_Subset, AllocationAssumption
<1>2. f \in Surjection(W, C)
  BY DEF Surjection
<1> HIDE DEF f, C
<1>3. IsFiniteSet(C) /\ Cardinality(C) <= Cardinality(W)
  BY <1>1, <1>2, FS_Surjection
<1> QED
  BY <1>1, <1>3 DEF C

(* A set of slots is finite, and a smaller one has no more elements.       *)
LEMMA SmallerSet ==
  ASSUME NEW S, IsFiniteSet(S), NEW T, T \subseteq S
  PROVE  /\ IsFiniteSet(T)
         /\ Cardinality(T) \in Nat /\ Cardinality(S) \in Nat
         /\ Cardinality(T) <= Cardinality(S)
BY FS_Subset, FS_CardinalityType

(* The union of two finite sets has at most the sum of their sizes.        *)
LEMMA UnionBound ==
  ASSUME NEW S, IsFiniteSet(S), NEW T, IsFiniteSet(T)
  PROVE  /\ IsFiniteSet(S \cup T)
         /\ Cardinality(S \cup T) <= Cardinality(S) + Cardinality(T)
<1>1. /\ IsFiniteSet(S \cup T) /\ IsFiniteSet(S \cap T)
  BY FS_Union, FS_Subset
<1>2. /\ Cardinality(S) \in Nat /\ Cardinality(T) \in Nat
      /\ Cardinality(S \cap T) \in Nat
  BY <1>1, FS_CardinalityType
<1>3. Cardinality(S \cup T) = Cardinality(S) + Cardinality(T) - Cardinality(S \cap T)
  BY FS_Union
<1> QED
  BY <1>1, <1>2, <1>3

(* One element more makes a finite set larger by at most one.              *)
LEMMA OneMore ==
  ASSUME NEW S, IsFiniteSet(S), NEW x
  PROVE  /\ IsFiniteSet(S \cup {x})
         /\ Cardinality(S \cup {x}) <= Cardinality(S) + 1
<1>1. Cardinality(S) \in Nat
  BY FS_CardinalityType
<1>2. CASE x \in S
  BY <1>1, <1>2, FS_AddElement
<1>3. CASE x \notin S
  BY <1>1, <1>3, FS_AddElement
<1> QED
  BY <1>2, <1>3

(* A claim made while there is room leaves room for the other workers.     *)
LEMMA ClaimWithRoom ==
  ASSUME Places!TypeOK, NEW w \in Workers, NEW s \in Slots, Places!Claim(w, s),
         Cardinality(Vetted) < ceiling
  PROVE  Cardinality(Vetted \cup Places!Claimed') < ceiling + Cardinality(Workers)
<1> DEFINE Others == {VettedClaims[v] : v \in Workers \ {w}}
<1>1. Vetted \cup Places!Claimed' \subseteq (Vetted \cup Others) \cup {s}
  BY DEF Places!Claim, Places!Claimed, Places!TypeOK
<1>2. IsFiniteSet(Vetted) /\ Cardinality(Vetted) \in Nat
  BY SmallerSet, AllocationAssumption DEF Places!TypeOK
<1>3. /\ IsFiniteSet(Others) /\ Cardinality(Others) \in Nat
      /\ Cardinality(Others) <= Cardinality(Workers \ {w})
  BY ClaimsOfWorkers, FS_CardinalityType
<1>4. /\ Cardinality(Workers) \in Nat
      /\ Cardinality(Workers \ {w}) = Cardinality(Workers) - 1
  BY FS_RemoveElement, FS_CardinalityType, AllocationAssumption
<1> HIDE DEF Others
<1>5. /\ IsFiniteSet(Vetted \cup Others) /\ Cardinality(Vetted \cup Others) \in Nat
      /\ Cardinality(Vetted \cup Others) <= Cardinality(Vetted) + Cardinality(Others)
  BY <1>2, <1>3, UnionBound, FS_CardinalityType
<1>6. /\ IsFiniteSet((Vetted \cup Others) \cup {s})
      /\ Cardinality((Vetted \cup Others) \cup {s}) <= Cardinality(Vetted \cup Others) + 1
  BY <1>5, OneMore
<1>7. /\ Cardinality(Vetted \cup Places!Claimed') \in Nat
      /\ Cardinality((Vetted \cup Others) \cup {s}) \in Nat
      /\ Cardinality(Vetted \cup Places!Claimed') <= Cardinality((Vetted \cup Others) \cup {s})
  BY <1>1, <1>6, SmallerSet
<1>8. ceiling \in Nat
  BY DEF Places!TypeOK
<1>9. Cardinality(Vetted \cup Places!Claimed') <= Cardinality(Vetted) + Cardinality(Others) + 1
  <2> HIDE DEF Places!Claimed
  <2> QED
    BY <1>2, <1>3, <1>5, <1>6, <1>7
<1> QED
  BY <1>2, <1>3, <1>4, <1>7, <1>8, <1>9

(* Held and claimed slots are finitely many.                               *)
LEMMA FinitelyMany ==
  ASSUME Places!TypeOK
  PROVE  /\ IsFiniteSet(Vetted \cup Places!Claimed)
         /\ Cardinality(Vetted \cup Places!Claimed) \in Nat
         /\ Cardinality(Workers) \in Nat
<1>1. Vetted \cup Places!Claimed \subseteq Slots
  BY DEF Places!TypeOK, Places!Claimed
<1> QED
  BY <1>1, SmallerSet, FS_CardinalityType, AllocationAssumption

(* The bound, with this module's way to count.                             *)
Bounded ==
  ~waived => Cardinality(Vetted \cup Places!Claimed) < ceiling + Cardinality(Workers)

LEMMA BoundedIsPromised ==
  /\ Bounded <=> Places!ClaimsBounded
  /\ Bounded' <=> Places!ClaimsBounded'
BY SameCount DEF Bounded, Places!ClaimsBounded

(* Every step keeps the types and the bound on held and claimed slots.     *)
LEMMA StepKeepsBound ==
  ASSUME Places!TypeOK, Bounded, [Places!Next]_(Places!vars)
  PROVE  Places!TypeOK' /\ Bounded'
<1>1. CASE UNCHANGED Places!vars
  BY <1>1 DEF Places!vars, Places!TypeOK, Bounded, Places!Claimed
<1>2. ASSUME NEW w \in Workers, NEW s \in Slots, Places!Claim(w, s)
      PROVE  Places!TypeOK' /\ Bounded'
  <2>1. Places!TypeOK'
    BY <1>2 DEF Places!Claim, Places!TypeOK
  <2>2. Vetted' = Vetted /\ ceiling' = ceiling /\ waived' = waived
    BY <1>2 DEF Places!Claim
  <2>3. CASE waived
    BY <2>1, <2>2, <2>3 DEF Bounded
  <2>4. CASE s \in Vetted
    <3>1. Vetted \cup Places!Claimed' \subseteq Vetted \cup Places!Claimed
      BY <1>2, <2>4 DEF Places!Claim, Places!Claimed, Places!TypeOK
    <3>2. /\ Cardinality(Vetted \cup Places!Claimed') \in Nat
          /\ Cardinality(Vetted \cup Places!Claimed') <= Cardinality(Vetted \cup Places!Claimed)
      BY <3>1, FinitelyMany, SmallerSet
    <3> QED
      BY <2>1, <2>2, <3>2, FinitelyMany DEF Bounded, Places!TypeOK
  <2>5. CASE Cardinality(Vetted) < ceiling
    BY <1>2, <2>1, <2>2, <2>5, ClaimWithRoom DEF Bounded
  <2> QED
    BY <1>2, <2>3, <2>4, <2>5, SameCount DEF Places!Claim
<1>3. ASSUME NEW w \in Workers, Places!Take(w)
      PROVE  Places!TypeOK' /\ Bounded'
  <2>1. Places!TypeOK'
    BY <1>3 DEF Places!Take, Places!TypeOK
  <2>2. Vetted' \cup Places!Claimed' \subseteq Vetted \cup Places!Claimed
    BY <1>3 DEF Places!Take, Places!Claimed, Places!TypeOK
  <2>3. /\ Cardinality(Vetted' \cup Places!Claimed') \in Nat
        /\ Cardinality(Vetted' \cup Places!Claimed') <= Cardinality(Vetted \cup Places!Claimed)
    BY <2>2, FinitelyMany, SmallerSet
  <2> QED
    BY <1>3, <2>1, <2>3, FinitelyMany DEF Places!Take, Bounded, Places!TypeOK
<1>4. CASE Places!Drop
  <2>1. Places!TypeOK'
    BY <1>4 DEF Places!Drop, Places!TypeOK
  <2>2. Vetted' \cup Places!Claimed' \subseteq Vetted \cup Places!Claimed
    BY <1>4 DEF Places!Drop, Places!Claimed, Places!TypeOK
  <2>3. /\ Cardinality(Vetted' \cup Places!Claimed') \in Nat
        /\ Cardinality(Vetted' \cup Places!Claimed') <= Cardinality(Vetted \cup Places!Claimed)
    BY <2>2, FinitelyMany, SmallerSet
  <2> QED
    BY <1>4, <2>1, <2>3, FinitelyMany DEF Places!Drop, Bounded, Places!TypeOK
<1>5. CASE Places!Raise
  <2>1. Places!TypeOK'
    BY <1>5 DEF Places!Raise, Places!TypeOK
  <2>2. Vetted' \cup Places!Claimed' = Vetted \cup Places!Claimed
    BY <1>5 DEF Places!Raise, Places!Claimed
  <2>3. /\ ceiling \in Nat /\ ceiling' \in Nat /\ ceiling <= ceiling'
        /\ ~waived' => ~waived
    BY <1>5 DEF Places!Raise, Places!TypeOK
  <2>4. /\ Cardinality(Vetted \cup Places!Claimed) \in Nat
        /\ Cardinality(Workers) \in Nat
    BY FinitelyMany
  <2>5. Cardinality(Vetted' \cup Places!Claimed') = Cardinality(Vetted \cup Places!Claimed)
    BY <2>2, Zenon
  <2> QED
    BY <2>1, <2>3, <2>4, <2>5 DEF Bounded
<1> QED
  BY <1>1, <1>2, <1>3, <1>4, <1>5 DEF Places!Next

(* Held and claimed slots exceed the highest limit by less than the number *)
(* of workers: the promise every limit of Binn keeps.                      *)
THEOREM ClaimsBoundedThm ==
  Places!Spec => [](Places!TypeOK /\ Places!ClaimsBounded)
<1>1. Places!Init => Places!TypeOK /\ Bounded
  <2> SUFFICES ASSUME Places!Init PROVE Places!TypeOK /\ Bounded
    OBVIOUS
  <2>1. Places!TypeOK
    BY DEF Places!Init, Places!TypeOK
  <2>2. Vetted \cup Places!Claimed = {}
    BY DEF Places!Init, Places!Claimed
  <2>3. Cardinality({}) = 0
    BY FS_EmptySet
  <2>4. Cardinality(Workers) \in Nat /\ Cardinality(Workers) # 0
    BY FS_CardinalityType, FS_EmptySet, AllocationAssumption
  <2>5. Cardinality(Vetted \cup Places!Claimed) = 0
    BY <2>2, <2>3, Zenon
  <2>6. ceiling \in Nat
    BY <2>1 DEF Places!TypeOK
  <2> QED
    BY <2>1, <2>4, <2>5, <2>6 DEF Bounded
<1> QED
  BY <1>1, StepKeepsBound, BoundedIsPromised, PTL DEF Places!Spec

(* What is held never exceeds the highest limit by as much as the number   *)
(* of workers; with one worker it never exceeds it.                        *)
THEOREM HeldBoundedThm ==
  Places!Spec => []Places!HeldBounded
<1>1. Places!TypeOK /\ Places!ClaimsBounded => Places!HeldBounded
  <2> SUFFICES ASSUME Places!TypeOK, Bounded, ~waived
               PROVE  Cardinality(Vetted) < ceiling + Cardinality(Workers)
    BY SameCount, BoundedIsPromised DEF Places!HeldBounded
  <2>1. /\ Cardinality(Vetted) \in Nat
        /\ Cardinality(Vetted) <= Cardinality(Vetted \cup Places!Claimed)
    BY FinitelyMany, SmallerSet
  <2> QED
    BY <2>1, FinitelyMany DEF Bounded, Places!TypeOK
<1> QED
  BY <1>1, ClaimsBoundedThm, PTL

-----------------------------------------------------------------------------
(* Without rows nothing is held, and without requests nothing claimed.     *)
LEMMA InitRefines == Init => Places!Init
<1> SUFFICES ASSUME Init PROVE Places!Init
  OBVIOUS
<1>1. IInv
  BY InitIInv
<1>2. Vetted = {}
  BY DEF Init, Vetted, Held, Counted, NoRow
<1>3. VettedClaims = [w \in Workers |-> NoSlot]
  BY DEF Init, Idle, VettedClaims, Allowed
<1>4. ceiling \in Nat /\ waived \in BOOLEAN
  BY <1>1 DEF IInv, TypeOK
<1> QED
  BY <1>2, <1>3, <1>4 DEF Places!Init

(* What is claimed is a slot.                                              *)
LEMMA ClaimsAreSlots ==
  ASSUME IInv
  PROVE  VettedClaims \in [Workers -> Slots \cup {NoSlot}]
BY DEF IInv, TypeOK, VettedClaims

(* Room under a limit that was read is room under the highest limit for    *)
(* the places that asked.                                                  *)
LEMMA RoomUnderCeiling ==
  ASSUME IInv, NEW w \in Workers, Cardinality(Held) < req[w].limit
  PROVE  Cardinality(Vetted) < ceiling
<1>1. IsFiniteSet(Held)
  BY AllocationAssumption, FS_Subset DEF Held
<1>2. Vetted \subseteq Held
  BY DEF Vetted
<1>3. /\ Cardinality(Held) \in Nat /\ Cardinality(Vetted) \in Nat
      /\ Cardinality(Vetted) <= Cardinality(Held)
  BY <1>1, <1>2, FS_Subset, FS_CardinalityType
<1>4. req[w].limit \in Limits \cup {0} /\ Limits \cup {0} \subseteq Nat
  BY AllocationAssumption DEF IInv, TypeOK
<1>5. req[w].limit <= ceiling /\ ceiling \in Nat
  BY DEF IInv, TypeOK, ReadsAreRecorded
<1> QED
  BY <1>3, <1>4, <1>5

(* A request that reads is a quota's claim, or the quota does not see it,  *)
(* if what it read keeps a claim or gives it one that there is room for.   *)
LEMMA ReadingRefines ==
  ASSUME IInv, NEW w \in Workers, NEW q, q.slot \in Slots \cup {NoSlot},
         req' = [req EXCEPT ![w] = q],
         UNCHANGED <<kind, rows, ceiling, waived, toggled>>,
         Allowed(q) =>
           /\ q.slot \in Slots
           /\ \/ Allowed(req[w]) /\ q.slot = req[w].slot
              \/ /\ ~Allowed(req[w])
                 /\ waived \/ q.slot \in Held \/ Cardinality(Vetted) < ceiling
  PROVE  [Places!Next]_(Places!vars)
<1> USE DEF IInv
<1>1. UNCHANGED <<Vetted, ceiling, waived>>
  BY DEF Vetted, Held
<1>2. VettedClaims' = [VettedClaims EXCEPT ![w] =
                         IF Allowed(q) /\ q.slot \notin toggled THEN q.slot ELSE NoSlot]
  BY DEF VettedClaims, Allowed, TypeOK
<1>3. CASE Allowed(q) /\ q.slot \notin toggled /\ ~Allowed(req[w])
  <2>1. VettedClaims[w] = NoSlot
    BY <1>3 DEF VettedClaims
  <2>2. VettedClaims' = [VettedClaims EXCEPT ![w] = q.slot]
    BY <1>2, <1>3
  <2>3. waived \/ q.slot \in Vetted \/ Places!Cardinality(Vetted) < ceiling
    BY <1>3, SameCount DEF Vetted
  <2>4. Places!Claim(w, q.slot)
    BY <1>1, <2>1, <2>2, <2>3 DEF Places!Claim
  <2> QED
    BY <1>3, <2>4 DEF Places!Next
<1>4. CASE Allowed(q) /\ q.slot \notin toggled /\ Allowed(req[w])
  <2>1. VettedClaims[w] = q.slot
    BY <1>4 DEF VettedClaims
  <2>2. VettedClaims' = VettedClaims
    BY <1>2, <1>4, <2>1, ClaimsAreSlots
  <2> QED
    BY <1>1, <2>2 DEF Places!vars
<1>5. CASE ~(Allowed(q) /\ q.slot \notin toggled)
  <2>1. VettedClaims' = [VettedClaims EXCEPT ![w] = NoSlot]
    BY <1>2, <1>5
  <2>2. /\ VettedClaims' \in [Workers -> Slots \cup {NoSlot}]
        /\ \A v \in Workers : VettedClaims'[v] \in {VettedClaims[v], NoSlot}
    BY <2>1, ClaimsAreSlots
  <2>3. Places!Drop
    BY <1>1, <2>2 DEF Places!Drop
  <2> QED
    BY <2>3 DEF Places!Next
<1> QED
  BY <1>3, <1>4, <1>5

(* What is held may only shrink, and claims only be given up.              *)
LEMMA DroppingRefines ==
  ASSUME IInv, IInv', Vetted' \subseteq Vetted, UNCHANGED <<ceiling, waived>>,
         \A v \in Workers : VettedClaims'[v] \in {VettedClaims[v], NoSlot}
  PROVE  [Places!Next]_(Places!vars)
<1>1. VettedClaims' \in [Workers -> Slots \cup {NoSlot}]
  BY DEF IInv, TypeOK, VettedClaims
<1>2. Places!Drop
  BY <1>1 DEF Places!Drop
<1> QED
  BY <1>2 DEF Places!Next

(* An upsert writes.                                                       *)
LEMMA WriteRefines ==
  ASSUME IInv, IInv', NEW w \in Workers, Write(w)
  PROVE  [Places!Next]_(Places!vars)
<1> USE AllocationAssumption DEF IInv
<1> DEFINE s == req[w].slot
<1>1. UNCHANGED <<kind, ceiling, waived, toggled>>
  BY DEF Write, history
<1>2. s \in Slots /\ s # NoSlot
  BY DEF Write, ReadsAreRecorded
<1>3. /\ rows' = [rows EXCEPT ![s] = [role |-> req[w].role, active |-> req[w].on]]
      /\ req' = [req EXCEPT ![w] = Idle]
      /\ req[w].step = "write"
  BY DEF Write
<1>4. VettedClaims' = [VettedClaims EXCEPT ![w] = NoSlot]
  BY <1>1, <1>3 DEF VettedClaims, Allowed, Idle, TypeOK
<1>5. CASE Allowed(req[w]) /\ s \notin toggled
  <2>1. VettedClaims[w] = s
    BY <1>5 DEF VettedClaims
  <2>2. Vetted' = Vetted \cup {s}
    BY <1>1, <1>2, <1>3, <1>5 DEF Vetted, Held, Counted, Allowed, TypeOK
  <2>3. Places!Take(w)
    BY <1>1, <1>2, <1>4, <2>1, <2>2 DEF Places!Take
  <2> QED
    BY <2>3 DEF Places!Next
<1>6. CASE ~(Allowed(req[w]) /\ s \notin toggled)
  <2>1. Vetted' \subseteq Vetted
    BY <1>1, <1>2, <1>3, <1>6 DEF Vetted, Held, Counted, Allowed, TypeOK
  <2>2. \A v \in Workers : VettedClaims'[v] \in {VettedClaims[v], NoSlot}
    BY <1>4, ClaimsAreSlots
  <2> QED
    BY <1>1, <2>1, <2>2, DroppingRefines
<1> QED
  BY <1>5, <1>6

(* A toggle saves what it read turned round.                               *)
LEMMA FlipRefines ==
  ASSUME IInv, IInv', NEW w \in Workers, Flip(w)
  PROVE  [Places!Next]_(Places!vars)
<1> USE AllocationAssumption DEF IInv
<1> DEFINE s == req[w].slot
<1>1. UNCHANGED <<kind, ceiling, waived>> /\ req[w].step = "flip"
  BY DEF Flip
<1>2. s \in Slots /\ s # NoSlot
  BY DEF Flip, ReadsAreRecorded
<1>3. req' = [req EXCEPT ![w] = Idle]
  BY DEF Flip
<1>4. CASE rows[s] # NoRow /\ kind # "managers" /\ req[w].on /\ s \notin toggled
  <2>1. /\ rows' = [rows EXCEPT ![s].active = req[w].on]
        /\ toggled' = toggled
    BY <1>4 DEF Flip
  <2>2. rows[s].role = "counted" /\ req[w].role = "counted"
    BY <1>1, <1>2, <1>4 DEF TypeOK, Roles, ReadsAreRecorded
  <2>3. VettedClaims' = [VettedClaims EXCEPT ![w] = NoSlot]
    BY <1>1, <1>3, <2>1 DEF VettedClaims, Allowed, Idle, TypeOK
  <2>4. VettedClaims[w] = s
    BY <1>1, <1>4, <2>2 DEF VettedClaims, Allowed
  <2>5. Vetted' = Vetted \cup {s}
    BY <1>2, <1>4, <2>1, <2>2 DEF Vetted, Held, Counted, TypeOK
  <2>6. Places!Take(w)
    BY <1>1, <1>2, <2>3, <2>4, <2>5 DEF Places!Take
  <2> QED
    BY <2>6 DEF Places!Next
<1>5. CASE ~(rows[s] # NoRow /\ kind # "managers" /\ req[w].on /\ s \notin toggled)
  <2>1. toggled \subseteq toggled'
    BY DEF Flip
  <2>2. Vetted' \subseteq Vetted
    BY <1>1, <1>2, <1>5 DEF Flip, Vetted, Held, Counted, TypeOK
  <2>3. \A v \in Workers : VettedClaims'[v] \in {VettedClaims[v], NoSlot}
    BY <1>1, <1>3, <2>1 DEF VettedClaims, Allowed, Idle, TypeOK
  <2> QED
    BY <1>1, <2>2, <2>3, DroppingRefines
<1> QED
  BY <1>4, <1>5

(* Every step of a request is a step of the quota, or changes nothing of   *)
(* it: a check that passes is a claim, the write that follows takes it.    *)
LEMMA StepRefines ==
  ASSUME IInv, IInv', [Next]_vars
  PROVE  [Places!Next]_(Places!vars)
<1> USE AllocationAssumption DEF IInv
<1>1. CASE UNCHANGED vars
  BY <1>1 DEF vars, history, Vetted, Held, VettedClaims, Allowed, Places!vars
<1>2. ASSUME NEW w \in Workers, NEW s \in Slots,
             \/ \E on \in BOOLEAN : StartMembership(w, s, on)
             \/ \E role \in {"counted", "uncounted"}, on \in BOOLEAN :
                  StartAccess(w, s, role, on)
             \/ StartAssign(w, s)
             \/ ToggleAccess(w, s)
             \/ ToggleUser(w, s)
      PROVE  [Places!Next]_(Places!vars)
  <2>1. PICK q : Begins(w, s, q)
    BY <1>2, StartsBegin
  <2>2. /\ req' = [req EXCEPT ![w] = q]
        /\ UNCHANGED <<kind, rows, ceiling, waived, toggled>>
        /\ q.slot = s /\ (Allowed(q) => s \in Held)
    BY <2>1 DEF Begins, Begin, history
  <2>3. ~Allowed(req[w])
    BY <2>1 DEF Begins, Begin, Allowed
  <2> QED
    BY <2>2, <2>3, ReadingRefines
<1>3. ASSUME NEW w \in Workers, ReadBilling(w)
      PROVE  [Places!Next]_(Places!vars)
  <2> DEFINE q == [req[w] EXCEPT !.limit = account.limit, !.step =
                     IF ~account.enforce \/ req[w].current THEN "write" ELSE "count"]
  <2>1. /\ req' = [req EXCEPT ![w] = q]
        /\ UNCHANGED <<kind, rows, ceiling, waived, toggled>>
    BY <1>3 DEF ReadBilling, history, TypeOK
  <2>2. q.slot = req[w].slot /\ req[w].slot \in Slots
    BY <1>3 DEF ReadBilling, TypeOK, ReadsAreRecorded
  <2>3. Allowed(q) => Allowed(req[w]) \/ waived
    BY <1>3 DEF ReadBilling, Allowed, TypeOK, ReadsAreRecorded
  <2> QED
    <3> HIDE DEF q
    <3> QED
      BY <2>1, <2>2, <2>3, ReadingRefines
<1>4. ASSUME NEW w \in Workers, Count(w)
      PROVE  [Places!Next]_(Places!vars)
  <2>1. /\ UNCHANGED <<kind, rows, ceiling, waived, toggled>>
        /\ req[w].slot \in Slots /\ ~Allowed(req[w])
    BY <1>4 DEF Count, history, Allowed, ReadsAreRecorded
  <2>2. CASE Cardinality(Held) < req[w].limit
    <3> DEFINE q == [req[w] EXCEPT !.step = req[w].then]
    <3>1. req' = [req EXCEPT ![w] = q] /\ q.slot = req[w].slot
      BY <1>4, <2>2 DEF Count, TypeOK
    <3>2. Cardinality(Vetted) < ceiling
      BY <2>2, RoomUnderCeiling
    <3> HIDE DEF q
    <3> QED
      BY <2>1, <3>1, <3>2, ReadingRefines
  <2>3. CASE ~(Cardinality(Held) < req[w].limit)
    <3>1. req' = [req EXCEPT ![w] = Idle]
      BY <1>4, <2>3 DEF Count
    <3>2. ~Allowed(Idle) /\ Idle.slot = NoSlot
      BY DEF Allowed, Idle
    <3> QED
      BY <2>1, <3>1, <3>2, ReadingRefines
  <2> QED
    BY <2>2, <2>3
<1>5. ASSUME NEW s \in Slots, Delete(s)
      PROVE  [Places!Next]_(Places!vars)
  <2>1. UNCHANGED <<kind, req, ceiling, waived, toggled>>
    BY <1>5 DEF Delete, history
  <2>2. Vetted' \subseteq Vetted
    BY <1>5, <2>1 DEF Delete, Vetted, Held, Counted, NoRow, TypeOK
  <2>3. VettedClaims' = VettedClaims
    BY <2>1 DEF VettedClaims, Allowed
  <2> QED
    BY <2>1, <2>2, <2>3, DroppingRefines
<1>6. ASSUME NEW limit \in Limits, NEW enforce \in BOOLEAN, Relimit(limit, enforce)
      PROVE  [Places!Next]_(Places!vars)
  <2>1. Vetted' = Vetted /\ VettedClaims' = VettedClaims
    BY <1>6 DEF Relimit, Vetted, Held, VettedClaims, Allowed
  <2>2. ceiling' \in Nat /\ ceiling <= ceiling'
    BY <1>6 DEF Relimit, TypeOK
  <2>3. waived' \in BOOLEAN
    BY DEF TypeOK
  <2>4. waived => waived'
    BY <1>6, Zenon DEF Relimit
  <2>5. Places!Raise
    BY <2>1, <2>2, <2>3, <2>4, Zenon DEF Places!Raise
  <2> QED
    BY <2>5 DEF Places!Next
<1> QED
  BY <1>1, <1>2, <1>3, <1>4, <1>5, <1>6, WriteRefines, FlipRefines
  DEF Next, BillingUpdate, LimitEdit

(* Every behaviour of the handlers is one of a quota whose slots are the   *)
(* users or accesses, and whose claims are the checks that have passed.    *)
THEOREM ImplementsQuotaThm == Spec => ImplementsQuota
BY InitRefines, StepRefines, InductiveInvariant, PTL
DEF Spec, Places!Spec, ImplementsQuota

(* For any users, any number of requests and any limits: what was asked    *)
(* for exceeds the highest limit by less than the number of requests.      *)
THEOREM OnlyTogglesOvershootThm == Spec => []OnlyTogglesOvershoot
<1>1. Places!HeldBounded <=> OnlyTogglesOvershoot
  BY SameCount DEF Places!HeldBounded, OnlyTogglesOvershoot
<1> QED
  BY <1>1, ImplementsQuotaThm, HeldBoundedThm, PTL DEF ImplementsQuota

-----------------------------------------------------------------------------
(* Every statement of the upsert handler, and a death between them, keeps  *)
(* the inductive invariant.                                                *)
LEMMA LinksStep ==
  ASSUME Links!IInv, [Links!Next]_(Links!vars)
  PROVE  Links!IInv'
<1> USE GovernanceAssumption DEF Links!IInv, Links!TypeOK, Links!Idle
<1>1. CASE UNCHANGED Links!vars
  BY <1>1 DEF Links!vars, Links!RivalsAreOwedAClear, Links!NonePromotedNonePrimary
<1>2. ASSUME NEW w \in Posts, NEW t \in Tenants, Links!SavePrimary(w, t)
      PROVE  Links!IInv'
  <2>1. Links!TypeOK'
    BY <1>2 DEF Links!SavePrimary
  <2>2. pending'[w] = promoted'
    BY <1>2 DEF Links!SavePrimary
  <2> QED
    BY <1>2, <2>1, <2>2
    DEF Links!SavePrimary, Links!RivalsAreOwedAClear, Links!NonePromotedNonePrimary
<1>3. ASSUME NEW w \in Posts, NEW t \in Tenants, Links!SaveSecondary(w, t)
      PROVE  Links!IInv'
  <2>1. Links!TypeOK'
    BY <1>3 DEF Links!SaveSecondary
  <2> QED
    BY <1>3, <2>1
    DEF Links!SaveSecondary, Links!RivalsAreOwedAClear, Links!NonePromotedNonePrimary
<1>4. ASSUME NEW w \in Posts, Links!ClearOthers(w)
      PROVE  Links!IInv'
  <2>1. Links!TypeOK'
    BY <1>4 DEF Links!ClearOthers
  <2>2. CASE pending[w] = promoted
    (* the latest promotion clears: what is left is its own company *)
    BY <1>4, <2>1, <2>2
    DEF Links!ClearOthers, Links!RivalsAreOwedAClear, Links!NonePromotedNonePrimary
  <2>3. CASE pending[w] # promoted
    (* an older one clears: it leaves the debt of the latest in place *)
    <3>1. \A v \in Posts : pending[v] = promoted => pending'[v] = promoted
      BY <1>4, <2>3 DEF Links!ClearOthers
    <3> QED
      BY <1>4, <2>1, <3>1
      DEF Links!ClearOthers, Links!RivalsAreOwedAClear, Links!NonePromotedNonePrimary
  <2> QED
    BY <2>2, <2>3
<1>5. ASSUME NEW w \in Posts, Links!Die(w)
      PROVE  Links!IInv'
  <2>1. Links!TypeOK'
    BY <1>5 DEF Links!Die
  <2>2. \A v \in Posts : pending[v] = promoted => lost' \/ pending'[v] = promoted
    BY <1>5 DEF Links!Die
  <2>3. lost => lost'
    BY <1>5 DEF Links!Die
  <2> QED
    BY <1>5, <2>1, <2>2, <2>3
    DEF Links!Die, Links!RivalsAreOwedAClear, Links!NonePromotedNonePrimary
<1> QED
  BY <1>1, <1>2, <1>3, <1>4, <1>5 DEF Links!Next

(* The inductive invariant, type correctness included, holds in every      *)
(* reachable state of the link upsert.                                     *)
THEOREM LinksInvariant == Links!Spec => []Links!IInv
<1>1. Links!Init => Links!IInv
  BY GovernanceAssumption DEF Links!Init, Links!IInv, Links!TypeOK,
       Links!RivalsAreOwedAClear, Links!NonePromotedNonePrimary
<1> QED
  BY <1>1, LinksStep, PTL DEF Links!Spec

-----------------------------------------------------------------------------
(* A behaviour of governance is, seen from the links, one of HoldingLinks. *)
LEMMA GovernanceIsLinks == GovernanceSpec => Links!Spec
<1>1. GovernanceInit => Links!Init
  BY DEF GovernanceInit
<1>2. [GovernanceNext]_<<scene, vars, linkVars, grantVars>>
        => [Links!Next]_(Links!vars)
  <2>1. ASSUME UNCHANGED linkVars PROVE UNCHANGED Links!vars
    BY <2>1 DEF linkVars, Links!vars
  <2> QED
    BY <2>1 DEF GovernanceNext
<1> QED
  BY <1>1, <1>2, PTL DEF GovernanceSpec, Links!Spec

(* However many promotions interleave, once the latest has cleared its     *)
(* rivals the flag is on no other company; that it is on its own is not    *)
(* said, for an older clear in flight may take it (LatestPromotionWins).   *)
THEOREM LatestPromotionWinsThm == GovernanceSpec => []LatestPromotionWins
<1>1. Links!IInv => LatestPromotionWins
  BY DEF Links!IInv, LatestPromotionWins, Links!LatestPromotionWins,
         Links!RivalsAreOwedAClear
<1> QED
  BY <1>1, LinksInvariant, GovernanceIsLinks, PTL

(* A holding at rest has at most one primary link.                         *)
THEOREM OnePrimaryAtRestThm == GovernanceSpec => []OnePrimaryAtRest
<1>1. Links!IInv => OnePrimaryAtRest
  <2> SUFFICES ASSUME Links!IInv, ~lost, \A w \in Posts : Links!Idle(w),
                      NEW s \in primary, NEW t \in primary
               PROVE  s = t
    BY DEF OnePrimaryAtRest, Links!OnePrimaryAtRest
  <2>1. promoted # NoTenant
    BY DEF Links!IInv, Links!NonePromotedNonePrimary
  <2>2. s = promoted /\ t = promoted
    BY <2>1 DEF Links!IInv, Links!RivalsAreOwedAClear, Links!Idle
  <2> QED
    BY <2>2
<1> QED
  BY <1>1, LinksInvariant, GovernanceIsLinks, PTL

-----------------------------------------------------------------------------
(* The grants of a member: what is waited for and what is being created is *)
(* finitely much.                                                          *)
LEMMA FewWait ==
  ASSUME Grants!TypeOK
  PROVE  /\ IsFiniteSet(Grants!Waiting) /\ Cardinality(Grants!Waiting) \in Nat
         /\ IsFiniteSet(Grants!Creating) /\ Cardinality(Grants!Creating) \in Nat
         /\ Cardinality(Workers) \in Nat
         /\ Cardinality(Grants!Creating) <= Cardinality(Workers)
<1>1. Len(grants) \in Nat /\ DOMAIN grants = 1..Len(grants)
  BY DEF Grants!TypeOK
<1>2. Grants!Waiting \subseteq 1..Len(grants) /\ IsFiniteSet(1..Len(grants))
  BY <1>1, FS_Interval DEF Grants!Waiting
<1>3. Grants!Creating \subseteq Workers /\ IsFiniteSet(Workers)
  BY AllocationAssumption DEF Grants!Creating
<1> QED
  BY <1>2, <1>3, FS_Subset, FS_CardinalityType

(* The module of the grants counts as this one does.                       *)
FewerThanWorkers ==
  Grants!Waiting # {} =>
    Cardinality(Grants!Waiting) + Cardinality(Grants!Creating)
      <= Cardinality(Workers)

LEMMA SameWaiting ==
  /\ Grants!WaitingBounded <=> FewerThanWorkers
  /\ Grants!WaitingBounded' <=> FewerThanWorkers'
<1>1. ASSUME NEW S PROVE Grants!Cardinality(S) = Cardinality(S)
  BY Zenon DEF Cardinality, Grants!Cardinality
<1>2. Grants!WaitingBounded <=> FewerThanWorkers
  BY <1>1, Zenon DEF Grants!WaitingBounded, FewerThanWorkers
<1>3. Grants!WaitingBounded' <=> FewerThanWorkers'
  BY <1>1, Zenon DEF Grants!WaitingBounded, FewerThanWorkers
<1> QED
  BY <1>2, <1>3

(* Where no more wait and no more are being created, the bound stays.      *)
LEMMA NoMoreWait ==
  ASSUME Grants!TypeOK, Grants!WaitingBounded,
         Grants!Waiting' \subseteq Grants!Waiting,
         Grants!Creating' \subseteq Grants!Creating
  PROVE  Grants!WaitingBounded'
<1> DEFINE W == Grants!Waiting
           C == Grants!Creating
           N == Cardinality(Workers)
<1>1. /\ IsFiniteSet(W) /\ Cardinality(W) \in Nat
      /\ IsFiniteSet(C) /\ Cardinality(C) \in Nat /\ N \in Nat
  BY FewWait
<1>2. ASSUME NEW W2, NEW C2, W2 \subseteq W, C2 \subseteq C,
             W # {} => Cardinality(W) + Cardinality(C) <= N
      PROVE  W2 # {} => Cardinality(W2) + Cardinality(C2) <= N
  <2> HIDE DEF W, C, N
  <2>1. /\ Cardinality(W2) \in Nat /\ Cardinality(W2) <= Cardinality(W)
        /\ Cardinality(C2) \in Nat /\ Cardinality(C2) <= Cardinality(C)
    BY <1>1, <1>2, FS_Subset, FS_CardinalityType
  <2> QED
    BY <1>1, <1>2, <2>1
<1>3. W' # {} => Cardinality(W') + Cardinality(C') <= N
  BY <1>2, SameWaiting DEF FewerThanWorkers
<1> QED
  BY <1>3, SameWaiting DEF FewerThanWorkers

(* A created grant is waited for instead of its request: the place at the  *)
(* end is the only one added.                                              *)
LEMMA CreateKeepsBound ==
  ASSUME Grants!TypeOK, Grants!TypeOK', Grants!WaitingBounded,
         NEW w \in Workers, Grants!Create(w)
  PROVE  Grants!WaitingBounded'
<1> DEFINE n == Len(grants)
           W == Grants!Waiting
           C == Grants!Creating
           N == Cardinality(Workers)
<1>1. /\ n \in Nat /\ Len(grants') = n + 1
      /\ \A i \in 1..n : grants'[i] = grants[i]
      /\ DOMAIN grants = 1..n /\ DOMAIN grants' = 1..(n + 1)
  BY DEF Grants!TypeOK, Grants!Create
<1>2. Grants!Waiting' \subseteq W \cup {n + 1}
  <2> SUFFICES ASSUME NEW i \in Grants!Waiting', i # n + 1
               PROVE  i \in W
    OBVIOUS
  <2>1. i \in 1..n /\ \A j \in i..n : grants'[j].status = "pending"
    BY <1>1 DEF Grants!Waiting
  <2> QED
    BY <1>1, <2>1 DEF Grants!Waiting
<1>3. w \in C /\ Grants!Creating' \subseteq C \ {w}
  BY DEF Grants!Create, Grants!Creating, Grants!TypeOK, Grants!Idle
<1>4. /\ IsFiniteSet(W) /\ Cardinality(W) \in Nat
      /\ IsFiniteSet(C) /\ Cardinality(C) \in Nat
      /\ N \in Nat /\ Cardinality(C) <= N
  BY FewWait
<1>5. W # {} => Cardinality(W) + Cardinality(C) <= N
  BY SameWaiting DEF FewerThanWorkers
<1>6. ASSUME NEW W2, NEW C2, W2 \subseteq W \cup {n + 1}, C2 \subseteq C \ {w}
      PROVE  Cardinality(W2) + Cardinality(C2) <= N
  <2> HIDE DEF W, C, N, n
  <2>1. /\ IsFiniteSet(W \cup {n + 1}) /\ Cardinality(W \cup {n + 1}) \in Nat
        /\ Cardinality(W \cup {n + 1}) <= Cardinality(W) + 1
    <3>1. ASSUME NEW x
          PROVE  /\ IsFiniteSet(W \cup {x}) /\ Cardinality(W \cup {x}) \in Nat
                 /\ Cardinality(W \cup {x}) <= Cardinality(W) + 1
      <4>1. IsFiniteSet(W \cup {x})
            /\ Cardinality(W \cup {x}) = IF x \in W THEN Cardinality(W) ELSE Cardinality(W) + 1
        BY <1>4, FS_AddElement
      <4> QED
        BY <1>4, <4>1
    <3> QED
      BY <3>1
  <2>2. Cardinality(W2) \in Nat /\ Cardinality(W2) <= Cardinality(W \cup {n + 1})
    BY <1>6, <2>1, FS_Subset, FS_CardinalityType
  <2>3. IsFiniteSet(C \ {w}) /\ Cardinality(C \ {w}) = Cardinality(C) - 1
    BY <1>3, <1>4, FS_RemoveElement
  <2>4. Cardinality(C2) \in Nat /\ Cardinality(C2) <= Cardinality(C) - 1
    BY <1>6, <2>3, FS_Subset, FS_CardinalityType
  <2>5. W = {} => Cardinality(W) = 0
    BY FS_EmptySet
  <2> QED
    BY <1>4, <1>5, <2>1, <2>2, <2>4, <2>5
<1>7. FewerThanWorkers'
  BY <1>2, <1>3, <1>6 DEF FewerThanWorkers
<1> QED
  BY <1>7, SameWaiting

GrantRows == [status : Grants!Decisions \cup {"pending"}, expires : Expiries]
Serving ==
  [step : {"idle", "create", "expiry", "decide"}, grant : 0..MaxGrants,
   status : Grants!Decisions \cup {"pending"}, expires : Expiries]

(* A worker that goes on with a well-formed request, whatever is done to   *)
(* the grants meanwhile, keeps the types.                                  *)
LEMMA ServingKeepsTypes ==
  ASSUME Grants!TypeOK, Grants!DecisionsDecide, NEW w \in Workers, NEW q \in Serving,
         q.step \in {"expiry", "decide"} =>
           q.grant \in DOMAIN grants' /\ q.status \in Grants!Decisions,
         asks' = [asks EXCEPT ![w] = q],
         grants' \in Seq(GrantRows), Len(grants') <= MaxGrants,
         DOMAIN grants \subseteq DOMAIN grants',
         UNCHANGED <<eligible, now>>, expired' \subseteq 1..MaxGrants
  PROVE  Grants!TypeOK' /\ Grants!DecisionsDecide'
<1>1. asks' \in [Workers -> Serving]
  BY DEF Grants!TypeOK, Serving
<1>2. Grants!TypeOK'
  BY <1>1 DEF Grants!TypeOK, Serving, GrantRows
<1>3. ASSUME NEW v \in Workers, asks'[v].step \in {"expiry", "decide"}
      PROVE  asks'[v].grant \in DOMAIN grants' /\ asks'[v].status \in Grants!Decisions
  <2>1. asks'[v] = IF v = w THEN q ELSE asks[v]
    BY DEF Grants!TypeOK
  <2> QED
    BY <1>3, <2>1 DEF Grants!DecisionsDecide
<1> QED
  BY <1>2, <1>3 DEF Grants!DecisionsDecide

(* A save of a grant changes that one.                                     *)
LEMMA SavedGrant ==
  ASSUME Grants!TypeOK, NEW i \in DOMAIN grants, NEW g \in GrantRows
  PROVE  LET new == [grants EXCEPT ![i] = g] IN
         /\ new \in Seq(GrantRows) /\ Len(new) = Len(grants)
         /\ DOMAIN new = DOMAIN grants
         /\ \A j \in DOMAIN grants : new[j] = IF j = i THEN g ELSE grants[j]
         /\ Grants!Expired(new, now) \subseteq 1..MaxGrants
<1>1. grants \in Seq(GrantRows) /\ Len(grants) <= MaxGrants
  BY DEF Grants!TypeOK, GrantRows
<1>2. Len(grants) \in Nat /\ DOMAIN grants = 1..Len(grants)
  BY <1>1
<1> DEFINE new == [grants EXCEPT ![i] = g]
<1>3. new \in Seq(GrantRows) /\ Len(new) = Len(grants) /\ DOMAIN new = DOMAIN grants
  BY <1>1, <1>2
<1>4. \A j \in DOMAIN grants : new[j] = IF j = i THEN g ELSE grants[j]
  BY <1>1
<1>5. Grants!Expired(new, now) \subseteq 1..MaxGrants
  <2> HIDE DEF new
  <2> QED
    BY <1>1, <1>2, <1>3, GovernanceAssumption DEF Grants!Expired
<1> QED
  BY <1>3, <1>4, <1>5

(* A request begins only with nobody waiting, and no decision makes its    *)
(* grant one that is waited for.                                           *)
LEMMA GrantsStep ==
  ASSUME Grants!IInv, [Grants!Next]_(Grants!vars)
  PROVE  Grants!IInv'
<1> USE GovernanceAssumption DEF Grants!IInv
<1>0. /\ Len(grants) \in Nat /\ DOMAIN grants = 1..Len(grants)
      /\ Len(grants) <= MaxGrants
  BY DEF Grants!TypeOK
<1>1. CASE UNCHANGED Grants!vars
  <2>1. Grants!TypeOK' /\ Grants!DecisionsDecide'
    BY <1>1 DEF Grants!vars, Grants!TypeOK, Grants!DecisionsDecide
  <2>2. Grants!Waiting' = Grants!Waiting /\ Grants!Creating' = Grants!Creating
    BY <1>1 DEF Grants!vars, Grants!Waiting, Grants!Creating
  <2> QED
    BY <2>1, <2>2, NoMoreWait
<1>2. ASSUME NEW w \in Workers, NEW e \in Expiries, Grants!Ask(w, e)
      PROVE  Grants!IInv'
  <2> DEFINE q == [Grants!Idle EXCEPT !.step = "create", !.expires = e]
  <2>1. Grants!TypeOK' /\ Grants!DecisionsDecide'
    <3>1. q \in Serving /\ q.step = "create"
      <4>1. 0 \in 0..MaxGrants
        OBVIOUS
      <4> QED
        BY <4>1 DEF Grants!Idle, Serving
    <3>2. /\ asks' = [asks EXCEPT ![w] = q]
          /\ UNCHANGED <<grants, eligible, now, expired>>
      BY <1>2 DEF Grants!Ask
    <3> HIDE DEF q
    <3> QED
      BY <3>1, <3>2, ServingKeepsTypes DEF Grants!TypeOK, GrantRows
  <2>2. Grants!Waiting' = {}
    BY <1>0, <1>2 DEF Grants!Ask, Grants!Blocked, Grants!Waiting, Grants!TypeOK
  <2> QED
    BY <2>1, <2>2 DEF Grants!WaitingBounded
<1>3. ASSUME NEW w \in Workers, Grants!Create(w)
      PROVE  Grants!IInv'
  <2>1. Grants!TypeOK'
    BY <1>3 DEF Grants!Create, Grants!TypeOK, Grants!Idle
  <2>2. DOMAIN grants \subseteq DOMAIN grants'
    BY <1>0, <1>3 DEF Grants!Create, Grants!TypeOK
  <2>3. Grants!DecisionsDecide'
    BY <1>3, <2>2 DEF Grants!Create, Grants!TypeOK, Grants!DecisionsDecide, Grants!Idle
  <2> QED
    BY <1>3, <2>1, <2>3, CreateKeepsBound
<1>4. ASSUME NEW w \in Workers, NEW i \in 1..MaxGrants, NEW status \in Grants!Decisions,
             NEW e \in Expiries, Grants!Decide(w, i, status, e)
      PROVE  Grants!IInv'
  <2>1. Grants!TypeOK' /\ Grants!DecisionsDecide'
    BY <1>4 DEF Grants!Decide, Grants!TypeOK, Grants!DecisionsDecide
  <2>2. Grants!Waiting' = Grants!Waiting /\ Grants!Creating' \subseteq Grants!Creating
    BY <1>4 DEF Grants!Decide, Grants!TypeOK, Grants!Waiting, Grants!Creating
  <2> QED
    BY <2>1, <2>2, NoMoreWait
<1>5. ASSUME NEW w \in Workers, Grants!SaveExpiry(w)
      PROVE  Grants!IInv'
  <2> DEFINE i == asks[w].grant
             g == [grants[i] EXCEPT !.expires = asks[w].expires]
             q == [asks[w] EXCEPT !.step = "decide"]
  <2>1. i \in DOMAIN grants /\ asks[w].status \in Grants!Decisions
    BY <1>5 DEF Grants!SaveExpiry, Grants!DecisionsDecide
  <2>2. /\ g \in GrantRows /\ g.status = grants[i].status
        /\ q \in Serving /\ q.step = "decide" /\ q.grant = i
        /\ q.status = asks[w].status
    <3>1. grants[i] \in GrantRows /\ asks[w] \in Serving
      <4>1. grants \in Seq(GrantRows) /\ asks[w] \in Serving
        BY DEF Grants!TypeOK, GrantRows, Serving
      <4> QED
        BY <1>0, <2>1, <4>1
    <3>2. ASSUME NEW r \in GrantRows, NEW a \in Serving
          PROVE  /\ [r EXCEPT !.expires = a.expires] \in GrantRows
                 /\ [r EXCEPT !.expires = a.expires].status = r.status
                 /\ [a EXCEPT !.step = "decide"] \in Serving
                 /\ [a EXCEPT !.step = "decide"].step = "decide"
                 /\ [a EXCEPT !.step = "decide"].grant = a.grant
                 /\ [a EXCEPT !.step = "decide"].status = a.status
      BY DEF GrantRows, Serving
    <3> QED
      BY <3>1, <3>2
  <2>3. grants' = [grants EXCEPT ![i] = g] /\ asks' = [asks EXCEPT ![w] = q]
    BY <1>5, <2>1 DEF Grants!SaveExpiry, Grants!TypeOK
  <2>4. /\ grants' \in Seq(GrantRows) /\ Len(grants') = Len(grants)
        /\ DOMAIN grants' = DOMAIN grants
        /\ \A j \in DOMAIN grants : grants'[j].status = grants[j].status
        /\ Grants!Expired(grants', now) \subseteq 1..MaxGrants
    <3> HIDE DEF g, i
    <3> QED
      BY <2>1, <2>2, <2>3, SavedGrant
  <2>5. expired' \subseteq 1..MaxGrants /\ UNCHANGED <<eligible, now>>
    BY <1>5, <2>4 DEF Grants!SaveExpiry, Grants!ClosedBy, Grants!TypeOK
  <2>6. Grants!TypeOK' /\ Grants!DecisionsDecide'
    <3> HIDE DEF g, q, i
    <3> QED
      BY <1>0, <2>1, <2>2, <2>3, <2>4, <2>5, ServingKeepsTypes
  <2>7. Grants!Waiting' = Grants!Waiting
    BY <1>0, <2>4 DEF Grants!Waiting
  <2>8. Grants!Creating' \subseteq Grants!Creating
    BY <1>5 DEF Grants!SaveExpiry, Grants!TypeOK, Grants!Creating
  <2> QED
    BY <2>6, <2>7, <2>8, NoMoreWait
<1>6. ASSUME NEW w \in Workers, Grants!SaveDecision(w)
      PROVE  Grants!IInv'
  <2> DEFINE i == asks[w].grant
             g == [grants[i] EXCEPT !.status = asks[w].status]
  <2>1. i \in DOMAIN grants /\ asks[w].status \in Grants!Decisions
    BY <1>6 DEF Grants!SaveDecision, Grants!DecisionsDecide
  <2>2. /\ g \in GrantRows /\ g.status # "pending"
        /\ Grants!Idle \in Serving /\ Grants!Idle.step = "idle"
    <3>1. grants[i] \in GrantRows
      <4>1. grants \in Seq(GrantRows)
        BY DEF Grants!TypeOK, GrantRows
      <4> QED
        BY <1>0, <2>1, <4>1
    <3>2. ASSUME NEW r \in GrantRows, NEW d \in Grants!Decisions
          PROVE  /\ [r EXCEPT !.status = d] \in GrantRows
                 /\ [r EXCEPT !.status = d].status # "pending"
      BY DEF GrantRows, Grants!Decisions
    <3>3. Grants!Idle \in Serving /\ Grants!Idle.step = "idle"
      <4>1. 0 \in 0..MaxGrants
        OBVIOUS
      <4> QED
        BY <4>1 DEF Grants!Idle, Serving
    <3> QED
      BY <2>1, <3>1, <3>2, <3>3
  <2>3. grants' = [grants EXCEPT ![i] = g] /\ asks' = [asks EXCEPT ![w] = Grants!Idle]
    BY <1>6, <2>1 DEF Grants!SaveDecision, Grants!TypeOK
  <2>4. /\ grants' \in Seq(GrantRows) /\ Len(grants') = Len(grants)
        /\ DOMAIN grants' = DOMAIN grants
        /\ \A j \in DOMAIN grants :
             grants'[j].status = "pending" => grants[j].status = "pending"
        /\ Grants!Expired(grants', now) \subseteq 1..MaxGrants
    <3> HIDE DEF g, i
    <3> QED
      BY <2>1, <2>2, <2>3, SavedGrant
  <2>5. expired' \subseteq 1..MaxGrants /\ UNCHANGED <<eligible, now>>
    BY <1>6, <2>4 DEF Grants!SaveDecision, Grants!ClosedBy, Grants!TypeOK
  <2>6. Grants!TypeOK' /\ Grants!DecisionsDecide'
    <3> HIDE DEF g, i
    <3> QED
      BY <1>0, <2>2, <2>3, <2>4, <2>5, ServingKeepsTypes
  <2>7. Grants!Waiting' \subseteq Grants!Waiting
    BY <1>0, <2>4 DEF Grants!Waiting
  <2>8. Grants!Creating' \subseteq Grants!Creating
    BY <1>6 DEF Grants!SaveDecision, Grants!TypeOK, Grants!Creating, Grants!Idle
  <2> QED
    BY <2>6, <2>7, <2>8, NoMoreWait
<1>7. ASSUME NEW w \in Workers, Grants!Die(w)
      PROVE  Grants!IInv'
  <2>1. Grants!TypeOK' /\ Grants!DecisionsDecide'
    BY <1>7 DEF Grants!Die, Grants!TypeOK, Grants!DecisionsDecide, Grants!Idle
  <2>2. Grants!Waiting' = Grants!Waiting /\ Grants!Creating' \subseteq Grants!Creating
    BY <1>7 DEF Grants!Die, Grants!TypeOK, Grants!Waiting, Grants!Creating, Grants!Idle
  <2> QED
    BY <2>1, <2>2, NoMoreWait
<1>8. CASE Grants!Tick
  <2>1. now' \in 0..MaxTime /\ UNCHANGED <<grants, eligible, asks>>
    BY <1>8 DEF Grants!Tick, Grants!TypeOK
  <2>2. expired' \subseteq 1..MaxGrants
    <3>1. Grants!Expired(grants, now') \subseteq 1..MaxGrants
      BY <1>0 DEF Grants!Expired
    <3> QED
      BY <1>8, <3>1 DEF Grants!Tick, Grants!TypeOK
  <2>3. Grants!TypeOK' /\ Grants!DecisionsDecide'
    BY <2>1, <2>2 DEF Grants!TypeOK, Grants!DecisionsDecide
  <2>4. Grants!Waiting' = Grants!Waiting /\ Grants!Creating' = Grants!Creating
    BY <1>8 DEF Grants!Tick, Grants!Waiting, Grants!Creating
  <2> QED
    BY <2>3, <2>4, NoMoreWait
<1>9. CASE Grants!PolicyEdit
  <2>1. Grants!TypeOK' /\ Grants!DecisionsDecide'
    BY <1>9 DEF Grants!PolicyEdit, Grants!TypeOK, Grants!DecisionsDecide
  <2>2. Grants!Waiting' = Grants!Waiting /\ Grants!Creating' = Grants!Creating
    BY <1>9 DEF Grants!PolicyEdit, Grants!Waiting, Grants!Creating
  <2> QED
    BY <2>1, <2>2, NoMoreWait
<1> QED
  BY <1>1, <1>2, <1>3, <1>4, <1>5, <1>6, <1>7, <1>8, <1>9 DEF Grants!Next

(* The types of the grants, that decisions in flight decide, and the bound *)
(* on what is waited for, hold in every reachable state.                   *)
THEOREM GrantsInvariant == Grants!Spec => []Grants!IInv
<1>1. Grants!Init => Grants!IInv
  <2> SUFFICES ASSUME Grants!Init PROVE Grants!IInv
    OBVIOUS
  <2>1. Grants!TypeOK /\ Grants!DecisionsDecide
    BY GovernanceAssumption
    DEF Grants!Init, Grants!TypeOK, Grants!DecisionsDecide, Grants!Idle
  <2>2. Grants!Waiting = {}
    BY DEF Grants!Init, Grants!Waiting
  <2> QED
    BY <2>1, <2>2 DEF Grants!IInv, Grants!WaitingBounded
<1> QED
  BY <1>1, GrantsStep, PTL DEF Grants!Spec

(* A behaviour of governance is, seen from the grants, one of theirs.      *)
LEMMA GovernanceIsGrants == GovernanceSpec => Grants!Spec
<1>1. GovernanceInit => Grants!Init
  BY DEF GovernanceInit
<1>2. [GovernanceNext]_<<scene, vars, linkVars, grantVars>>
        => [Grants!Next]_(Grants!vars)
  <2>1. ASSUME UNCHANGED grantVars PROVE UNCHANGED Grants!vars
    BY <2>1 DEF grantVars, Grants!vars
  <2> QED
    BY <2>1 DEF GovernanceNext
<1> QED
  BY <1>1, <1>2, PTL DEF GovernanceSpec, Grants!Spec

(* However often a member asks, and whatever is decided meanwhile on older *)
(* grants, as many undecided grants in a row as requests cross the check.  *)
THEOREM WaitingBoundedThm == GovernanceSpec => []WaitingBounded
<1>1. Grants!IInv => WaitingBounded
  BY DEF Grants!IInv, WaitingBounded
<1> QED
  BY <1>1, GrantsInvariant, GovernanceIsGrants, PTL
=============================================================================
