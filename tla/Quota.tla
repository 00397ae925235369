------------------------------- MODULE Quota --------------------------------
(***************************************************************************)
(* What the limits of Binn promise (seats and managers of a holding, local *)
(* users of a company): a handler counts what is held, and when there is   *)
(* room, or when its own slot is held already, it claims the slot and      *)
(* takes it later, without a lock between the two.                         *)
(*                                                                         *)
(* The promise is not "never above the limit": requests that counted at    *)
(* the same time may all take a slot.  It is that they go no further: what *)
(* is held and what is claimed together exceed the limit by less than the  *)
(* number of requests in flight.  One request at a time is exact.          *)
(***************************************************************************)
EXTENDS Integers, FiniteSets

CONSTANTS Slots, Workers, NoSlot

VARIABLES held,     \* the slots in use
          claim,    \* the slot a worker has been allowed to take
          ceiling,  \* the highest the limit has been
          waived    \* the limit has been, at some time, not enforced

vars == <<held, claim, ceiling, waived>>

Claimed == {claim[w] : w \in Workers} \ {NoSlot}

TypeOK ==
  /\ held \subseteq Slots
  /\ claim \in [Workers -> Slots \cup {NoSlot}]
  /\ ceiling \in Nat
  /\ waived \in BOOLEAN

Init ==
  /\ held = {}
  /\ claim = [w \in Workers |-> NoSlot]
  /\ ceiling \in Nat
  /\ waived \in BOOLEAN

Claim(w, s) ==
  /\ claim[w] = NoSlot
  /\ waived \/ s \in held \/ Cardinality(held) < ceiling
  /\ claim' = [claim EXCEPT ![w] = s]
  /\ UNCHANGED <<held, ceiling, waived>>

Take(w) ==
  /\ claim[w] # NoSlot
  /\ held' = held \cup {claim[w]}
  /\ claim' = [claim EXCEPT ![w] = NoSlot]
  /\ UNCHANGED <<ceiling, waived>>

(* Slots are released, and claims given up.                                *)
Drop ==
  /\ held' \in SUBSET held
  /\ claim' \in [Workers -> Slots \cup {NoSlot}]
  /\ \A w \in Workers : claim'[w] \in {claim[w], NoSlot}
  /\ UNCHANGED <<ceiling, waived>>

(* The limit is changed; it may also stop being enforced.                  *)
Raise ==
  /\ ceiling' \in Nat
  /\ ceiling <= ceiling'
  /\ waived' \in BOOLEAN
  /\ waived => waived'
  /\ UNCHANGED <<held, claim>>

Next ==
  \/ \E w \in Workers, s \in Slots : Claim(w, s)
  \/ \E w \in Workers : Take(w)
  \/ Drop
  \/ Raise

Spec == Init /\ [][Next]_vars

(* What is held and what is claimed exceed the limit by less than the      *)
(* number of workers.  Counting the claims is what makes it inductive.     *)
ClaimsBounded ==
  ~waived => Cardinality(held \cup Claimed) < ceiling + Cardinality(Workers)

(* ... and so does what is held.                                           *)
HeldBounded ==
  ~waived => Cardinality(held) < ceiling + Cardinality(Workers)
=============================================================================
