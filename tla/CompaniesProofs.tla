-------------------------- MODULE CompaniesProofs ---------------------------
(***************************************************************************)
(* Pages that are open on the configuration of a company change what they  *)
(* were opened for, and any configuration has menus that match the gates   *)
(* of the pages; creations that interleave, fail and die never take over,  *)
(* or drop, what belongs to another: for any editors, names, people and    *)
(* creations.                                                              *)
(*                                                                         *)
(* A page comes to the whole row, so the configuration needs a lemma for   *)
(* every field: from what Only keeps of a sequence, over what the fields   *)
(* of a page come to, to what each kind of edit comes to.                  *)
(***************************************************************************)
EXTENDS Companies, WellFoundedInduction, NaturalsInduction, SequenceTheorems, TLAPS

-----------------------------------------------------------------------------
(***************************************************************************)
(* The sequence that Only filters is built from the empty one, element by  *)
(* element. A set of numbers that is closed under the successor has them   *)
(* all, or there would be a smallest one outside it; so has a set of       *)
(* sequences that is closed under Append. That is the induction of the     *)
(* lemmas on sequences.                                                    *)
(***************************************************************************)
(* A set of numbers has a smallest one.                                    *)
LEMMA SmallestNumber ==
  ASSUME NEW K \in SUBSET Nat, K # {}
  PROVE  \E n \in K : \A m \in K : n <= m
<1> DEFINE R == OpToRel(<, Nat)
<1>1. IsWellFoundedOn(R, Nat)
  BY NatLessThanWellFounded
<1>2. \A m, n \in Nat : m < n => <<m, n>> \in R
  BY DEF OpToRel
<1> HIDE DEF R
<1>3. PICK n \in K : \A m \in K : ~(<<m, n>> \in R)
  BY <1>1, WFMin, Zenon
<1>4. \A m \in K : ~(m < n)
  BY <1>2, <1>3, Zenon
<1> QED
  BY <1>4

(* A set of numbers that has 0 and each successor has them all.            *)
LEMMA EveryNumber ==
  ASSUME NEW G \in SUBSET Nat, 0 \in G, \A n \in G : n + 1 \in G
  PROVE  G = Nat
<1> SUFFICES ASSUME Nat \ G # {} PROVE FALSE
  OBVIOUS
<1>1. PICK n \in Nat \ G : \A m \in Nat \ G : n <= m
  BY SmallestNumber
<1>2. n - 1 \in G
  BY <1>1
<1> QED
  BY <1>1, <1>2

LEMMA AppendLast ==
  ASSUME NEW T, NEW t \in Seq(T), NEW s \in Seq(T), Len(s) = Len(t) + 1,
         \A i \in 1 .. Len(t) : t[i] = s[i]
  PROVE  Append(t, s[Len(t) + 1]) = s
<1> DEFINE e == s[Len(t) + 1]
           a == Append(t, e)
<1>1. e \in T /\ Len(t) \in Nat
  BY ElementOfSeq
<1>2. a \in Seq(T) /\ Len(a) = Len(t) + 1 /\ a[Len(t) + 1] = e
  <2> HIDE DEF e
  <2> QED
    BY <1>1, AppendProperties
<1>3. \A i \in 1 .. Len(t) : a[i] = t[i]
  <2> HIDE DEF e
  <2> QED
    BY <1>1, AppendProperties
<1>4. \A i \in 1 .. Len(s) : a[i] = s[i]
  <2> HIDE DEF a
  <2> QED
    BY <1>1, <1>2, <1>3
<1>5. a = s
  <2> HIDE DEF a
  <2> QED
    BY <1>2, <1>4, SeqEqual
<1> QED
  BY <1>5

(* A set of sequences that is closed under Append has all of them.         *)
LEMMA EverySequence ==
  ASSUME NEW T, NEW G \in SUBSET Seq(T), <<>> \in G, \A s \in G : \A e \in T : Append(s, e) \in G
  PROVE  G = Seq(T)
<1> DEFINE L == {n \in Nat : \A s \in Seq(T) : Len(s) = n => s \in G}
<1>1. 0 \in L
  OBVIOUS
<1>2. ASSUME NEW n \in L PROVE n + 1 \in L
  <2> SUFFICES ASSUME NEW s \in Seq(T), Len(s) = n + 1 PROVE s \in G
    OBVIOUS
  <2> DEFINE t == SubSeq(s, 1, n)
  <2>1. t \in Seq(T) /\ Len(t) = n /\ s[n + 1] \in T /\ \A i \in 1 .. n : t[i] = s[i]
    BY SubSeqProperties
  <2>2. Append(t, s[n + 1]) = s
    <3> HIDE DEF t
    <3> QED
      BY <2>1, AppendLast
  <2> HIDE DEF t
  <2> QED
    BY <1>2, <2>1, <2>2
<1> HIDE DEF L
<1>3. L = Nat
  <2>1. L \in SUBSET Nat
    BY DEF L
  <2> QED
    BY <1>1, <1>2, <2>1, EveryNumber
<1>4. ASSUME NEW s \in Seq(T) PROVE s \in G
  <2>1. Len(s) \in L
    BY <1>3
  <2> QED
    BY <2>1 DEF L
<1> QED
  BY <1>4

NextKept(k, m, s, S, z) ==
  IF m = 0 THEN z ELSE IF s[m] \in S THEN Append(k[m - 1], s[m]) ELSE k[m - 1]

KeepsUpTo(k, n, s, S, z) == k = [m \in 0 .. n |-> NextKept(k, m, s, S, z)]

LEMMA KeptBy ==
  ASSUME NEW s, NEW S, NEW z, NEW n \in Nat, NEW k, KeepsUpTo(k, n, s, S, z)
  PROVE  \A m \in 0 .. n : k[m] = NextKept(k, m, s, S, z)
BY Zenon DEF KeepsUpTo

LEMMA KeptIs ==
  ASSUME NEW s, NEW S, NEW k, KeepsUpTo(k, Len(s), s, S, <<>>)
  PROVE  \E f : KeepsUpTo(f, Len(s), s, S, <<>>) /\ Only(s, S) = f[Len(s)]
BY DEF Only, KeepsUpTo, NextKept

LEMMA KeptOnce ==
  ASSUME NEW s, NEW t, NEW S, NEW z, NEW m \in Nat, NEW n \in Nat, NEW f, NEW g, m <= n,
         KeepsUpTo(f, m, s, S, z), KeepsUpTo(g, n, t, S, z), \A i \in 1 .. m : s[i] = t[i]
  PROVE  f[m] = g[m]
<1> DEFINE G == {i \in Nat : i <= m => f[i] = g[i]}
<1>a. \A j \in 0 .. m : f[j] = NextKept(f, j, s, S, z)
  BY KeptBy
<1>b. \A j \in 0 .. n : g[j] = NextKept(g, j, t, S, z)
  BY KeptBy
<1>1. 0 \in G
  <2>1. f[0] = NextKept(f, 0, s, S, z) /\ g[0] = NextKept(g, 0, t, S, z)
    BY <1>a, <1>b
  <2> QED
    BY <2>1 DEF NextKept
<1>2. ASSUME NEW i \in G PROVE i + 1 \in G
  <2> SUFFICES ASSUME i + 1 <= m PROVE f[i + 1] = g[i + 1]
    OBVIOUS
  <2>1. f[i] = g[i] /\ s[i + 1] = t[i + 1] /\ (i + 1) - 1 = i /\ i + 1 \in 1 .. m /\ i + 1 \in 1 .. n
    BY <1>2
  <2>2. f[i + 1] = NextKept(f, i + 1, s, S, z) /\ g[i + 1] = NextKept(g, i + 1, t, S, z)
    BY <1>a, <1>b, <2>1
  <2> QED
    BY <2>1, <2>2 DEF NextKept
<1> HIDE DEF G
<1>3. G = Nat
  <2>1. G \in SUBSET Nat
    BY DEF G
  <2> QED
    BY <1>1, <1>2, <2>1, EveryNumber
<1> QED
  BY <1>3 DEF G

LEMMA KeptLonger ==
  ASSUME NEW s, NEW S, NEW z, NEW n \in Nat, NEW k, KeepsUpTo(k, n, s, S, z)
  PROVE  \E f : /\ KeepsUpTo(f, n + 1, s, S, z)
                /\ f[n + 1] = IF s[n + 1] \in S THEN Append(k[n], s[n + 1]) ELSE k[n]
<1>a. \A j \in 0 .. n : k[j] = NextKept(k, j, s, S, z)
  BY KeptBy
<1> DEFINE f == [m \in 0 .. n + 1 |-> IF m <= n THEN k[m]
                   ELSE IF s[n + 1] \in S THEN Append(k[n], s[n + 1]) ELSE k[n]]
<1>1. f = [m \in 0 .. n + 1 |-> NextKept(f, m, s, S, z)]
  <2> SUFFICES ASSUME NEW m \in 0 .. n + 1
               PROVE f[m] = NextKept(f, m, s, S, z)
    BY Zenon
  <2>1. CASE m = n + 1
    BY <2>1 DEF NextKept
  <2>2. CASE m <= n /\ m # 0
    <3>1. k[m] = NextKept(k, m, s, S, z)
      BY <1>a, <2>2
    <3>2. f[m] = k[m] /\ f[m - 1] = k[m - 1]
      BY <2>2
    <3> HIDE DEF f
    <3> QED
      BY <2>2, <3>1, <3>2 DEF NextKept
  <2>3. CASE m = 0
    <3>1. f[0] = k[0] /\ k[0] = NextKept(k, 0, s, S, z)
      BY <1>a
    <3> HIDE DEF f
    <3> QED
      BY <2>3, <3>1 DEF NextKept
  <2> QED
    BY <2>1, <2>2, <2>3
<1>2. KeepsUpTo(f, n + 1, s, S, z)
  BY <1>1, Zenon DEF KeepsUpTo
<1>3. f[n + 1] = IF s[n + 1] \in S THEN Append(k[n], s[n + 1]) ELSE k[n]
  OBVIOUS
<1> HIDE DEF f
<1> QED
  BY <1>2, <1>3

LEMMA KeptAlways ==
  ASSUME NEW s, NEW S, NEW z, NEW n \in Nat
  PROVE  \E k : KeepsUpTo(k, n, s, S, z)
<1> DEFINE G == {i \in Nat : \E k : KeepsUpTo(k, i, s, S, z)}
<1>1. 0 \in G
  <2> DEFINE k == [m \in 0 .. 0 |-> z]
  <2>1. KeepsUpTo(k, 0, s, S, z)
    BY DEF KeepsUpTo, NextKept
  <2> QED
    BY <2>1
<1>2. ASSUME NEW i \in G PROVE i + 1 \in G
  <2>1. PICK k : KeepsUpTo(k, i, s, S, z)
    OBVIOUS
  <2>2. PICK f : KeepsUpTo(f, i + 1, s, S, z)
    BY <2>1, KeptLonger
  <2> QED
    BY <2>2
<1> HIDE DEF G
<1>3. G = Nat
  <2>1. G \in SUBSET Nat
    BY DEF G
  <2> QED
    BY <1>1, <1>2, <2>1, EveryNumber
<1> QED
  BY <1>3 DEF G

(* The two equations the definition comes to.                              *)
LEMMA OnlyOfNone == ASSUME NEW S PROVE Only(<<>>, S) = <<>>
<1> DEFINE z == <<>>
<1>1. Len(z) = 0
  OBVIOUS
<1>2. PICK k : KeepsUpTo(k, Len(z), z, S, z)
  <2> HIDE DEF z
  <2> QED
    BY <1>1, KeptAlways
<1>3. PICK f : KeepsUpTo(f, Len(z), z, S, z) /\ Only(z, S) = f[Len(z)]
  BY <1>2, KeptIs, Zenon
<1>4. Only(z, S) = z
  <2> HIDE DEF z
  <2>1. KeepsUpTo(f, 0, z, S, z) /\ Only(z, S) = f[0]
    BY <1>1, <1>3
  <2>2. f[0] = NextKept(f, 0, z, S, z)
    BY <2>1, KeptBy
  <2> QED
    BY <2>1, <2>2 DEF NextKept
<1> QED
  BY <1>4, Zenon

LEMMA OnlyOfAppend ==
  ASSUME NEW T, NEW s \in Seq(T), NEW e \in T, NEW S
  PROVE  Only(Append(s, e), S) = IF e \in S THEN Append(Only(s, S), e) ELSE Only(s, S)
<1> DEFINE a == Append(s, e)
           n == Len(s)
<1>1. n \in Nat /\ Len(a) = n + 1 /\ a[n + 1] = e /\ \A i \in 1 .. n : s[i] = a[i]
  OBVIOUS
<1>2. PICK f : KeepsUpTo(f, n, s, S, <<>>) /\ Only(s, S) = f[n]
  <2>1. PICK k : KeepsUpTo(k, n, s, S, <<>>)
    BY <1>1, KeptAlways
  <2> QED
    BY <2>1, KeptIs, Zenon
<1>3. PICK g : KeepsUpTo(g, n + 1, a, S, <<>>) /\ Only(a, S) = g[n + 1]
  <2>0. Len(a) \in Nat
    BY <1>1
  <2>1. PICK k : KeepsUpTo(k, Len(a), a, S, <<>>)
    BY <2>0, KeptAlways
  <2>2. PICK f1 : KeepsUpTo(f1, Len(a), a, S, <<>>) /\ Only(a, S) = f1[Len(a)]
    BY <2>1, KeptIs, Zenon
  <2> HIDE DEF a
  <2> QED
    BY <1>1, <2>2
<1>4. f[n] = g[n]
  <2> HIDE DEF a, n
  <2> QED
    BY <1>1, <1>2, <1>3, KeptOnce
<1>5. g[n + 1] = IF a[n + 1] \in S THEN Append(g[n], a[n + 1]) ELSE g[n]
  <2> HIDE DEF a, n
  <2>1. n + 1 \in 1 .. n + 1 /\ (n + 1) - 1 = n /\ n + 1 \in Nat
    BY <1>1
  <2>2. g[n + 1] = NextKept(g, n + 1, a, S, <<>>)
    BY <1>3, <2>1, KeptBy
  <2>3. n + 1 # 0
    BY <1>1
  <2> QED
    BY <2>1, <2>2, <2>3 DEF NextKept
<1>6. Only(a, S) = IF e \in S THEN Append(Only(s, S), e) ELSE Only(s, S)
  <2> HIDE DEF a, n
  <2> QED
    BY <1>1, <1>2, <1>3, <1>4, <1>5
<1> QED
  BY <1>6

-----------------------------------------------------------------------------
(***************************************************************************)
(* What Only keeps of a sequence, and in which order.                      *)
(***************************************************************************)
LEMMA OnlyKeeps ==
  ASSUME NEW T, NEW s \in Seq(T), NEW e \in T, NEW S, e \in S
  PROVE  Only(Append(s, e), S) = Append(Only(s, S), e)
BY OnlyOfAppend

LEMMA OnlyDrops ==
  ASSUME NEW T, NEW s \in Seq(T), NEW e \in T, NEW S, e \notin S
  PROVE  Only(Append(s, e), S) = Only(s, S)
BY OnlyOfAppend

LEMMA ElementsOfNone == ToSet(<<>>) = {}
BY DEF ToSet

LEMMA ElementsOfAppend ==
  ASSUME NEW T, NEW s \in Seq(T), NEW e \in T
  PROVE  ToSet(Append(s, e)) = ToSet(s) \cup {e}
<1> DEFINE a == Append(s, e)
<1>1. DOMAIN s = 1 .. Len(s) /\ Len(s) \in Nat /\ DOMAIN a = 1 .. Len(s) + 1
  BY LenProperties, AppendProperties
<1>2. a[Len(s) + 1] = e /\ \A i \in 1 .. Len(s) : a[i] = s[i]
  BY AppendProperties
<1> HIDE DEF a
<1>3. ToSet(a) = ToSet(s) \cup {e}
  BY <1>1, <1>2 DEF ToSet
<1> QED
  BY <1>3 DEF a

LEMMA ElementsOfConcat ==
  ASSUME NEW T, NEW s \in Seq(T), NEW t \in Seq(T)
  PROVE  ToSet(s \o t) = ToSet(s) \cup ToSet(t)
<1> DEFINE a == s \o t
<1>1. /\ DOMAIN s = 1 .. Len(s) /\ Len(s) \in Nat /\ DOMAIN t = 1 .. Len(t) /\ Len(t) \in Nat
      /\ DOMAIN a = 1 .. Len(s) + Len(t)
  BY LenProperties, ConcatProperties
<1>2. \A i \in 1 .. Len(s) + Len(t) : a[i] = IF i <= Len(s) THEN s[i] ELSE t[i - Len(s)]
  BY ConcatProperties
<1> HIDE DEF a
<1>3. \A i \in 1 .. Len(t) : i + Len(s) \in DOMAIN a /\ a[i + Len(s)] = t[i]
  BY <1>1, <1>2
<1>4. \A i \in 1 .. Len(s) : i \in DOMAIN a /\ a[i] = s[i]
  BY <1>1, <1>2
<1>5. \A i \in DOMAIN a : (i \in DOMAIN s /\ a[i] = s[i]) \/ (i - Len(s) \in DOMAIN t /\ a[i] = t[i - Len(s)])
  BY <1>1, <1>2
<1>6. ToSet(a) = ToSet(s) \cup ToSet(t)
  <2>1. \A x \in ToSet(a) : x \in ToSet(s) \cup ToSet(t)
    BY <1>5 DEF ToSet
  <2>2. \A x \in ToSet(s) : x \in ToSet(a)
    BY <1>1, <1>4 DEF ToSet
  <2>3. \A x \in ToSet(t) : x \in ToSet(a)
    BY <1>1, <1>3 DEF ToSet
  <2> QED
    BY <2>1, <2>2, <2>3
<1> QED
  BY <1>6 DEF a

LEMMA ElementsAre ==
  ASSUME NEW T, NEW s \in Seq(T)
  PROVE  ToSet(s) \subseteq T
BY DEF ToSet

LEMMA OnlySequence ==
  ASSUME NEW T, NEW s \in Seq(T), NEW S
  PROVE  Only(s, S) \in Seq(T)
<1> DEFINE G == {t \in Seq(T) : Only(t, S) \in Seq(T)}
<1>1. <<>> \in G
  BY OnlyOfNone, EmptySeq, Zenon
<1>2. ASSUME NEW t \in G, NEW e \in T PROVE Append(t, e) \in G
  <2>1. t \in Seq(T) /\ Only(t, S) \in Seq(T)
    OBVIOUS
  <2>2. Append(t, e) \in Seq(T) /\ Append(Only(t, S), e) \in Seq(T)
    BY <2>1, AppendProperties
  <2>3. Only(Append(t, e), S) \in Seq(T)
    <3>1. CASE e \in S
      BY <2>1, <2>2, <3>1, OnlyKeeps, Zenon
    <3>2. CASE e \notin S
      BY <2>1, <3>2, OnlyDrops, Zenon
    <3> QED
      BY <3>1, <3>2
  <2> QED
    BY <2>2, <2>3
<1> HIDE DEF G
<1>3. G = Seq(T)
  <2>1. G \in SUBSET Seq(T)
    BY DEF G
  <2> QED
    BY <1>1, <1>2, <2>1, EverySequence
<1> QED
  BY <1>3 DEF G

LEMMA OnlyElements ==
  ASSUME NEW T, NEW s \in Seq(T), NEW S
  PROVE  ToSet(Only(s, S)) = ToSet(s) \cap S
<1> DEFINE G == {t \in Seq(T) : ToSet(Only(t, S)) = ToSet(t) \cap S}
<1>1. <<>> \in G
  <2>1. ToSet(Only(<<>>, S)) = {}
    BY OnlyOfNone, ElementsOfNone, Zenon
  <2>2. ToSet(<<>>) \cap S = {}
    BY ElementsOfNone, Zenon
  <2> QED
    BY <2>1, <2>2, EmptySeq, Zenon
<1>2. ASSUME NEW t \in G, NEW e \in T PROVE Append(t, e) \in G
  <2>1. t \in Seq(T) /\ ToSet(Only(t, S)) = ToSet(t) \cap S /\ Only(t, S) \in Seq(T)
    BY OnlySequence
  <2>2. Append(t, e) \in Seq(T) /\ ToSet(Append(t, e)) = ToSet(t) \cup {e}
    BY <2>1, AppendProperties, ElementsOfAppend
  <2>3. ToSet(Only(Append(t, e), S)) = (ToSet(t) \cup {e}) \cap S
    <3>1. CASE e \in S
      <4>1. ToSet(Append(Only(t, S), e)) = ToSet(Only(t, S)) \cup {e}
        BY <2>1, ElementsOfAppend
      <4>2. Only(Append(t, e), S) = Append(Only(t, S), e)
        BY <2>1, <3>1, OnlyKeeps
      <4>3. ToSet(Only(Append(t, e), S)) = (ToSet(t) \cap S) \cup {e}
        BY <2>1, <4>1, <4>2, Zenon
      <4> QED
        BY <3>1, <4>3
    <3>2. CASE e \notin S
      <4>1. Only(Append(t, e), S) = Only(t, S)
        BY <2>1, <3>2, OnlyDrops
      <4> QED
        BY <2>1, <3>2, <4>1
    <3> QED
      BY <3>1, <3>2
  <2> QED
    BY <2>2, <2>3, Zenon
<1> HIDE DEF G
<1>3. G = Seq(T)
  <2>1. G \in SUBSET Seq(T)
    BY DEF G
  <2> QED
    BY <1>1, <1>2, <2>1, EverySequence
<1> QED
  BY <1>3 DEF G

LEMMA OnlyAll ==
  ASSUME NEW T, NEW s \in Seq(T), NEW S, ToSet(s) \subseteq S
  PROVE  Only(s, S) = s
<1> DEFINE G == {t \in Seq(T) : ToSet(t) \subseteq S => Only(t, S) = t}
<1>1. <<>> \in G
  BY OnlyOfNone, EmptySeq, Zenon
<1>2. ASSUME NEW t \in G, NEW e \in T PROVE Append(t, e) \in G
  <2>1. t \in Seq(T) /\ (ToSet(t) \subseteq S => Only(t, S) = t)
    OBVIOUS
  <2>2. Append(t, e) \in Seq(T) /\ ToSet(Append(t, e)) = ToSet(t) \cup {e}
    BY <2>1, AppendProperties, ElementsOfAppend
  <2>3. ASSUME ToSet(Append(t, e)) \subseteq S PROVE Only(Append(t, e), S) = Append(t, e)
    <3>1. e \in S /\ ToSet(t) \subseteq S
      BY <2>2, <2>3
    <3>2. Only(Append(t, e), S) = Append(Only(t, S), e)
      BY <2>1, <3>1, OnlyKeeps
    <3> QED
      BY <2>1, <3>1, <3>2, Zenon
  <2> QED
    BY <2>2, <2>3, Zenon
<1> HIDE DEF G
<1>3. G = Seq(T)
  <2>1. G \in SUBSET Seq(T)
    BY DEF G
  <2> QED
    BY <1>1, <1>2, <2>1, EverySequence
<1> QED
  BY <1>3 DEF G

(* What is kept depends on the elements that are there.                    *)
LEMMA OnlySame ==
  ASSUME NEW T, NEW s \in Seq(T), NEW S, NEW U, S \cap ToSet(s) = U \cap ToSet(s)
  PROVE  Only(s, S) = Only(s, U)
<1> DEFINE G == {t \in Seq(T) : S \cap ToSet(t) = U \cap ToSet(t) => Only(t, S) = Only(t, U)}
<1>1. <<>> \in G
  BY OnlyOfNone, EmptySeq, Zenon
<1>2. ASSUME NEW t \in G, NEW e \in T PROVE Append(t, e) \in G
  <2>1. t \in Seq(T) /\ (S \cap ToSet(t) = U \cap ToSet(t) => Only(t, S) = Only(t, U))
    OBVIOUS
  <2>2. Append(t, e) \in Seq(T) /\ ToSet(Append(t, e)) = ToSet(t) \cup {e}
    BY <2>1, AppendProperties, ElementsOfAppend
  <2>3. ASSUME S \cap ToSet(Append(t, e)) = U \cap ToSet(Append(t, e))
        PROVE  Only(Append(t, e), S) = Only(Append(t, e), U)
    <3>0. S \cap (ToSet(t) \cup {e}) = U \cap (ToSet(t) \cup {e})
      BY <2>2, <2>3, Zenon
    <3>1. (e \in S <=> e \in U) /\ S \cap ToSet(t) = U \cap ToSet(t)
      BY <3>0
    <3>2. CASE e \in S
      <4>1. /\ Only(Append(t, e), S) = Append(Only(t, S), e)
            /\ Only(Append(t, e), U) = Append(Only(t, U), e)
        BY <2>1, <3>1, <3>2, OnlyKeeps
      <4> QED
        BY <2>1, <3>1, <4>1, Zenon
    <3>3. CASE e \notin S
      <4>1. Only(Append(t, e), S) = Only(t, S) /\ Only(Append(t, e), U) = Only(t, U)
        BY <2>1, <3>1, <3>3, OnlyDrops
      <4> QED
        BY <2>1, <3>1, <4>1, Zenon
    <3> QED
      BY <3>2, <3>3
  <2> QED
    BY <2>2, <2>3, Zenon
<1> HIDE DEF G
<1>3. G = Seq(T)
  <2>1. G \in SUBSET Seq(T)
    BY DEF G
  <2> QED
    BY <1>1, <1>2, <2>1, EverySequence
<1> QED
  BY <1>3 DEF G

LEMMA OnlyNone ==
  ASSUME NEW T, NEW s \in Seq(T), NEW S, S \cap ToSet(s) = {}
  PROVE  Only(s, S) = <<>>
<1> DEFINE G == {t \in Seq(T) : Only(t, {}) = <<>>}
<1>1. <<>> \in G
  BY OnlyOfNone, EmptySeq, Zenon
<1>2. ASSUME NEW t \in G, NEW e \in T PROVE Append(t, e) \in G
  <2>1. t \in Seq(T) /\ Only(t, {}) = <<>> /\ e \notin {}
    OBVIOUS
  <2>2. Append(t, e) \in Seq(T)
    BY <2>1, AppendProperties
  <2> QED
    BY <2>1, <2>2, OnlyDrops, Zenon
<1> HIDE DEF G
<1>3. G = Seq(T)
  <2>1. G \in SUBSET Seq(T)
    BY DEF G
  <2> QED
    BY <1>1, <1>2, <2>1, EverySequence
<1>4. Only(s, {}) = <<>>
  BY <1>3 DEF G
<1>5. Only(s, S) = Only(s, {})
  BY OnlySame
<1> QED
  BY <1>4, <1>5, Zenon

(* Keeping twice is keeping what is in both.                               *)
LEMMA OnlyOnly ==
  ASSUME NEW T, NEW s \in Seq(T), NEW S, NEW U
  PROVE  Only(Only(s, S), U) = Only(s, S \cap U)
<1> DEFINE G == {t \in Seq(T) : Only(Only(t, S), U) = Only(t, S \cap U)}
<1>1. <<>> \in G
  BY OnlyOfNone, EmptySeq, Zenon
<1>2. ASSUME NEW t \in G, NEW e \in T PROVE Append(t, e) \in G
  <2>1. t \in Seq(T) /\ Only(Only(t, S), U) = Only(t, S \cap U) /\ Only(t, S) \in Seq(T)
    BY OnlySequence
  <2>2. Append(t, e) \in Seq(T)
    BY <2>1, AppendProperties
  <2>3. Only(Only(Append(t, e), S), U) = Only(Append(t, e), S \cap U)
    <3>1. CASE e \in S /\ e \in U
      <4>1. e \in S \cap U
        BY <3>1
      <4>2. Only(Append(t, e), S) = Append(Only(t, S), e)
        BY <2>1, <3>1, OnlyKeeps
      <4>3. Only(Append(Only(t, S), e), U) = Append(Only(Only(t, S), U), e)
        BY <2>1, <3>1, OnlyKeeps
      <4>4. Only(Append(t, e), S \cap U) = Append(Only(t, S \cap U), e)
        BY <2>1, <4>1, OnlyKeeps
      <4> QED
        BY <2>1, <4>2, <4>3, <4>4, Zenon
    <3>2. CASE e \in S /\ e \notin U
      <4>1. e \notin S \cap U
        BY <3>2
      <4>2. Only(Append(t, e), S) = Append(Only(t, S), e)
        BY <2>1, <3>2, OnlyKeeps
      <4>3. Only(Append(Only(t, S), e), U) = Only(Only(t, S), U)
        BY <2>1, <3>2, OnlyDrops
      <4>4. Only(Append(t, e), S \cap U) = Only(t, S \cap U)
        BY <2>1, <4>1, OnlyDrops
      <4> QED
        BY <2>1, <4>2, <4>3, <4>4, Zenon
    <3>3. CASE e \notin S
      <4>1. e \notin S \cap U
        BY <3>3
      <4>2. Only(Append(t, e), S) = Only(t, S)
        BY <2>1, <3>3, OnlyDrops
      <4>4. Only(Append(t, e), S \cap U) = Only(t, S \cap U)
        BY <2>1, <4>1, OnlyDrops
      <4> QED
        BY <2>1, <4>2, <4>4, Zenon
    <3> QED
      BY <3>1, <3>2, <3>3
  <2> QED
    BY <2>2, <2>3, Zenon
<1> HIDE DEF G
<1>3. G = Seq(T)
  <2>1. G \in SUBSET Seq(T)
    BY DEF G
  <2> QED
    BY <1>1, <1>2, <2>1, EverySequence
<1> QED
  BY <1>3 DEF G

LEMMA ConcatAppend ==
  ASSUME NEW T, NEW s \in Seq(T), NEW t \in Seq(T), NEW e \in T
  PROVE  s \o Append(t, e) = Append(s \o t, e)
<1>1. <<e>> \in Seq(T) /\ s \o t \in Seq(T)
  BY ConcatProperties
<1>2. Append(t, e) = t \o <<e>> /\ Append(s \o t, e) = (s \o t) \o <<e>>
  BY <1>1, AppendIsConcat
<1>3. (s \o t) \o <<e>> = s \o (t \o <<e>>)
  <2> DEFINE u == <<e>>
  <2>1. u \in Seq(T)
    BY <1>1
  <2> HIDE DEF u
  <2>2. (s \o t) \o u = s \o (t \o u)
    BY <2>1, ConcatAssociative
  <2> QED
    BY <2>2 DEF u
<1> QED
  BY <1>2, <1>3, Zenon

LEMMA OnlyConcat ==
  ASSUME NEW T, NEW s \in Seq(T), NEW r \in Seq(T), NEW S
  PROVE  Only(s \o r, S) = Only(s, S) \o Only(r, S)
<1> DEFINE G == {t \in Seq(T) : Only(s \o t, S) = Only(s, S) \o Only(t, S)}
<1>0. Only(s, S) \in Seq(T)
  BY OnlySequence
<1>1. <<>> \in G
  <2>1. s \o <<>> = s /\ Only(s, S) \o <<>> = Only(s, S)
    BY <1>0, ConcatEmptySeq, Zenon
  <2> QED
    BY <2>1, OnlyOfNone, EmptySeq, Zenon
<1>2. ASSUME NEW t \in G, NEW e \in T PROVE Append(t, e) \in G
  <2>1. t \in Seq(T) /\ Only(s \o t, S) = Only(s, S) \o Only(t, S) /\ Only(t, S) \in Seq(T)
    BY OnlySequence
  <2>2. Append(t, e) \in Seq(T) /\ s \o t \in Seq(T)
    BY <2>1, AppendProperties, ConcatProperties
  <2>4. s \o Append(t, e) = Append(s \o t, e)
    BY <2>1, ConcatAppend
  <2>3. Only(s \o Append(t, e), S) = Only(s, S) \o Only(Append(t, e), S)
    <3>1. CASE e \in S
      <4>1. Only(Append(s \o t, e), S) = Append(Only(s \o t, S), e)
        BY <2>2, <3>1, OnlyKeeps, Zenon
      <4>2. Only(Append(t, e), S) = Append(Only(t, S), e)
        BY <2>1, <3>1, OnlyKeeps, Zenon
      <4>3. Only(s, S) \o Append(Only(t, S), e) = Append(Only(s, S) \o Only(t, S), e)
        BY <1>0, <2>1, ConcatAppend
      <4> QED
        BY <2>1, <2>4, <4>1, <4>2, <4>3, Zenon
    <3>2. CASE e \notin S
      <4>1. Only(Append(s \o t, e), S) = Only(s \o t, S)
        BY <2>2, <3>2, OnlyDrops
      <4>2. Only(Append(t, e), S) = Only(t, S)
        BY <2>1, <3>2, OnlyDrops
      <4> QED
        BY <2>1, <2>4, <4>1, <4>2, Zenon
    <3> QED
      BY <3>1, <3>2
  <2> QED
    BY <2>2, <2>3, Zenon
<1> HIDE DEF G
<1>3. G = Seq(T)
  <2>1. G \in SUBSET Seq(T)
    BY DEF G
  <2> QED
    BY <1>1, <1>2, <2>1, EverySequence
<1> QED
  BY <1>3 DEF G

Once(s) == \A i, j \in 1 .. Len(s) : s[i] = s[j] => i = j

(* One element, of a sequence that has it once.                            *)
LEMMA OnlyThatOne ==
  ASSUME NEW T, NEW s \in Seq(T), Once(s), NEW e \in ToSet(s)
  PROVE  Only(s, {e}) = <<e>>
<1> DEFINE G == {t \in Seq(T) : Once(t) /\ e \in ToSet(t) => Only(t, {e}) = <<e>>}
<1>1. <<>> \in G
  BY ElementsOfNone, EmptySeq, Zenon
<1>2. ASSUME NEW t \in G, NEW x \in T PROVE Append(t, x) \in G
  <2>1. t \in Seq(T) /\ (Once(t) /\ e \in ToSet(t) => Only(t, {e}) = <<e>>)
    OBVIOUS
  <2>2. Append(t, x) \in Seq(T) /\ ToSet(Append(t, x)) = ToSet(t) \cup {x}
    BY <2>1, AppendProperties, ElementsOfAppend
  <2>3. ASSUME Once(Append(t, x)), e \in ToSet(Append(t, x))
        PROVE  Only(Append(t, x), {e}) = <<e>>
    <3> DEFINE a == Append(t, x)
    <3>0. e \in ToSet(t) \cup {x}
      BY <2>2, <2>3, Zenon
    <3>1. Len(t) \in Nat /\ Len(a) = Len(t) + 1 /\ a[Len(t) + 1] = x
          /\ \A i \in 1 .. Len(t) : a[i] = t[i]
      BY <2>1, AppendProperties
    <3>2. Once(t) /\ \A i \in 1 .. Len(t) : t[i] # x
      <4> HIDE DEF a
      <4>1. Once(a)
        BY <2>3 DEF a
      <4>2. \A i, j \in 1 .. Len(t) + 1 : a[i] = a[j] => i = j
        BY <3>1, <4>1 DEF Once
      <4>3. \A i \in 1 .. Len(t) : i \in 1 .. Len(t) + 1 /\ i # Len(t) + 1
        BY <3>1
      <4>4. Len(t) + 1 \in 1 .. Len(t) + 1
        BY <3>1
      <4> HIDE DEF G
      <4>5. Once(t)
        BY <3>1, <4>2, <4>3 DEF Once
      <4>6. \A i \in 1 .. Len(t) : t[i] # x
        BY <3>1, <4>2, <4>3, <4>4
      <4> QED
        BY <4>5, <4>6
    <3>3. x \notin ToSet(t)
      <4>1. DOMAIN t = 1 .. Len(t)
        BY <2>1, LenProperties
      <4> QED
        BY <3>2, <4>1 DEF ToSet
    <3>4. CASE x = e
      <4>1. {e} \cap ToSet(t) = {}
        BY <3>3, <3>4
      <4>2. Only(t, {e}) = <<>>
        BY <2>1, <4>1, OnlyNone
      <4>3. Only(Append(t, x), {e}) = Append(Only(t, {e}), x)
        <5>1. x \in {e}
          BY <3>4
        <5> QED
          BY <2>1, <5>1, OnlyKeeps
      <4>4. Append(<<>>, x) = <<x>>
        OBVIOUS
      <4> QED
        BY <3>4, <4>2, <4>3, <4>4, Zenon
    <3>5. CASE x # e
      <4>1. x \notin {e} /\ e \in ToSet(t)
        BY <3>0, <3>5
      <4>2. Only(t, {e}) = <<e>>
        BY <2>1, <3>2, <4>1
      <4>3. Only(Append(t, x), {e}) = Only(t, {e})
        BY <2>1, <4>1, OnlyDrops
      <4> QED
        BY <4>2, <4>3, Zenon
    <3> QED
      BY <3>4, <3>5
  <2> QED
    BY <2>2, <2>3, Zenon
<1> HIDE DEF G
<1>3. G = Seq(T)
  <2>1. G \in SUBSET Seq(T)
    BY DEF G
  <2> QED
    BY <1>1, <1>2, <2>1, EverySequence
<1> QED
  BY <1>3 DEF G

-----------------------------------------------------------------------------
(***************************************************************************)
(* The modules of a company, and orders of them.                           *)
(***************************************************************************)
LEMMA TheModules ==
  /\ Modules = {"entities", "objects", "deals", "proposals", "collections", "activities",
                "collab", "documents", "reports", "assessments"}
  /\ DefaultModuleOrder \in Seq(Modules) /\ Once(DefaultModuleOrder)
  /\ ToSet(DefaultModuleOrder) = Modules /\ Modules \cap Extras = {}
<1> DEFINE s == DefaultModuleOrder
           all == {"entities", "objects", "deals", "proposals", "collections", "activities",
                   "collab", "documents", "reports", "assessments"}
<1>0. s \in Seq(all) /\ Len(s) = 10
  BY DEF DefaultModuleOrder
<1>1. /\ s[1] = "entities" /\ s[2] = "objects" /\ s[3] = "deals" /\ s[4] = "proposals"
      /\ s[5] = "collections" /\ s[6] = "activities" /\ s[7] = "collab" /\ s[8] = "documents"
      /\ s[9] = "reports" /\ s[10] = "assessments"
  BY DEF DefaultModuleOrder
<1>2. DOMAIN s = 1 .. 10
  BY <1>0
<1> HIDE DEF s
<1>3. ToSet(s) = all
  <2>1. \A x \in all : x \in ToSet(s)
    BY <1>1, <1>2 DEF ToSet
  <2>2. ToSet(s) \subseteq all
    BY <1>0, ElementsAre
  <2> QED
    BY <2>1, <2>2
<1>4. Once(s)
  BY <1>0, <1>1 DEF Once
<1>5. Modules = ToSet(s)
  BY DEF Modules, s
<1>6. Modules \cap Extras = {}
  BY <1>3, <1>5 DEF Extras
<1> QED
  BY <1>0, <1>3, <1>4, <1>5, <1>6 DEF s

(* A completed order lists every module.                                   *)
LEMMA CompleteLists ==
  ASSUME NEW o \in Seq(Modules)
  PROVE  Complete(o) \in Seq(Modules) /\ ToSet(Complete(o)) = Modules
<1> DEFINE r == Only(DefaultModuleOrder, Modules \ ToSet(o))
<1>1. r \in Seq(Modules) /\ ToSet(r) = Modules \ ToSet(o)
  BY TheModules, OnlySequence, OnlyElements
<1>2. ToSet(o) \subseteq Modules
  BY ElementsAre
<1> HIDE DEF r
<1>3. o \o r \in Seq(Modules) /\ ToSet(o \o r) = ToSet(o) \cup ToSet(r)
  BY <1>1, ConcatProperties, ElementsOfConcat
<1>4. Complete(o) = o \o r
  BY DEF Complete, r
<1> QED
  BY <1>1, <1>2, <1>3, <1>4

(* What a complete order shows of the modules in N, once it comes to them. *)
LEMMA OnlyComplete ==
  ASSUME NEW q \in Seq(Modules), NEW N, N \cap Modules \subseteq ToSet(q)
  PROVE  Only(Complete(q), N) = Only(q, N)
<1> DEFINE r == Only(DefaultModuleOrder, Modules \ ToSet(q))
<1>1. r \in Seq(Modules) /\ ToSet(r) = Modules \ ToSet(q)
  BY TheModules, OnlySequence, OnlyElements
<1>2. Complete(q) = q \o r
  BY DEF Complete
<1> HIDE DEF r
<1>3. Only(q \o r, N) = Only(q, N) \o Only(r, N)
  BY <1>1, OnlyConcat
<1>4. Only(r, N) = <<>>
  <2>1. N \cap ToSet(r) = {}
    BY <1>1
  <2> QED
    BY <1>1, <2>1, OnlyNone
<1>5. Only(q, N) \o <<>> = Only(q, N)
  <2>1. Only(q, N) \in Seq(Modules)
    BY OnlySequence
  <2> QED
    BY <2>1, ConcatEmptySeq
<1> QED
  BY <1>2, <1>3, <1>4, <1>5, Zenon

(* An order that lists every module is complete.                           *)
LEMMA CompleteIs ==
  ASSUME NEW o \in Seq(Modules), ToSet(o) = Modules
  PROVE  Complete(o) = o
<1>1. Only(DefaultModuleOrder, Modules \ ToSet(o)) = <<>>
  <2>1. (Modules \ ToSet(o)) \cap ToSet(DefaultModuleOrder) = {}
    OBVIOUS
  <2> QED
    BY <2>1, TheModules, OnlyNone
<1>2. o \o <<>> = o
  BY ConcatEmptySeq
<1> QED
  BY <1>1, <1>2, Zenon DEF Complete

LEMMA VisibleIs ==
  ASSUME NEW q \in Seq(Modules), NEW N, ToSet(q) = N \cap Modules
  PROVE  Only(Complete(q), N) = q
<1>1. Only(Complete(q), N) = Only(q, N)
  BY OnlyComplete
<1>2. Only(q, N) = q
  <2>1. ToSet(q) \subseteq N
    OBVIOUS
  <2> QED
    BY <2>1, OnlyAll
<1> QED
  BY <1>1, <1>2, Zenon

LEMMA VisibleModules ==
  ASSUME NEW o \in Seq(Modules), NEW N
  PROVE  /\ Only(Complete(o), N) \in Seq(Modules)
         /\ ToSet(Only(Complete(o), N)) = N \cap Modules
<1>1. Complete(o) \in Seq(Modules) /\ ToSet(Complete(o)) = Modules
  BY CompleteLists
<1>2. Only(Complete(o), N) \in Seq(Modules) /\ ToSet(Only(Complete(o), N)) = ToSet(Complete(o)) \cap N
  BY <1>1, OnlySequence, OnlyElements
<1> QED
  BY <1>1, <1>2

LEMMA ElementOfOne ==
  ASSUME NEW T, NEW m \in T
  PROVE  <<m>> \in Seq(T) /\ ToSet(<<m>>) = {m}
<1> DEFINE u == <<m>>
<1>1. u \in Seq(T) /\ Len(u) = 1 /\ u[1] = m
  OBVIOUS
<1>2. DOMAIN u = 1 .. 1
  BY <1>1, LenProperties
<1> HIDE DEF u
<1>3. ToSet(u) = {m}
  BY <1>1, <1>2 DEF ToSet
<1> QED
  BY <1>1, <1>3 DEF u

LEMMA FirstIs ==
  ASSUME NEW T, NEW s \in Seq(T), NEW m \in ToSet(s)
  PROVE  First(s, m) \in Seq(T) /\ ToSet(First(s, m)) = ToSet(s)
<1> DEFINE u == <<m>>
           w == Without(s, m)
<1>1. m \in T
  BY ElementsAre
<1>2. u \in Seq(T) /\ ToSet(u) = {m}
  BY <1>1, ElementOfOne
<1>3. w \in Seq(T) /\ ToSet(w) = ToSet(s) \cap (ToSet(s) \ {m})
  BY OnlySequence, OnlyElements DEF Without
<1>4. First(s, m) = u \o w
  BY DEF First
<1> HIDE DEF u, w
<1>5. u \o w \in Seq(T) /\ ToSet(u \o w) = ToSet(u) \cup ToSet(w)
  BY <1>2, <1>3, ConcatProperties, ElementsOfConcat
<1> QED
  BY <1>2, <1>3, <1>4, <1>5

(* A module that is moved first, of those that are seen.                   *)
LEMMA FirstOfOnly ==
  ASSUME NEW T, NEW s \in Seq(T), NEW N, NEW m \in ToSet(s) \cap N
  PROVE  Only(First(s, m), N) = First(Only(s, N), m)
<1> DEFINE u == <<m>>
           v == Only(s, N)
<1>1. m \in T /\ v \in Seq(T) /\ ToSet(v) = ToSet(s) \cap N /\ ToSet(s) \subseteq T
  BY ElementsAre, OnlySequence, OnlyElements
<1>2. u \in Seq(T) /\ ToSet(u) = {m}
  BY <1>1, ElementOfOne
<1>3. First(s, m) = u \o Only(s, ToSet(s) \ {m}) /\ First(v, m) = u \o Only(v, ToSet(v) \ {m})
  BY DEF First, Without
<1> HIDE DEF u
<1>4. Only(u, N) = u
  BY <1>2, OnlyAll
<1>5. Only(Only(s, ToSet(s) \ {m}), N) = Only(s, (ToSet(s) \ {m}) \cap N)
  BY OnlyOnly
<1>6. Only(v, ToSet(v) \ {m}) = Only(s, N \cap (ToSet(v) \ {m}))
  BY OnlyOnly
<1>7. Only(s, N \cap (ToSet(v) \ {m})) = Only(s, (ToSet(s) \ {m}) \cap N)
  <2>1. N \cap (ToSet(v) \ {m}) = (ToSet(s) \ {m}) \cap N
    BY <1>1
  <2> QED
    BY <2>1, Zenon
<1>8. Only(u \o Only(s, ToSet(s) \ {m}), N) = Only(u, N) \o Only(Only(s, ToSet(s) \ {m}), N)
  <2> DEFINE w == Only(s, ToSet(s) \ {m})
  <2>1. w \in Seq(T)
    BY OnlySequence
  <2> HIDE DEF v, w
  <2>2. Only(u \o w, N) = Only(u, N) \o Only(w, N)
    BY <1>2, <2>1, OnlyConcat
  <2> QED
    BY <2>2 DEF w
<1> QED
  BY <1>3, <1>4, <1>5, <1>6, <1>7, <1>8, Zenon

LEMMA WithoutIs ==
  ASSUME NEW T, NEW s \in Seq(T), NEW N, NEW m, N \cap ToSet(s) = ToSet(s) \ {m}
  PROVE  Only(s, N) = Without(s, m)
<1>1. N \cap ToSet(s) = (ToSet(s) \ {m}) \cap ToSet(s)
  OBVIOUS
<1> QED
  BY <1>1, OnlySame DEF Without

LEMMA PermissionFacts ==
  /\ Star \notin Perms /\ Views \subseteq Perms /\ Views # {}
  /\ \A g : Perms \ {g} # {}
<1>1. \A p \in Perms : Len(p) = 2
  <2>1. \A m : <<m, "view">> = <<m, "view">> /\ Len(<<m, "view">>) = 2 /\ Len(<<m, "edit">>) = 2
    OBVIOUS
  <2>2. \A p \in Views : \E m : p = <<m, "view">>
    BY Zenon DEF Views
  <2>3. \A p \in Perms : (\E m : p = <<m, "view">>) \/ (\E m : p = <<m, "edit">>)
    BY <2>2, Zenon DEF Perms
  <2> QED
    BY <2>1, <2>3, Zenon
<1>2. Len(Star) = 1
  BY DEF Star
<1>3. "dashboard" \in {"dashboard"} \cup Modules /\ "entities" \in {"dashboard"} \cup Modules
  BY TheModules
<1>4. <<"dashboard", "view">> \in Views /\ <<"entities", "view">> \in Views
  BY <1>3 DEF Views
<1>5. <<"dashboard", "view">> # <<"entities", "view">>
  OBVIOUS
<1>6. Views \subseteq Perms
  BY DEF Perms
<1> QED
  BY <1>1, <1>2, <1>4, <1>5, <1>6

-----------------------------------------------------------------------------
(***************************************************************************)
(* A configuration, the page that shows it, and the order read from it.    *)
(***************************************************************************)
LEMMA DefaultPolicies ==
  ASSUME NEW r \in Roles
  PROVE  /\ DefaultRolePolicies[r] \in SUBSET (Perms \cup {Star}) /\ DefaultRolePolicies[r] # {}
         /\ Star \in DefaultRolePolicies[r] => DefaultRolePolicies[r] = {Star}
<1>1. DefaultRolePolicies[r] \in {{Star}, Perms, Views}
  BY DEF DefaultRolePolicies
<1> QED
  BY <1>1, PermissionFacts

LEMMA ResolvedRole ==
  ASSUME NEW r \in Roles, NEW X \in SUBSET (Perms \cup {Star})
  PROVE  /\ Resolved(r, X) \in SUBSET (Perms \cup {Star}) /\ Resolved(r, X) # {}
         /\ Star \in Resolved(r, X) => Resolved(r, X) = {Star}
         /\ Resolved(r, Resolved(r, X)) = Resolved(r, X)
         /\ X # {} /\ Star \notin X => Resolved(r, X) = X
BY DefaultPolicies DEF Resolved

(* The roles of a configuration, and what the page shows of them.          *)
LEMMA PoliciesAre ==
  ASSUME NEW c, c.roles \in Policy
  PROVE  /\ Policies(c) \in Policy
         /\ \A r \in Roles : /\ Policies(c)[r] = Resolved(r, c.roles[r])
                             /\ Policies(c)[r] # {}
                             /\ Star \in Policies(c)[r] => Policies(c)[r] = {Star}
                             /\ Resolved(r, Policies(c)[r]) = Policies(c)[r]
<1>1. \A r \in Roles : c.roles[r] \in SUBSET (Perms \cup {Star})
  BY DEF Policy
<1>2. \A r \in Roles : Resolved(r, c.roles[r]) \in SUBSET (Perms \cup {Star})
  BY <1>1, ResolvedRole
<1> QED
  BY <1>1, <1>2, ResolvedRole DEF Policies, Policy

LEMMA ConfigIs ==
  ASSUME NEW c \in Config
  PROVE  /\ c.profile \in Profiles /\ c.on \in SUBSET (Modules \cup Extras) /\ c.order \in Seq(Modules)
         /\ c.widgets \in SUBSET Widgets /\ c.roles \in Policy /\ c.labels \in Labels
         /\ c.objects \in BOOLEAN /\ c.ops \in Ops
BY DEF Config

LEMMA PageIs ==
  ASSUME NEW p \in Page
  PROVE  /\ p.profile \in Profiles /\ p.reset \in BOOLEAN
         /\ p.ticks \in SUBSET Modules /\ p.extras \in SUBSET Extras /\ p.csv \in Seq(Modules)
         /\ p.widgets \in SUBSET Widgets /\ p.full \in BOOLEAN
         /\ p.roles \in [Roles \ {"owner"} -> SUBSET Perms]
         /\ p.title \in Texts /\ p.singular \in Texts
         /\ p.controls \in [density : Density, validity : 1..2]
         /\ p.jon \in SUBSET (Modules \cup Extras) /\ p.jorder \in Seq(Modules)
         /\ p.jwidgets \in SUBSET Widgets /\ p.jroles \in Policy /\ p.jlabels \in Labels
         /\ p.objects \in BOOLEAN /\ p.jops \in Ops
BY DEF Page

LEMMA FieldsAre ==
  ASSUME NEW c
  PROVE  LET n == Fields(c)
             p == Policies(c) IN
         /\ n.profile = c.profile /\ n.reset = FALSE
         /\ n.ticks = c.on \cap Modules /\ n.extras = c.on \cap Extras /\ n.csv = Visible(c)
         /\ n.widgets = c.widgets /\ n.full = (Star \in p["manager"])
         /\ n.roles = [r \in Roles \ {"owner"} |-> Shown(r, p[r])]
         /\ n.title = c.labels.title /\ n.singular = c.labels.singular
         /\ n.controls = Controls(c.ops)
         /\ n.jon = c.on /\ n.jorder = Complete(c.order) /\ n.jwidgets = c.widgets
         /\ n.jroles = p /\ n.jlabels = c.labels /\ n.objects = c.objects /\ n.jops = c.ops
BY DEF Fields

(* A row shows as a page.                                                  *)
LEMMA FieldsType ==
  ASSUME NEW c \in Config
  PROVE  Fields(c) \in Page
<1> DEFINE p == Policies(c)
<1>1. Visible(c) \in Seq(Modules) /\ Complete(c.order) \in Seq(Modules)
  BY ConfigIs, VisibleModules, CompleteLists DEF Visible
<1>2. p \in Policy
  BY ConfigIs, PoliciesAre
<1> HIDE DEF p
<1>3. [r \in Roles \ {"owner"} |-> Shown(r, p[r])] \in [Roles \ {"owner"} -> SUBSET Perms]
  <2>1. \A r \in Roles \ {"owner"} : Shown(r, p[r]) \in SUBSET Perms
    BY <1>2, PermissionFacts DEF Shown, Policy
  <2> QED
    BY <2>1
<1>4. Controls(c.ops) \in [density : Density, validity : 1..2] /\ c.labels.title \in Texts
      /\ c.labels.singular \in Texts
  BY ConfigIs DEF Controls, Ops, Labels
<1>5. c.on \cap Modules \in SUBSET Modules /\ c.on \cap Extras \in SUBSET Extras
      /\ (Star \in p["manager"]) \in BOOLEAN
  OBVIOUS
<1> HIDE DEF Page
<1> DEFINE n == Fields(c)
           sh == [r \in Roles \ {"owner"} |-> Shown(r, p[r])]
           fu == Star \in p["manager"]
<1>6. n = [profile |-> c.profile, reset |-> FALSE,
     ticks |-> c.on \cap Modules, extras |-> c.on \cap Extras, csv |-> Visible(c),
     widgets |-> c.widgets, full |-> fu,
     roles |-> sh,
     title |-> c.labels.title, singular |-> c.labels.singular, controls |-> Controls(c.ops),
     jon |-> c.on, jorder |-> Complete(c.order), jwidgets |-> c.widgets, jroles |-> p,
     jlabels |-> c.labels, objects |-> c.objects, jops |-> c.ops]
  BY DEF Fields, p
<1>7. sh \in [Roles \ {"owner"} -> SUBSET Perms] /\ fu \in BOOLEAN
  BY <1>3
<1> HIDE DEF n, sh, fu
<1>8. n \in Page
  BY <1>1, <1>2, <1>4, <1>5, <1>6, <1>7, ConfigIs DEF Page
<1> QED
  BY <1>8 DEF n

(* An order read from the controls.                                        *)
TickOrder(csv, ticks) == Only(csv, ticks) \o Only(DefaultModuleOrder, ticks \ ToSet(csv))

LEMMA TickOrderIs ==
  ASSUME NEW csv \in Seq(Modules), NEW ticks \in SUBSET Modules
  PROVE  TickOrder(csv, ticks) \in Seq(Modules) /\ ToSet(TickOrder(csv, ticks)) = ticks
<1> DEFINE a == Only(csv, ticks)
           b == Only(DefaultModuleOrder, ticks \ ToSet(csv))
<1>1. a \in Seq(Modules) /\ ToSet(a) = ToSet(csv) \cap ticks
  BY OnlySequence, OnlyElements
<1>2. b \in Seq(Modules) /\ ToSet(b) = ticks \ ToSet(csv)
  <2>1. b \in Seq(Modules) /\ ToSet(b) = Modules \cap (ticks \ ToSet(csv))
    BY OnlySequence, OnlyElements, TheModules
  <2> QED
    BY <2>1
<1> HIDE DEF a, b
<1>3. a \o b \in Seq(Modules) /\ ToSet(a \o b) = ToSet(a) \cup ToSet(b)
  BY <1>1, <1>2, ConcatProperties, ElementsOfConcat
<1> QED
  BY <1>1, <1>2, <1>3 DEF TickOrder, a, b

LEMMA TickOrderKept ==
  ASSUME NEW csv \in Seq(Modules)
  PROVE  TickOrder(csv, ToSet(csv)) = csv
<1>1. Only(csv, ToSet(csv)) = csv
  BY OnlyAll
<1>2. Only(DefaultModuleOrder, ToSet(csv) \ ToSet(csv)) = <<>>
  <2>1. (ToSet(csv) \ ToSet(csv)) \cap ToSet(DefaultModuleOrder) = {}
    OBVIOUS
  <2> QED
    BY <2>1, TheModules, OnlyNone
<1>3. csv \o <<>> = csv
  BY ConcatEmptySeq
<1> QED
  BY <1>1, <1>2, <1>3, Zenon DEF TickOrder

LEMMA SwitchedIs ==
  ASSUME NEW csv \in Seq(Modules), NEW m \in Modules
  PROVE  Switched(csv, m) \in Seq(Modules) /\ ToSet(Switched(csv, m)) = Flip(ToSet(csv), m)
<1>1. CASE m \in ToSet(csv)
  BY <1>1, OnlySequence, OnlyElements DEF Switched, Without, Flip
<1>2. CASE m \notin ToSet(csv)
  BY <1>2, AppendProperties, ElementsOfAppend DEF Switched, Flip
<1> QED
  BY <1>1, <1>2

LEMMA TickSwitched ==
  ASSUME NEW csv \in Seq(Modules), NEW m \in Modules
  PROVE  TickOrder(csv, Flip(ToSet(csv), m)) = Switched(csv, m)
<1> DEFINE ticks == Flip(ToSet(csv), m)
           D == DefaultModuleOrder
<1>0. D \in Seq(Modules)
  BY TheModules
<1>1. CASE m \in ToSet(csv)
  <2>1. Only(csv, ticks) = Without(csv, m)
    BY <1>1 DEF Flip, Without
  <2>2. Only(D, ticks \ ToSet(csv)) = <<>>
    <3>1. (ticks \ ToSet(csv)) \cap ToSet(D) = {}
      BY <1>1 DEF Flip
    <3> QED
      BY <1>0, <3>1, OnlyNone
  <2>3. Without(csv, m) \o <<>> = Without(csv, m)
    <3>1. Without(csv, m) \in Seq(Modules)
      BY OnlySequence DEF Without
    <3> QED
      BY <3>1, ConcatEmptySeq
  <2>4. Switched(csv, m) = Without(csv, m)
    BY <1>1 DEF Switched
  <2> QED
    BY <2>1, <2>2, <2>3, <2>4, Zenon DEF TickOrder
<1>2. CASE m \notin ToSet(csv)
  <2>1. Only(csv, ticks) = csv
    <3>1. ToSet(csv) \subseteq ticks
      BY <1>2 DEF Flip
    <3> HIDE DEF ticks
    <3> QED
      BY <3>1, OnlyAll
  <2>2. Only(D, ticks \ ToSet(csv)) = <<m>>
    <3>1. ticks \ ToSet(csv) = {m}
      BY <1>2 DEF Flip
    <3>2. Only(D, {m}) = <<m>>
      BY TheModules, OnlyThatOne
    <3> QED
      BY <3>1, <3>2, Zenon
  <2>3. csv \o <<m>> = Append(csv, m)
    BY AppendIsConcat
  <2>4. Switched(csv, m) = Append(csv, m)
    BY <1>2 DEF Switched
  <2> QED
    BY <2>1, <2>2, <2>3, <2>4, Zenon DEF TickOrder
<1> QED
  BY <1>1, <1>2

(* What is seen of an order that was completed, and of one that is.        *)
LEMMA SeenOf ==
  ASSUME NEW q \in Seq(Modules), NEW N, ToSet(q) = N \cap Modules
  PROVE  Only(Complete(Complete(q)), N) = q
<1>1. Complete(q) \in Seq(Modules) /\ ToSet(Complete(q)) = Modules
  BY CompleteLists
<1>2. Complete(Complete(q)) = Complete(q)
  BY <1>1, CompleteIs
<1>3. Only(Complete(q), N) = q
  BY VisibleIs
<1> QED
  BY <1>2, <1>3, Zenon

LEMMA SeenSwitched ==
  ASSUME NEW csv \in Seq(Modules), NEW on, ToSet(csv) = on \cap Modules, NEW m \in Modules
  PROVE  Only(Complete(Complete(csv)), Flip(on, m)) = Switched(csv, m)
<1> DEFINE r == Only(DefaultModuleOrder, Modules \ ToSet(csv))
           N == Flip(on, m)
<1>1. r \in Seq(Modules)
  BY TheModules, OnlySequence
<1>2. Complete(csv) = csv \o r /\ Complete(Complete(csv)) = Complete(csv)
  BY CompleteLists, CompleteIs DEF Complete
<1>3. Only(r, N) = Only(DefaultModuleOrder, (Modules \ ToSet(csv)) \cap N)
  BY TheModules, OnlyOnly
<1>4. Only(csv \o r, N) = Only(csv, N) \o Only(r, N)
  <2> HIDE DEF r, N
  <2> QED
    BY <1>1, OnlyConcat
<1>5. CASE m \in on
  <2>1. Only(csv, N) = Without(csv, m)
    <3>1. N \cap ToSet(csv) = ToSet(csv) \ {m}
      BY <1>5 DEF Flip
    <3> QED
      BY <3>1, WithoutIs
  <2>2. Only(DefaultModuleOrder, (Modules \ ToSet(csv)) \cap N) = <<>>
    <3>1. ((Modules \ ToSet(csv)) \cap N) \cap ToSet(DefaultModuleOrder) = {}
      BY <1>5 DEF Flip
    <3> QED
      BY <3>1, TheModules, OnlyNone
  <2>3. Without(csv, m) \o <<>> = Without(csv, m)
    <3>1. Without(csv, m) \in Seq(Modules)
      BY OnlySequence DEF Without
    <3> QED
      BY <3>1, ConcatEmptySeq
  <2>4. Switched(csv, m) = Without(csv, m)
    BY <1>5 DEF Switched
  <2> QED
    BY <1>2, <1>3, <1>4, <2>1, <2>2, <2>3, <2>4, Zenon
<1>6. CASE m \notin on
  <2>1. Only(csv, N) = csv
    <3>1. ToSet(csv) \subseteq N
      BY <1>6 DEF Flip
    <3> QED
      BY <3>1, OnlyAll
  <2>2. Only(DefaultModuleOrder, (Modules \ ToSet(csv)) \cap N) = <<m>>
    <3>1. (Modules \ ToSet(csv)) \cap N = {m}
      BY <1>6 DEF Flip
    <3>2. Only(DefaultModuleOrder, {m}) = <<m>>
      BY TheModules, OnlyThatOne
    <3> QED
      BY <3>1, <3>2, Zenon
  <2>3. csv \o <<m>> = Append(csv, m)
    BY AppendIsConcat
  <2>4. Switched(csv, m) = Append(csv, m)
    BY <1>6 DEF Switched
  <2> QED
    BY <1>2, <1>3, <1>4, <2>1, <2>2, <2>3, <2>4, Zenon
<1> QED
  BY <1>5, <1>6

-----------------------------------------------------------------------------
(***************************************************************************)
(* What the modules of a page come to, when one of its fields was edited.  *)
(***************************************************************************)
LEMMA FirstType ==
  ASSUME NEW T, NEW s \in Seq(T), NEW m \in T
  PROVE  First(s, m) \in Seq(T)
<1> DEFINE u == <<m>>
           w == Without(s, m)
<1>1. u \in Seq(T) /\ w \in Seq(T)
  BY OnlySequence DEF Without
<1>2. First(s, m) = u \o w
  BY DEF First
<1> HIDE DEF u, w
<1> QED
  BY <1>1, <1>2, ConcatProperties

(* The groups of fields of a page, each of which comes to a section.       *)
SameModules(p, n) ==
  /\ p.ticks = n.ticks /\ p.extras = n.extras /\ p.csv = n.csv
  /\ p.jon = n.jon /\ p.jorder = n.jorder

SameWidgets(p, n) == p.widgets = n.widgets /\ p.jwidgets = n.jwidgets
SameRoles(p, n) == p.full = n.full /\ p.roles = n.roles /\ p.jroles = n.jroles
SameLabels(p, n) == p.title = n.title /\ p.singular = n.singular /\ p.jlabels = n.jlabels
SameOps(p, n) == p.controls = n.controls /\ p.jops = n.jops

Others(p, n, s) ==
  /\ p.reset = FALSE
  /\ s # "profile" => p.profile = n.profile
  /\ s \notin {"modules", "extras"} => SameModules(p, n)
  /\ s # "widgets" => SameWidgets(p, n)
  /\ s # "roles" => SameRoles(p, n)
  /\ s # "labels" => SameLabels(p, n)
  /\ s # "objects" => p.objects = n.objects
  /\ s # "ops" => SameOps(p, n)

SeenModules(p, n) == Only(Complete(OrderOf(p, n)), FlagsOf(p, n))
SeenRoles(p, n) == [r \in Roles |-> Resolved(r, RolesOf(p, n)[r])]

LEMMA TicksDecide ==
  ASSUME NEW p, NEW n, p.jon = n.jon
  PROVE  FlagsOf(p, n) = p.ticks \cup p.extras
BY DEF FlagsOf, ByControls

LEMMA TicksOrder ==
  ASSUME NEW p, NEW n, p.jorder = n.jorder
  PROVE  OrderOf(p, n) = Complete(TickOrder(p.csv, p.ticks))
BY DEF OrderOf, ByControls, TickOrder

LEMMA FieldsModules ==
  ASSUME NEW c \in Config, NEW n, n = Fields(c)
  PROVE  /\ n.ticks = c.on \cap Modules /\ n.extras = c.on \cap Extras /\ n.jon = c.on
         /\ n.csv \in Seq(Modules) /\ ToSet(n.csv) = n.ticks
         /\ n.csv = Only(n.jorder, c.on) /\ n.csv = Visible(c)
         /\ n.jorder \in Seq(Modules) /\ ToSet(n.jorder) = Modules
         /\ n.ticks \cup n.extras = c.on
         /\ \A X \in SUBSET Modules, Y \in SUBSET Extras :
              (X \cup Y) \cap Modules = X /\ (X \cup Y) \cap Extras = Y
<1>1. c.order \in Seq(Modules) /\ c.on \in SUBSET (Modules \cup Extras)
  BY ConfigIs
<1>2. n.ticks = c.on \cap Modules /\ n.extras = c.on \cap Extras /\ n.jon = c.on
      /\ n.csv = Visible(c) /\ n.jorder = Complete(c.order)
  BY FieldsAre
<1>3. Complete(c.order) \in Seq(Modules) /\ ToSet(Complete(c.order)) = Modules
  BY <1>1, CompleteLists
<1>4. Visible(c) \in Seq(Modules) /\ ToSet(Visible(c)) = c.on \cap Modules
  BY <1>1, VisibleModules DEF Visible
<1>5. Visible(c) = Only(Complete(c.order), c.on)
  BY DEF Visible
<1> QED
  BY <1>1, <1>2, <1>3, <1>4, <1>5, TheModules

(* Nothing was done to the modules.                                        *)
LEMMA ModulesStay ==
  ASSUME NEW c \in Config, NEW n, n = Fields(c), NEW p, SameModules(p, n)
  PROVE  FlagsOf(p, n) = c.on /\ SeenModules(p, n) = Visible(c)
<1>1. FlagsOf(p, n) = c.on
  <2>1. FlagsOf(p, n) = p.ticks \cup p.extras
    BY TicksDecide DEF SameModules
  <2> QED
    BY <2>1, FieldsModules DEF SameModules
<1>2. OrderOf(p, n) = Complete(TickOrder(n.csv, n.ticks))
  BY TicksOrder DEF SameModules
<1>3. TickOrder(n.csv, n.ticks) = n.csv
  <2>1. TickOrder(n.csv, ToSet(n.csv)) = n.csv
    BY FieldsModules, TickOrderKept
  <2> QED
    BY <2>1, FieldsModules
<1>4. Only(Complete(Complete(n.csv)), c.on) = n.csv
  BY FieldsModules, SeenOf
<1> QED
  BY <1>1, <1>2, <1>3, <1>4, FieldsModules, Zenon DEF SeenModules

LEMMA TickFlipped ==
  ASSUME NEW c \in Config, NEW n, n = Fields(c), NEW p, NEW m \in Modules,
         p.ticks = Flip(n.ticks, m), p.extras = n.extras, p.csv = n.csv,
         p.jon = n.jon, p.jorder = n.jorder
  PROVE  /\ FlagsOf(p, n) \cap Extras = n.extras
         /\ SeenModules(p, n) = Switched(n.csv, m)
<1>0. Flip(n.ticks, m) \in SUBSET Modules
  BY FieldsModules DEF Flip
<1>1. FlagsOf(p, n) = Flip(n.ticks, m) \cup n.extras
  BY TicksDecide
<1>2. OrderOf(p, n) = Complete(TickOrder(n.csv, Flip(n.ticks, m)))
  BY TicksOrder, Zenon
<1>3. TickOrder(n.csv, Flip(n.ticks, m)) = Switched(n.csv, m)
  <2>1. TickOrder(n.csv, Flip(ToSet(n.csv), m)) = Switched(n.csv, m)
    BY FieldsModules, TickSwitched
  <2> QED
    BY <2>1, FieldsModules
<1>4. Switched(n.csv, m) \in Seq(Modules) /\ ToSet(Switched(n.csv, m)) = Flip(n.ticks, m)
  <2>1. Switched(n.csv, m) \in Seq(Modules) /\ ToSet(Switched(n.csv, m)) = Flip(ToSet(n.csv), m)
    BY FieldsModules, SwitchedIs
  <2> QED
    BY <2>1, FieldsModules
<1>5. n.extras \in SUBSET Extras
  BY FieldsModules
<1>6. FlagsOf(p, n) \cap Extras = n.extras /\ FlagsOf(p, n) \cap Modules = Flip(n.ticks, m)
  BY <1>0, <1>1, <1>5, FieldsModules
<1>7. Only(Complete(Complete(Switched(n.csv, m))), FlagsOf(p, n)) = Switched(n.csv, m)
  BY <1>4, <1>6, SeenOf
<1> QED
  BY <1>2, <1>3, <1>6, <1>7, Zenon DEF SeenModules

LEMMA FlagFlipped ==
  ASSUME NEW c \in Config, NEW n, n = Fields(c), NEW p, NEW m \in Modules,
         p.jon = Flip(n.jon, m), p.ticks = n.ticks, p.extras = n.extras, p.csv = n.csv,
         p.jorder = n.jorder
  PROVE  /\ FlagsOf(p, n) \cap Extras = n.extras
         /\ SeenModules(p, n) = Switched(n.csv, m)
<1>1. FlagsOf(p, n) = Flip(c.on, m)
  <2>1. Flip(n.jon, m) # n.jon
    BY DEF Flip
  <2>2. ~ModulesChanged(p, n)
    BY DEF ModulesChanged
  <2> QED
    BY <2>1, <2>2, FieldsModules DEF FlagsOf, ByControls
<1>2. OrderOf(p, n) = Complete(TickOrder(n.csv, n.ticks))
  BY TicksOrder
<1>3. TickOrder(n.csv, n.ticks) = n.csv
  <2>1. TickOrder(n.csv, ToSet(n.csv)) = n.csv
    BY FieldsModules, TickOrderKept
  <2> QED
    BY <2>1, FieldsModules
<1>4. Only(Complete(Complete(n.csv)), Flip(c.on, m)) = Switched(n.csv, m)
  <2>1. n.csv \in Seq(Modules) /\ ToSet(n.csv) = c.on \cap Modules
    BY FieldsModules
  <2> QED
    BY <2>1, SeenSwitched
<1>5. Flip(c.on, m) \cap Extras = n.extras
  <2>1. m \notin Extras /\ n.extras = c.on \cap Extras
    BY FieldsModules, TheModules
  <2> QED
    BY <2>1 DEF Flip
<1> QED
  BY <1>1, <1>2, <1>3, <1>4, <1>5, Zenon DEF SeenModules

LEMMA OrderMoved ==
  ASSUME NEW c \in Config, NEW n, n = Fields(c), NEW p, NEW m \in n.ticks,
         p.csv = First(n.csv, m), p.ticks = n.ticks, p.extras = n.extras,
         p.jon = n.jon, p.jorder = n.jorder
  PROVE  FlagsOf(p, n) = c.on /\ SeenModules(p, n) = First(n.csv, m)
<1> DEFINE q == First(n.csv, m)
<1>1. FlagsOf(p, n) = c.on
  <2>1. FlagsOf(p, n) = p.ticks \cup p.extras
    BY TicksDecide
  <2> QED
    BY <2>1, FieldsModules
<1>2. q \in Seq(Modules) /\ ToSet(q) = n.ticks
  BY FieldsModules, FirstIs
<1> HIDE DEF q
<1>3. OrderOf(p, n) = Complete(TickOrder(q, n.ticks))
  BY TicksOrder, Zenon DEF q
<1>4. TickOrder(q, n.ticks) = q
  <2>1. TickOrder(q, ToSet(q)) = q
    BY <1>2, TickOrderKept
  <2> QED
    BY <1>2, <2>1
<1>5. Only(Complete(Complete(q)), c.on) = q
  <2>1. ToSet(q) = c.on \cap Modules
    BY <1>2, FieldsModules
  <2> QED
    BY <1>2, <2>1, SeenOf
<1> QED
  BY <1>1, <1>3, <1>4, <1>5, Zenon DEF SeenModules, q

LEMMA JsonMoved ==
  ASSUME NEW c \in Config, NEW n, n = Fields(c), NEW p, NEW m \in n.ticks,
         p.jorder = First(n.jorder, m), p.ticks = n.ticks, p.extras = n.extras, p.csv = n.csv,
         p.jon = n.jon
  PROVE  FlagsOf(p, n) = c.on /\ SeenModules(p, n) = First(n.csv, m)
<1> DEFINE q == First(n.jorder, m)
<1>1. FlagsOf(p, n) = c.on
  <2>1. FlagsOf(p, n) = p.ticks \cup p.extras
    BY TicksDecide
  <2> QED
    BY <2>1, FieldsModules
<1>2. Only(q, c.on) = First(n.csv, m)
  <2>1. m \in ToSet(n.jorder) \cap c.on /\ n.jorder \in Seq(Modules)
    BY FieldsModules
  <2>2. Only(First(n.jorder, m), c.on) = First(Only(n.jorder, c.on), m)
    BY <2>1, FirstOfOnly
  <2> QED
    BY <2>2, FieldsModules
<1>3. q \in Seq(Modules) /\ ToSet(q) = Modules
  <2>1. m \in ToSet(n.jorder)
    BY FieldsModules
  <2> QED
    BY <2>1, FieldsModules, FirstIs
<1>4. CASE q = n.jorder
  <2>1. SameModules(p, n)
    BY <1>4 DEF SameModules
  <2>2. SeenModules(p, n) = Visible(c)
    BY <2>1, ModulesStay
  <2>3. Only(n.jorder, c.on) = First(n.csv, m)
    BY <1>2, <1>4
  <2> QED
    BY <1>1, <2>2, <2>3, FieldsModules
<1>5. CASE q # n.jorder
  <2>1. OrderOf(p, n) = Complete(q)
    BY <1>5 DEF OrderOf, ByControls, ModulesChanged
  <2> HIDE DEF q
  <2>2. Complete(q) = q
    BY <1>3, CompleteIs
  <2> QED
    BY <1>1, <1>2, <2>1, <2>2, Zenon DEF SeenModules
<1> QED
  BY <1>4, <1>5

LEMMA ExtraFlipped ==
  ASSUME NEW c \in Config, NEW n, n = Fields(c), NEW p, NEW x \in Extras,
         p.csv = n.csv, p.ticks = n.ticks, p.jorder = n.jorder,
         \/ p.extras = Flip(n.extras, x) /\ p.jon = n.jon
         \/ p.extras = n.extras /\ p.jon = Flip(n.jon, x)
  PROVE  FlagsOf(p, n) \cap Extras = Flip(n.extras, x) /\ SeenModules(p, n) = n.csv
<1>1. FlagsOf(p, n) \cap Extras = Flip(n.extras, x) /\ FlagsOf(p, n) \cap Modules = n.ticks
  <2>1. CASE p.extras = Flip(n.extras, x) /\ p.jon = n.jon
    <3>1. FlagsOf(p, n) = n.ticks \cup Flip(n.extras, x)
      BY <2>1, TicksDecide
    <3>2. Flip(n.extras, x) \in SUBSET Extras /\ n.ticks \in SUBSET Modules
      BY FieldsModules DEF Flip
    <3> QED
      BY <3>1, <3>2, FieldsModules
  <2>2. CASE p.extras = n.extras /\ p.jon = Flip(n.jon, x)
    <3>1. Flip(n.jon, x) # n.jon
      BY DEF Flip
    <3>2. ~ModulesChanged(p, n)
      BY <2>2 DEF ModulesChanged
    <3>3. FlagsOf(p, n) = Flip(c.on, x)
      BY <2>2, <3>1, <3>2, FieldsModules DEF FlagsOf, ByControls
    <3> QED
      BY <3>3, FieldsModules, TheModules DEF Flip
  <2> QED
    BY <2>1, <2>2
<1>2. OrderOf(p, n) = Complete(TickOrder(n.csv, n.ticks))
  BY TicksOrder
<1>3. TickOrder(n.csv, n.ticks) = n.csv
  <2>1. TickOrder(n.csv, ToSet(n.csv)) = n.csv
    BY FieldsModules, TickOrderKept
  <2> QED
    BY <2>1, FieldsModules
<1>4. Only(Complete(Complete(n.csv)), FlagsOf(p, n)) = n.csv
  BY <1>1, FieldsModules, SeenOf
<1> QED
  BY <1>1, <1>2, <1>3, <1>4, Zenon DEF SeenModules

-----------------------------------------------------------------------------
(***************************************************************************)
(* What the roles of a page come to, when one of its fields was edited.    *)
(***************************************************************************)
(* Conditions with a name, which the provers then keep as they are.        *)
NoReset(p) == p.reset = FALSE
NotFull(p) == p.full = FALSE

LEMMA RoleNames ==
  /\ Roles \ {"owner"} = {"manager", "operator", "analyst", "viewer"}
  /\ Ticked \subseteq Roles \ {"owner"} /\ "manager" \in Roles \ {"owner"} /\ "manager" \notin Ticked
  /\ \A r \in Roles : r = "owner" \/ r = "manager" \/ r \in Ticked
BY DEF Roles, Ticked

TickedRole(p, r) ==
  IF r = "owner" THEN Resolved(r, p.jroles[r])
  ELSE IF r = "manager" /\ p.full THEN {Star} ELSE p.roles[r]

(* Controls that are not refused have permissions for every role.          *)
LEMMA RolesByControls ==
  ASSUME NEW p \in Page, NEW n, p.jroles = n.jroles, NoReset(p), ~Refused(p, n)
  PROVE  \A r \in Roles : SeenRoles(p, n)[r] = TickedRole(p, r)
<1>1. ByControls(RolesChanged(p, n), p.jroles, n.jroles)
  BY DEF ByControls
<1>2. (p.full \/ p.roles["manager"] # {}) /\ \A r \in Ticked : p.roles[r] # {}
  BY <1>1 DEF Refused, NoReset
<1>3. \A r \in Roles : RolesOf(p, n)[r] = IF r = "owner" THEN Resolved(r, p.jroles[r])
                                          ELSE IF r = "manager" /\ p.full THEN {Star}
                                          ELSE Resolved(r, p.roles[r])
  BY <1>1 DEF RolesOf
<1> SUFFICES ASSUME NEW r \in Roles
             PROVE SeenRoles(p, n)[r] = TickedRole(p, r)
  OBVIOUS
<1>4. SeenRoles(p, n)[r] = Resolved(r, RolesOf(p, n)[r])
  BY DEF SeenRoles
<1>5. CASE r = "owner"
  <2>1. p.jroles[r] \in SUBSET (Perms \cup {Star})
    BY PageIs DEF Policy
  <2> QED
    BY <1>3, <1>4, <1>5, <2>1, ResolvedRole DEF TickedRole
<1>6. CASE r = "manager" /\ p.full
  BY <1>3, <1>4, <1>6 DEF Resolved, TickedRole
<1>7. CASE r # "owner" /\ ~(r = "manager" /\ p.full)
  <2>1. p.roles[r] \in SUBSET Perms /\ p.roles[r] # {}
    BY <1>2, <1>7, PageIs, RoleNames
  <2>2. Star \notin p.roles[r]
    BY <2>1, PermissionFacts
  <2>3. Resolved(r, p.roles[r]) = p.roles[r]
    BY <2>1, <2>2 DEF Resolved
  <2> QED
    BY <1>3, <1>4, <1>7, <2>3 DEF TickedRole
<1> QED
  BY <1>5, <1>6, <1>7

(* What the page shows of a role is the role, where it shows anything.     *)
LEMMA RolesShown ==
  ASSUME NEW c \in Config, NEW n, n = Fields(c)
  PROVE  /\ n.jroles = Policies(c)
         /\ \A r \in Ticked : n.roles[r] # {} => n.roles[r] = Policies(c)[r]
         /\ n.full => Policies(c)["manager"] = {Star}
         /\ ~n.full => n.roles["manager"] = Policies(c)["manager"]
         /\ \A r \in Roles : Resolved(r, n.jroles[r]) = n.jroles[r]
         /\ n.jroles \in Policy /\ n.roles \in [Roles \ {"owner"} -> SUBSET Perms]
<1>1. n.jroles = Policies(c) /\ n.full = (Star \in Policies(c)["manager"])
      /\ \A r \in Roles \ {"owner"} : n.roles[r] = Shown(r, Policies(c)[r])
  <2>1. n.jroles = Policies(c)
    BY FieldsAre
  <2>2. n.full = (Star \in Policies(c)["manager"])
    BY FieldsAre, Zenon
  <2>3. n.roles = [r \in Roles \ {"owner"} |-> Shown(r, Policies(c)[r])]
    BY FieldsAre, Zenon
  <2> QED
    BY <2>1, <2>2, <2>3
<1>2. \A r \in Roles : /\ Policies(c)[r] # {}
                       /\ Star \in Policies(c)[r] => Policies(c)[r] = {Star}
                       /\ Resolved(r, Policies(c)[r]) = Policies(c)[r]
  BY ConfigIs, PoliciesAre
<1>3. n \in Page
  BY FieldsType
<1>4. "manager" \in Roles
  BY DEF Roles
<1> QED
  BY <1>1, <1>2, <1>3, <1>4, PageIs, RoleNames DEF Shown

LEMMA RolesStay ==
  ASSUME NEW c \in Config, NEW n, n = Fields(c), NEW p \in Page, SameRoles(p, n),
         NoReset(p), ~Refused(p, n)
  PROVE  SeenRoles(p, n) = Policies(c)
<1>1. \A r \in Roles : SeenRoles(p, n)[r] = TickedRole(p, r)
  BY RolesByControls DEF SameRoles
<1>2. (p.full \/ p.roles["manager"] # {}) /\ \A r \in Ticked : p.roles[r] # {}
  BY DEF SameRoles, Refused, NoReset, ByControls
<1>3. \A r \in Roles : SeenRoles(p, n)[r] = Policies(c)[r]
  <2> SUFFICES ASSUME NEW r \in Roles PROVE TickedRole(p, r) = Policies(c)[r]
    BY <1>1
  <2>1. CASE r = "owner"
    BY <2>1, RolesShown DEF SameRoles, TickedRole
  <2>2. CASE r = "manager"
    <3>1. p.full = n.full /\ p.roles = n.roles /\ p.full \in BOOLEAN
      BY PageIs DEF SameRoles
    <3>2. CASE p.full
      <4>1. Policies(c)["manager"] = {Star}
        BY <3>1, <3>2, RolesShown
      <4> QED
        BY <2>2, <3>2, <4>1 DEF TickedRole
    <3>3. CASE ~p.full
      <4>1. n.roles["manager"] = Policies(c)["manager"]
        BY <3>1, <3>3, RolesShown
      <4> QED
        BY <2>2, <3>1, <3>3, <4>1 DEF TickedRole
    <3> QED
      BY <3>2, <3>3
  <2>3. CASE r \in Ticked
    BY <1>2, <2>3, RolesShown, RoleNames DEF SameRoles, TickedRole, Ticked
  <2> QED
    BY <2>1, <2>2, <2>3, RoleNames
<1>4. SeenRoles(p, n) = [r \in Roles |-> SeenRoles(p, n)[r]]
  BY DEF SeenRoles
<1>5. Policies(c) = [r \in Roles |-> Policies(c)[r]]
  BY DEF Policies
<1> QED
  BY <1>3, <1>4, <1>5

LEMMA ManagerTicked ==
  ASSUME NEW c \in Config, NEW n, n = Fields(c), NEW p \in Page, NEW g,
         NotFull(p), p.roles = [n.roles EXCEPT !["manager"] = Perms \ {g}],
         p.jroles = n.jroles, NoReset(p), ~Refused(p, n)
  PROVE  SeenRoles(p, n) = [n.jroles EXCEPT !["manager"] = Perms \ {g}]
<1>1. \A r \in Roles : SeenRoles(p, n)[r] = TickedRole(p, r)
  BY RolesByControls
<1>2. \A r \in Ticked : p.roles[r] # {}
  BY DEF Refused, NoReset, ByControls
<1>3. p.roles["manager"] = Perms \ {g} /\ \A r \in Ticked : p.roles[r] = n.roles[r]
  BY RolesShown, RoleNames
<1> DEFINE f == [n.jroles EXCEPT !["manager"] = Perms \ {g}]
<1>4. \A r \in Roles : f[r] = IF r = "manager" THEN Perms \ {g} ELSE n.jroles[r]
  BY RolesShown DEF Policy
<1>5. f = [r \in Roles |-> f[r]]
  BY RolesShown DEF Policy
<1> HIDE DEF f
<1>6. \A r \in Roles : SeenRoles(p, n)[r] = f[r]
  <2> SUFFICES ASSUME NEW r \in Roles PROVE TickedRole(p, r) = f[r]
    BY <1>1
  <2>1. CASE r = "owner"
    BY <1>4, <2>1, RolesShown DEF TickedRole
  <2>2. CASE r = "manager"
    BY <1>3, <1>4, <2>2 DEF TickedRole, NotFull
  <2>3. CASE r \in Ticked
    BY <1>2, <1>3, <1>4, <2>3, RolesShown, RoleNames DEF TickedRole, Ticked
  <2> QED
    BY <2>1, <2>2, <2>3, RoleNames
<1>7. SeenRoles(p, n) = [r \in Roles |-> SeenRoles(p, n)[r]]
  BY DEF SeenRoles
<1> QED
  BY <1>5, <1>6, <1>7 DEF f

ViewerFlipped(p, n, g) == p.roles = [n.roles EXCEPT !["viewer"] = Flip(@, g)]

LEMMA ViewerTicked ==
  ASSUME NEW c \in Config, NEW n, n = Fields(c), NEW p \in Page, NEW g,
         p.full = n.full, ViewerFlipped(p, n, g),
         p.jroles = n.jroles, NoReset(p), ~Refused(p, n)
  PROVE  SeenRoles(p, n)
           = [n.jroles EXCEPT !["viewer"] = Resolved("viewer", Flip(n.roles["viewer"], g))]
<1>1. \A r \in Roles : SeenRoles(p, n)[r] = TickedRole(p, r)
  BY RolesByControls
<1>2. (p.full \/ p.roles["manager"] # {}) /\ \A r \in Ticked : p.roles[r] # {}
  BY DEF Refused, NoReset, ByControls
<1> DEFINE v == Flip(n.roles["viewer"], g)
           f == [n.jroles EXCEPT !["viewer"] = Resolved("viewer", v)]
<1>3. "viewer" \in Ticked /\ "viewer" \in Roles \ {"owner"}
  BY DEF Ticked, Roles
<1>4. p.roles["viewer"] = v /\ \A r \in Roles \ {"owner", "viewer"} : p.roles[r] = n.roles[r]
  BY <1>3, RolesShown DEF ViewerFlipped
<1>5. Resolved("viewer", v) = v
  <2>1. v \in SUBSET Perms /\ v # {}
    BY <1>2, <1>3, <1>4, PageIs
  <2> HIDE DEF v
  <2>2. Star \notin v
    BY <2>1, PermissionFacts
  <2> QED
    BY <2>1, <2>2 DEF Resolved
<1> HIDE DEF v
<1>6. \A r \in Roles : f[r] = IF r = "viewer" THEN v ELSE n.jroles[r]
  BY <1>5, RolesShown DEF Policy
<1>7. f = [r \in Roles |-> f[r]]
  BY RolesShown DEF Policy
<1> HIDE DEF f
<1>8. \A r \in Roles : SeenRoles(p, n)[r] = f[r]
  <2>1. \A r \in Ticked \ {"viewer"} : n.roles[r] = Policies(c)[r]
    BY <1>2, <1>4, RolesShown, RoleNames
  <2>2. ~n.full => p.roles["manager"] = Policies(c)["manager"]
    BY <1>4, RolesShown, RoleNames
  <2> SUFFICES ASSUME NEW r \in Roles PROVE TickedRole(p, r) = f[r]
    BY <1>1
  <2>3. CASE r = "owner"
    BY <1>6, <2>3, RolesShown DEF TickedRole
  <2>4. CASE r = "manager"
    <3>1. f[r] = Policies(c)["manager"]
      BY <1>6, <2>4, RolesShown
    <3>2. CASE p.full
      <4>1. Policies(c)["manager"] = {Star}
        BY <3>2, RolesShown
      <4> QED
        BY <2>4, <3>1, <3>2, <4>1 DEF TickedRole
    <3>3. CASE ~p.full
      <4>1. ~n.full
        BY <3>3, PageIs
      <4> QED
        BY <2>2, <2>4, <3>1, <3>3, <4>1 DEF TickedRole
    <3> QED
      BY <3>2, <3>3
  <2>5. CASE r = "viewer"
    BY <1>4, <1>6, <2>5 DEF TickedRole
  <2>6. CASE r \in Ticked \ {"viewer"}
    <3>1. r \in Roles \ {"owner", "viewer"} /\ r # "manager"
      BY <2>6, RoleNames
    <3> QED
      BY <1>4, <1>6, <2>1, <2>6, <3>1, RolesShown DEF TickedRole
  <2> QED
    BY <2>3, <2>4, <2>5, <2>6, RoleNames
<1>9. SeenRoles(p, n) = [r \in Roles |-> SeenRoles(p, n)[r]]
  BY DEF SeenRoles
<1> QED
  BY <1>7, <1>8, <1>9 DEF f, v

LEMMA JsonRole ==
  ASSUME NEW c \in Config, NEW n, n = Fields(c), NEW p \in Page,
         NEW x \in Roles, NEW G \in SUBSET (Perms \cup {Star}),
         p.full = n.full, p.roles = n.roles, p.jroles = [n.jroles EXCEPT ![x] = G],
         NoReset(p), ~Refused(p, n)
  PROVE  SeenRoles(p, n) = [n.jroles EXCEPT ![x] = Resolved(x, G)]
<1> DEFINE f == [n.jroles EXCEPT ![x] = Resolved(x, G)]
<1>1. \A r \in Roles : f[r] = IF r = x THEN Resolved(x, G) ELSE n.jroles[r]
  BY RolesShown DEF Policy
<1>2. f = [r \in Roles |-> f[r]]
  BY RolesShown DEF Policy
<1>3. \A r \in Roles : p.jroles[r] = IF r = x THEN G ELSE n.jroles[r]
  BY RolesShown DEF Policy
<1> HIDE DEF f
<1>4. CASE p.jroles = n.jroles
  <2>1. SeenRoles(p, n) = Policies(c)
    BY <1>4, RolesStay DEF SameRoles
  <2>2. G = n.jroles[x]
    BY <1>3, <1>4
  <2>3. \A r \in Roles : f[r] = n.jroles[r]
    BY <1>1, <2>2, RolesShown
  <2>4. n.jroles = [r \in Roles |-> n.jroles[r]]
    BY RolesShown DEF Policy
  <2> QED
    BY <1>2, <2>1, <2>3, <2>4, RolesShown DEF f
<1>5. CASE p.jroles # n.jroles
  <2>1. ~RolesChanged(p, n)
    <3>1. SUFFICES ASSUME RolesChanged(p, n) PROVE FALSE
      OBVIOUS
    <3>2. \A r \in Ticked : p.roles[r] # {}
      BY <3>1 DEF Refused, NoReset, ByControls
    <3>3. \A r \in Ticked : p.roles[r] = n.jroles[r]
      BY <3>2, RolesShown
    <3> QED
      BY <3>1, <3>3 DEF RolesChanged
  <2>2. \A r \in Roles : RolesOf(p, n)[r] = Resolved(r, p.jroles[r])
    BY <1>5, <2>1 DEF RolesOf, ByControls
  <2>3. \A r \in Roles : SeenRoles(p, n)[r] = Resolved(r, p.jroles[r])
    <3>1. \A r \in Roles : p.jroles[r] \in SUBSET (Perms \cup {Star})
      BY PageIs DEF Policy
    <3> QED
      BY <2>2, <3>1, ResolvedRole DEF SeenRoles
  <2>4. \A r \in Roles : SeenRoles(p, n)[r] = f[r]
    BY <1>1, <1>3, <2>3, RolesShown
  <2>5. SeenRoles(p, n) = [r \in Roles |-> SeenRoles(p, n)[r]]
    BY DEF SeenRoles
  <2> QED
    BY <1>2, <2>4, <2>5 DEF f
<1> QED
  BY <1>4, <1>5

-----------------------------------------------------------------------------
(***************************************************************************)
(* The sections that nobody edited stay what they were.                    *)
(***************************************************************************)
Sections == {"profile", "modules", "extras", "widgets", "roles", "labels", "objects", "ops"}

(* The sections of a configuration, one by one.                            *)
LEMMA EffectIs ==
  ASSUME NEW c
  PROVE  /\ DOMAIN Effect(c) = Sections
         /\ Effect(c)["profile"] = c.profile /\ Effect(c)["modules"] = Visible(c)
         /\ Effect(c)["extras"] = c.on \cap Extras /\ Effect(c)["widgets"] = c.widgets
         /\ Effect(c)["roles"] = Policies(c) /\ Effect(c)["labels"] = c.labels
         /\ Effect(c)["objects"] = c.objects /\ Effect(c)["ops"] = c.ops
BY DEF Effect, Sections

LEMMA CleanedIs ==
  ASSUME NEW p, NEW n, p.reset = FALSE
  PROVE  LET to == Cleaned(p, n) IN
         /\ to.profile = p.profile /\ to.on = FlagsOf(p, n) /\ to.order = OrderOf(p, n)
         /\ to.widgets = WidgetsOf(p, n) /\ to.roles = RolesOf(p, n)
         /\ to.labels = LabelsOf(p, n) /\ to.objects = p.objects /\ to.ops = OpsOf(p, n)
BY DEF Cleaned

IsCleaned(to, p, n) == to = Cleaned(p, n)

LEMMA CleanedSeen ==
  ASSUME NEW p, NEW n, NoReset(p), NEW to, IsCleaned(to, p, n)
  PROVE  /\ Effect(to)["profile"] = p.profile /\ Effect(to)["modules"] = SeenModules(p, n)
         /\ Effect(to)["extras"] = FlagsOf(p, n) \cap Extras
         /\ Effect(to)["widgets"] = WidgetsOf(p, n)
         /\ Effect(to)["roles"] = SeenRoles(p, n) /\ Effect(to)["labels"] = LabelsOf(p, n)
         /\ Effect(to)["objects"] = p.objects /\ Effect(to)["ops"] = OpsOf(p, n)
<1>1. /\ to.profile = p.profile /\ to.on = FlagsOf(p, n) /\ to.order = OrderOf(p, n)
      /\ to.widgets = WidgetsOf(p, n) /\ to.roles = RolesOf(p, n)
      /\ to.labels = LabelsOf(p, n) /\ to.objects = p.objects /\ to.ops = OpsOf(p, n)
  BY CleanedIs DEF IsCleaned, NoReset
<1>2. Visible(to) = SeenModules(p, n)
  BY <1>1 DEF Visible, SeenModules
<1>3. Policies(to) = SeenRoles(p, n)
  BY <1>1 DEF Policies, SeenRoles
<1> QED
  BY <1>1, <1>2, <1>3, EffectIs

LEMMA FieldsRest ==
  ASSUME NEW c \in Config, NEW n, n = Fields(c)
  PROVE  /\ n.profile = c.profile /\ n.widgets = c.widgets /\ n.jwidgets = c.widgets
         /\ n.jlabels = c.labels /\ n.title = c.labels.title /\ n.singular = c.labels.singular
         /\ n.objects = c.objects /\ n.jops = c.ops /\ n.reset = FALSE
         /\ n.controls = [density |-> c.ops.density, validity |-> c.ops.validity]
BY FieldsAre DEF Controls

LEMMA LabelsStay ==
  ASSUME NEW c \in Config, NEW n, n = Fields(c), NEW p, SameLabels(p, n)
  PROVE  LabelsOf(p, n) = c.labels
<1>1. c.labels \in Labels
  BY ConfigIs
<1>2. p.jlabels = c.labels /\ n.jlabels = c.labels /\ p.title = c.labels.title
      /\ p.singular = c.labels.singular
  BY FieldsRest DEF SameLabels
<1> QED
  BY <1>1, <1>2 DEF LabelsOf, ByControls, Filled, Labels

LEMMA WidgetsStay ==
  ASSUME NEW c \in Config, NEW n, n = Fields(c), NEW p, SameWidgets(p, n)
  PROVE  WidgetsOf(p, n) = c.widgets
BY FieldsRest DEF SameWidgets, WidgetsOf, ByControls

LEMMA OpsStay ==
  ASSUME NEW c \in Config, NEW n, n = Fields(c), NEW p, SameOps(p, n)
  PROVE  OpsOf(p, n) = c.ops
BY FieldsRest DEF SameOps, OpsOf

(* The sections whose fields nobody touched come to what they were.        *)
LEMMA OthersStay ==
  ASSUME NEW c \in Config, NEW n, n = Fields(c), NEW p \in Page, NEW s, Others(p, n, s),
         ~Refused(p, n), NEW to, IsCleaned(to, p, n),
         NEW x \in Sections, x # s, s \in {"modules", "extras"} => x \notin {"modules", "extras"}
  PROVE  Effect(to)[x] = Effect(c)[x]
<1>0. NoReset(p)
  BY DEF Others, NoReset
<1>s. /\ Effect(to)["profile"] = p.profile /\ Effect(to)["modules"] = SeenModules(p, n)
      /\ Effect(to)["extras"] = FlagsOf(p, n) \cap Extras
      /\ Effect(to)["widgets"] = WidgetsOf(p, n)
      /\ Effect(to)["roles"] = SeenRoles(p, n) /\ Effect(to)["labels"] = LabelsOf(p, n)
      /\ Effect(to)["objects"] = p.objects /\ Effect(to)["ops"] = OpsOf(p, n)
  BY <1>0, CleanedSeen
<1>1. CASE x \in {"modules", "extras"}
  <2>1. SameModules(p, n)
    BY <1>1 DEF Others
  <2>2. FlagsOf(p, n) = c.on /\ SeenModules(p, n) = Visible(c)
    BY <2>1, ModulesStay
  <2> QED
    <3>1. CASE x = "modules"
      BY <1>s, <2>2, <3>1, EffectIs
    <3>2. CASE x = "extras"
      BY <1>s, <2>2, <3>2, EffectIs
    <3> QED
      BY <1>1, <3>1, <3>2
<1>2. CASE x = "widgets"
  <2>1. SameWidgets(p, n)
    BY <1>2 DEF Others
  <2> QED
    BY <1>s, <1>2, <2>1, WidgetsStay, EffectIs
<1>3. CASE x = "roles"
  <2>1. SameRoles(p, n)
    BY <1>3 DEF Others
  <2>2. SeenRoles(p, n) = Policies(c)
    BY <1>0, <2>1, RolesStay
  <2> QED
    BY <1>s, <1>3, <2>2, EffectIs
<1>4. CASE x = "labels"
  <2>1. SameLabels(p, n)
    BY <1>4 DEF Others
  <2> QED
    BY <1>s, <1>4, <2>1, LabelsStay, EffectIs
<1>5. CASE x = "ops"
  <2>1. SameOps(p, n)
    BY <1>5 DEF Others
  <2> QED
    BY <1>s, <1>5, <2>1, OpsStay, EffectIs
<1>6. CASE x = "profile"
  <2>1. p.profile = c.profile
    BY <1>6, FieldsRest DEF Others
  <2> QED
    BY <1>s, <1>6, <2>1, EffectIs
<1>7. CASE x = "objects"
  <2>1. p.objects = c.objects
    BY <1>7, FieldsRest DEF Others
  <2> QED
    BY <1>s, <1>7, <2>1, EffectIs
<1> QED
  BY <1>1, <1>2, <1>3, <1>4, <1>5, <1>6, <1>7 DEF Sections

(* What becomes of an edit of one section that is not refused.             *)
LandsAlone(c, d) ==
  LET to == Cleaned(d.page, Fields(c)) IN
    /\ d.section \in Sections
    /\ Effect(to)[d.section] = d.want
    /\ \A x \in Sections \ {d.section} : Effect(to)[x] = Effect(c)[x]

LEMMA Landing ==
  ASSUME NEW c \in Config, NEW n, n = Fields(c), NEW d, d.page \in Page, d.section \in Sections,
         Others(d.page, n, d.section), ~Refused(d.page, n),
         NEW to, IsCleaned(to, d.page, n), Effect(to)[d.section] = d.want,
         d.section = "modules" => Effect(to)["extras"] = Effect(c)["extras"],
         d.section = "extras" => Effect(to)["modules"] = Effect(c)["modules"]
  PROVE  LandsAlone(c, d)
<1> SUFFICES ASSUME NEW x \in Sections \ {d.section} PROVE Effect(to)[x] = Effect(c)[x]
  BY DEF LandsAlone, IsCleaned
<1>1. CASE d.section \in {"modules", "extras"} /\ x \in {"modules", "extras"}
  BY <1>1
<1>2. CASE ~(d.section \in {"modules", "extras"} /\ x \in {"modules", "extras"})
  BY <1>2, OthersStay
<1> QED
  BY <1>1, <1>2


-----------------------------------------------------------------------------
(***************************************************************************)
(* The edits, with the field that each of them changes.                    *)
(***************************************************************************)
LEMMA TouchedModules == Touched \subseteq Modules /\ Granted \subseteq Perms
BY WorkspaceAssumption

PutTicks(p, n, v) == p = [n EXCEPT !.ticks = v]

LEMMA WithTicks ==
  ASSUME NEW n \in Page, NoReset(n), NEW v, NEW p, PutTicks(p, n, v)
  PROVE  /\ p.ticks = v /\ p.extras = n.extras /\ p.csv = n.csv /\ p.jon = n.jon /\ p.jorder = n.jorder
         /\ Others(p, n, "modules")
BY DEF PutTicks, NoReset, NotFull, Page, Others, SameModules, SameWidgets, SameRoles, SameLabels, SameOps

PutFlags(p, n, v) == p = [n EXCEPT !.jon = v]

LEMMA WithFlags ==
  ASSUME NEW n \in Page, NoReset(n), NEW v, NEW p, PutFlags(p, n, v)
  PROVE  /\ p.jon = v /\ p.ticks = n.ticks /\ p.extras = n.extras /\ p.csv = n.csv /\ p.jorder = n.jorder
         /\ Others(p, n, "modules")
BY DEF PutFlags, NoReset, NotFull, Page, Others, SameModules, SameWidgets, SameRoles, SameLabels, SameOps

PutOrder(p, n, v) == p = [n EXCEPT !.csv = v]

LEMMA WithOrder ==
  ASSUME NEW n \in Page, NoReset(n), NEW v, NEW p, PutOrder(p, n, v)
  PROVE  /\ p.csv = v /\ p.ticks = n.ticks /\ p.extras = n.extras /\ p.jon = n.jon /\ p.jorder = n.jorder
         /\ Others(p, n, "modules")
BY DEF PutOrder, NoReset, NotFull, Page, Others, SameModules, SameWidgets, SameRoles, SameLabels, SameOps

PutJsonOrder(p, n, v) == p = [n EXCEPT !.jorder = v]

LEMMA WithJsonOrder ==
  ASSUME NEW n \in Page, NoReset(n), NEW v, NEW p, PutJsonOrder(p, n, v)
  PROVE  /\ p.jorder = v /\ p.ticks = n.ticks /\ p.extras = n.extras /\ p.csv = n.csv /\ p.jon = n.jon
         /\ Others(p, n, "modules")
BY DEF PutJsonOrder, NoReset, NotFull, Page, Others, SameModules, SameWidgets, SameRoles, SameLabels, SameOps

PutExtras(p, n, v) == p = [n EXCEPT !.extras = v]

LEMMA WithExtras ==
  ASSUME NEW n \in Page, NoReset(n), NEW v, NEW p, PutExtras(p, n, v)
  PROVE  /\ p.extras = v /\ p.ticks = n.ticks /\ p.csv = n.csv /\ p.jon = n.jon /\ p.jorder = n.jorder
         /\ Others(p, n, "extras")
BY DEF PutExtras, NoReset, NotFull, Page, Others, SameModules, SameWidgets, SameRoles, SameLabels, SameOps

LEMMA WithExtraFlags ==
  ASSUME NEW n \in Page, NoReset(n), NEW v, NEW p, PutFlags(p, n, v)
  PROVE  /\ p.jon = v /\ p.ticks = n.ticks /\ p.extras = n.extras /\ p.csv = n.csv /\ p.jorder = n.jorder
         /\ Others(p, n, "extras")
BY DEF PutFlags, NoReset, NotFull, Page, Others, SameModules, SameWidgets, SameRoles, SameLabels, SameOps

PutWidgets(p, n, v) == p = [n EXCEPT !.widgets = v]

LEMMA WithWidgets ==
  ASSUME NEW n \in Page, NoReset(n), NEW v, NEW p, PutWidgets(p, n, v)
  PROVE  /\ p.widgets = v /\ p.jwidgets = n.jwidgets
         /\ Others(p, n, "widgets")
BY DEF PutWidgets, NoReset, NotFull, Page, Others, SameModules, SameWidgets, SameRoles, SameLabels, SameOps

PutJsonWidgets(p, n, v) == p = [n EXCEPT !.jwidgets = v]

LEMMA WithJsonWidgets ==
  ASSUME NEW n \in Page, NoReset(n), NEW v, NEW p, PutJsonWidgets(p, n, v)
  PROVE  /\ p.jwidgets = v /\ p.widgets = n.widgets
         /\ Others(p, n, "widgets")
BY DEF PutJsonWidgets, NoReset, NotFull, Page, Others, SameModules, SameWidgets, SameRoles, SameLabels, SameOps

PutTitle(p, n, v) == p = [n EXCEPT !.title = v]

LEMMA WithTitle ==
  ASSUME NEW n \in Page, NoReset(n), NEW v, NEW p, PutTitle(p, n, v)
  PROVE  /\ p.title = v /\ p.singular = n.singular /\ p.jlabels = n.jlabels
         /\ Others(p, n, "labels")
BY DEF PutTitle, NoReset, NotFull, Page, Others, SameModules, SameWidgets, SameRoles, SameLabels, SameOps

PutJsonLabels(p, n, v) == p = [n EXCEPT !.jlabels = v]

LEMMA WithJsonLabels ==
  ASSUME NEW n \in Page, NoReset(n), NEW v, NEW p, PutJsonLabels(p, n, v)
  PROVE  /\ p.jlabels = v /\ p.title = n.title /\ p.singular = n.singular
         /\ Others(p, n, "labels")
BY DEF PutJsonLabels, NoReset, NotFull, Page, Others, SameModules, SameWidgets, SameRoles, SameLabels, SameOps

PutProfile(p, n, v) == p = [n EXCEPT !.profile = v]

LEMMA WithProfile ==
  ASSUME NEW n \in Page, NoReset(n), NEW v, NEW p, PutProfile(p, n, v)
  PROVE  /\ p.profile = v
         /\ Others(p, n, "profile")
BY DEF PutProfile, NoReset, NotFull, Page, Others, SameModules, SameWidgets, SameRoles, SameLabels, SameOps

PutObjects(p, n, v) == p = [n EXCEPT !.objects = v]

LEMMA WithObjects ==
  ASSUME NEW n \in Page, NoReset(n), NEW v, NEW p, PutObjects(p, n, v)
  PROVE  /\ p.objects = v
         /\ Others(p, n, "objects")
BY DEF PutObjects, NoReset, NotFull, Page, Others, SameModules, SameWidgets, SameRoles, SameLabels, SameOps

PutControls(p, n, v) == p = [n EXCEPT !.controls = v]

LEMMA WithControls ==
  ASSUME NEW n \in Page, NoReset(n), NEW v, NEW p, PutControls(p, n, v)
  PROVE  /\ p.controls = v /\ p.jops = n.jops
         /\ Others(p, n, "ops")
BY DEF PutControls, NoReset, NotFull, Page, Others, SameModules, SameWidgets, SameRoles, SameLabels, SameOps

PutJsonOps(p, n, v) == p = [n EXCEPT !.jops = v]

LEMMA WithJsonOps ==
  ASSUME NEW n \in Page, NoReset(n), NEW v, NEW p, PutJsonOps(p, n, v)
  PROVE  /\ p.jops = v /\ p.controls = n.controls
         /\ Others(p, n, "ops")
BY DEF PutJsonOps, NoReset, NotFull, Page, Others, SameModules, SameWidgets, SameRoles, SameLabels, SameOps

PutManager(p, n, v) == p = [n EXCEPT !.full = FALSE, !.roles = v]

LEMMA WithManager ==
  ASSUME NEW n \in Page, NoReset(n), NEW v, NEW p, PutManager(p, n, v)
  PROVE  /\ NotFull(p) /\ p.roles = v /\ p.jroles = n.jroles
         /\ Others(p, n, "roles")
BY DEF PutManager, NoReset, NotFull, Page, Others, SameModules, SameWidgets, SameRoles, SameLabels, SameOps

PutRoles(p, n, v) == p = [n EXCEPT !.roles = v]

LEMMA WithRoles ==
  ASSUME NEW n \in Page, NoReset(n), NEW v, NEW p, PutRoles(p, n, v)
  PROVE  /\ p.full = n.full /\ p.roles = v /\ p.jroles = n.jroles
         /\ Others(p, n, "roles")
BY DEF PutRoles, NoReset, NotFull, Page, Others, SameModules, SameWidgets, SameRoles, SameLabels, SameOps

PutJsonRoles(p, n, v) == p = [n EXCEPT !.jroles = v]

LEMMA WithJsonRoles ==
  ASSUME NEW n \in Page, NoReset(n), NEW v, NEW p, PutJsonRoles(p, n, v)
  PROVE  /\ p.full = n.full /\ p.roles = n.roles /\ p.jroles = v
         /\ Others(p, n, "roles")
BY DEF PutJsonRoles, NoReset, NotFull, Page, Others, SameModules, SameWidgets, SameRoles, SameLabels, SameOps

LEMMA TicksPage ==
  ASSUME NEW n \in Page, NEW v \in SUBSET Modules, NEW p, PutTicks(p, n, v)
  PROVE  p \in Page
BY DEF PutTicks, Page

LEMMA FlagsPage ==
  ASSUME NEW n \in Page, NEW v \in SUBSET (Modules \cup Extras), NEW p, PutFlags(p, n, v)
  PROVE  p \in Page
BY DEF PutFlags, Page

LEMMA OrderPage ==
  ASSUME NEW n \in Page, NEW v \in Seq(Modules), NEW p, PutOrder(p, n, v)
  PROVE  p \in Page
BY DEF PutOrder, Page

LEMMA JsonOrderPage ==
  ASSUME NEW n \in Page, NEW v \in Seq(Modules), NEW p, PutJsonOrder(p, n, v)
  PROVE  p \in Page
BY DEF PutJsonOrder, Page

LEMMA ExtrasPage ==
  ASSUME NEW n \in Page, NEW v \in SUBSET Extras, NEW p, PutExtras(p, n, v)
  PROVE  p \in Page
BY DEF PutExtras, Page

LEMMA WidgetsPage ==
  ASSUME NEW n \in Page, NEW v \in SUBSET Widgets, NEW p, PutWidgets(p, n, v)
  PROVE  p \in Page
BY DEF PutWidgets, Page

LEMMA JsonWidgetsPage ==
  ASSUME NEW n \in Page, NEW v \in SUBSET Widgets, NEW p, PutJsonWidgets(p, n, v)
  PROVE  p \in Page
BY DEF PutJsonWidgets, Page

LEMMA ManagerPage ==
  ASSUME NEW n \in Page, NEW v \in [Roles \ {"owner"} -> SUBSET Perms], NEW p, PutManager(p, n, v)
  PROVE  p \in Page
BY DEF PutManager, Page

LEMMA RolesPage ==
  ASSUME NEW n \in Page, NEW v \in [Roles \ {"owner"} -> SUBSET Perms], NEW p, PutRoles(p, n, v)
  PROVE  p \in Page
BY DEF PutRoles, Page

LEMMA JsonRolesPage ==
  ASSUME NEW n \in Page, NEW v \in Policy, NEW p, PutJsonRoles(p, n, v)
  PROVE  p \in Page
BY DEF PutJsonRoles, Page

LEMMA TitlePage ==
  ASSUME NEW n \in Page, NEW v \in Texts, NEW p, PutTitle(p, n, v)
  PROVE  p \in Page
BY DEF PutTitle, Page

LEMMA JsonLabelsPage ==
  ASSUME NEW n \in Page, NEW v \in Labels, NEW p, PutJsonLabels(p, n, v)
  PROVE  p \in Page
BY DEF PutJsonLabels, Page

LEMMA ProfilePage ==
  ASSUME NEW n \in Page, NEW v \in Profiles, NEW p, PutProfile(p, n, v)
  PROVE  p \in Page
BY DEF PutProfile, Page

LEMMA ObjectsPage ==
  ASSUME NEW n \in Page, NEW v \in BOOLEAN, NEW p, PutObjects(p, n, v)
  PROVE  p \in Page
BY DEF PutObjects, Page

PutReset(p, n, v) == p = [n EXCEPT !.reset = v]

LEMMA ResetPage ==
  ASSUME NEW n \in Page, NEW v \in BOOLEAN, NEW p, PutReset(p, n, v)
  PROVE  p \in Page
BY DEF PutReset, Page

LEMMA ControlsPage ==
  ASSUME NEW n \in Page, NEW v \in [density : Density, validity : 1..2], NEW p, PutControls(p, n, v)
  PROVE  p \in Page
BY DEF PutControls, Page

LEMMA JsonOpsPage ==
  ASSUME NEW n \in Page, NEW v \in Ops, NEW p, PutJsonOps(p, n, v)
  PROVE  p \in Page
BY DEF PutJsonOps, Page

EditIsOf(d, s, p, w) == d.section = s /\ d.page = p /\ d.want = w

LEMMA EditOf ==
  ASSUME NEW d, NEW s, NEW p, NEW w, d = Edit(s, p, w)
  PROVE  EditIsOf(d, s, p, w)
BY DEF EditIsOf, Edit

FlippedTick(d, n, m) == EditIsOf(d, "modules", [n EXCEPT !.ticks = Flip(n.ticks, m)], Switched(n.csv, m))
FlippedFlag(d, n, m) == EditIsOf(d, "modules", [n EXCEPT !.jon = Flip(n.jon, m)], Switched(n.csv, m))
MovedOrder(d, n, m) == EditIsOf(d, "modules", [n EXCEPT !.csv = First(n.csv, m)], First(n.csv, m))
MovedJson(d, n, m) == EditIsOf(d, "modules", [n EXCEPT !.jorder = First(n.jorder, m)], First(n.csv, m))
FlippedExtra(d, n) ==
  EditIsOf(d, "extras", [n EXCEPT !.extras = Flip(n.extras, "kanban")], Flip(n.extras, "kanban"))
FlippedExtraFlag(d, n) ==
  EditIsOf(d, "extras", [n EXCEPT !.jon = Flip(n.jon, "kanban")], Flip(n.extras, "kanban"))

(* Each kind of edit, with the page it makes and what it means.            *)
LEMMA ModuleEditsAre ==
  ASSUME NEW n \in Page, NEW d \in ModuleEdits(n)
  PROVE  \/ \E m \in Touched : FlippedTick(d, n, m) \/ FlippedFlag(d, n, m)
         \/ \E m \in Touched \cap n.ticks : MovedOrder(d, n, m) \/ MovedJson(d, n, m)
         \/ FlippedExtra(d, n) \/ FlippedExtraFlag(d, n)
<1>1. CASE \E m \in Touched : d = Edit("modules", [n EXCEPT !.ticks = Flip(@, m)], Switched(n.csv, m))
  BY <1>1 DEF Edit, FlippedTick, EditIsOf
<1>2. CASE \E m \in Touched : d = Edit("modules", [n EXCEPT !.jon = Flip(@, m)], Switched(n.csv, m))
  BY <1>2 DEF Edit, FlippedFlag, EditIsOf
<1>3. CASE \E m \in Touched \cap n.ticks : d = Edit("modules", [n EXCEPT !.csv = First(@, m)], First(n.csv, m))
  BY <1>3 DEF Edit, MovedOrder, EditIsOf
<1>4. CASE \E m \in Touched \cap n.ticks : d = Edit("modules", [n EXCEPT !.jorder = First(@, m)], First(n.csv, m))
  BY <1>4 DEF Edit, MovedJson, EditIsOf
<1>5. CASE d = Edit("extras", [n EXCEPT !.extras = Flip(@, "kanban")], Flip(n.extras, "kanban"))
  BY <1>5 DEF Edit, FlippedExtra, EditIsOf
<1>6. CASE d = Edit("extras", [n EXCEPT !.jon = Flip(@, "kanban")], Flip(n.extras, "kanban"))
  BY <1>6 DEF Edit, FlippedExtraFlag, EditIsOf
<1> QED
  BY <1>1, <1>2, <1>3, <1>4, <1>5, <1>6, Zenon DEF ModuleEdits

ChosenWidgets(d, n, W) == EditIsOf(d, "widgets", [n EXCEPT !.widgets = W], W)
ChosenJsonWidgets(d, n, W) == EditIsOf(d, "widgets", [n EXCEPT !.jwidgets = W], W)

LEMMA WidgetEditsAre ==
  ASSUME NEW n \in Page, NEW d \in WidgetEdits(n)
  PROVE  \E W \in SUBSET Widgets : ChosenWidgets(d, n, W) \/ ChosenJsonWidgets(d, n, W)
<1>1. CASE \E W \in {{}, {"summary_cards"}} : d = Edit("widgets", [n EXCEPT !.widgets = W], W)
  <2>1. PICK W \in {{}, {"summary_cards"}} : d = Edit("widgets", [n EXCEPT !.widgets = W], W)
    BY <1>1
  <2>2. ChosenWidgets(d, n, W)
    BY <2>1 DEF Edit, ChosenWidgets, EditIsOf
  <2>3. W \in SUBSET Widgets
    BY DEF Widgets
  <2> QED
    BY <2>2, <2>3
<1>2. CASE d = Edit("widgets", [n EXCEPT !.jwidgets = {"quick_actions"}], {"quick_actions"})
  <2>1. ChosenJsonWidgets(d, n, {"quick_actions"})
    BY <1>2 DEF Edit, ChosenJsonWidgets, EditIsOf
  <2>2. {"quick_actions"} \in SUBSET Widgets
    BY DEF Widgets
  <2> QED
    BY <2>1, <2>2
<1> QED
  BY <1>1, <1>2, Zenon DEF WidgetEdits

LessManager(d, n, g) ==
  EditIsOf(d, "roles", [n EXCEPT !.full = FALSE, !.roles = [n.roles EXCEPT !["manager"] = Perms \ {g}]],
           [n.jroles EXCEPT !["manager"] = Perms \ {g}])
OtherViewer(d, n, g) ==
  EditIsOf(d, "roles", [n EXCEPT !.roles = [n.roles EXCEPT !["viewer"] = Flip(@, g)]],
           [n.jroles EXCEPT !["viewer"] = Resolved("viewer", Flip(n.roles["viewer"], g))])
OtherJson(d, n, r, G) ==
  EditIsOf(d, "roles", [n EXCEPT !.jroles = [n.jroles EXCEPT ![r] = G]],
           [n.jroles EXCEPT ![r] = Resolved(r, G)])

LessManagers(p) ==
  {Edit("roles", [p EXCEPT !.full = FALSE, !.roles["manager"] = Perms \ {g}],
        [p.jroles EXCEPT !["manager"] = Perms \ {g}]) : g \in Granted}
OtherViewers(p) ==
  {Edit("roles", [p EXCEPT !.roles["viewer"] = Flip(@, g)],
        [p.jroles EXCEPT !["viewer"] = Resolved("viewer", Flip(p.roles["viewer"], g))]) :
     g \in Granted}

JsonRoles(p) ==
  {Edit("roles", [p EXCEPT !.jroles[r] = G], [p.jroles EXCEPT ![r] = Resolved(r, G)]) :
     r \in {"manager", "viewer"}, G \in {{}, {Star}, Granted}}

LEMMA RoleEditsSplit ==
  ASSUME NEW n
  PROVE  RoleEdits(n) = LessManagers(n) \cup OtherViewers(n)
 \cup JsonRoles(n)
BY Z3 DEF RoleEdits, LessManagers, OtherViewers, JsonRoles

LEMMA RoleEditsAre ==
  ASSUME NEW n \in Page, NEW d \in RoleEdits(n)
  PROVE  \/ \E g \in Granted : LessManager(d, n, g) \/ OtherViewer(d, n, g)
         \/ \E r \in Roles \ {"owner"}, G \in SUBSET (Perms \cup {Star}) : OtherJson(d, n, r, G)
<1>1. CASE \E g \in Granted :
             d = Edit("roles", [n EXCEPT !.full = FALSE, !.roles["manager"] = Perms \ {g}],
                      [n.jroles EXCEPT !["manager"] = Perms \ {g}])
  <2>1. PICK g \in Granted :
             d = Edit("roles", [n EXCEPT !.full = FALSE, !.roles["manager"] = Perms \ {g}],
                      [n.jroles EXCEPT !["manager"] = Perms \ {g}])
    BY <1>1
  <2>2. [n EXCEPT !.full = FALSE, !.roles["manager"] = Perms \ {g}]
          = [n EXCEPT !.full = FALSE, !.roles = [n.roles EXCEPT !["manager"] = Perms \ {g}]]
    BY DEF Page
  <2>3. LessManager(d, n, g)
    BY <2>1, <2>2, EditOf, Zenon DEF LessManager
  <2> QED
    BY <2>3
<1>2. CASE \E g \in Granted : d = Edit("roles", [n EXCEPT !.roles["viewer"] = Flip(@, g)],
             [n.jroles EXCEPT !["viewer"] = Resolved("viewer", Flip(n.roles["viewer"], g))])
  <2>1. PICK g \in Granted : d = Edit("roles", [n EXCEPT !.roles["viewer"] = Flip(@, g)],
             [n.jroles EXCEPT !["viewer"] = Resolved("viewer", Flip(n.roles["viewer"], g))])
    BY <1>2
  <2>2. [n EXCEPT !.roles["viewer"] = Flip(@, g)]
          = [n EXCEPT !.roles = [n.roles EXCEPT !["viewer"] = Flip(@, g)]]
    BY DEF Page
  <2>3. OtherViewer(d, n, g)
    BY <2>1, <2>2, EditOf, Zenon DEF OtherViewer
  <2> QED
    BY <2>3
<1>3. CASE \E r \in {"manager", "viewer"}, G \in {{}, {Star}, Granted} :
             d = Edit("roles", [n EXCEPT !.jroles[r] = G], [n.jroles EXCEPT ![r] = Resolved(r, G)])
  <2>1. PICK r \in {"manager", "viewer"}, G \in {{}, {Star}, Granted} :
             d = Edit("roles", [n EXCEPT !.jroles[r] = G], [n.jroles EXCEPT ![r] = Resolved(r, G)])
    BY <1>3
  <2>2. [n EXCEPT !.jroles[r] = G] = [n EXCEPT !.jroles = [n.jroles EXCEPT ![r] = G]]
    BY DEF Page
  <2>3. OtherJson(d, n, r, G)
    BY <2>1, <2>2, EditOf, Zenon DEF OtherJson
  <2>4. r \in Roles \ {"owner"} /\ G \in SUBSET (Perms \cup {Star})
    BY RoleNames, TouchedModules
  <2> QED
    BY <2>3, <2>4
<1> QED
  <2> DEFINE A == LessManagers(n)
             B == OtherViewers(n)
             C == JsonRoles(n)
  <2>1. RoleEdits(n) = A \cup B \cup C
    BY RoleEditsSplit
  <2>2. CASE d \in A
    <3>1. \E g \in Granted :
             d = Edit("roles", [n EXCEPT !.full = FALSE, !.roles["manager"] = Perms \ {g}],
                      [n.jroles EXCEPT !["manager"] = Perms \ {g}])
      BY <2>2, Zenon DEF LessManagers
    <3> QED
      BY <1>1, <3>1, Zenon
  <2>3. CASE d \in B
    BY <1>2, <2>3, Zenon DEF OtherViewers
  <2>4. CASE d \in C
    <3>1. \E r \in {"manager", "viewer"}, G \in {{}, {Star}, Granted} :
             d = Edit("roles", [n EXCEPT !.jroles[r] = G], [n.jroles EXCEPT ![r] = Resolved(r, G)])
      BY <2>4 DEF JsonRoles
    <3> QED
      BY <1>3, <3>1, Zenon
  <2> HIDE DEF A, B, C
  <2> QED
    BY <2>1, <2>2, <2>3, <2>4

OtherTitle(d, n, t) ==
  EditIsOf(d, "labels", [n EXCEPT !.title = t], [n.jlabels EXCEPT !.title = Filled(t, @)])
OtherLabels(d, n, l) == EditIsOf(d, "labels", [n EXCEPT !.jlabels = l], l)
OtherProfile(d, n) == EditIsOf(d, "profile", [n EXCEPT !.profile = "broker"], "broker")
OtherObjects(d, n) == EditIsOf(d, "objects", [n EXCEPT !.objects = ~n.objects], ~n.objects)

LEMMA TextEditsAre ==
  ASSUME NEW n \in Page, NEW d \in TextEdits(n)
  PROVE  \/ \E t \in Texts : OtherTitle(d, n, t)
         \/ \E l \in Labels : OtherLabels(d, n, l) /\ l.singular = n.jlabels.singular
         \/ OtherProfile(d, n) \/ OtherObjects(d, n)
<1>1. CASE \E t \in Texts : d = Edit("labels", [n EXCEPT !.title = t], [n.jlabels EXCEPT !.title = Filled(t, @)])
  <2>1. PICK t \in Texts : d = Edit("labels", [n EXCEPT !.title = t], [n.jlabels EXCEPT !.title = Filled(t, @)])
    BY <1>1
  <2>2. OtherTitle(d, n, t)
    BY <2>1, EditOf, Zenon DEF OtherTitle
  <2> QED
    BY <2>2
<1>2. CASE \E k \in {"title", "subtitle"} :
             d = Edit("labels", [n EXCEPT !.jlabels[k] = "new"], [n.jlabels EXCEPT ![k] = "new"])
  <2>1. PICK k \in {"title", "subtitle"} :
             d = Edit("labels", [n EXCEPT !.jlabels[k] = "new"], [n.jlabels EXCEPT ![k] = "new"])
    BY <1>2
  <2>2. [n EXCEPT !.jlabels[k] = "new"] = [n EXCEPT !.jlabels = [n.jlabels EXCEPT ![k] = "new"]]
    BY DEF Page
  <2> DEFINE l == [n.jlabels EXCEPT ![k] = "new"]
  <2>3. l \in Labels /\ l.singular = n.jlabels.singular
    <3>1. CASE k = "title"
      BY <3>1, PageIs DEF Labels, Texts
    <3>2. CASE k = "subtitle"
      BY <3>2, PageIs DEF Labels, Texts
    <3> QED
      BY <3>1, <3>2
  <2>4. OtherLabels(d, n, l)
    BY <2>1, <2>2, EditOf, Zenon DEF OtherLabels
  <2> QED
    BY <2>3, <2>4
<1>3. CASE d = Edit("profile", [n EXCEPT !.profile = "broker"], "broker")
  BY <1>3, EditOf DEF OtherProfile
<1>4. CASE d = Edit("objects", [n EXCEPT !.objects = ~@], ~n.objects)
  <2> DEFINE v == ~n.objects
  <2>1. [n EXCEPT !.objects = ~@] = [n EXCEPT !.objects = v]
    OBVIOUS
  <2>2. d = Edit("objects", [n EXCEPT !.objects = v], v)
    BY <1>4, <2>1, Zenon
  <2> QED
    BY <2>2, EditOf, Zenon DEF OtherObjects
<1> QED
  BY <1>1, <1>2, <1>3, <1>4, Zenon DEF TextEdits

OtherControls(d, n, v, o) == EditIsOf(d, "ops", [n EXCEPT !.controls = v], o)
OtherOps(d, n, o) == EditIsOf(d, "ops", [n EXCEPT !.jops = o], o)

LEMMA OperationalEditsAre ==
  ASSUME NEW n \in Page, NEW d \in OperationalEdits(n)
  PROVE  \/ OtherControls(d, n, [n.controls EXCEPT !.validity = 2], [n.jops EXCEPT !.validity = 2])
         \/ OtherControls(d, n, [n.controls EXCEPT !.density = "compact"],
                          [n.jops EXCEPT !.density = "compact"])
         \/ \E o \in Ops : OtherOps(d, n, o)
<1>1. CASE d = Edit("ops", [n EXCEPT !.controls.validity = 2], [n.jops EXCEPT !.validity = 2])
  <2>1. [n EXCEPT !.controls.validity = 2] = [n EXCEPT !.controls = [n.controls EXCEPT !.validity = 2]]
    BY DEF Page
  <2> QED
    BY <1>1, <2>1, EditOf, Zenon DEF OtherControls
<1>2. CASE d = Edit("ops", [n EXCEPT !.controls.density = "compact"], [n.jops EXCEPT !.density = "compact"])
  <2>1. [n EXCEPT !.controls.density = "compact"]
          = [n EXCEPT !.controls = [n.controls EXCEPT !.density = "compact"]]
    BY DEF Page
  <2> QED
    BY <1>2, <2>1, EditOf, Zenon DEF OtherControls
<1>3. CASE d = Edit("ops", [n EXCEPT !.jops.validity = 2], [n.jops EXCEPT !.validity = 2])
  <2>1. [n EXCEPT !.jops.validity = 2] = [n EXCEPT !.jops = [n.jops EXCEPT !.validity = 2]]
    BY DEF Page
  <2>2. [n.jops EXCEPT !.validity = 2] \in Ops
    BY PageIs DEF Ops
  <2>3. OtherOps(d, n, [n.jops EXCEPT !.validity = 2])
    BY <1>3, <2>1, EditOf, Zenon DEF OtherOps
  <2> QED
    BY <2>2, <2>3
<1>4. CASE d = Edit("ops", [n EXCEPT !.jops.hero = "open_deals"], [n.jops EXCEPT !.hero = "open_deals"])
  <2>1. [n EXCEPT !.jops.hero = "open_deals"] = [n EXCEPT !.jops = [n.jops EXCEPT !.hero = "open_deals"]]
    BY DEF Page
  <2>2. [n.jops EXCEPT !.hero = "open_deals"] \in Ops
    BY PageIs DEF Ops
  <2>3. OtherOps(d, n, [n.jops EXCEPT !.hero = "open_deals"])
    BY <1>4, <2>1, EditOf, Zenon DEF OtherOps
  <2> QED
    BY <2>2, <2>3
<1> QED
  BY <1>1, <1>2, <1>3, <1>4, Zenon DEF OperationalEdits

LEMMA ResetIs ==
  ASSUME NEW n \in Page
  PROVE  EditIsOf(Reset(n), "all", [n EXCEPT !.reset = TRUE], Effect(Defaults[n.profile]))
BY EditOf DEF Reset

-----------------------------------------------------------------------------
(***************************************************************************)
(* A page that was edited is a page, and its edit lands: the modules.      *)
(***************************************************************************)
LEMMA ModuleEditsType ==
  ASSUME NEW n \in Page, NEW d \in ModuleEdits(n)
  PROVE  d.page \in Page
<1>1. ASSUME NEW m \in Touched, FlippedTick(d, n, m) PROVE d.page \in Page
  <2>1. Flip(n.ticks, m) \in SUBSET Modules
    BY PageIs, TouchedModules DEF Flip
  <2>8. PutTicks(d.page, n, Flip(n.ticks, m))
    BY <1>1 DEF FlippedTick, EditIsOf, PutTicks
  <2> QED
    BY <2>1, <2>8, TicksPage
<1>2. ASSUME NEW m \in Touched, FlippedFlag(d, n, m) PROVE d.page \in Page
  <2>1. Flip(n.jon, m) \in SUBSET (Modules \cup Extras)
    BY PageIs, TouchedModules DEF Flip
  <2>8. PutFlags(d.page, n, Flip(n.jon, m))
    BY <1>2 DEF FlippedFlag, EditIsOf, PutFlags
  <2> QED
    BY <2>1, <2>8, FlagsPage
<1>3. ASSUME NEW m \in Touched, MovedOrder(d, n, m) PROVE d.page \in Page
  <2>1. First(n.csv, m) \in Seq(Modules)
    BY PageIs, TouchedModules, FirstType
  <2>8. PutOrder(d.page, n, First(n.csv, m))
    BY <1>3 DEF MovedOrder, EditIsOf, PutOrder
  <2> QED
    BY <2>1, <2>8, OrderPage
<1>4. ASSUME NEW m \in Touched, MovedJson(d, n, m) PROVE d.page \in Page
  <2>1. First(n.jorder, m) \in Seq(Modules)
    BY PageIs, TouchedModules, FirstType
  <2>8. PutJsonOrder(d.page, n, First(n.jorder, m))
    BY <1>4 DEF MovedJson, EditIsOf, PutJsonOrder
  <2> QED
    BY <2>1, <2>8, JsonOrderPage
<1>5. ASSUME FlippedExtra(d, n) PROVE d.page \in Page
  <2>1. Flip(n.extras, "kanban") \in SUBSET Extras
    BY PageIs DEF Flip, Extras
  <2>8. PutExtras(d.page, n, Flip(n.extras, "kanban"))
    BY <1>5 DEF FlippedExtra, EditIsOf, PutExtras
  <2> QED
    BY <2>1, <2>8, ExtrasPage
<1>6. ASSUME FlippedExtraFlag(d, n) PROVE d.page \in Page
  <2>1. Flip(n.jon, "kanban") \in SUBSET (Modules \cup Extras)
    BY PageIs DEF Flip, Extras
  <2>8. PutFlags(d.page, n, Flip(n.jon, "kanban"))
    BY <1>6 DEF FlippedExtraFlag, EditIsOf, PutFlags
  <2> QED
    BY <2>1, <2>8, FlagsPage
<1> QED
  BY <1>1, <1>2, <1>3, <1>4, <1>5, <1>6, ModuleEditsAre

LEMMA WidgetEditsType ==
  ASSUME NEW n \in Page, NEW d \in WidgetEdits(n)
  PROVE  d.page \in Page
<1>1. PICK W \in SUBSET Widgets : ChosenWidgets(d, n, W) \/ ChosenJsonWidgets(d, n, W)
  BY WidgetEditsAre
<1> QED
  BY <1>1, WidgetsPage, JsonWidgetsPage
     DEF ChosenWidgets, ChosenJsonWidgets, EditIsOf, PutWidgets, PutJsonWidgets

LEMMA RoleEditsType ==
  ASSUME NEW n \in Page, NEW d \in RoleEdits(n)
  PROVE  d.page \in Page
<1>1. ASSUME NEW g \in Granted, LessManager(d, n, g) PROVE d.page \in Page
  <2>1. [n.roles EXCEPT !["manager"] = Perms \ {g}] \in [Roles \ {"owner"} -> SUBSET Perms]
    BY PageIs
  <2>8. PutManager(d.page, n, [n.roles EXCEPT !["manager"] = Perms \ {g}])
    BY <1>1 DEF LessManager, EditIsOf, PutManager
  <2> QED
    BY <2>1, <2>8, ManagerPage
<1>2. ASSUME NEW g \in Granted, OtherViewer(d, n, g) PROVE d.page \in Page
  <2>1. Flip(n.roles["viewer"], g) \in SUBSET Perms
    BY PageIs, TouchedModules, RoleNames DEF Flip
  <2>2. [n.roles EXCEPT !["viewer"] = Flip(@, g)] \in [Roles \ {"owner"} -> SUBSET Perms]
    BY <2>1, PageIs
  <2>8. PutRoles(d.page, n, [n.roles EXCEPT !["viewer"] = Flip(@, g)])
    BY <1>2 DEF OtherViewer, EditIsOf, PutRoles
  <2> QED
    BY <2>2, <2>8, RolesPage
<1>3. ASSUME NEW r \in Roles \ {"owner"}, NEW G \in SUBSET (Perms \cup {Star}), OtherJson(d, n, r, G)
      PROVE  d.page \in Page
  <2>1. [n.jroles EXCEPT ![r] = G] \in Policy
    BY PageIs DEF Policy
  <2>8. PutJsonRoles(d.page, n, [n.jroles EXCEPT ![r] = G])
    BY <1>3 DEF OtherJson, EditIsOf, PutJsonRoles
  <2> QED
    BY <2>1, <2>8, JsonRolesPage
<1> QED
  BY <1>1, <1>2, <1>3, RoleEditsAre

LEMMA TextEditsType ==
  ASSUME NEW n \in Page, NEW d \in TextEdits(n)
  PROVE  d.page \in Page
<1>1. ASSUME NEW t \in Texts, OtherTitle(d, n, t) PROVE d.page \in Page
  BY <1>1, TitlePage DEF OtherTitle, EditIsOf, PutTitle
<1>2. ASSUME NEW l \in Labels, OtherLabels(d, n, l) PROVE d.page \in Page
  BY <1>2, JsonLabelsPage DEF OtherLabels, EditIsOf, PutJsonLabels
<1>3. ASSUME OtherProfile(d, n) PROVE d.page \in Page
  <2>1. "broker" \in Profiles
    BY DEF Profiles
  <2> QED
    BY <1>3, <2>1, ProfilePage DEF OtherProfile, EditIsOf, PutProfile
<1>4. ASSUME OtherObjects(d, n) PROVE d.page \in Page
  <2> DEFINE v == ~n.objects
  <2>1. v \in BOOLEAN /\ PutObjects(d.page, n, v)
    BY <1>4 DEF OtherObjects, EditIsOf, PutObjects
  <2> HIDE DEF v
  <2> QED
    BY <2>1, ObjectsPage
<1> QED
  BY <1>1, <1>2, <1>3, <1>4, TextEditsAre

LEMMA OperationalEditsType ==
  ASSUME NEW n \in Page, NEW d \in OperationalEdits(n)
  PROVE  d.page \in Page
<1>0. n.controls \in [density : Density, validity : 1..2]
  BY PageIs
<1>1. ASSUME NEW w, OtherControls(d, n, [n.controls EXCEPT !.validity = 2], w) PROVE d.page \in Page
  <2>1. [n.controls EXCEPT !.validity = 2] \in [density : Density, validity : 1..2]
    BY <1>0
  <2> QED
    BY <1>1, <2>1, ControlsPage DEF OtherControls, EditIsOf, PutControls
<1>2. ASSUME NEW w, OtherControls(d, n, [n.controls EXCEPT !.density = "compact"], w)
      PROVE  d.page \in Page
  <2>1. [n.controls EXCEPT !.density = "compact"] \in [density : Density, validity : 1..2]
    BY <1>0 DEF Density
  <2> QED
    BY <1>2, <2>1, ControlsPage DEF OtherControls, EditIsOf, PutControls
<1>3. ASSUME NEW o \in Ops, OtherOps(d, n, o) PROVE d.page \in Page
  BY <1>3, JsonOpsPage DEF OtherOps, EditIsOf, PutJsonOps
<1> QED
  BY <1>1, <1>2, <1>3, OperationalEditsAre

(* A page that was edited is still a page.                                 *)
LEMMA EditsType ==
  ASSUME NEW n \in Page, NEW d \in Edits(n)
  PROVE  d.page \in Page
<1>1. CASE d = Reset(n)
  BY <1>1, ResetIs, ResetPage DEF EditIsOf, PutReset
<1> QED
  BY <1>1, ModuleEditsType, WidgetEditsType, RoleEditsType, TextEditsType, OperationalEditsType
     DEF Edits

-----------------------------------------------------------------------------
LEMMA FieldsPage ==
  ASSUME NEW c \in Config
  PROVE  Fields(c) \in Page /\ NoReset(Fields(c))
BY FieldsType, FieldsRest DEF NoReset

LEMMA CleanedExists ==
  ASSUME NEW p, NEW n PROVE \E to : IsCleaned(to, p, n)
BY DEF IsCleaned

LEMMA SectionsAre ==
  {"profile", "modules", "extras", "widgets", "roles", "labels", "objects", "ops"} = Sections
BY DEF Sections

LEMMA ModuleEditsLand ==
  ASSUME NEW c \in Config, NEW n, n = Fields(c), NEW d \in ModuleEdits(n), ~Refused(d.page, n)
  PROVE  LandsAlone(c, d)
<1>0. n \in Page /\ NoReset(n) /\ d.page \in Page
  BY FieldsPage, ModuleEditsType
<1> PICK to : IsCleaned(to, d.page, n)
  BY CleanedExists
<1>c. NoReset(d.page) =>
        /\ Effect(to)["modules"] = SeenModules(d.page, n)
        /\ Effect(to)["extras"] = FlagsOf(d.page, n) \cap Extras
        /\ Effect(c)["modules"] = n.csv /\ Effect(c)["extras"] = n.extras
  <2>1. Effect(c)["modules"] = Visible(c) /\ Effect(c)["extras"] = c.on \cap Extras
    BY EffectIs
  <2>2. n.csv = Visible(c) /\ n.extras = c.on \cap Extras
    BY FieldsModules
  <2>3. ASSUME NoReset(d.page)
        PROVE  /\ Effect(to)["modules"] = SeenModules(d.page, n)
               /\ Effect(to)["extras"] = FlagsOf(d.page, n) \cap Extras
    BY <2>3, CleanedSeen
  <2> QED
    BY <2>1, <2>2, <2>3
<1>1. ASSUME NEW m \in Touched, FlippedTick(d, n, m) PROVE LandsAlone(c, d)
  <2> DEFINE v == Flip(n.ticks, m)
  <2>1. d.section = "modules" /\ PutTicks(d.page, n, v) /\ d.want = Switched(n.csv, m)
    BY <1>1 DEF FlippedTick, EditIsOf, PutTicks
  <2> HIDE DEF v
  <2>2. /\ d.page.ticks = v /\ d.page.extras = n.extras /\ d.page.csv = n.csv
        /\ d.page.jon = n.jon /\ d.page.jorder = n.jorder /\ Others(d.page, n, "modules")
    BY <1>0, <2>1, WithTicks
  <2>3. FlagsOf(d.page, n) \cap Extras = n.extras /\ SeenModules(d.page, n) = Switched(n.csv, m)
    BY <2>2, TickFlipped, TouchedModules DEF v
  <2> QED
    BY <1>0, <1>c, <2>1, <2>2, <2>3, Landing, SectionsAre DEF Others, NoReset
<1>2. ASSUME NEW m \in Touched, FlippedFlag(d, n, m) PROVE LandsAlone(c, d)
  <2> DEFINE v == Flip(n.jon, m)
  <2>1. d.section = "modules" /\ PutFlags(d.page, n, v) /\ d.want = Switched(n.csv, m)
    BY <1>2 DEF FlippedFlag, EditIsOf, PutFlags
  <2> HIDE DEF v
  <2>2. /\ d.page.jon = v /\ d.page.ticks = n.ticks /\ d.page.extras = n.extras
        /\ d.page.csv = n.csv /\ d.page.jorder = n.jorder /\ Others(d.page, n, "modules")
    BY <1>0, <2>1, WithFlags
  <2>3. FlagsOf(d.page, n) \cap Extras = n.extras /\ SeenModules(d.page, n) = Switched(n.csv, m)
    BY <2>2, FlagFlipped, TouchedModules DEF v
  <2> QED
    BY <1>0, <1>c, <2>1, <2>2, <2>3, Landing, SectionsAre DEF Others, NoReset
<1>3. ASSUME NEW m \in Touched \cap n.ticks, MovedOrder(d, n, m) PROVE LandsAlone(c, d)
  <2> DEFINE v == First(n.csv, m)
  <2>1. d.section = "modules" /\ PutOrder(d.page, n, v) /\ d.want = v
    BY <1>3 DEF MovedOrder, EditIsOf, PutOrder
  <2> HIDE DEF v
  <2>2. /\ d.page.csv = v /\ d.page.ticks = n.ticks /\ d.page.extras = n.extras
        /\ d.page.jon = n.jon /\ d.page.jorder = n.jorder /\ Others(d.page, n, "modules")
    BY <1>0, <2>1, WithOrder
  <2>3. FlagsOf(d.page, n) = c.on /\ SeenModules(d.page, n) = v
    BY <2>2, OrderMoved DEF v
  <2>4. FlagsOf(d.page, n) \cap Extras = n.extras
    BY <2>3, FieldsModules
  <2> QED
    BY <1>0, <1>c, <2>1, <2>2, <2>3, <2>4, Landing, SectionsAre DEF Others, NoReset
<1>4. ASSUME NEW m \in Touched \cap n.ticks, MovedJson(d, n, m) PROVE LandsAlone(c, d)
  <2> DEFINE v == First(n.jorder, m)
  <2>1. d.section = "modules" /\ PutJsonOrder(d.page, n, v) /\ d.want = First(n.csv, m)
    BY <1>4 DEF MovedJson, EditIsOf, PutJsonOrder
  <2> HIDE DEF v
  <2>2. /\ d.page.jorder = v /\ d.page.ticks = n.ticks /\ d.page.extras = n.extras
        /\ d.page.csv = n.csv /\ d.page.jon = n.jon /\ Others(d.page, n, "modules")
    BY <1>0, <2>1, WithJsonOrder
  <2>3. FlagsOf(d.page, n) = c.on /\ SeenModules(d.page, n) = First(n.csv, m)
    BY <2>2, JsonMoved DEF v
  <2>4. FlagsOf(d.page, n) \cap Extras = n.extras
    BY <2>3, FieldsModules
  <2> QED
    BY <1>0, <1>c, <2>1, <2>2, <2>3, <2>4, Landing, SectionsAre DEF Others, NoReset
<1>5. ASSUME FlippedExtra(d, n) \/ FlippedExtraFlag(d, n) PROVE LandsAlone(c, d)
  <2>1. d.section = "extras" /\ d.want = Flip(n.extras, "kanban")
    BY <1>5 DEF FlippedExtra, FlippedExtraFlag, EditIsOf
  <2>2. /\ d.page.ticks = n.ticks /\ d.page.csv = n.csv /\ d.page.jorder = n.jorder
        /\ \/ d.page.extras = Flip(n.extras, "kanban") /\ d.page.jon = n.jon
           \/ d.page.extras = n.extras /\ d.page.jon = Flip(n.jon, "kanban")
        /\ Others(d.page, n, "extras")
    <3>1. CASE FlippedExtra(d, n)
      <4> DEFINE v == Flip(n.extras, "kanban")
      <4>1. PutExtras(d.page, n, v)
        BY <3>1 DEF FlippedExtra, EditIsOf, PutExtras
      <4> HIDE DEF v
      <4>2. /\ d.page.extras = v /\ d.page.ticks = n.ticks /\ d.page.csv = n.csv
            /\ d.page.jon = n.jon /\ d.page.jorder = n.jorder /\ Others(d.page, n, "extras")
        BY <1>0, <4>1, WithExtras
      <4> QED
        BY <4>2 DEF v
    <3>2. CASE FlippedExtraFlag(d, n)
      <4> DEFINE v == Flip(n.jon, "kanban")
      <4>1. PutFlags(d.page, n, v)
        BY <3>2 DEF FlippedExtraFlag, EditIsOf, PutFlags
      <4> HIDE DEF v
      <4>2. /\ d.page.jon = v /\ d.page.ticks = n.ticks /\ d.page.extras = n.extras
            /\ d.page.csv = n.csv /\ d.page.jorder = n.jorder /\ Others(d.page, n, "extras")
        BY <1>0, <4>1, WithExtraFlags
      <4> QED
        BY <4>2 DEF v
    <3> QED
      BY <1>5, <3>1, <3>2
  <2>3. "kanban" \in Extras
    BY DEF Extras
  <2>4. FlagsOf(d.page, n) \cap Extras = Flip(n.extras, "kanban") /\ SeenModules(d.page, n) = n.csv
    BY <2>2, <2>3, ExtraFlipped
  <2> QED
    BY <1>0, <1>c, <2>1, <2>2, <2>4, Landing, SectionsAre DEF Others, NoReset
<1> QED
  BY <1>0, <1>1, <1>2, <1>3, <1>4, <1>5, ModuleEditsAre

-----------------------------------------------------------------------------
(***************************************************************************)
(* The same for the widgets, the roles, the texts and the operation.       *)
(***************************************************************************)
LEMMA WidgetEditsLand ==
  ASSUME NEW c \in Config, NEW n, n = Fields(c), NEW d \in WidgetEdits(n), ~Refused(d.page, n)
  PROVE  LandsAlone(c, d)
<1>0. n \in Page /\ NoReset(n) /\ d.page \in Page
  BY FieldsPage, WidgetEditsType
<1> PICK to : IsCleaned(to, d.page, n)
  BY CleanedExists
<1>1. PICK W \in SUBSET Widgets : ChosenWidgets(d, n, W) \/ ChosenJsonWidgets(d, n, W)
  BY <1>0, WidgetEditsAre
<1>2. d.section = "widgets" /\ d.want = W
  BY <1>1 DEF ChosenWidgets, ChosenJsonWidgets, EditIsOf
<1>3. Others(d.page, n, "widgets") /\ WidgetsOf(d.page, n) = W
  <2>1. CASE ChosenWidgets(d, n, W)
    <3>1. PutWidgets(d.page, n, W)
      BY <2>1 DEF ChosenWidgets, EditIsOf, PutWidgets
    <3>2. d.page.widgets = W /\ d.page.jwidgets = n.jwidgets /\ Others(d.page, n, "widgets")
      BY <1>0, <3>1, WithWidgets
    <3> QED
      BY <3>2 DEF WidgetsOf, ByControls
  <2>2. CASE ChosenJsonWidgets(d, n, W)
    <3>1. PutJsonWidgets(d.page, n, W)
      BY <2>2 DEF ChosenJsonWidgets, EditIsOf, PutJsonWidgets
    <3>2. d.page.jwidgets = W /\ d.page.widgets = n.widgets /\ Others(d.page, n, "widgets")
      BY <1>0, <3>1, WithJsonWidgets
    <3>3. n.widgets = n.jwidgets
      BY FieldsRest
    <3> QED
      BY <3>2, <3>3 DEF WidgetsOf, ByControls
  <2> QED
    BY <1>1, <2>1, <2>2
<1>4. NoReset(d.page)
  BY <1>3 DEF Others, NoReset
<1>5. Effect(to)["widgets"] = W
  BY <1>3, <1>4, CleanedSeen
<1> QED
  BY <1>0, <1>2, <1>3, <1>5, Landing, SectionsAre

LEMMA RoleEditsLand ==
  ASSUME NEW c \in Config, NEW n, n = Fields(c), NEW d \in RoleEdits(n), ~Refused(d.page, n)
  PROVE  LandsAlone(c, d)
<1>0. n \in Page /\ NoReset(n) /\ d.page \in Page
  BY FieldsPage, RoleEditsType
<1> PICK to : IsCleaned(to, d.page, n)
  BY CleanedExists
<1>1. ASSUME d.section = "roles", Others(d.page, n, "roles"), SeenRoles(d.page, n) = d.want
      PROVE  LandsAlone(c, d)
  <2>1. NoReset(d.page)
    BY <1>1 DEF Others, NoReset
  <2>2. Effect(to)["roles"] = d.want
    BY <1>1, <2>1, CleanedSeen
  <2> QED
    BY <1>0, <1>1, <2>2, Landing, SectionsAre
<1>2. ASSUME NEW g \in Granted, LessManager(d, n, g) PROVE LandsAlone(c, d)
  <2> DEFINE v == [n.roles EXCEPT !["manager"] = Perms \ {g}]
  <2>1. d.section = "roles" /\ PutManager(d.page, n, v)
    BY <1>2 DEF LessManager, EditIsOf, PutManager
  <2>w. d.want = [n.jroles EXCEPT !["manager"] = Perms \ {g}]
    BY <1>2 DEF LessManager, EditIsOf
  <2> HIDE DEF v
  <2>2. /\ NotFull(d.page) /\ d.page.roles = v /\ d.page.jroles = n.jroles
        /\ Others(d.page, n, "roles")
    BY <1>0, <2>1, WithManager
  <2>3. NoReset(d.page)
    BY <2>2 DEF Others, NoReset
  <2>4. SeenRoles(d.page, n) = [n.jroles EXCEPT !["manager"] = Perms \ {g}]
    BY <1>0, <2>2, <2>3, ManagerTicked DEF v
  <2>5. SeenRoles(d.page, n) = d.want
    BY <2>w, <2>4
  <2> QED
    BY <1>1, <2>1, <2>2, <2>5
<1>3. ASSUME NEW g \in Granted, OtherViewer(d, n, g) PROVE LandsAlone(c, d)
  <2> DEFINE v == [n.roles EXCEPT !["viewer"] = Flip(@, g)]
  <2>1. d.section = "roles" /\ PutRoles(d.page, n, v)
    BY <1>3 DEF OtherViewer, EditIsOf, PutRoles
  <2>w. d.want = [n.jroles EXCEPT !["viewer"] = Resolved("viewer", Flip(n.roles["viewer"], g))]
    BY <1>3 DEF OtherViewer, EditIsOf
  <2> HIDE DEF v
  <2>2. /\ d.page.full = n.full /\ d.page.roles = v /\ d.page.jroles = n.jroles
        /\ Others(d.page, n, "roles")
    BY <1>0, <2>1, WithRoles
  <2>3. NoReset(d.page) /\ ViewerFlipped(d.page, n, g)
    BY <2>2 DEF Others, NoReset, ViewerFlipped, v
  <2>4. SeenRoles(d.page, n) = [n.jroles EXCEPT !["viewer"] = Resolved("viewer", Flip(n.roles["viewer"], g))]
    BY <1>0, <2>2, <2>3, ViewerTicked
  <2>5. SeenRoles(d.page, n) = d.want
    BY <2>w, <2>4
  <2> QED
    BY <1>1, <2>1, <2>2, <2>5
<1>4. ASSUME NEW r \in Roles \ {"owner"}, NEW G \in SUBSET (Perms \cup {Star}), OtherJson(d, n, r, G)
      PROVE  LandsAlone(c, d)
  <2> DEFINE v == [n.jroles EXCEPT ![r] = G]
  <2>1. d.section = "roles" /\ PutJsonRoles(d.page, n, v)
    BY <1>4 DEF OtherJson, EditIsOf, PutJsonRoles
  <2>w. d.want = [n.jroles EXCEPT ![r] = Resolved(r, G)]
    BY <1>4 DEF OtherJson, EditIsOf
  <2> HIDE DEF v
  <2>2. /\ d.page.full = n.full /\ d.page.roles = n.roles /\ d.page.jroles = v
        /\ Others(d.page, n, "roles")
    BY <1>0, <2>1, WithJsonRoles
  <2>3. NoReset(d.page)
    BY <2>2 DEF Others, NoReset
  <2>4. SeenRoles(d.page, n) = [n.jroles EXCEPT ![r] = Resolved(r, G)]
    BY <1>0, <2>2, <2>3, JsonRole DEF v
  <2>5. SeenRoles(d.page, n) = d.want
    BY <2>w, <2>4
  <2> QED
    BY <1>1, <2>1, <2>2, <2>5
<1> QED
  BY <1>0, <1>2, <1>3, <1>4, RoleEditsAre

LEMMA TextEditsLand ==
  ASSUME NEW c \in Config, NEW n, n = Fields(c), NEW d \in TextEdits(n), ~Refused(d.page, n)
  PROVE  LandsAlone(c, d)
<1>0. n \in Page /\ NoReset(n) /\ d.page \in Page
  BY FieldsPage, TextEditsType
<1> PICK to : IsCleaned(to, d.page, n)
  BY CleanedExists
<1>f. /\ n.jlabels = c.labels /\ n.title = c.labels.title /\ n.singular = c.labels.singular
      /\ c.labels \in Labels
  BY FieldsRest, ConfigIs
<1>1. ASSUME d.section = "labels", Others(d.page, n, "labels"), LabelsOf(d.page, n) = d.want
      PROVE  LandsAlone(c, d)
  <2>1. NoReset(d.page)
    BY <1>1 DEF Others, NoReset
  <2>2. Effect(to)["labels"] = d.want
    BY <1>1, <2>1, CleanedSeen
  <2> QED
    BY <1>0, <1>1, <2>2, Landing, SectionsAre
<1>2. ASSUME NEW t \in Texts, OtherTitle(d, n, t) PROVE LandsAlone(c, d)
  <2>1. /\ d.section = "labels" /\ PutTitle(d.page, n, t)
        /\ d.want = [n.jlabels EXCEPT !.title = Filled(t, n.jlabels.title)]
    BY <1>2 DEF OtherTitle, EditIsOf, PutTitle
  <2>2. /\ d.page.title = t /\ d.page.singular = n.singular /\ d.page.jlabels = n.jlabels
        /\ Others(d.page, n, "labels")
    BY <1>0, <2>1, WithTitle
  <2>3. LabelsOf(d.page, n) = [d.page.jlabels EXCEPT !.title = Filled(d.page.title, @),
                                                     !.singular = Filled(d.page.singular, @)]
    BY <2>2 DEF LabelsOf, ByControls
  <2>4. Filled(d.page.singular, d.page.jlabels.singular) = c.labels.singular
    BY <1>f, <2>2 DEF Filled
  <2>5. LabelsOf(d.page, n) = d.want
    <3> DEFINE x == Filled(t, c.labels.title)
    <3>1. Filled(d.page.title, d.page.jlabels.title) = x
      BY <1>f, <2>2
    <3>2. d.want = [c.labels EXCEPT !.title = x]
      BY <1>f, <2>1
    <3>3. LabelsOf(d.page, n) = [c.labels EXCEPT !.title = x, !.singular = c.labels.singular]
      BY <1>f, <2>2, <2>3, <2>4, <3>1
    <3> HIDE DEF x
    <3> QED
      BY <1>f, <3>2, <3>3 DEF Labels
  <2> QED
    BY <1>1, <2>1, <2>2, <2>5
<1>3. ASSUME NEW l \in Labels, OtherLabels(d, n, l), l.singular = n.jlabels.singular
      PROVE  LandsAlone(c, d)
  <2>1. d.section = "labels" /\ PutJsonLabels(d.page, n, l) /\ d.want = l
    BY <1>3 DEF OtherLabels, EditIsOf, PutJsonLabels
  <2>2. /\ d.page.jlabels = l /\ d.page.title = n.title /\ d.page.singular = n.singular
        /\ Others(d.page, n, "labels")
    BY <1>0, <2>1, WithJsonLabels
  <2>3. LabelsOf(d.page, n) = l
    <3>1. CASE l = n.jlabels
      <4>1. SameLabels(d.page, n)
        BY <2>2, <3>1 DEF SameLabels
      <4>2. LabelsOf(d.page, n) = c.labels
        BY <4>1, LabelsStay
      <4> QED
        BY <1>f, <3>1, <4>2
    <3>2. CASE l # n.jlabels
      BY <2>2, <3>2 DEF LabelsOf, ByControls, LabelsChanged
    <3> QED
      BY <3>1, <3>2
  <2> QED
    BY <1>1, <2>1, <2>2, <2>3
<1>4. ASSUME OtherProfile(d, n) PROVE LandsAlone(c, d)
  <2> DEFINE v == "broker"
  <2>1. d.section = "profile" /\ PutProfile(d.page, n, v) /\ d.want = v
    BY <1>4 DEF OtherProfile, EditIsOf, PutProfile
  <2> HIDE DEF v
  <2>2. d.page.profile = v /\ Others(d.page, n, "profile")
    BY <1>0, <2>1, WithProfile
  <2>3. NoReset(d.page)
    BY <2>2 DEF Others, NoReset
  <2>4. Effect(to)["profile"] = v
    BY <2>2, <2>3, CleanedSeen
  <2> QED
    BY <1>0, <2>1, <2>2, <2>4, Landing, SectionsAre
<1>5. ASSUME OtherObjects(d, n) PROVE LandsAlone(c, d)
  <2> DEFINE v == ~n.objects
  <2>1. d.section = "objects" /\ PutObjects(d.page, n, v) /\ d.want = v
    BY <1>5 DEF OtherObjects, EditIsOf, PutObjects
  <2> HIDE DEF v
  <2>2. d.page.objects = v /\ Others(d.page, n, "objects")
    BY <1>0, <2>1, WithObjects
  <2>3. NoReset(d.page)
    BY <2>2 DEF Others, NoReset
  <2>4. Effect(to)["objects"] = v
    <3>1. Effect(to)["objects"] = d.page.objects
      BY <2>3, CleanedSeen
    <3> QED
      BY <2>2, <3>1
  <2> QED
    BY <1>0, <2>1, <2>2, <2>4, Landing, SectionsAre
<1> QED
  BY <1>0, <1>2, <1>3, <1>4, <1>5, TextEditsAre

LEMMA OperationalEditsLand ==
  ASSUME NEW c \in Config, NEW n, n = Fields(c), NEW d \in OperationalEdits(n),
         ~Refused(d.page, n)
  PROVE  LandsAlone(c, d)
<1>0. n \in Page /\ NoReset(n) /\ d.page \in Page
  BY FieldsPage, OperationalEditsType
<1> PICK to : IsCleaned(to, d.page, n)
  BY CleanedExists
<1>f. n.jops = c.ops /\ n.controls = [density |-> c.ops.density, validity |-> c.ops.validity]
      /\ c.ops \in Ops
  BY FieldsRest, ConfigIs
<1>1. ASSUME d.section = "ops", Others(d.page, n, "ops"), OpsOf(d.page, n) = d.want
      PROVE  LandsAlone(c, d)
  <2>1. NoReset(d.page)
    BY <1>1 DEF Others, NoReset
  <2>2. Effect(to)["ops"] = d.want
    BY <1>1, <2>1, CleanedSeen
  <2> QED
    BY <1>0, <1>1, <2>2, Landing, SectionsAre
<1>2. ASSUME NEW v, NEW o, OtherControls(d, n, v, o),
             v.density = o.density, v.validity = o.validity, DOMAIN v = {"density", "validity"},
             o \in Ops, o.hero = c.ops.hero, o.prefix = c.ops.prefix,
             v = [density |-> v.density, validity |-> v.validity]
      PROVE  LandsAlone(c, d)
  <2>1. d.section = "ops" /\ PutControls(d.page, n, v) /\ d.want = o
    BY <1>2 DEF OtherControls, EditIsOf, PutControls
  <2>2. d.page.controls = v /\ d.page.jops = n.jops /\ Others(d.page, n, "ops")
    BY <1>0, <2>1, WithControls
  <2>3. OpsOf(d.page, n) = o
    <3>1. o = [density |-> o.density, hero |-> o.hero, validity |-> o.validity, prefix |-> o.prefix]
      BY <1>2 DEF Ops
    <3>2. c.ops = [density |-> c.ops.density, hero |-> c.ops.hero, validity |-> c.ops.validity,
                   prefix |-> c.ops.prefix]
      BY <1>f DEF Ops
    <3>3. CASE v = n.controls
      BY <1>2, <1>f, <2>2, <3>1, <3>2, <3>3 DEF OpsOf
    <3>4. CASE v # n.controls
      <4>1. OpsOf(d.page, n) = [c.ops EXCEPT !.density = v.density, !.validity = v.validity]
        BY <1>f, <2>2, <3>4 DEF OpsOf
      <4> QED
        BY <1>2, <3>1, <3>2, <4>1
    <3> QED
      BY <3>3, <3>4
  <2> QED
    BY <1>1, <2>1, <2>2, <2>3
<1>3. ASSUME OtherControls(d, n, [n.controls EXCEPT !.validity = 2], [n.jops EXCEPT !.validity = 2])
      PROVE  LandsAlone(c, d)
  <2> DEFINE v == [n.controls EXCEPT !.validity = 2]
             o == [n.jops EXCEPT !.validity = 2]
  <2>1. /\ v.density = o.density /\ v.validity = o.validity /\ DOMAIN v = {"density", "validity"}
        /\ o \in Ops /\ o.hero = c.ops.hero /\ o.prefix = c.ops.prefix
        /\ v = [density |-> v.density, validity |-> v.validity]
    BY <1>f DEF Ops
  <2>2. OtherControls(d, n, v, o)
    BY <1>3
  <2> HIDE DEF v, o
  <2> QED
    BY <1>2, <2>1, <2>2
<1>4. ASSUME OtherControls(d, n, [n.controls EXCEPT !.density = "compact"],
                           [n.jops EXCEPT !.density = "compact"])
      PROVE  LandsAlone(c, d)
  <2> DEFINE v == [n.controls EXCEPT !.density = "compact"]
             o == [n.jops EXCEPT !.density = "compact"]
  <2>1. /\ v.density = o.density /\ v.validity = o.validity /\ DOMAIN v = {"density", "validity"}
        /\ o \in Ops /\ o.hero = c.ops.hero /\ o.prefix = c.ops.prefix
        /\ v = [density |-> v.density, validity |-> v.validity]
    BY <1>f DEF Ops, Density
  <2>2. OtherControls(d, n, v, o)
    BY <1>4
  <2> HIDE DEF v, o
  <2> QED
    BY <1>2, <2>1, <2>2
<1>5. ASSUME NEW o \in Ops, OtherOps(d, n, o) PROVE LandsAlone(c, d)
  <2>1. d.section = "ops" /\ PutJsonOps(d.page, n, o) /\ d.want = o
    BY <1>5 DEF OtherOps, EditIsOf, PutJsonOps
  <2>2. d.page.jops = o /\ d.page.controls = n.controls /\ Others(d.page, n, "ops")
    BY <1>0, <2>1, WithJsonOps
  <2>3. OpsOf(d.page, n) = o
    BY <2>2 DEF OpsOf
  <2> QED
    BY <1>1, <2>1, <2>2, <2>3
<1> QED
  BY <1>0, <1>3, <1>4, <1>5, OperationalEditsAre

-----------------------------------------------------------------------------
(***************************************************************************)
(* What an edit comes to, and what is written is a configuration.          *)
(***************************************************************************)
(* What an edit comes to, of one section or of all of them.                *)
LandsOn(c, d, to) ==
  IF d.section = "all" THEN Effect(to) = d.want
  ELSE /\ d.section \in Sections
       /\ Effect(to)[d.section] = d.want
       /\ \A x \in Sections \ {d.section} : Effect(to)[x] = Effect(c)[x]

(* An edit that is not refused comes to what its editor meant.             *)
LEMMA EditsLand ==
  ASSUME NEW c \in Config, NEW n, n = Fields(c), NEW d \in Edits(n), ~Refused(d.page, n)
  PROVE  LandsOn(c, d, Cleaned(d.page, n))
<1>1. CASE d = Reset(n)
  <2>0. n \in Page
    BY FieldsType
  <2>1. /\ d.section = "all" /\ d.page = [n EXCEPT !.reset = TRUE]
        /\ d.want = Effect(Defaults[n.profile])
    BY <1>1, <2>0, ResetIs DEF EditIsOf
  <2>2. d.page.reset /\ d.page.profile = n.profile
    BY <2>0, <2>1 DEF Page
  <2>3. Cleaned(d.page, n) = Defaults[n.profile]
    BY <2>2 DEF Cleaned
  <2> QED
    BY <2>1, <2>3 DEF LandsOn
<1>2. CASE d # Reset(n)
  <2>1. LandsAlone(c, d)
    BY <1>2, ModuleEditsLand, WidgetEditsLand, RoleEditsLand, TextEditsLand, OperationalEditsLand
       DEF Edits
  <2>2. "all" \notin Sections
    BY DEF Sections
  <2> QED
    BY <2>1, <2>2 DEF LandsAlone, LandsOn
<1> QED
  BY <1>1, <1>2

LEMMA DefaultsAre == Defaults \in [Profiles -> Config] /\ "general" \in Profiles
BY WorkspaceAssumption DEF Profiles

(* What a page comes to is a configuration.                                *)
LEMMA CleanedType ==
  ASSUME NEW p \in Page, NEW n \in Page
  PROVE  Cleaned(p, n) \in Config
<1>1. CASE p.reset
  BY <1>1, DefaultsAre, PageIs DEF Cleaned
<1>2. CASE ~p.reset
  <2>1. FlagsOf(p, n) \in SUBSET (Modules \cup Extras)
    BY PageIs DEF FlagsOf
  <2>2. OrderOf(p, n) \in Seq(Modules)
    <3>1. TickOrder(p.csv, p.ticks) \in Seq(Modules)
      BY PageIs, TickOrderIs
    <3>2. Complete(TickOrder(p.csv, p.ticks)) \in Seq(Modules) /\ Complete(p.jorder) \in Seq(Modules)
      BY <3>1, PageIs, CompleteLists
    <3> QED
      BY <3>2 DEF OrderOf, TickOrder
  <2>3. WidgetsOf(p, n) \in SUBSET Widgets
    BY PageIs DEF WidgetsOf
  <2>4. RolesOf(p, n) \in Policy
    <3>1. \A r \in Roles : Resolved(r, p.jroles[r]) \in SUBSET (Perms \cup {Star})
      <4>1. \A r \in Roles : p.jroles[r] \in SUBSET (Perms \cup {Star})
        BY PageIs DEF Policy
      <4> QED
        BY <4>1, ResolvedRole
    <3>2. \A r \in Roles \ {"owner"} : Resolved(r, p.roles[r]) \in SUBSET (Perms \cup {Star})
      <4>1. \A r \in Roles \ {"owner"} : p.roles[r] \in SUBSET (Perms \cup {Star})
        BY PageIs
      <4> QED
        BY <4>1, ResolvedRole
    <3>3. \A r \in Roles : (CASE r = "owner"             -> Resolved(r, p.jroles[r])
              [] r = "manager" /\ p.full -> {Star}
              [] OTHER                   -> Resolved(r, p.roles[r])) \in SUBSET (Perms \cup {Star})
      BY <3>1, <3>2
    <3> QED
      BY <3>1, <3>3 DEF RolesOf, Policy
  <2>5. LabelsOf(p, n) \in Labels
    <3>1. p.jlabels \in Labels /\ p.title \in Texts /\ p.singular \in Texts
      BY PageIs
    <3>2. \A x \in Texts, y \in Texts : Filled(x, y) \in Texts
      BY DEF Filled
    <3>3. \A x \in Texts, y \in Texts : [p.jlabels EXCEPT !.title = x, !.singular = y] \in Labels
      BY <3>1 DEF Labels
    <3>4. p.jlabels.title \in Texts /\ p.jlabels.singular \in Texts
      BY <3>1 DEF Labels
    <3> HIDE DEF Texts
    <3> QED
      BY <3>1, <3>2, <3>3, <3>4 DEF LabelsOf
  <2>6. OpsOf(p, n) \in Ops
    <3>1. p.jops \in Ops /\ p.controls \in [density : Density, validity : 1..2]
      BY PageIs
    <3> QED
      BY <3>1 DEF OpsOf, Ops
  <2>7. p.profile \in Profiles /\ p.objects \in BOOLEAN
    BY PageIs
  <2>8. Cleaned(p, n) = [profile |-> p.profile, on |-> FlagsOf(p, n), order |-> OrderOf(p, n),
        widgets |-> WidgetsOf(p, n), roles |-> RolesOf(p, n), labels |-> LabelsOf(p, n),
        objects |-> p.objects, ops |-> OpsOf(p, n)]
    BY <1>2 DEF Cleaned
  <2> QED
    BY <2>1, <2>2, <2>3, <2>4, <2>5, <2>6, <2>7, <2>8 DEF Config
<1> QED
  BY <1>1, <1>2

(* What the page of the company comes to.                                  *)
LEMMA MergedIs ==
  ASSUME NEW c \in Config, NEW p \in CompanyPage
  PROVE  LET to == Merged(p, c) IN
         /\ to \in Config
         /\ to.profile = c.profile /\ to.on = c.on /\ to.order = c.order /\ to.widgets = c.widgets
         /\ to.roles = c.roles /\ to.objects = c.objects
         /\ to.labels = [c.labels EXCEPT !.title = p.title, !.subtitle = p.subtitle]
         /\ to.ops = [c.ops EXCEPT !.validity = p.validity]
<1> DEFINE l == [c.labels EXCEPT !.title = p.title, !.subtitle = p.subtitle]
           o == [c.ops EXCEPT !.validity = p.validity]
           to == Merged(p, c)
<1>1. p.title \in Texts /\ p.subtitle \in Texts /\ p.validity \in 1..2
  BY DEF CompanyPage
<1>2. l \in Labels /\ o \in Ops
  BY <1>1, ConfigIs DEF Labels, Ops
<1>3. to = [c EXCEPT !.labels = l, !.ops = o]
  BY DEF Merged, Config
<1> HIDE DEF l, o, to
<1>4. /\ to \in Config
      /\ to.profile = c.profile /\ to.on = c.on /\ to.order = c.order /\ to.widgets = c.widgets
      /\ to.roles = c.roles /\ to.objects = c.objects /\ to.labels = l /\ to.ops = o
  BY <1>2, <1>3 DEF Config
<1> QED
  BY <1>4 DEF l, o, to

LEMMA CompanyEditsType ==
  ASSUME NEW c \in Config, NEW d \in CompanyEdits(c)
  PROVE  d.page \in CompanyPage
<1>0. c.labels \in Labels /\ c.ops \in Ops
  BY ConfigIs
<1>1. CompanyFields(c) \in CompanyPage
  BY <1>0 DEF CompanyFields, CompanyPage, Labels, Ops
<1>2. \/ d.page = [CompanyFields(c) EXCEPT !.title = "new"]
      \/ d.page = [CompanyFields(c) EXCEPT !.validity = 2]
  BY DEF CompanyEdits, Edit
<1>3. CompanyFields(c).title \in Texts /\ CompanyFields(c).subtitle \in Texts
      /\ CompanyFields(c).validity \in 1..2
  BY <1>1 DEF CompanyPage
<1>4. "new" \in Texts /\ 2 \in 1..2
  BY DEF Texts
<1>5. d.page = [title |-> "new", subtitle |-> CompanyFields(c).subtitle,
               validity |-> CompanyFields(c).validity]
      \/ d.page = [title |-> CompanyFields(c).title, subtitle |-> CompanyFields(c).subtitle,
                  validity |-> 2]
  BY <1>2 DEF CompanyFields
<1> QED
  BY <1>3, <1>4, <1>5 DEF CompanyPage

(* An edit of the company comes to what its editor meant.                  *)
LEMMA CompanyEditsLand ==
  ASSUME NEW c \in Config, NEW d \in CompanyEdits(c)
  PROVE  LandsOn(c, d, Merged(d.page, c))
<1> DEFINE to == Merged(d.page, c)
<1>0. c.labels \in Labels /\ c.ops \in Ops /\ d.page \in CompanyPage
  BY ConfigIs, CompanyEditsType
<1>1. /\ to.profile = c.profile /\ to.on = c.on /\ to.order = c.order /\ to.widgets = c.widgets
      /\ to.roles = c.roles /\ to.objects = c.objects
      /\ to.labels = [c.labels EXCEPT !.title = d.page.title, !.subtitle = d.page.subtitle]
      /\ to.ops = [c.ops EXCEPT !.validity = d.page.validity]
  BY <1>0, MergedIs
<1> HIDE DEF to
<1>2. Visible(to) = Visible(c) /\ Policies(to) = Policies(c)
  BY <1>1 DEF Visible, Policies
<1>3. \A x \in Sections \ {"labels", "ops"} : Effect(to)[x] = Effect(c)[x]
  <2>1. Sections \ {"labels", "ops"} =
          {"profile", "modules", "extras", "widgets", "roles", "objects"}
    BY DEF Sections
  <2>2. /\ Effect(to)["profile"] = to.profile /\ Effect(to)["modules"] = Visible(to)
        /\ Effect(to)["extras"] = to.on \cap Extras /\ Effect(to)["widgets"] = to.widgets
        /\ Effect(to)["roles"] = Policies(to) /\ Effect(to)["objects"] = to.objects
    BY EffectIs
  <2>3. /\ Effect(c)["profile"] = c.profile /\ Effect(c)["modules"] = Visible(c)
        /\ Effect(c)["extras"] = c.on \cap Extras /\ Effect(c)["widgets"] = c.widgets
        /\ Effect(c)["roles"] = Policies(c) /\ Effect(c)["objects"] = c.objects
    BY EffectIs
  <2> QED
    BY <1>1, <1>2, <2>1, <2>2, <2>3
<1>4. Effect(to)["labels"] = to.labels /\ Effect(to)["ops"] = to.ops
      /\ Effect(c)["labels"] = c.labels /\ Effect(c)["ops"] = c.ops
  BY EffectIs
<1>5. CASE /\ d.section = "labels" /\ d.page = [CompanyFields(c) EXCEPT !.title = "new"]
           /\ d.want = [c.labels EXCEPT !.title = "new"]
  <2>1. d.page.title = "new" /\ d.page.subtitle = c.labels.subtitle /\ d.page.validity = c.ops.validity
    BY <1>5 DEF CompanyFields
  <2>2. to.ops = c.ops
    BY <1>0, <1>1, <2>1 DEF Ops
  <2>3. to.labels = [c.labels EXCEPT !.title = "new"]
    BY <1>0, <1>1, <2>1 DEF Labels
  <2>4. \A x \in Sections \ {"labels"} : Effect(to)[x] = Effect(c)[x]
    BY <1>3, <1>4, <2>2
  <2> QED
    BY <1>4, <1>5, <2>3, <2>4, SectionsAre DEF LandsOn, to
<1>6. CASE /\ d.section = "ops" /\ d.page = [CompanyFields(c) EXCEPT !.validity = 2]
           /\ d.want = [c.ops EXCEPT !.validity = 2]
  <2>1. d.page.title = c.labels.title /\ d.page.subtitle = c.labels.subtitle /\ d.page.validity = 2
    BY <1>6 DEF CompanyFields
  <2>2. to.labels = c.labels
    BY <1>0, <1>1, <2>1 DEF Labels
  <2>3. to.ops = [c.ops EXCEPT !.validity = 2]
    BY <1>0, <1>1, <2>1 DEF Ops
  <2>4. \A x \in Sections \ {"ops"} : Effect(to)[x] = Effect(c)[x]
    BY <1>3, <1>4, <2>2
  <2> QED
    BY <1>4, <1>6, <2>3, <2>4, SectionsAre DEF LandsOn, to
<1> QED
  BY <1>5, <1>6 DEF CompanyEdits, Edit

-----------------------------------------------------------------------------
(***************************************************************************)
(* The inductive invariant of the configuration, action by action.         *)
(***************************************************************************)
Sound(e) ==
  /\ at[e] = "open" => PageOpen(e)
  /\ at[e] \in {"checked", "half"} => PageChecked(e)

LEMMA SoundIs == WsInv <=> /\ WsTypeOK
                           /\ DOMAIN page = Editors /\ DOMAIN goal = Editors
                           /\ \A e \in Editors : Sound(e)
BY DEF WsInv, Sound

(* An editor keeps its part while nothing of it changes ...                *)
LEMMA Untouched ==
  ASSUME NEW o, Sound(o), config' = config, at'[o] = at[o], page'[o] = page[o],
         goal'[o] = goal[o], since'[o] = since[o]
  PROVE  Sound(o)'
<1>1. ASSUME PageOpen(o) PROVE PageOpen(o)'
  BY <1>1 DEF PageOpen
<1>2. ASSUME PageChecked(o) PROVE PageChecked(o)'
  BY <1>2 DEF PageChecked, Accepted
<1> QED
  BY <1>1, <1>2 DEF Sound

(* ... and when somebody else saves over it, since it then says less.      *)
LEMMA SavedOver ==
  ASSUME NEW o, Sound(o), at'[o] = at[o], page'[o] = page[o],
         at[o] \in {"open", "checked", "half"} => since'[o]
  PROVE  Sound(o)'
<1>1. ASSUME PageOpen(o), since'[o] PROVE PageOpen(o)'
  BY <1>1 DEF PageOpen
<1>2. ASSUME PageChecked(o), since'[o] PROVE PageChecked(o)'
  BY <1>2 DEF PageChecked
<1> QED
  BY <1>1, <1>2 DEF Sound

LEMMA Gone ==
  ASSUME NEW e \in Editors, WsInv, NEW where \in {"away", "done"}, Leave(e, where)
  PROVE  /\ at' \in [Editors -> {"away", "open", "checked", "half", "done"}]
         /\ DOMAIN page' = Editors
         /\ Sound(e)'
         /\ \A o \in Editors \ {e} : at'[o] = at[o] /\ page'[o] = page[o]
<1>1. at \in [Editors -> {"away", "open", "checked", "half", "done"}] /\ DOMAIN page = Editors
  BY DEF WsInv, WsTypeOK
<1>2. at' = [at EXCEPT ![e] = where] /\ page' = [page EXCEPT ![e] = NoPage]
  BY DEF Leave
<1>3. /\ at' \in [Editors -> {"away", "open", "checked", "half", "done"}]
      /\ at'[e] = where
      /\ \A o \in Editors \ {e} : at'[o] = at[o]
  BY <1>1, <1>2
<1>4. DOMAIN page' = Editors /\ \A o \in Editors \ {e} : page'[o] = page[o]
  BY <1>1, <1>2
<1>5. Sound(e)'
  BY <1>3 DEF Sound
<1> QED
  BY <1>3, <1>4, <1>5

LEMMA SavedByIs ==
  ASSUME WsInv, NEW e \in Editors, SavedBy(e)
  PROVE  /\ since' \in [Editors -> BOOLEAN]
         /\ since'[e] = since[e]
         /\ \A o \in Editors \ {e} : at[o] \in {"open", "checked", "half"} => since'[o]
<1>1. since \in [Editors -> BOOLEAN]
  BY DEF WsInv, WsTypeOK
<1>2. since' = [o \in Editors |-> since[o] \/ (o # e /\ at[o] \in {"open", "checked", "half"})]
  BY DEF SavedBy
<1> QED
  BY <1>1, <1>2

LEMMA EditsOfType ==
  ASSUME NEW e \in Editors, NEW c \in Config, NEW d \in EditsOf(e, c)
  PROVE  d.page \in (IF e \in Platform THEN Page ELSE CompanyPage)
<1>1. CASE e \in Platform
  <2>1. d \in Edits(Fields(c))
    BY <1>1 DEF EditsOf
  <2>2. Fields(c) \in Page
    BY FieldsType
  <2>3. d.page \in Page
    BY <2>1, <2>2, EditsType
  <2> QED
    BY <1>1, <2>3
<1>2. CASE e \notin Platform
  BY <1>2, CompanyEditsType DEF EditsOf
<1> QED
  BY <1>1, <1>2

LEMMA OpenPageKeeps ==
  ASSUME WsInv, NEW e \in Editors, OpenPage(e)
  PROVE  WsInv'
<1>1. /\ config \in Config /\ at \in [Editors -> {"away", "open", "checked", "half", "done"}]
      /\ since \in [Editors -> BOOLEAN] /\ opened \in 0..MaxPages
      /\ DOMAIN page = Editors /\ DOMAIN goal = Editors
      /\ \A o \in Editors : Sound(o)
  BY SoundIs DEF WsTypeOK
<1>2. PICK d \in EditsOf(e, config) :
        page' = [page EXCEPT ![e] = d.page] /\ goal' = [goal EXCEPT ![e] = Meant(d)]
  BY DEF OpenPage
<1>3. /\ at' = [at EXCEPT ![e] = "open"] /\ since' = [since EXCEPT ![e] = FALSE]
      /\ opened < MaxPages /\ opened' = opened + 1 /\ config' = config
  BY DEF OpenPage
<1>4. WsTypeOK'
  <2>1. opened' \in 0..MaxPages
    BY <1>1, <1>3, WorkspaceAssumption
  <2> QED
    BY <1>1, <1>3, <2>1 DEF WsTypeOK
<1>5. /\ DOMAIN page' = Editors /\ DOMAIN goal' = Editors
      /\ page'[e] = d.page /\ goal'[e] = Meant(d) /\ at'[e] = "open"
      /\ \A o \in Editors \ {e} : /\ page'[o] = page[o] /\ goal'[o] = goal[o]
                                  /\ at'[o] = at[o] /\ since'[o] = since[o]
  BY <1>1, <1>2, <1>3
<1>6. \A o \in Editors \ {e} : Sound(o)'
  BY <1>1, <1>3, <1>5, Untouched
<1>7. Sound(e)'
  <2>1. d.page \in (IF e \in Platform THEN Page ELSE CompanyPage)
    BY <1>1, EditsOfType
  <2>2. PageOpen(e)'
    BY <1>3, <1>5, <2>1 DEF PageOpen
  <2> QED
    BY <1>5, <2>2 DEF Sound
<1> QED
  BY <1>4, <1>5, <1>6, <1>7 DEF WsInv, Sound

LEMMA PostKeeps ==
  ASSUME WsInv, NEW e \in Editors, Post(e) \/ PostCompany(e)
  PROVE  WsInv'
<1>1. /\ config \in Config /\ at \in [Editors -> {"away", "open", "checked", "half", "done"}]
      /\ since \in [Editors -> BOOLEAN] /\ opened \in 0..MaxPages
      /\ DOMAIN page = Editors /\ DOMAIN goal = Editors
      /\ \A o \in Editors : Sound(o)
  BY SoundIs DEF WsTypeOK
<1>2. UNCHANGED <<config, goal, since, opened>>
  BY DEF Post, PostCompany
<1>3. CASE Leave(e, "away")
  <2>1. /\ at' \in [Editors -> {"away", "open", "checked", "half", "done"}]
        /\ DOMAIN page' = Editors /\ Sound(e)'
        /\ \A o \in Editors \ {e} : at'[o] = at[o] /\ page'[o] = page[o]
    BY <1>3, Gone
  <2>2. \A o \in Editors \ {e} : Sound(o)'
    BY <1>1, <1>2, <2>1, Untouched
  <2> QED
    BY <1>1, <1>2, <2>1, <2>2 DEF WsInv, Sound, WsTypeOK
<1>4. ASSUME NEW p, NEW to \in Config, p = page[e],
             ~since[e] => \E d \in EditsOf(e, config) :
                /\ p = d.page /\ goal[e] = Meant(d)
                /\ IF e \in Platform THEN ~Refused(p, Fields(config)) /\ to = Cleaned(p, Fields(config))
                                     ELSE to = Merged(p, config),
             at' = [at EXCEPT ![e] = "checked"],
             page' = [page EXCEPT ![e] = [to |-> to, from |-> config]]
      PROVE  WsInv'
  <2>1. /\ at' \in [Editors -> {"away", "open", "checked", "half", "done"}]
        /\ DOMAIN page' = Editors /\ at'[e] = "checked"
        /\ page'[e] = [to |-> to, from |-> config]
        /\ \A o \in Editors \ {e} : at'[o] = at[o] /\ page'[o] = page[o]
    BY <1>1, <1>4
  <2>2. \A o \in Editors \ {e} : Sound(o)'
    BY <1>1, <1>2, <2>1, Untouched
  <2>3. page'[e] \in [to : Config, from : Config] /\ page'[e].to = to /\ page'[e].from = config
    BY <1>1, <2>1
  <2>4. ASSUME ~since'[e]
        PROVE  \E d \in EditsOf(e, config) : Accepted(e, d.page, config)' /\ goal'[e] = Meant(d)
    BY <1>2, <1>4, <2>3, <2>4 DEF Accepted
  <2>5. PageChecked(e)'
    BY <1>2, <2>1, <2>3, <2>4 DEF PageChecked
  <2> QED
    BY <1>1, <1>2, <2>1, <2>2, <2>5 DEF WsInv, Sound, WsTypeOK
<1>5. CASE Post(e) /\ ~Refused(page[e], Fields(config))
  <2>1. PageOpen(e) /\ e \in Platform
    BY <1>1, <1>5 DEF Sound, Post
  <2>2. Cleaned(page[e], Fields(config)) \in Config
    BY <1>1, <2>1, FieldsType, CleanedType DEF PageOpen
  <2>3. /\ at' = [at EXCEPT ![e] = "checked"]
        /\ page' = [page EXCEPT ![e] = [to |-> Cleaned(page[e], Fields(config)), from |-> config]]
    BY <1>5 DEF Post
  <2> QED
    BY <1>4, <1>5, <2>1, <2>2, <2>3 DEF PageOpen
<1>6. CASE PostCompany(e)
  <2>1. PageOpen(e) /\ e \notin Platform
    BY <1>1, <1>6, WorkspaceAssumption DEF Sound, PostCompany
  <2>2. Merged(page[e], config) \in Config
    BY <1>1, <2>1, MergedIs DEF PageOpen
  <2>3. /\ at' = [at EXCEPT ![e] = "checked"]
        /\ page' = [page EXCEPT ![e] = [to |-> Merged(page[e], config), from |-> config]]
    BY <1>6 DEF PostCompany
  <2> QED
    BY <1>4, <2>1, <2>2, <2>3 DEF PageOpen
<1> QED
  BY <1>3, <1>5, <1>6 DEF Post

LEMMA SaveRowKeeps ==
  ASSUME WsInv, NEW e \in Editors, SaveRow(e)
  PROVE  WsInv'
<1>1. /\ config \in Config /\ at \in [Editors -> {"away", "open", "checked", "half", "done"}]
      /\ opened \in 0..MaxPages /\ DOMAIN page = Editors /\ DOMAIN goal = Editors
      /\ \A o \in Editors : Sound(o)
  BY SoundIs DEF WsTypeOK
<1>2. /\ at[e] = "checked" /\ e \in Platform
      /\ config' = [page[e].to EXCEPT !.ops = page[e].from.ops]
      /\ at' = [at EXCEPT ![e] = "half"] /\ SavedBy(e)
      /\ page' = page /\ goal' = goal /\ opened' = opened
  BY DEF SaveRow
<1>3. PageChecked(e)
  BY <1>1, <1>2 DEF Sound
<1>4. /\ since' \in [Editors -> BOOLEAN] /\ since'[e] = since[e]
      /\ \A o \in Editors \ {e} : at[o] \in {"open", "checked", "half"} => since'[o]
  BY <1>2, SavedByIs
<1>5. page[e].to \in Config /\ page[e].from.ops \in Ops
  BY <1>3 DEF PageChecked, Config
<1>6. config' \in Config
  BY <1>2, <1>5 DEF Config
<1>7. /\ at' \in [Editors -> {"away", "open", "checked", "half", "done"}] /\ at'[e] = "half"
      /\ \A o \in Editors \ {e} : at'[o] = at[o]
  BY <1>1, <1>2
<1>8. \A o \in Editors \ {e} : Sound(o)'
  BY <1>1, <1>2, <1>4, <1>7, SavedOver
<1>9. Sound(e)'
  <2>1. PageChecked(e)'
    <3>1. /\ page'[e] \in [to : Config, from : Config]
          /\ config' = [page'[e].to EXCEPT !.ops = page'[e].from.ops]
          /\ at'[e] = "half" => e \in Platform
      BY <1>2, <1>3 DEF PageChecked
    <3>2. ASSUME NEW p, Accepted(e, p, page[e].from) PROVE Accepted(e, p, page[e].from)'
      BY <1>2, <3>2 DEF Accepted
    <3>3. ~since'[e] => \E d \in EditsOf(e, page'[e].from) :
             Accepted(e, d.page, page[e].from)' /\ goal'[e] = Meant(d)
      BY <1>2, <1>3, <1>4, <3>2 DEF PageChecked
    <3> QED
      BY <3>1, <3>3, <1>7 DEF PageChecked
  <2> QED
    BY <1>7, <2>1 DEF Sound
<1>10. WsTypeOK' /\ DOMAIN page' = Editors /\ DOMAIN goal' = Editors
  BY <1>1, <1>2, <1>4, <1>6, <1>7 DEF WsTypeOK
<1> QED
  BY <1>8, <1>9, <1>10 DEF WsInv, Sound

LEMMA LastSaveKeeps ==
  ASSUME WsInv, NEW e \in Editors, SaveOps(e) \/ SaveCompany(e)
  PROVE  WsInv'
<1>1. /\ config \in Config /\ opened \in 0..MaxPages /\ DOMAIN goal = Editors
      /\ \A o \in Editors : Sound(o)
  BY SoundIs DEF WsTypeOK
<1>2. /\ at[e] \in {"checked", "half"} /\ Leave(e, "done") /\ SavedBy(e)
      /\ goal' = goal /\ opened' = opened
  BY DEF SaveOps, SaveCompany
<1>3. page[e].to \in Config
  BY <1>1, <1>2 DEF Sound, PageChecked
<1>4. /\ since' \in [Editors -> BOOLEAN]
      /\ \A o \in Editors \ {e} : at[o] \in {"open", "checked", "half"} => since'[o]
  BY <1>2, SavedByIs
<1>5. /\ at' \in [Editors -> {"away", "open", "checked", "half", "done"}]
      /\ DOMAIN page' = Editors /\ Sound(e)'
      /\ \A o \in Editors \ {e} : at'[o] = at[o] /\ page'[o] = page[o]
  BY <1>2, Gone
<1>6. config' \in Config
  <2>1. page[e].to.labels \in Labels /\ page[e].to.ops \in Ops
    BY <1>3, ConfigIs
  <2>2. CASE SaveOps(e)
    <3>1. config' = [config EXCEPT !.ops = page[e].to.ops]
      BY <2>2 DEF SaveOps
    <3> QED
      BY <1>1, <2>1, <3>1 DEF Config
  <2>3. CASE SaveCompany(e)
    <3> DEFINE o == [config.ops EXCEPT !.validity = page[e].to.ops.validity,
                                       !.prefix = page[e].to.ops.prefix]
    <3>1. config' = [config EXCEPT !.labels = page[e].to.labels, !.ops = o]
      BY <1>1, <2>3 DEF SaveCompany, Config
    <3>2. o \in Ops
      BY <1>1, <2>1, ConfigIs DEF Ops
    <3> HIDE DEF o
    <3> QED
      BY <1>1, <2>1, <3>1, <3>2 DEF Config
  <2> QED
    BY <2>2, <2>3
<1>7. \A o \in Editors \ {e} : Sound(o)'
  BY <1>1, <1>4, <1>5, SavedOver
<1> QED
  BY <1>1, <1>2, <1>4, <1>5, <1>6, <1>7 DEF WsInv, Sound, WsTypeOK

LEMMA PageDiesKeeps ==
  ASSUME WsInv, NEW e \in Editors, PageDies(e)
  PROVE  WsInv'
<1>1. /\ config \in Config /\ since \in [Editors -> BOOLEAN] /\ opened \in 0..MaxPages
      /\ DOMAIN goal = Editors /\ \A o \in Editors : Sound(o)
  BY SoundIs DEF WsTypeOK
<1>2. Leave(e, "away") /\ UNCHANGED <<config, goal, since, opened>>
  BY DEF PageDies
<1>3. /\ at' \in [Editors -> {"away", "open", "checked", "half", "done"}]
      /\ DOMAIN page' = Editors /\ Sound(e)'
      /\ \A o \in Editors \ {e} : at'[o] = at[o] /\ page'[o] = page[o]
  BY <1>2, Gone
<1>4. \A o \in Editors \ {e} : Sound(o)'
  BY <1>1, <1>2, <1>3, Untouched
<1> QED
  BY <1>1, <1>2, <1>3, <1>4 DEF WsInv, Sound, WsTypeOK

LEMMA WsInitSound == ASSUME WsInit PROVE WsInv
<1>1. config \in Config /\ opened \in 0..MaxPages
  BY DefaultsAre, WorkspaceAssumption DEF WsInit, WsIdle
<1>2. /\ at = [e \in Editors |-> "away"] /\ since = [e \in Editors |-> FALSE]
      /\ DOMAIN page = Editors /\ DOMAIN goal = Editors
  BY DEF WsInit, WsIdle
<1> QED
  BY <1>1, <1>2 DEF WsInv, WsTypeOK

(* Every step of the configuration keeps the invariant.                    *)
LEMMA WsNextKeeps == ASSUME WsInv, [WsNext]_wsVars PROVE WsInv'
<1>1. CASE UNCHANGED wsVars
  BY <1>1 DEF wsVars, WsInv, WsTypeOK, PageOpen, PageChecked, Accepted
<1>2. CASE WsNext
  <2>1. PICK e \in Editors :
          \/ OpenPage(e) \/ Post(e) \/ PostCompany(e)
          \/ SaveRow(e) \/ SaveOps(e) \/ SaveCompany(e) \/ PageDies(e)
    BY <1>2 DEF WsNext
  <2> QED
    BY <2>1, OpenPageKeeps, PostKeeps, SaveRowKeeps, LastSaveKeeps, PageDiesKeeps
<1> QED
  BY <1>1, <1>2

-----------------------------------------------------------------------------
(***************************************************************************)
(* What each save leaves, when nobody else saved since the page was        *)
(* opened.                                                                 *)
(***************************************************************************)
LEMMA EffectButOps ==
  ASSUME NEW c, NEW to, to.profile = c.profile, to.on = c.on, to.order = c.order,
         to.widgets = c.widgets, to.roles = c.roles, to.labels = c.labels, to.objects = c.objects
  PROVE  \A x \in Sections \ {"ops"} : Effect(to)[x] = Effect(c)[x]
<1>1. Visible(to) = Visible(c)
  BY DEF Visible
<1>2. Policies(to) = Policies(c)
  BY DEF Policies
<1>3. Sections \ {"ops"} =
        {"profile", "modules", "extras", "widgets", "roles", "labels", "objects"}
  BY DEF Sections
<1>4. /\ Effect(to)["profile"] = to.profile /\ Effect(to)["modules"] = Visible(to)
      /\ Effect(to)["extras"] = to.on \cap Extras /\ Effect(to)["widgets"] = to.widgets
      /\ Effect(to)["roles"] = Policies(to) /\ Effect(to)["labels"] = to.labels
      /\ Effect(to)["objects"] = to.objects
  BY EffectIs
<1>5. /\ Effect(c)["profile"] = c.profile /\ Effect(c)["modules"] = Visible(c)
      /\ Effect(c)["extras"] = c.on \cap Extras /\ Effect(c)["widgets"] = c.widgets
      /\ Effect(c)["roles"] = Policies(c) /\ Effect(c)["labels"] = c.labels
      /\ Effect(c)["objects"] = c.objects
  BY EffectIs
<1> QED
  BY <1>1, <1>2, <1>3, <1>4, <1>5

(* The first save writes the row without its operational columns.          *)
LEMMA ButOps ==
  ASSUME NEW c \in Config, NEW o
  PROVE  /\ [c EXCEPT !.ops = o].ops = o
         /\ \A x \in Sections \ {"ops"} : Effect([c EXCEPT !.ops = o])[x] = Effect(c)[x]
<1> DEFINE to == [c EXCEPT !.ops = o]
<1>1. /\ to.profile = c.profile /\ to.on = c.on /\ to.order = c.order /\ to.widgets = c.widgets
      /\ to.roles = c.roles /\ to.labels = c.labels /\ to.objects = c.objects /\ to.ops = o
  BY DEF Config
<1> HIDE DEF to
<1>2. \A x \in Sections \ {"ops"} : Effect(to)[x] = Effect(c)[x]
  BY <1>1, EffectButOps
<1> QED
  BY <1>1, <1>2 DEF to

(* What is kept with a checked page is what its edit comes to.             *)
LEMMA CheckedLands ==
  ASSUME NEW e \in Editors, PageChecked(e), ~since[e]
  PROVE  /\ page[e].to \in Config /\ page[e].from \in Config
         /\ \E d \in EditsOf(e, page[e].from) :
               /\ goal[e] = Meant(d) /\ LandsOn(page[e].from, d, page[e].to)
               /\ e \notin Platform => page[e].to = Merged(d.page, page[e].from)
                                       /\ d.page \in CompanyPage
<1> DEFINE from == page[e].from
           to == page[e].to
<1>1. from \in Config /\ to \in Config
  BY DEF PageChecked
<1>2. PICK d \in EditsOf(e, from) : Accepted(e, d.page, from) /\ goal[e] = Meant(d)
  BY DEF PageChecked
<1>3. CASE e \in Platform
  <2>1. d \in Edits(Fields(from))
    BY <1>2, <1>3 DEF EditsOf
  <2>2. ~Refused(d.page, Fields(from)) /\ to = Cleaned(d.page, Fields(from))
    BY <1>2, <1>3 DEF Accepted
  <2> HIDE DEF from, to
  <2>3. LandsOn(from, d, Cleaned(d.page, Fields(from)))
    BY <1>1, <2>1, <2>2, EditsLand
  <2>4. LandsOn(from, d, to)
    BY <2>2, <2>3
  <2> QED
    BY <1>1, <1>2, <1>3, <2>4 DEF from, to
<1>4. CASE e \notin Platform
  <2>1. d \in CompanyEdits(from)
    BY <1>2, <1>4 DEF EditsOf
  <2>2. to = Merged(d.page, from)
    BY <1>2, <1>4 DEF Accepted
  <2> HIDE DEF from, to
  <2>3. LandsOn(from, d, Merged(d.page, from)) /\ d.page \in CompanyPage
    BY <1>1, <2>1, CompanyEditsLand, CompanyEditsType
  <2> QED
    BY <1>1, <1>2, <1>4, <2>2, <2>3 DEF from, to
<1> QED
  BY <1>3, <1>4

(* The first save, the second, and the one of the company.                 *)
LEMMA RowLands ==
  ASSUME WsInv, NEW e \in Editors, SaveRow(e), ~since[e]
  PROVE  Lands(e)
<1> DEFINE from == page[e].from
           to == page[e].to
<1>1. /\ at[e] = "checked" /\ config' = [to EXCEPT !.ops = from.ops] /\ at' = [at EXCEPT ![e] = "half"]
  BY DEF SaveRow
<1>2. PageChecked(e) /\ at \in [Editors -> {"away", "open", "checked", "half", "done"}]
  BY <1>1 DEF WsInv, WsTypeOK
<1>3. config = from /\ at'[e] = "half"
  BY <1>1, <1>2 DEF PageChecked
<1>4. from \in Config /\ to \in Config
  BY <1>2, CheckedLands
<1>5. PICK d \in EditsOf(e, from) : goal[e] = Meant(d) /\ LandsOn(from, d, to)
  BY <1>2, CheckedLands
<1> HIDE DEF from, to
<1>6. Effect(config')["ops"] = Effect(config)["ops"]
  <2>1. config'.ops = from.ops
    BY <1>1, <1>4, ButOps
  <2> QED
    BY <1>3, <2>1, EffectIs
<1>7. \A x \in Sections \ {"ops"} : Effect(config')[x] = Effect(to)[x]
  BY <1>1, <1>4, ButOps
<1>8. goal[e].section = d.section /\ goal[e].want = d.want
  BY <1>5 DEF Meant
<1>9. CASE d.section = "all"
  BY <1>3, <1>8, <1>9 DEF Lands
<1>10. CASE d.section # "all"
  <2>1. /\ d.section \in Sections /\ Effect(to)[d.section] = d.want
        /\ \A x \in Sections \ {d.section} : Effect(to)[x] = Effect(from)[x]
    BY <1>5, <1>10 DEF LandsOn
  <2>2. \A x \in Sections \ {d.section} : Effect(config')[x] = Effect(config)[x]
    BY <1>3, <1>6, <1>7, <2>1
  <2>3. d.section # "ops" => Effect(config')[d.section] = d.want
    BY <1>7, <2>1
  <2>4. DOMAIN Effect(config) = Sections
    BY EffectIs
  <2> QED
    BY <1>3, <1>8, <1>10, <2>2, <2>3, <2>4 DEF Lands
<1> QED
  BY <1>9, <1>10

(* A last save writes what the edit comes to.                              *)
LEMMA DoneLands ==
  ASSUME NEW e \in Editors, NEW d, NEW from, NEW to, LandsOn(from, d, to), goal[e] = Meant(d),
         Effect(config') = Effect(to),
         \A x \in Sections \ {d.section} : Effect(config)[x] = Effect(from)[x] \/ Effect(config)[x] = Effect(to)[x]
  PROVE  Lands(e)
<1>1. goal[e].section = d.section /\ goal[e].want = d.want
  BY DEF Meant
<1>2. DOMAIN Effect(config) = Sections
  BY EffectIs
<1>3. CASE d.section = "all"
  BY <1>1, <1>3 DEF Lands, LandsOn
<1>4. CASE d.section # "all"
  <2>1. /\ Effect(to)[d.section] = d.want
        /\ \A x \in Sections \ {d.section} : Effect(to)[x] = Effect(from)[x]
    BY <1>4 DEF LandsOn
  <2> QED
    BY <1>1, <1>2, <1>4, <2>1 DEF Lands
<1> QED
  BY <1>3, <1>4

LEMMA OpsLand ==
  ASSUME WsInv, NEW e \in Editors, SaveOps(e), ~since[e]
  PROVE  Lands(e)
<1> DEFINE from == page[e].from
           to == page[e].to
<1>1. at[e] = "half" /\ config' = [config EXCEPT !.ops = to.ops]
  BY DEF SaveOps
<1>2. PageChecked(e)
  BY <1>1 DEF WsInv
<1>3. config = [to EXCEPT !.ops = from.ops]
  BY <1>1, <1>2 DEF PageChecked
<1>4. from \in Config /\ to \in Config
  BY <1>2, CheckedLands
<1>5. PICK d \in EditsOf(e, from) : goal[e] = Meant(d) /\ LandsOn(from, d, to)
  BY <1>2, CheckedLands
<1> HIDE DEF from, to
<1>6. config' = to
  BY <1>1, <1>3, <1>4 DEF Config
<1>7. \A x \in Sections \ {"ops"} : Effect(config)[x] = Effect(to)[x]
  BY <1>3, <1>4, ButOps
<1>8. Effect(config)["ops"] = Effect(from)["ops"]
  <2>1. config.ops = from.ops
    BY <1>3, <1>4, ButOps
  <2> QED
    BY <2>1, EffectIs
<1>9. \A x \in Sections : Effect(config)[x] = Effect(from)[x] \/ Effect(config)[x] = Effect(to)[x]
  BY <1>7, <1>8
<1> QED
  BY <1>5, <1>6, <1>9, DoneLands

LEMMA CompanyLands ==
  ASSUME WsInv, NEW e \in Editors, SaveCompany(e), ~since[e]
  PROVE  Lands(e)
<1> DEFINE from == page[e].from
           to == page[e].to
<1>1. /\ at[e] = "checked" /\ e \notin Platform
      /\ config' = [config EXCEPT !.labels = to.labels, !.ops.validity = to.ops.validity,
                                  !.ops.prefix = to.ops.prefix]
  BY WorkspaceAssumption DEF SaveCompany
<1>2. PageChecked(e)
  BY <1>1 DEF WsInv
<1>3. config = from
  BY <1>1, <1>2 DEF PageChecked
<1>4. from \in Config /\ to \in Config
  BY <1>2, CheckedLands
<1>5. PICK d \in EditsOf(e, from) :
        /\ goal[e] = Meant(d) /\ LandsOn(from, d, to)
        /\ to = Merged(d.page, from) /\ d.page \in CompanyPage
  BY <1>1, <1>2, CheckedLands
<1> HIDE DEF from, to
<1>6. /\ to.profile = from.profile /\ to.on = from.on /\ to.order = from.order
      /\ to.widgets = from.widgets /\ to.roles = from.roles /\ to.objects = from.objects
      /\ to.ops = [from.ops EXCEPT !.validity = d.page.validity]
  BY <1>4, <1>5, MergedIs
<1>7. from.ops \in Ops /\ to.ops \in Ops
  BY <1>4, ConfigIs
<1>8. [from.ops EXCEPT !.validity = to.ops.validity, !.prefix = to.ops.prefix] = to.ops
  BY <1>6, <1>7 DEF Ops
<1>9. config' = [from EXCEPT !.labels = to.labels, !.ops = to.ops]
  <2>1. config' = [from EXCEPT !.labels = to.labels,
                     !.ops = [from.ops EXCEPT !.validity = to.ops.validity, !.prefix = to.ops.prefix]]
    BY <1>1, <1>3, <1>4 DEF Config
  <2> QED
    BY <1>8, <2>1
<1>10. config' = to
  BY <1>4, <1>6, <1>9 DEF Config
<1> QED
  BY <1>3, <1>5, <1>10, DoneLands

LEMMA StepLands ==
  ASSUME WsInv, [WsNext]_wsVars, NEW o \in Editors,
         at[o] # at'[o], at'[o] \in {"half", "done"}, ~since[o]
  PROVE  Lands(o)
<1>1. at \in [Editors -> {"away", "open", "checked", "half", "done"}]
  BY DEF WsInv, WsTypeOK
<1>2. PICK e \in Editors :
        \/ OpenPage(e) \/ Post(e) \/ PostCompany(e)
        \/ SaveRow(e) \/ SaveOps(e) \/ SaveCompany(e) \/ PageDies(e)
  BY DEF WsNext, wsVars
<1>3. CASE OpenPage(e)
  BY <1>1, <1>3 DEF OpenPage
<1>4. CASE Post(e) \/ PostCompany(e)
  BY <1>1, <1>4 DEF Post, PostCompany, Leave
<1>5. CASE SaveRow(e)
  <2>1. o = e
    BY <1>1, <1>5 DEF SaveRow
  <2> QED
    BY <1>5, <2>1, RowLands
<1>6. CASE SaveOps(e)
  <2>1. o = e
    BY <1>1, <1>6 DEF SaveOps, Leave
  <2> QED
    BY <1>6, <2>1, OpsLand
<1>7. CASE SaveCompany(e)
  <2>1. o = e
    BY <1>1, <1>7 DEF SaveCompany, Leave
  <2> QED
    BY <1>7, <2>1, CompanyLands
<1>8. CASE PageDies(e)
  BY <1>1, <1>8 DEF PageDies, Leave
<1> QED
  BY <1>2, <1>3, <1>4, <1>5, <1>6, <1>7, <1>8

SettingsInv == scene = "settings" => WsInv

(***************************************************************************)
(* In the scene of the configuration an open page is one edit away from    *)
(* the row, and a checked one is what that edit comes to, as long as       *)
(* nobody else saved (WsInv): the forms are cleaned against the row that   *)
(* the post loads, and the saves write what was cleaned.                   *)
(***************************************************************************)
THEOREM SettingsAreSound == CompaniesSpec => []SettingsInv
<1>1. CompaniesInit => SettingsInv
  BY WsInitSound DEF CompaniesInit, SettingsInv
<1>2. SettingsInv /\ [CompaniesNext]_<<scene, vars, wsVars>> => SettingsInv'
  <2> SUFFICES ASSUME SettingsInv, [CompaniesNext]_<<scene, vars, wsVars>>, scene' = "settings"
               PROVE  WsInv'
    BY DEF SettingsInv
  <2>1. scene = "settings" /\ [WsNext]_wsVars
    BY DEF CompaniesNext
  <2> QED
    BY <2>1, WsNextKeeps DEF SettingsInv
<1> QED
  BY <1>1, <1>2, PTL DEF CompaniesSpec

(***************************************************************************)
(* Whatever row a page was opened on, the two saves of a superuser         *)
(* (OperationalTenantEditForm.clean and save) and the one of the company   *)
(* (TenantWorkspaceSettingsForm.save) change the section that was edited,  *)
(* to what was meant, and no other, unless somebody else saved since.      *)
(***************************************************************************)
THEOREM EditsStay == CompaniesSpec => EditsStayInTheirSection
<1>1. SettingsInv /\ [CompaniesNext]_<<scene, vars, wsVars>> =>
        [\A e \in Editors : at[e] # at'[e] /\ at'[e] \in {"half", "done"} /\ ~since[e] => Lands(e)]_wsVars
  <2> SUFFICES ASSUME SettingsInv, CompaniesNext, wsVars' # wsVars, NEW e \in Editors,
                      at[e] # at'[e], at'[e] \in {"half", "done"}, ~since[e]
               PROVE  Lands(e)
    OBVIOUS
  <2>1. scene = "settings" /\ [WsNext]_wsVars
    BY DEF CompaniesNext
  <2> QED
    BY <2>1, StepLands DEF SettingsInv
<1> QED
  BY <1>1, SettingsAreSound, PTL DEF CompaniesSpec, EditsStayInTheirSection

-----------------------------------------------------------------------------
(***************************************************************************)
(* The menus. Nothing here depends on how the configuration came to be.    *)
(***************************************************************************)
(* What fits is some of what there is.                                     *)
LEMMA FittingAre ==
  ASSUME config \in Config, NEW S
  PROVE  Fitting(S) \subseteq S
<1>1. Order \in Seq(Modules) /\ ToSet(Order) = Modules
  BY ConfigIs, CompleteLists DEF Order
<1>2. HeroFirst \in Seq(Modules)
  <2>1. "deals" \in ToSet(Order)
    BY <1>1, TheModules
  <2> QED
    BY <1>1, <2>1, FirstIs DEF HeroFirst
<1> DEFINE s == Only(HeroFirst, S)
           k == Min({Room, Len(s)})
<1>3. s \in Seq(Modules) /\ ToSet(s) \subseteq S
  BY <1>2, OnlySequence, OnlyElements
<1> HIDE DEF s
<1>4. k \in 0 .. Len(s)
  <2>1. Room \in Nat /\ Len(s) \in Nat
    BY <1>3 DEF Room
  <2>2. \E x \in {Room, Len(s)} : \A y \in {Room, Len(s)} : x =< y
    <3> HIDE DEF s
    <3> QED
      BY <2>1
  <2>3. k \in {Room, Len(s)} /\ \A y \in {Room, Len(s)} : k =< y
    BY <2>2 DEF Min
  <2> HIDE DEF k
  <2> QED
    BY <2>1, <2>3
<1> HIDE DEF k
<1>5. ToSet(SubSeq(s, 1, k)) \subseteq ToSet(s)
  <2>1. /\ DOMAIN SubSeq(s, 1, k) = 1 .. k /\ DOMAIN s = 1 .. Len(s)
        /\ \A i \in 1 .. k : SubSeq(s, 1, k)[i] = s[i]
    BY <1>3, <1>4
  <2> QED
    BY <1>4, <2>1 DEF ToSet
<1> QED
  BY <1>3, <1>5 DEF Fitting, s, k

LEMMA InOrderIs ==
  ASSUME config \in Config, NEW S \in SUBSET Modules
  PROVE  ToSet(InOrder(S)) = S
<1>1. Order \in Seq(Modules) /\ ToSet(Order) = Modules
  BY ConfigIs, CompleteLists DEF Order
<1>2. ToSet(Only(Order, S)) = ToSet(Order) \cap S
  BY <1>1, OnlyElements
<1> QED
  BY <1>1, <1>2 DEF InOrder

LEMMA ManagedAre == {"entities", "deals"} \subseteq Modules /\ Managed \subseteq Modules
BY TheModules DEF Managed

LEMMA MenuModules ==
  ASSUME config \in Config, NEW v
  PROVE  /\ ToSet(PrimaryModules(v)) = {m \in {"entities", "deals"} : Enabled(v, m, "view")}
         /\ ToSet(ManagementModules(v)) = {m \in Managed : Enabled(v, m, "view")}
<1>1. {m \in {"entities", "deals"} : Enabled(v, m, "view")} \in SUBSET Modules
  BY ManagedAre
<1>2. {m \in Managed : Enabled(v, m, "view")} \in SUBSET Modules
  BY ManagedAre
<1> QED
  BY <1>1, <1>2, InOrderIs DEF PrimaryModules, ManagementModules

(* The links that a viewer is offered lead somewhere.                      *)
LEMMA ListAdmits ==
  ASSUME NEW v, NEW m, Enabled(v, m, "view")
  PROVE  Admitted(v, List(m))
BY DEF Admitted, List, Gate, Enabled

LEMMA NewAdmits ==
  ASSUME NEW v, NEW m, Enabled(v, m, "edit")
  PROVE  Admitted(v, New(m))
BY DEF Admitted, New, Gate, Enabled

LEMMA NavigationAdmits ==
  ASSUME config \in Config, NEW v, NEW link \in Navigation(v)
  PROVE  Admitted(v, link)
<1>1. CASE link = Hub /\ Enabled(v, "reports", "view")
  BY <1>1 DEF Admitted, Hub, Gate, Enabled
<1>2. ASSUME NEW m, link = List(m), Enabled(v, m, "view") PROVE Admitted(v, link)
  BY <1>2, ListAdmits
<1>3. CASE link = Settings /\ Manages(v)
  BY <1>3 DEF Admitted, Settings, Gate
<1>4. \/ link = Hub /\ Enabled(v, "reports", "view")
      \/ \E m \in ToSet(PrimaryModules(v)) \cup ToSet(ManagementModules(v)) : link = List(m)
      \/ link = Settings /\ Manages(v)
  BY DEF Navigation, If
<1> QED
  BY <1>1, <1>2, <1>3, <1>4, MenuModules

Turns(v, link) == link = PipelineSettings /\ ~May(v, <<"deals", "view">>)

LEMMA PaletteAdmits ==
  ASSUME config \in Config, NEW v, NEW link \in Palette(v)
  PROVE  Admitted(v, link) \/ Turns(v, link)
<1>1. \/ link \in Navigation(v)
      \/ link = Search
      \/ link = Catalog /\ May(v, <<"objects", "view">>)
      \/ link = NewObject /\ May(v, <<"objects", "edit">>)
      \/ \E m : link = New(m) /\ Enabled(v, m, "edit")
      \/ link = PipelineSettings /\ Enabled(v, "deals", "edit") /\ Manages(v)
      \/ link = List("collab") /\ Enabled(v, "collab", "view")
  BY DEF Palette, If
<1>2. Admitted(v, Search)
  BY DEF Admitted, Search, Gate
<1>3. CASE link = Catalog /\ May(v, <<"objects", "view">>)
  BY <1>3 DEF Admitted, Catalog, Gate
<1>4. CASE link = NewObject /\ May(v, <<"objects", "edit">>)
  BY <1>4 DEF Admitted, NewObject, Gate
<1>5. CASE link = PipelineSettings /\ Enabled(v, "deals", "edit") /\ Manages(v)
  BY <1>5 DEF Admitted, PipelineSettings, Gate, Enabled, Turns
<1> QED
  BY <1>1, <1>2, <1>3, <1>4, <1>5, NavigationAdmits, ListAdmits, NewAdmits

LEMMA DashboardAdmits ==
  ASSUME config \in Config, NEW v, NEW link \in Dashboard(v)
  PROVE  Admitted(v, link)
<1>1. ASSUME link \in Cards(v)
      PROVE  \E m : link = List(m) /\ Enabled(v, m, "view")
  <2> DEFINE S == {n \in Counted : Enabled(v, n, "view")}
  <2>1. PICK m \in Fitting(S) : link = List(m)
    BY <1>1 DEF Cards, If
  <2>2. Fitting(S) \subseteq S
    BY FittingAre
  <2> QED
    BY <2>1, <2>2
<1>2. ASSUME link \in Actions(v)
      PROVE  \E m : \/ link = List(m) /\ Enabled(v, m, "view")
                    \/ link = New(m) /\ Enabled(v, m, "edit")
  <2> DEFINE S == {n \in Counted : Enabled(v, n, IF n = "reports" THEN "view" ELSE "edit")}
  <2>1. PICK m \in Fitting(S) : link = IF m = "reports" THEN List(m) ELSE New(m)
    BY <1>2 DEF Actions, If
  <2>2. Fitting(S) \subseteq S
    BY FittingAre
  <2> QED
    BY <2>1, <2>2
<1>3. ASSUME link \in Signals(v) \cup Lanes(v) \cup Panels(v)
      PROVE  \E m : \/ link = List(m) /\ Enabled(v, m, "view")
                    \/ link = New(m) /\ Enabled(v, m, "edit")
  BY <1>3 DEF Signals, Lanes, Panels, If
<1>4. link \in Cards(v) \cup Actions(v) \cup Signals(v) \cup Lanes(v) \cup Panels(v)
  BY DEF Dashboard, If
<1> QED
  BY <1>1, <1>2, <1>3, <1>4, ListAdmits, NewAdmits

(* Whoever is admitted to a listed module has it in the menus.             *)
LEMMA MenusComplete ==
  ASSUME config \in Config, NEW v, NEW m \in ListedModules, Admitted(v, List(m))
  PROVE  List(m) \in Navigation(v)
<1>1. Enabled(v, m, "view")
  BY DEF Admitted, List, Gate, Enabled
<1>2. m \in ToSet(PrimaryModules(v)) \cup ToSet(ManagementModules(v))
  BY <1>1, MenuModules DEF ListedModules
<1> QED
  BY <1>2 DEF Navigation

(* The menus are in the order the company sees.                            *)
LEMMA MenusInOrder ==
  ASSUME config \in Config, NEW S, S \subseteq config.on \cap Modules
  PROVE  InOrder(S) = Only(Visible(config), ToSet(InOrder(S)))
<1>1. Order \in Seq(Modules)
  BY ConfigIs, CompleteLists DEF Order
<1>2. ToSet(InOrder(S)) = S
  BY InOrderIs
<1>3. Only(Visible(config), S) = Only(Order, config.on \cap S)
  BY <1>1, OnlyOnly DEF Visible, Order
<1>4. config.on \cap S = S
  OBVIOUS
<1> QED
  BY <1>2, <1>3, <1>4 DEF InOrder

LEMMA AnyMenusMatch ==
  ASSUME config \in Config
  PROVE  MenusMatchGates
<1> SUFFICES ASSUME NEW v \in Viewers
    PROVE /\ \A link \in Palette(v) \cup Dashboard(v) :
              Admitted(v, link) \/ (link = PipelineSettings /\ ~May(v, <<"deals", "view">>))
          /\ \A m \in ListedModules : Admitted(v, List(m)) => List(m) \in Navigation(v)
          /\ \A s \in {PrimaryModules(v), ManagementModules(v)} :
              s = Only(Visible(config), ToSet(s))
  BY DEF MenusMatchGates
<1>1. \A link \in Palette(v) \cup Dashboard(v) :
        Admitted(v, link) \/ (link = PipelineSettings /\ ~May(v, <<"deals", "view">>))
  BY PaletteAdmits, DashboardAdmits DEF Turns
<1>2. \A m \in ListedModules : Admitted(v, List(m)) => List(m) \in Navigation(v)
  BY MenusComplete
<1>3. PrimaryModules(v) = Only(Visible(config), ToSet(PrimaryModules(v)))
  <2> DEFINE S == {m \in {"entities", "deals"} : Enabled(v, m, "view")}
  <2>1. S \subseteq config.on \cap Modules
    BY ManagedAre DEF Enabled
  <2> QED
    BY <2>1, MenusInOrder DEF PrimaryModules
<1>4. ManagementModules(v) = Only(Visible(config), ToSet(ManagementModules(v)))
  <2> DEFINE S == {m \in Managed : Enabled(v, m, "view")}
  <2>1. S \subseteq config.on \cap Modules
    BY ManagedAre DEF Enabled
  <2> QED
    BY <2>1, MenusInOrder DEF ManagementModules
<1> QED
  BY <1>1, <1>2, <1>3, <1>4

(***************************************************************************)
(* Whatever the configuration came to, the menus, the palette and the      *)
(* dashboard offer no page whose gate turns the viewer away, but the       *)
(* settings of pipelines, and list every module its viewer is admitted to, *)
(* in the order the company sees (build_navigation_model against the       *)
(* decorators of the pages).                                               *)
(***************************************************************************)
THEOREM MenusMatch == CompaniesSpec => []SavedMenusMatchGates
<1>1. SettingsInv => SavedMenusMatchGates
  BY AnyMenusMatch DEF SettingsInv, SavedMenusMatchGates, WsInv, WsTypeOK
<1> QED
  BY <1>1, SettingsAreSound, PTL

(***************************************************************************)
(* What the creations promise, they promise beside the configuration: a    *)
(* behaviour of both scenes is one of create_tenant, and the theorems      *)
(* below hold of it.                                                       *)
(***************************************************************************)
THEOREM ScenesAreCreations == CompaniesSpec => Spec
<1>1. CompaniesInit => Init
  BY DEF CompaniesInit
<1>2. [CompaniesNext]_<<scene, vars, wsVars>> => [Next]_vars
  BY DEF CompaniesNext
<1> QED
  BY <1>1, <1>2, PTL DEF CompaniesSpec, Spec

-----------------------------------------------------------------------------
(***************************************************************************)
(* The creations of companies (create_tenant): what each holds at each     *)
(* step, whose users they are, and that a clean-up wipes its own.          *)
(***************************************************************************)
USE IdAssumption, NothingAssumption

LEMMA NewCreationIsOne ==
  ASSUME NEW do \in {"unborn", "client"}, NEW n \in Names \union {Nothing},
         NEW d \in Domains \union {Nothing}, NEW p \in People \union {Nothing},
         NEW who \in Ids \union {NoId, SomeoneElse}
  PROVE  Creation(do, n, d, p, who) \in Creations
BY DEF Creation, Creations, Steps

(* A step of one creation leaves the others where they are, and what it was*)
(* asked for as it is.                                                     *)
LEMMA OneMoves ==
  ASSUME TypeOK, MadeUsers, NEW i \in Ids, Advance(i)
  PROVE  /\ job' \in [Ids -> Creations]
         /\ \A j \in Ids \ {i} : job'[j] = job[j]
         /\ job'[i].name = job[i].name /\ job'[i].domain = job[i].domain
         /\ job'[i].admin = job[i].admin
         /\ job[i].do \in Steps /\ job'[i].do \in (Steps \union Ends) \ {"client"}
<1>0. job[i] \in Creations /\ job \in [Ids -> Creations]
  BY DEF TypeOK
<1>1. ASSUME NEW to \in (Steps \union Ends) \ {"client"}, Go(i, to), job[i].do \in Steps
      PROVE  /\ job' \in [Ids -> Creations]
             /\ \A j \in Ids \ {i} : job'[j] = job[j]
             /\ job'[i].name = job[i].name /\ job'[i].domain = job[i].domain
             /\ job'[i].admin = job[i].admin
             /\ job[i].do \in Steps /\ job'[i].do \in (Steps \union Ends) \ {"client"}
  BY <1>0, <1>1 DEF Go, Creations
<1>2. CASE SaveClient(i) \/ SaveDomain(i) \/ SaveConfig(i) \/ CreateSchema(i) \/ Seed(i)
  <2>1. job[i].do \in Steps /\ \E to \in {"domain", "refused", "config", "schema", "seed",
                                "drop schema", "created", "find"} : Go(i, to)
    BY <1>2 DEF SaveClient, SaveDomain, SaveConfig, CreateSchema, Seed, Steps
  <2> QED
    BY <1>1, <2>1 DEF Steps, Ends
<1>3. CASE Join(i) \/ JoinFails(i) \/ Wipe(i) \/ DropSchema(i) \/ DropRow(i) \/ Stuck(i) \/ Dies(i)
  <2>1. job[i].do \in Steps /\ \E to \in {"event", "wipe", "drop schema", "drop row", "refused",
                                "stuck", "dead"} : Go(i, to)
    BY <1>3 DEF Join, JoinFails, Wipe, DropSchema, DropRow, Stuck, Dies, Running, Steps
  <2> QED
    BY <1>1, <2>1 DEF Steps, Ends
<1>4. CASE FindUser(i)
  <2>1. job[i].do = "find"
    BY <1>4 DEF FindUser
  <2>2. PICK who : job' = [job EXCEPT ![i].do = IF who = NoId THEN "user" ELSE "join", ![i].who = who]
                   /\ who = (IF job[i].who # NoId THEN job[i].who ELSE users[job[i].admin])
    BY <1>4 DEF FindUser
  <2>3. job[i].admin \in People
    BY <1>0, <2>1 DEF MadeUsers, Creations
  <2>4. who \in Ids \union {NoId, SomeoneElse}
    BY <1>0, <2>2, <2>3 DEF TypeOK, Creations
  <2> QED
    BY <1>0, <2>1, <2>2, <2>4 DEF Creations, Steps
<1>5. CASE MakeUser(i)
  BY <1>0, <1>5 DEF MakeUser, Creations, Steps
<1>6. CASE RecordEvent(i) \/ Fails(i)
  <2>1. (job[i].do = "wipe") \in BOOLEAN
    OBVIOUS
  <2>2. CASE RecordEvent(i)
    <3>1. job[i].do = "event"
      BY <2>2 DEF RecordEvent
    <3>2. CASE Go(i, "created")
      BY <1>1, <3>1, <3>2 DEF Steps, Ends
    <3>3. CASE job' = [job EXCEPT ![i].do = "drop schema", ![i].kept = TRUE]
      BY <1>0, <3>1, <3>3 DEF Creations, Steps, Ends
    <3> QED
      BY <2>2, <3>2, <3>3 DEF RecordEvent
  <2>3. CASE Fails(i)
    BY <1>0, <2>1, <2>3 DEF Fails, Creations, Steps, Ends
  <2> QED
    BY <1>6, <2>2, <2>3
<1> QED
  BY <1>2, <1>3, <1>4, <1>5, <1>6 DEF Advance

LEMMA AskKeepsRows ==
  ASSUME TypeOK, NEW i \in Ids, Ask(i)
  PROVE  /\ job' \in [Ids -> Creations]
         /\ \A j \in Ids \ {i} : job'[j] = job[j]
         /\ job[i].do = "unborn" /\ job'[i].do = "client" /\ ~job'[i].made
         /\ job'[i].name \in Names /\ job'[i].domain \in Domains
         /\ UNCHANGED <<clients, domains, schemas, seeded, users, owners>>
<1>1. PICK n \in Names, d \in Domains, p \in People \union {Nothing} :
        job' = [job EXCEPT ![i] = Creation("client", n, d, p, IF p = Nothing THEN NoId ELSE users[p])]
  BY DEF Ask
<1>2. (IF p = Nothing THEN NoId ELSE users[p]) \in Ids \union {NoId, SomeoneElse}
  BY <1>1 DEF TypeOK
<1>3. Creation("client", n, d, p, IF p = Nothing THEN NoId ELSE users[p]) \in Creations
  BY <1>1, <1>2, NewCreationIsOne
<1>4. job'[i] = Creation("client", n, d, p, IF p = Nothing THEN NoId ELSE users[p])
  BY <1>1 DEF TypeOK
<1> QED
  BY <1>1, <1>3, <1>4 DEF Ask, Rows, Creation, TypeOK

(* The only steps that write each of the rows.                             *)
LEMMA WhoWrites ==
  ASSUME NEW i \in Ids, Advance(i)
  PROVE  /\ clients' = clients \/ SaveClient(i) \/ DropRow(i)
         /\ domains' = domains \/ SaveDomain(i) \/ DropRow(i)
         /\ schemas' = schemas \/ CreateSchema(i) \/ DropSchema(i)
         /\ seeded' = seeded \/ Seed(i) \/ DropSchema(i)
         /\ users' = users \/ MakeUser(i) \/ Wipe(i)
         /\ owners' = owners \/ Join(i) \/ Wipe(i) \/ DropRow(i)
<1>1. CASE SaveClient(i) \/ SaveDomain(i) \/ SaveConfig(i) \/ CreateSchema(i) \/ Seed(i)
  BY <1>1 DEF SaveClient, SaveDomain, SaveConfig, CreateSchema, Seed, Rows
<1>2. CASE FindUser(i) \/ MakeUser(i) \/ Join(i) \/ JoinFails(i) \/ Wipe(i)
  BY <1>2 DEF FindUser, MakeUser, Join, JoinFails, Wipe, Rows
<1>3. CASE RecordEvent(i) \/ Fails(i) \/ DropSchema(i) \/ DropRow(i) \/ Stuck(i) \/ Dies(i)
  BY <1>3 DEF RecordEvent, Fails, DropSchema, DropRow, Stuck, Dies, Rows
<1> QED
  BY <1>1, <1>2, <1>3 DEF Advance

LEMMA StepKeepsTypes ==
  ASSUME TypeOK, MadeUsers, \A i \in Ids : Asked(i), Next
  PROVE  TypeOK'
<1>1. ASSUME NEW i \in Ids, Ask(i) PROVE TypeOK'
  BY <1>1, AskKeepsRows DEF TypeOK
<1>2. ASSUME NEW i \in Ids, Advance(i) PROVE TypeOK'
  <2>1. job' \in [Ids -> Creations] /\ job[i] \in Creations /\ job[i].do \in Steps
    BY <1>2, OneMoves DEF TypeOK
  <2>2. job[i].name \in Names
    BY <2>1 DEF Asked, Steps
  <2>0. /\ clients' = clients \/ SaveClient(i) \/ DropRow(i)
        /\ domains' = domains \/ SaveDomain(i) \/ DropRow(i)
        /\ schemas' = schemas \/ CreateSchema(i) \/ DropSchema(i)
        /\ seeded' = seeded \/ Seed(i) \/ DropSchema(i)
        /\ users' = users \/ MakeUser(i) \/ Wipe(i)
        /\ owners' = owners \/ Join(i) \/ Wipe(i) \/ DropRow(i)
    BY <1>2, WhoWrites
  <2>3. clients' \in [Names -> Ids \union {NoId}]
    <3>1. CASE clients' = clients
      BY <3>1 DEF TypeOK
    <3>2. CASE SaveClient(i)
      BY <3>2 DEF TypeOK, SaveClient
    <3>3. CASE DropRow(i)
      BY <3>3 DEF TypeOK, DropRow
    <3> QED
      BY <2>0, <3>1, <3>2, <3>3
  <2>4. domains' \in [Domains -> Ids \union {NoId}]
    <3>1. CASE domains' = domains
      BY <3>1 DEF TypeOK
    <3>2. CASE SaveDomain(i)
      BY <3>2 DEF TypeOK, SaveDomain
    <3>3. CASE DropRow(i)
      BY <3>3 DEF TypeOK, DropRow
    <3> QED
      BY <2>0, <3>1, <3>2, <3>3
  <2>5. schemas' \in [Names -> Ids \union {NoId}]
    <3>1. CASE schemas' = schemas
      BY <3>1 DEF TypeOK
    <3>2. CASE CreateSchema(i)
      BY <3>2 DEF TypeOK, CreateSchema
    <3>3. CASE DropSchema(i)
      BY <3>3 DEF TypeOK, DropSchema
    <3> QED
      BY <2>0, <3>1, <3>2, <3>3
  <2>6. seeded' \in SUBSET Names
    <3>1. CASE seeded' = seeded
      BY <3>1 DEF TypeOK
    <3>2. CASE Seed(i)
      BY <2>2, <3>2 DEF TypeOK, Seed
    <3>3. CASE DropSchema(i)
      BY <2>2, <3>3 DEF TypeOK, DropSchema
    <3> QED
      BY <2>0, <3>1, <3>2, <3>3
  <2>7. users' \in [People -> Ids \union {NoId, SomeoneElse}]
    <3>1. CASE users' = users
      BY <3>1 DEF TypeOK
    <3>2. CASE MakeUser(i)
      BY <3>2 DEF TypeOK, MakeUser
    <3>3. CASE Wipe(i)
      BY <3>3 DEF TypeOK, Wipe
    <3> QED
      BY <2>0, <3>1, <3>2, <3>3
  <2>8. Join(i) => job[i].admin \in People
    BY <2>1 DEF Join, MadeUsers, Creations
  <2>9. owners' \in SUBSET (Ids \X People)
    <3>1. CASE owners' = owners
      BY <3>1 DEF TypeOK
    <3>2. CASE Join(i)
      BY <2>8, <3>2 DEF TypeOK, Join
    <3>3. CASE Wipe(i)
      BY <2>8, <3>3 DEF TypeOK, Wipe
    <3>4. CASE DropRow(i)
      BY <2>8, <3>4 DEF TypeOK, DropRow
    <3> QED
      BY <2>0, <3>1, <3>2, <3>3, <3>4
  <2> QED
    BY <2>1, <2>3, <2>4, <2>5, <2>6, <2>7, <2>9 DEF TypeOK
<1> QED
  BY <1>1, <1>2 DEF Next

LEMMA StepKeepsAsked ==
  ASSUME TypeOK, MadeUsers, \A i \in Ids : Asked(i), Next
  PROVE  \A i \in Ids : Asked(i)'
<1>1. ASSUME NEW i \in Ids, Ask(i), NEW j \in Ids PROVE Asked(j)'
  BY <1>1, AskKeepsRows DEF Asked
<1>2. ASSUME NEW i \in Ids, Advance(i), NEW j \in Ids PROVE Asked(j)'
  BY <1>2, OneMoves DEF Asked, Steps
<1> QED
  BY <1>1, <1>2 DEF Next

(* A creation keeps what it holds: the others only write where nobody is,  *)
(* and drop what is theirs.                                                *)
LEMMA StepKeepsHeld ==
  ASSUME TypeOK, MadeUsers, NamesAreOwned, \A i \in Ids : Asked(i) /\ Held(i), Next
  PROVE  \A i \in Ids : Held(i)'
<1>1. ASSUME NEW i \in Ids, Ask(i), NEW j \in Ids PROVE Held(j)'
  <2>1. UNCHANGED <<clients, domains, schemas, seeded>> /\ job'[i].do = "client"
        /\ \A k \in Ids \ {i} : job'[k] = job[k]
    BY <1>1, AskKeepsRows
  <2>2. CASE j = i
    BY <2>1, <2>2 DEF Held, Holds, HoldsDomain, HoldsSchema
  <2>3. CASE j # i
    BY <2>1, <2>3 DEF Held
  <2> QED
    BY <2>2, <2>3
<1>2. ASSUME NEW i \in Ids, Advance(i) PROVE \A j \in Ids \ {i} : Held(j)'
  <2> SUFFICES ASSUME NEW j \in Ids \ {i} PROVE Held(j)'
    OBVIOUS
  <2>0. job'[j] = job[j] /\ Asked(j) /\ Held(j) /\ Asked(i) /\ Held(i) /\ job[i].do \in Steps
    BY <1>2, OneMoves
  <2>1. job[i].name \in Names /\ (job[j].do # "unborn" => job[j].name \in Names /\ job[j].domain \in Domains)
    BY <2>0 DEF Asked, Steps
  <2>2. job[j].do \in Holds => clients'[job[j].name] = j
    <3> SUFFICES ASSUME job[j].do \in Holds PROVE clients'[job[j].name] = j
      OBVIOUS
    <3>1. job[j].name \in Names /\ clients[job[j].name] = j
      BY <2>0, <2>1 DEF Held, Holds
    <3>2. CASE SaveClient(i)
      BY <3>1, <3>2 DEF SaveClient, TypeOK
    <3>3. CASE DropRow(i)
      BY <3>1, <3>3 DEF DropRow, TypeOK
    <3> QED
      BY <1>2, <3>1, <3>2, <3>3, WhoWrites
  <2>3. job[j].do \in HoldsDomain => domains'[job[j].domain] = j
    <3> SUFFICES ASSUME job[j].do \in HoldsDomain PROVE domains'[job[j].domain] = j
      OBVIOUS
    <3>1. job[j].domain \in Domains /\ domains[job[j].domain] = j
      BY <2>0, <2>1 DEF Held, HoldsDomain
    <3>2. CASE SaveDomain(i)
      BY <3>1, <3>2 DEF SaveDomain, TypeOK
    <3>3. CASE DropRow(i)
      BY <3>1, <3>3 DEF DropRow, TypeOK
    <3> QED
      BY <1>2, <3>1, <3>2, <3>3, WhoWrites
  <2>4. DropSchema(i) => (job[j].do \in Holds => job[j].name # job[i].name)
    BY <2>0 DEF DropSchema, Held, Holds
  <2>5. job[j].do \in HoldsSchema => schemas'[job[j].name] = j
    <3> SUFFICES ASSUME job[j].do \in HoldsSchema PROVE schemas'[job[j].name] = j
      OBVIOUS
    <3>1. job[j].name \in Names /\ schemas[job[j].name] = j /\ job[j].do \in Holds
      BY <2>0, <2>1 DEF Held, HoldsSchema, Holds
    <3>2. CASE CreateSchema(i)
      BY <3>1, <3>2 DEF CreateSchema, TypeOK
    <3>3. CASE DropSchema(i)
      BY <2>4, <3>1, <3>3 DEF DropSchema, TypeOK
    <3> QED
      BY <1>2, <3>1, <3>2, <3>3, WhoWrites
  <2>6. job[j].do \in HoldsSchema \ {"seed"} => job[j].name \in seeded'
    <3> SUFFICES ASSUME job[j].do \in HoldsSchema \ {"seed"} PROVE job[j].name \in seeded'
      OBVIOUS
    <3>1. job[j].name \in Names /\ job[j].name \in seeded /\ job[j].do \in Holds
      BY <2>0, <2>1 DEF Held, HoldsSchema, Holds
    <3>2. CASE Seed(i)
      BY <3>1, <3>2 DEF Seed
    <3>3. CASE DropSchema(i)
      BY <2>4, <3>1, <3>3 DEF DropSchema
    <3> QED
      BY <1>2, <3>1, <3>2, <3>3, WhoWrites
  <2>7. job[j].do = "drop row" => schemas'[job[j].name] = NoId
    <3> SUFFICES ASSUME job[j].do = "drop row" PROVE schemas'[job[j].name] = NoId
      OBVIOUS
    <3>1. job[j].name \in Names /\ clients[job[j].name] = j /\ schemas[job[j].name] = NoId
      BY <2>0, <2>1 DEF Held, Holds
    <3>2. CASE CreateSchema(i)
      <4>1. clients[job[i].name] = i
        BY <2>0, <3>2 DEF CreateSchema, Held, Holds
      <4> QED
        BY <3>1, <3>2, <4>1 DEF CreateSchema, TypeOK
    <3>3. CASE DropSchema(i)
      BY <3>1, <3>3 DEF DropSchema, TypeOK
    <3> QED
      BY <1>2, <3>1, <3>2, <3>3, WhoWrites
  <2> QED
    BY <2>0, <2>2, <2>3, <2>5, <2>6, <2>7 DEF Held
<1>3. ASSUME NEW i \in Ids, Advance(i) PROVE Held(i)'
  <2>0. /\ job[i] \in Creations /\ Asked(i) /\ Held(i) /\ job[i].do \in Steps
        /\ job'[i].name = job[i].name /\ job'[i].domain = job[i].domain
        /\ job \in [Ids -> Creations]
    BY <1>3, OneMoves DEF TypeOK
  <2>1. job[i].name \in Names /\ job[i].domain \in Domains
    BY <2>0 DEF Asked, Steps
  <2>a. ASSUME NEW to, Go(i, to) PROVE job'[i].do = to
    BY <2>0, <2>a DEF Go, Creations
  <2>2. CASE SaveClient(i)
    <3>1. CASE clients' = [clients EXCEPT ![job[i].name] = i] /\ Go(i, "domain")
      <4>1. clients'[job[i].name] = i /\ job'[i].do = "domain"
        BY <2>1, <2>a, <3>1 DEF TypeOK
      <4> QED
        BY <2>0, <4>1 DEF Held, HoldsDomain, HoldsSchema
    <3>2. CASE Go(i, "refused")
      <4>1. job'[i].do = "refused"
        BY <2>a, <3>2
      <4> QED
        BY <4>1 DEF Held, Holds, HoldsDomain, HoldsSchema
    <3> QED
      BY <2>2, <3>1, <3>2 DEF SaveClient
  <2>3. CASE SaveDomain(i) \/ SaveConfig(i)
    <3>1. clients'[job[i].name] = i
      BY <2>0, <2>3 DEF SaveDomain, SaveConfig, Rows, Held, Holds
    <3>2. domains'[job[i].domain] = i
      <4>1. CASE SaveDomain(i)
        BY <2>1, <4>1 DEF SaveDomain, TypeOK
      <4>2. CASE SaveConfig(i)
        BY <2>0, <4>2 DEF SaveConfig, Rows, Held, HoldsDomain
      <4> QED
        BY <2>3, <4>1, <4>2
    <3>3. job'[i].do \in {"config", "schema"}
      BY <2>3, <2>a DEF SaveDomain, SaveConfig
    <3> QED
      BY <2>0, <3>1, <3>2, <3>3 DEF Held, HoldsSchema
  <2>4. CASE CreateSchema(i)
    <3>1. clients[job[i].name] = i /\ domains[job[i].domain] = i
      BY <2>0, <2>4 DEF CreateSchema, Held, Holds, HoldsDomain
    <3>2. schemas'[job[i].name] = i
      BY <2>1, <2>4, <3>1 DEF CreateSchema, NamesAreOwned, TypeOK
    <3>3. job'[i].do \in {"seed", "drop schema"} /\ UNCHANGED <<clients, domains>>
      BY <2>4, <2>a DEF CreateSchema
    <3> QED
      BY <2>0, <3>1, <3>2, <3>3 DEF Held, HoldsSchema
  <2>5. CASE Seed(i)
    <3>1. clients[job[i].name] = i /\ domains[job[i].domain] = i /\ schemas[job[i].name] = i
      BY <2>0, <2>5 DEF Seed, Held, Holds, HoldsDomain, HoldsSchema
    <3>2. job'[i].do \in {"created", "find", "drop schema"} /\ UNCHANGED <<clients, domains, schemas>>
          /\ job[i].name \in seeded'
      BY <2>5, <2>a DEF Seed
    <3> QED
      BY <2>0, <3>1, <3>2 DEF Held
  <2>6. CASE FindUser(i) \/ MakeUser(i) \/ Join(i) \/ JoinFails(i) \/ Wipe(i) \/ RecordEvent(i)
    <3>1. UNCHANGED <<clients, domains, schemas, seeded>>
      BY <2>6 DEF FindUser, MakeUser, Join, JoinFails, Wipe, RecordEvent, Rows
    <3>0. job[i].do \in {"find", "user", "join", "wipe", "event"}
      BY <2>6 DEF FindUser, MakeUser, Join, JoinFails, Wipe, RecordEvent
    <3>2. clients[job[i].name] = i /\ domains[job[i].domain] = i /\ schemas[job[i].name] = i
          /\ job[i].name \in seeded
      BY <2>0, <3>0 DEF Held, Holds, HoldsDomain, HoldsSchema
    <3>3. job'[i].do # "drop row"
      <4>1. CASE FindUser(i)
        BY <2>0, <4>1 DEF FindUser, Creations
      <4>2. CASE MakeUser(i)
        BY <2>0, <4>2 DEF MakeUser, Creations
      <4>3. CASE RecordEvent(i)
        <5>1. CASE Go(i, "created")
          BY <2>a, <5>1
        <5>2. CASE job' = [job EXCEPT ![i].do = "drop schema", ![i].kept = TRUE]
          BY <2>0, <5>2 DEF Creations
        <5> QED
          BY <4>3, <5>1, <5>2 DEF RecordEvent
      <4> QED
        BY <2>6, <2>a, <4>1, <4>2, <4>3 DEF Join, JoinFails, Wipe
    <3> QED
      BY <2>0, <3>1, <3>2, <3>3 DEF Held
  <2>7. CASE Fails(i)
    <3>1. UNCHANGED <<clients, domains, schemas, seeded>> /\ clients[job[i].name] = i
      BY <2>0, <2>7 DEF Fails, Rows, Held, Holds
    <3>2. job'[i].do = "drop schema"
      BY <2>0, <2>7 DEF Fails, Creations
    <3> QED
      BY <2>0, <3>1, <3>2 DEF Held, Holds, HoldsDomain, HoldsSchema
  <2>8. CASE DropSchema(i)
    <3>1. schemas'[job[i].name] = NoId /\ clients'[job[i].name] = i
      BY <2>0, <2>1, <2>8 DEF DropSchema, Held, Holds, TypeOK
    <3>2. job'[i].do = "drop row"
      BY <2>8, <2>a DEF DropSchema
    <3> QED
      BY <2>0, <3>1, <3>2 DEF Held, HoldsDomain, HoldsSchema
  <2>9. CASE DropRow(i) \/ Stuck(i) \/ Dies(i)
    <3>1. job'[i].do \in {"refused", "stuck", "dead"}
      BY <2>9, <2>a DEF DropRow, Stuck, Dies
    <3> QED
      BY <3>1 DEF Held, Holds, HoldsDomain, HoldsSchema
  <2> QED
    BY <1>3, <2>2, <2>3, <2>4, <2>5, <2>6, <2>7, <2>8, <2>9 DEF Advance
<1> QED
  BY <1>1, <1>2, <1>3 DEF Next

(* Where a step leads.                                                     *)
LEMMA Outcomes ==
  ASSUME TypeOK, NEW i \in Ids
  PROVE  /\ SaveClient(i) => job'[i].do \in {"domain", "refused"}
         /\ SaveDomain(i) => job'[i].do = "config"
         /\ SaveConfig(i) => job'[i].do = "schema"
         /\ CreateSchema(i) => job'[i].do \in {"seed", "drop schema"}
         /\ Seed(i) => \/ job'[i].do = "drop schema"
                       \/ job'[i].do = IF job[i].admin = Nothing THEN "created" ELSE "find"
         /\ FindUser(i) => job'[i].do \in {"user", "join"}
         /\ MakeUser(i) => job'[i].do = "join" /\ job'[i].made
         /\ Join(i) => job'[i].do = "event"
         /\ JoinFails(i) => job'[i].do = IF job[i].made THEN "wipe" ELSE "drop schema"
         /\ Wipe(i) => job'[i].do = "drop schema"
         /\ RecordEvent(i) => job'[i].do = "created" \/ (job'[i].do = "drop schema" /\ job'[i].kept)
         /\ Fails(i) => job'[i].do = "drop schema" /\ (job[i].do = "wipe" => job'[i].kept)
         /\ DropSchema(i) => job'[i].do = "drop row"
         /\ DropRow(i) => job'[i].do = "refused"
         /\ Stuck(i) => job'[i].do = "stuck"
         /\ Dies(i) => job'[i].do = "dead"
<1>0. job[i] \in Creations /\ job \in [Ids -> Creations]
  BY DEF TypeOK
<1>1. \A to : Go(i, to) => job'[i].do = to
  BY <1>0 DEF Go, Creations
<1>2. RecordEvent(i) => job'[i].do = "created" \/ (job'[i].do = "drop schema" /\ job'[i].kept)
  <2>1. ASSUME job' = [job EXCEPT ![i].do = "drop schema", ![i].kept = TRUE]
        PROVE  job'[i].do = "drop schema" /\ job'[i].kept = TRUE
    BY <1>0, <2>1 DEF Creations
  <2> QED
    BY <1>1, <2>1 DEF RecordEvent
<1>3. Fails(i) => job'[i].do = "drop schema" /\ (job[i].do = "wipe" => job'[i].kept)
  <2>1. ASSUME Fails(i) PROVE job'[i].do = "drop schema" /\ job'[i].kept = (job[i].do = "wipe")
    <3>1. (job[i].do = "wipe") \in BOOLEAN
      OBVIOUS
    <3> QED
      BY <1>0, <2>1, <3>1 DEF Fails, Creations
  <2> QED
    BY <2>1
<1>4. FindUser(i) => job'[i].do \in {"user", "join"}
  BY <1>0 DEF FindUser, Creations
<1>5. MakeUser(i) => job'[i].do = "join" /\ job'[i].made
  BY <1>0 DEF MakeUser, Creations
<1>6. /\ SaveClient(i) => job'[i].do \in {"domain", "refused"}
      /\ SaveDomain(i) => job'[i].do = "config"
      /\ SaveConfig(i) => job'[i].do = "schema"
      /\ CreateSchema(i) => job'[i].do \in {"seed", "drop schema"}
      /\ Seed(i) => \/ job'[i].do = "drop schema"
                    \/ job'[i].do = IF job[i].admin = Nothing THEN "created" ELSE "find"
  BY <1>1 DEF SaveClient, SaveDomain, SaveConfig, CreateSchema, Seed
<1>7. /\ Join(i) => job'[i].do = "event"
      /\ JoinFails(i) => job'[i].do = IF job[i].made THEN "wipe" ELSE "drop schema"
      /\ Wipe(i) => job'[i].do = "drop schema"
      /\ DropSchema(i) => job'[i].do = "drop row"
      /\ DropRow(i) => job'[i].do = "refused"
      /\ Stuck(i) => job'[i].do = "stuck"
      /\ Dies(i) => job'[i].do = "dead"
  BY <1>1 DEF Join, JoinFails, Wipe, DropSchema, DropRow, Stuck, Dies
<1> QED
  BY <1>2, <1>3, <1>4, <1>5, <1>6, <1>7

(* Only making a user sets made, and kept is only set, but by a first      *)
(* failure before there is a user.                                         *)
LEMMA FlagsOfCreations ==
  ASSUME TypeOK, NEW i \in Ids, Advance(i)
  PROVE  /\ job'[i].made = job[i].made \/ MakeUser(i)
         /\ job'[i].kept = job[i].kept \/ RecordEvent(i) \/ Fails(i)
<1>0. job[i] \in Creations /\ job \in [Ids -> Creations]
  BY DEF TypeOK
<1>1. \A to : Go(i, to) => job'[i].made = job[i].made /\ job'[i].kept = job[i].kept
  BY <1>0 DEF Go, Creations
<1>2. CASE SaveClient(i) \/ SaveDomain(i) \/ SaveConfig(i) \/ CreateSchema(i) \/ Seed(i)
           \/ Join(i) \/ JoinFails(i) \/ Wipe(i) \/ DropSchema(i) \/ DropRow(i) \/ Stuck(i) \/ Dies(i)
  BY <1>1, <1>2 DEF SaveClient, SaveDomain, SaveConfig, CreateSchema, Seed, Join, JoinFails, Wipe,
                    DropSchema, DropRow, Stuck, Dies
<1>3. CASE FindUser(i)
  BY <1>0, <1>3 DEF FindUser, Creations
<1>4. CASE MakeUser(i)
  BY <1>0, <1>4 DEF MakeUser, Creations
<1>5. CASE RecordEvent(i)
  <2>1. CASE job' = [job EXCEPT ![i].do = "drop schema", ![i].kept = TRUE]
    BY <1>0, <1>5, <2>1 DEF Creations
  <2> QED
    BY <1>1, <1>5, <2>1 DEF RecordEvent
<1>6. CASE Fails(i)
  <2>1. (job[i].do = "wipe") \in BOOLEAN
    OBVIOUS
  <2> QED
    BY <1>0, <1>6, <2>1 DEF Fails, Creations
<1> QED
  BY <1>2, <1>3, <1>4, <1>5, <1>6 DEF Advance

(* A row is earned by the creation that saved it, and dropped with it.     *)
LEMMA StepKeepsEarned ==
  ASSUME TypeOK, MadeUsers, Earned, Next
  PROVE  Earned'
<1>1. ASSUME NEW i \in Ids, Ask(i) PROVE Earned'
  <2>1. \A n \in Names : clients[n] # i
    BY <1>1, AskKeepsRows DEF Earned
  <2>2. \A d \in Domains : domains[d] # i
    BY <1>1, AskKeepsRows DEF Earned
  <2>3. \A o \in owners : o[1] # i
    BY <1>1, AskKeepsRows DEF Earned
  <2>4. UNCHANGED <<clients, domains, owners>> /\ \A j \in Ids \ {i} : job'[j] = job[j]
    BY <1>1, AskKeepsRows
  <2>5. \A n \in Names : clients[n] # NoId => job'[clients[n]] = job[clients[n]]
    BY <2>1, <2>4 DEF TypeOK
  <2>6. \A d \in Domains : domains[d] # NoId => job'[domains[d]] = job[domains[d]]
    BY <2>2, <2>4 DEF TypeOK
  <2>7. \A o \in owners : job'[o[1]] = job[o[1]]
    BY <2>3, <2>4 DEF TypeOK
  <2> QED
    BY <2>4, <2>5, <2>6, <2>7 DEF Earned
<1>2. ASSUME NEW i \in Ids, Advance(i) PROVE Earned'
  <2>1. /\ \A j \in Ids \ {i} : job'[j] = job[j]
        /\ job'[i].name = job[i].name /\ job'[i].domain = job[i].domain
        /\ job'[i].admin = job[i].admin
        /\ job'[i].do \notin {"unborn", "client"}
    BY <1>2, OneMoves DEF Steps, Ends
  <2>2. job'[i].do = "refused" => SaveClient(i) \/ DropRow(i)
    BY <1>2, Outcomes DEF Advance
  <2>3. job'[i].do = "domain" => SaveClient(i)
    BY <1>2, Outcomes DEF Advance
  <2>4. ASSUME NEW n \in Names, clients'[n] # NoId
        PROVE  job'[clients'[n]].name = n /\ job'[clients'[n]].do \notin {"unborn", "client", "refused"}
    <3>1. CASE clients'[n] = clients[n]
      <4>1. CASE clients[n] = i
        <5>1. job[i].name = n /\ ~SaveClient(i)
          BY <2>4, <3>1, <4>1 DEF Earned, SaveClient
        <5>2. ~DropRow(i)
          BY <3>1, <4>1, <2>4 DEF DropRow
        <5> QED
          BY <2>1, <2>2, <3>1, <4>1, <5>1, <5>2
      <4>2. CASE clients[n] # i
        <5>1. clients[n] \in Ids \ {i}
          BY <2>4, <3>1, <4>2 DEF TypeOK
        <5> QED
          BY <2>1, <2>4, <3>1, <5>1 DEF Earned
      <4> QED
        BY <4>1, <4>2
    <3>2. CASE SaveClient(i) /\ clients'[n] # clients[n]
      <4>1. clients' = [clients EXCEPT ![job[i].name] = i] /\ Go(i, "domain")
        BY <3>2 DEF SaveClient
      <4>2. n = job[i].name /\ clients'[n] = i
        BY <3>2, <4>1 DEF TypeOK
      <4>3. job'[i].do = "domain"
        BY <4>1 DEF Go, TypeOK, Creations
      <4> QED
        BY <2>1, <4>2, <4>3
    <3>3. CASE DropRow(i)
      BY <2>4, <3>1, <3>3 DEF DropRow
    <3> QED
      BY <1>2, <3>1, <3>2, <3>3, WhoWrites
  <2>5. ASSUME NEW d \in Domains, domains'[d] # NoId
        PROVE  job'[domains'[d]].domain = d /\ job'[domains'[d]].do \notin {"unborn", "client", "domain", "refused"}
    <3>1. CASE domains'[d] = domains[d]
      <4>1. CASE domains[d] = i
        <5>1. job[i].domain = d /\ ~SaveClient(i)
          BY <2>5, <3>1, <4>1 DEF Earned, SaveClient
        <5>2. ~DropRow(i)
          BY <3>1, <4>1, <2>5 DEF DropRow
        <5> QED
          BY <2>1, <2>2, <2>3, <3>1, <4>1, <5>1, <5>2
      <4>2. CASE domains[d] # i
        <5>1. domains[d] \in Ids \ {i}
          BY <2>5, <3>1, <4>2 DEF TypeOK
        <5> QED
          BY <2>1, <2>5, <3>1, <5>1 DEF Earned
      <4> QED
        BY <4>1, <4>2
    <3>2. CASE SaveDomain(i) /\ domains'[d] # domains[d]
      <4>1. d = job[i].domain /\ domains'[d] = i
        BY <3>2 DEF SaveDomain, TypeOK
      <4> QED
        BY <2>1, <3>2, <4>1, Outcomes
    <3>3. CASE DropRow(i)
      BY <2>5, <3>1, <3>3 DEF DropRow
    <3> QED
      BY <1>2, <3>1, <3>2, <3>3, WhoWrites
  <2>6. ASSUME NEW o \in owners'
        PROVE  job'[o[1]].admin = o[2] /\ job'[o[1]].do \notin {"unborn", "client", "refused"}
    <3>1. CASE o \in owners
      <4>1. CASE o[1] = i
        <5>1. job[i].admin = o[2] /\ ~SaveClient(i)
          BY <3>1, <4>1 DEF Earned, SaveClient
        <5>2. ~DropRow(i)
          BY <2>6, <4>1 DEF DropRow
        <5> QED
          BY <2>1, <2>2, <4>1, <5>1, <5>2
      <4>2. CASE o[1] # i
        <5>1. o[1] \in Ids \ {i}
          BY <3>1, <4>2 DEF TypeOK
        <5> QED
          BY <2>1, <3>1, <5>1 DEF Earned
      <4> QED
        BY <4>1, <4>2
    <3>2. CASE o \notin owners
      <4>1. Join(i)
        BY <1>2, <2>6, <3>2, WhoWrites DEF Wipe, DropRow
      <4>2. o = <<i, job[i].admin>>
        BY <2>6, <3>2, <4>1 DEF Join
      <4> QED
        BY <2>1, <4>1, <4>2, Outcomes
    <3> QED
      BY <3>1, <3>2
  <2> QED
    BY <2>4, <2>5, <2>6 DEF Earned
<1> QED
  BY <1>1, <1>2 DEF Next

(* A user a creation made is its administrator, or was left by its failure.*)
LEMMA StepKeepsMadeUsers ==
  ASSUME TypeOK, MadeUsers, Next
  PROVE  MadeUsers'
<1>1. ASSUME NEW i \in Ids, Ask(i) PROVE MadeUsers'
  <2>1. /\ \A j \in Ids \ {i} : job'[j] = job[j]
        /\ job[i].do = "unborn" /\ job'[i].do = "client" /\ ~job'[i].made
        /\ users' = users
    BY <1>1, AskKeepsRows
  <2>2. \A p \in People : users[p] # i
    BY <2>1 DEF MadeUsers
  <2>3. \A p \in People : users[p] \in Ids => job'[users[p]] = job[users[p]]
    BY <2>1, <2>2
  <2> QED
    BY <2>1, <2>3 DEF MadeUsers
<1>2. ASSUME NEW i \in Ids, Advance(i) PROVE MadeUsers'
  <2>1. /\ \A j \in Ids \ {i} : job'[j] = job[j]
        /\ job'[i].admin = job[i].admin /\ job[i].do \in Steps
    BY <1>2, OneMoves
  <2>2. job'[i].made = job[i].made \/ (MakeUser(i) /\ job'[i].made /\ job'[i].do = "join")
    BY <1>2, FlagsOfCreations, Outcomes
  <2>3. job'[i].do \in {"find", "user", "join", "wipe", "event"} => job'[i].admin # Nothing
    <3>1. CASE Seed(i)
      BY <2>1, <3>1, Outcomes
    <3>2. CASE FindUser(i) \/ MakeUser(i) \/ Join(i) \/ JoinFails(i) \/ Wipe(i) \/ RecordEvent(i)
      BY <2>1, <3>2 DEF MadeUsers, FindUser, MakeUser, Join, JoinFails, Wipe, RecordEvent
    <3>3. CASE SaveClient(i) \/ SaveDomain(i) \/ SaveConfig(i) \/ CreateSchema(i)
      BY <3>3, Outcomes
    <3>4. CASE Fails(i) \/ DropSchema(i) \/ DropRow(i) \/ Stuck(i) \/ Dies(i)
      BY <3>4, Outcomes
    <3> QED
      BY <1>2, <3>1, <3>2, <3>3, <3>4 DEF Advance
  <2>4. job'[i].do \in {"unborn", "client", "domain", "config", "schema", "seed", "find", "user"}
          => ~job'[i].made
    <3>1. CASE SaveClient(i) \/ SaveDomain(i) \/ SaveConfig(i) \/ CreateSchema(i) \/ Seed(i) \/ FindUser(i)
      <4>1. ~job[i].made
        BY <3>1 DEF MadeUsers, SaveClient, SaveDomain, SaveConfig, CreateSchema, Seed, FindUser
      <4>2. ~MakeUser(i)
        BY <3>1 DEF SaveClient, SaveDomain, SaveConfig, CreateSchema, Seed, FindUser, MakeUser
      <4> QED
        BY <2>2, <4>1, <4>2
    <3>2. CASE MakeUser(i) \/ Join(i) \/ JoinFails(i) \/ Wipe(i) \/ RecordEvent(i)
      BY <3>2, Outcomes
    <3>3. CASE Fails(i) \/ DropSchema(i) \/ DropRow(i) \/ Stuck(i) \/ Dies(i)
      BY <3>3, Outcomes
    <3> QED
      BY <1>2, <3>1, <3>2, <3>3 DEF Advance
  <2>5. job'[i].do = "wipe" => job'[i].made
    <3>1. job'[i].do = "wipe" => JoinFails(i)
      BY <1>2, Outcomes DEF Advance
    <3> QED
      BY <2>2, <3>1, Outcomes
  <2>6. ASSUME NEW p \in People, users'[p] \in Ids
        PROVE  LET j == users'[p]
               IN /\ job'[j].made /\ job'[j].admin = p
                  /\ job'[j].do \in {"join", "wipe", "event", "created", "dead", "stuck"} \/ job'[j].kept
    <3>1. CASE users'[p] = users[p] /\ users[p] # i
      BY <2>1, <2>6, <3>1 DEF MadeUsers
    <3>2. CASE users'[p] = users[p] /\ users[p] = i
      <4>1. /\ job[i].made /\ job[i].admin = p
            /\ job[i].do \in {"join", "wipe", "event", "created", "dead", "stuck"} \/ job[i].kept
        BY <3>2 DEF MadeUsers
      <4>2. job[i].do \notin {"client", "domain", "config", "schema", "seed", "find", "user"}
        BY <4>1 DEF MadeUsers
      <4>3. ~Wipe(i)
        BY <3>2, <4>1, TypeOK DEF Wipe, TypeOK
      <4>4. Join(i) \/ JoinFails(i) \/ RecordEvent(i) \/ Fails(i) \/ DropSchema(i) \/ DropRow(i) \/ Stuck(i) \/ Dies(i)
        BY <1>2, <4>2, <4>3 DEF Advance, SaveClient, SaveDomain, SaveConfig, CreateSchema, Seed, FindUser, MakeUser
      <4>5. job'[i].do \in {"join", "wipe", "event", "created", "dead", "stuck"} \/ job'[i].kept
        <5>1. CASE DropSchema(i) \/ DropRow(i)
          <6>1. job[i].kept /\ ~RecordEvent(i) /\ ~Fails(i)
            BY <4>1, <5>1 DEF DropSchema, DropRow, RecordEvent, Fails
          <6> QED
            BY <1>2, <6>1, FlagsOfCreations
        <5>2. CASE Fails(i)
          <6>1. job[i].do = "wipe"
            BY <4>2, <5>2 DEF Fails
          <6> QED
            BY <5>2, <6>1, Outcomes
        <5> QED
          BY <4>1, <4>4, <5>1, <5>2, Outcomes
      <4> QED
        BY <2>1, <2>2, <3>2, <4>1, <4>5
    <3>3. CASE users'[p] # users[p]
      <4>1. MakeUser(i)
        <5>1. ~Wipe(i)
          BY <2>6, <3>3 DEF Wipe, TypeOK
        <5> QED
          BY <1>2, <3>3, <5>1, WhoWrites
      <4>2. p = job[i].admin /\ users'[p] = i
        BY <3>3, <4>1 DEF MakeUser, TypeOK
      <4> QED
        BY <2>1, <4>1, <4>2, Outcomes
    <3> QED
      BY <3>1, <3>2, <3>3
  <2> QED
    BY <2>1, <2>3, <2>4, <2>5, <2>6 DEF MadeUsers
<1> QED
  BY <1>1, <1>2 DEF Next

(* The schema of a name stays with the company that holds the name.        *)
LEMMA StepKeepsNamesOwned ==
  ASSUME TypeOK, Earned, NamesAreOwned, \A i \in Ids : Held(i), Next
  PROVE  NamesAreOwned'
<1>1. ASSUME NEW i \in Ids, Ask(i) PROVE NamesAreOwned'
  BY <1>1, AskKeepsRows DEF NamesAreOwned
<1>2. ASSUME NEW i \in Ids, Advance(i) PROVE NamesAreOwned'
  <2>1. CASE SaveClient(i)
    BY <2>1 DEF SaveClient, NamesAreOwned, TypeOK
  <2>2. CASE CreateSchema(i)
    <3>1. clients[job[i].name] = i
      BY <2>2 DEF CreateSchema, Held, Holds
    <3> QED
      BY <2>2, <3>1 DEF CreateSchema, NamesAreOwned, TypeOK
  <2>3. CASE DropSchema(i)
    BY <2>3 DEF DropSchema, NamesAreOwned, TypeOK
  <2>4. CASE DropRow(i)
    <3>1. \A n \in Names : clients[n] = i => schemas[n] = NoId
      BY <2>4 DEF DropRow, Held, Earned
    <3> QED
      BY <2>4, <3>1 DEF DropRow, NamesAreOwned, TypeOK
  <2>5. CASE UNCHANGED <<clients, schemas>>
    BY <2>5 DEF NamesAreOwned
  <2> QED
    BY <1>2, <2>1, <2>2, <2>3, <2>4, <2>5, WhoWrites
<1> QED
  BY <1>1, <1>2 DEF Next

(* An administrator stays appointed, or another creation that made the same*)
(* user wiped it.                                                          *)
LEMMA StepKeepsAppointed ==
  ASSUME TypeOK, MadeUsers, Next, \A j \in Ids : job[j].do = "event" => Appointed(j),
         CreatedAreWhole
  PROVE  \A j \in Ids : /\ job'[j].do = "event" => Appointed(j)'
                        /\ job'[j].do = "created" => job'[j].admin = Nothing \/ Appointed(j)'
<1>1. ASSUME NEW i \in Ids, Ask(i), NEW j \in Ids
      PROVE  /\ job'[j].do = "event" => Appointed(j)'
             /\ job'[j].do = "created" => job'[j].admin = Nothing \/ Appointed(j)'
  <2>1. /\ \A k \in Ids \ {i} : job'[k] = job[k]
        /\ job[i].do = "unborn" /\ job'[i].do = "client" /\ owners' = owners
    BY <1>1, AskKeepsRows
  <2>2. \A k \in Ids : Wiper(k) => Wiper(k)' /\ job'[k].admin = job[k].admin
    BY <2>1 DEF Wiper
  <2> QED
    BY <2>1, <2>2 DEF Appointed, CreatedAreWhole
<1>2. ASSUME NEW i \in Ids, Advance(i), NEW j \in Ids
      PROVE  /\ job'[j].do = "event" => Appointed(j)'
             /\ job'[j].do = "created" => job'[j].admin = Nothing \/ Appointed(j)'
  <2>1. /\ \A k \in Ids \ {i} : job'[k] = job[k]
        /\ job'[i].admin = job[i].admin /\ job[i].do \in Steps
    BY <1>2, OneMoves
  <2>2. \A k \in Ids : Wiper(k) => Wiper(k)' /\ job'[k].admin = job[k].admin
    <3>1. CASE ~Wiper(i)
      BY <2>1, <3>1 DEF Wiper
    <3>2. CASE Wiper(i)
      <4>1. job[i].do \in {"drop schema", "drop row"} /\ job[i].made
        BY <2>1, <3>2 DEF Wiper, Steps
      <4>2. DropSchema(i) \/ DropRow(i) \/ Stuck(i) \/ Dies(i)
        BY <1>2, <4>1 DEF Advance, SaveClient, SaveDomain, SaveConfig, CreateSchema, Seed, FindUser,
           MakeUser, Join, JoinFails, Wipe, RecordEvent, Fails
      <4>3. job'[i].made
        BY <1>2, <4>1, <4>2, FlagsOfCreations, Outcomes DEF MakeUser
      <4> QED
        BY <2>1, <4>2, <4>3, Outcomes DEF Wiper
    <3> QED
      BY <3>1, <3>2
  <2>3. CASE j # i
    <3>1. ASSUME Appointed(j) PROVE Appointed(j)'
      <4>1. CASE <<j, job[j].admin>> \in owners'
        BY <2>1, <2>3, <4>1 DEF Appointed
      <4>2. CASE \E k \in Ids \ {j} : Wiper(k) /\ job[k].admin = job[j].admin
        BY <2>1, <2>2, <2>3, <4>2 DEF Appointed
      <4>3. CASE <<j, job[j].admin>> \in owners /\ <<j, job[j].admin>> \notin owners'
        <5>1. Wipe(i) /\ job[i].admin = job[j].admin
          BY <1>2, <2>3, <4>3, WhoWrites DEF Join, Wipe, DropRow
        <5>2. job[i].made /\ ~MakeUser(i)
          BY <5>1 DEF Wipe, MakeUser, MadeUsers
        <5>3. Wiper(i)'
          BY <1>2, <5>1, <5>2, FlagsOfCreations, Outcomes DEF Wiper
        <5> QED
          BY <2>1, <2>3, <5>1, <5>3 DEF Appointed
      <4> QED
        BY <3>1, <4>1, <4>2, <4>3 DEF Appointed
    <3> QED
      BY <2>1, <2>3, <3>1 DEF CreatedAreWhole
  <2>4. CASE j = i
    <3>1. CASE Join(i)
      <4>1. <<i, job'[i].admin>> \in owners'
        BY <2>1, <3>1 DEF Join
      <4> QED
        BY <2>4, <4>1 DEF Appointed
    <3>2. CASE RecordEvent(i)
      <4>1. Appointed(i) /\ owners' = owners
        BY <3>2 DEF RecordEvent, Rows
      <4> QED
        BY <2>1, <2>2, <2>4, <4>1 DEF Appointed
    <3>3. CASE Seed(i)
      BY <2>1, <2>4, <3>3, Outcomes
    <3>4. CASE SaveClient(i) \/ SaveDomain(i) \/ SaveConfig(i) \/ CreateSchema(i) \/ FindUser(i)
               \/ MakeUser(i) \/ JoinFails(i) \/ Wipe(i)
      BY <2>4, <3>4, Outcomes
    <3>5. CASE Fails(i) \/ DropSchema(i) \/ DropRow(i) \/ Stuck(i) \/ Dies(i)
      BY <2>4, <3>5, Outcomes
    <3> QED
      BY <1>2, <3>1, <3>2, <3>3, <3>4, <3>5 DEF Advance
  <2> QED
    BY <2>3, <2>4
<1> QED
  BY <1>1, <1>2 DEF Next

-----------------------------------------------------------------------------
(* What was refused left nothing: all that is left is somebody's.          *)
LEMMA RefusedFollows ==
  TypeOK /\ Earned /\ MadeUsers /\ NamesAreOwned => RefusedLeaveNothing
<1> SUFFICES ASSUME TypeOK, Earned, MadeUsers, NamesAreOwned, NEW i \in Ids, job[i].do = "refused"
             PROVE  /\ \A n \in Names : clients[n] # i /\ schemas[n] # i
                    /\ \A d \in Domains : domains[d] # i
                    /\ \A o \in owners : o[1] # i
                    /\ \A p \in People : users[p] = i => job[i].kept
  BY DEF RefusedLeaveNothing
<1>1. \A n \in Names : clients[n] # i
  BY DEF Earned
<1>2. \A n \in Names : schemas[n] # i
  BY <1>1 DEF NamesAreOwned
<1>3. (\A d \in Domains : domains[d] # i) /\ \A o \in owners : o[1] # i
  BY DEF Earned
<1>4. \A p \in People : users[p] = i => job[i].kept
  BY DEF MadeUsers
<1> QED
  BY <1>1, <1>2, <1>3, <1>4

(* What was created holds all of its parts.                                *)
LEMMA CreatedFollows ==
  (\A i \in Ids : /\ Held(i)
                  /\ job[i].do = "created" => job[i].admin = Nothing \/ Appointed(i))
    => CreatedAreWhole
BY DEF Held, Holds, HoldsDomain, HoldsSchema, CreatedAreWhole

LEMMA InitIsFine == Init => IInv
<1> SUFFICES ASSUME Init PROVE IInv
  OBVIOUS
<1>1. TypeOK
  <2>1. Unborn \in Creations
    BY NewCreationIsOne DEF Unborn
  <2> QED
    BY <2>1 DEF Init, TypeOK
<1>2. \A i \in Ids : job[i].do = "unborn" /\ ~job[i].made
  BY DEF Init, Unborn, Creation
<1>3. \A i \in Ids : Asked(i) /\ Held(i)
  BY <1>2 DEF Asked, Held, Holds, HoldsDomain, HoldsSchema
<1>4. NamesAreOwned /\ Earned
  BY DEF Init, NamesAreOwned, Earned
<1>5. MadeUsers
  BY <1>2 DEF Init, MadeUsers, SomeoneElse
<1>6. \A i \in Ids : job[i].do # "event" /\ job[i].do # "created"
  BY <1>2
<1> QED
  BY <1>1, <1>3, <1>4, <1>5, <1>6, RefusedFollows, CreatedFollows DEF IInv

(* The steps of interleaved creations keep the inductive invariant.        *)
THEOREM InductiveInvariant == Spec => []IInv
<1>1. IInv /\ [Next]_vars => IInv'
  <2>1. CASE Next
    <3> SUFFICES ASSUME IInv PROVE IInv'
      BY <2>1
    <3>1. TypeOK' /\ MadeUsers' /\ Earned'
      BY <2>1, StepKeepsTypes, StepKeepsMadeUsers, StepKeepsEarned DEF IInv
    <3>2. NamesAreOwned'
      BY <2>1, StepKeepsNamesOwned DEF IInv
    <3>3. \A i \in Ids : Asked(i)' /\ Held(i)'
      BY <2>1, StepKeepsAsked, StepKeepsHeld DEF IInv
    <3>4. \A j \in Ids : /\ job'[j].do = "event" => Appointed(j)'
                         /\ job'[j].do = "created" => job'[j].admin = Nothing \/ Appointed(j)'
      BY <2>1, StepKeepsAppointed DEF IInv
    <3>5. RefusedLeaveNothing'
      <4>1. (TypeOK /\ Earned /\ MadeUsers /\ NamesAreOwned => RefusedLeaveNothing)'
        BY RefusedFollows, PTL
      <4> QED
        BY <3>1, <3>2, <4>1
    <3>6. CreatedAreWhole'
      <4>1. ((\A i \in Ids : /\ Held(i)
                             /\ job[i].do = "created" => job[i].admin = Nothing \/ Appointed(i))
               => CreatedAreWhole)'
        BY CreatedFollows, PTL
      <4> QED
        BY <3>3, <3>4, <4>1
    <3> QED
      BY <3>1, <3>2, <3>3, <3>4, <3>5, <3>6 DEF IInv
  <2>2. CASE UNCHANGED vars
    <3> SUFFICES ASSUME IInv PROVE IInv'
      OBVIOUS
    <3>1. TypeOK' /\ Earned' /\ MadeUsers' /\ NamesAreOwned'
      BY <2>2 DEF vars, IInv, TypeOK, Earned, MadeUsers, NamesAreOwned
    <3>2. \A i \in Ids : Asked(i)' /\ Held(i)'
      BY <2>2 DEF vars, IInv, Asked, Held
    <3>4. \A i \in Ids : job'[i].do = "event" => Appointed(i)'
      BY <2>2 DEF vars, IInv, Appointed, Wiper
    <3>3. CreatedAreWhole'
      <4>1. CreatedAreWhole
        BY DEF IInv
      <4>2. UNCHANGED <<clients, domains, schemas, seeded, owners, job>>
        BY <2>2 DEF vars
      <4>3. \A i \in Ids : Appointed(i) => Appointed(i)'
        BY <4>2 DEF Appointed, Wiper
      <4> QED
        BY <4>1, <4>2, <4>3 DEF CreatedAreWhole
    <3>5. RefusedLeaveNothing'
      <4>1. (TypeOK /\ Earned /\ MadeUsers /\ NamesAreOwned => RefusedLeaveNothing)'
        BY RefusedFollows, PTL
      <4> QED
        BY <3>1, <4>1
    <3> QED
      BY <3>1, <3>2, <3>3, <3>4, <3>5 DEF IInv
  <2> QED
    BY <2>1, <2>2
<1> QED
  BY <1>1, InitIsFine, PTL DEF Spec

(* No company takes over the schema of another, or drops it.               *)
THEOREM NamesAlwaysOwned == Spec => []NamesAreOwned
<1>1. IInv => NamesAreOwned
  BY DEF IInv
<1> QED
  BY <1>1, InductiveInvariant, PTL

(* A creation that succeeded leaves a whole company.                       *)
THEOREM CreatedAlwaysWhole == Spec => []CreatedAreWhole
<1>1. IInv => CreatedAreWhole
  BY DEF IInv
<1> QED
  BY <1>1, InductiveInvariant, PTL

(* A creation that was refused leaves nothing but, in two places, its user.*)
THEOREM RefusedAlwaysLeaveNothing == Spec => []RefusedLeaveNothing
<1>1. IInv => RefusedLeaveNothing
  BY DEF IInv
<1> QED
  BY <1>1, InductiveInvariant, PTL
=============================================================================
