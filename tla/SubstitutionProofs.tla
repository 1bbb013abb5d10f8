------------------------- MODULE SubstitutionProofs -------------------------
(***************************************************************************)
(* Induction for the proofs about texts, plans and reports.  The induction *)
(* theorems of the library take a predicate as a parameter; a set of       *)
(* counterexamples with a least element does as well.  From it follow that *)
(* a recursion has a solution, what FlattenSeq, Picked (Selections.tla)    *)
(* and Substitute (Substitution.tla) return for every sequence and every   *)
(* text, and which sequences others with members left out are.             *)
(***************************************************************************)
EXTENDS Substitution, Selections, FiniteSetTheorems, SequenceTheorems, WellFoundedInduction, TLAPS

\* A set of numbers that is not empty has a least one.
LEMMA Least == ASSUME NEW T \in SUBSET Nat, T # {} PROVE \E m \in T : \A k \in T : m <= k
<1> DEFINE R == {ss \in Nat \X Nat : ss[1] < ss[2]}
<1>1. R = OpToRel(<, Nat)
  BY DEF OpToRel
<1>2. IsWellFoundedOn(R, Nat)
  BY <1>1, NatLessThanWellFounded
<1> HIDE DEF R
<1>3. PICK m \in T : \A k \in T : <<k, m>> \notin R
  BY <1>2, WFMin
<1>4. \A k \in T : ~(k < m)
  BY <1>3 DEF R
<1> QED BY <1>4

\* One that is bounded has a greatest one.
LEMMA Greatest ==
  ASSUME NEW T \in SUBSET Nat, T # {}, NEW b \in Nat, \A k \in T : k <= b
  PROVE  \E m \in T : \A k \in T : k <= m
<1> DEFINE D == {d \in Nat : \E k \in T : d = b - k}
<1>1. \A k \in T : b - k \in D
  OBVIOUS
<1>2. PICK d \in D : \A c \in D : d <= c
  BY <1>1, Least
<1>3. PICK m \in T : d = b - m
  OBVIOUS
<1> QED BY <1>1, <1>2, <1>3

\* A set that holds m and the successor of each of its members holds m..n.
LEMMA CountUp ==
  ASSUME NEW m \in Nat, NEW n \in Nat, NEW T,
         \A i \in m..n : i = m \/ i - 1 \in T => i \in T
  PROVE  \A i \in m..n : i \in T
<1> DEFINE B == {i \in Nat : i \in m..n /\ i \notin T}
<1> SUFFICES ASSUME B # {} PROVE FALSE
  OBVIOUS
<1>1. PICK i \in B : \A k \in B : i <= k
  <2> HIDE DEF B
  <2>1. B \in SUBSET Nat
    BY DEF B
  <2> QED BY <2>1, Least
<1>2. i # m /\ i - 1 \notin T
  OBVIOUS
<1>3. i - 1 \in B
  BY <1>2
<1> QED BY <1>1, <1>3

-----------------------------------------------------------------------------
(* FlattenSeq *)

\* F is the sequence of what FlattenSeq has after each piece of s.
Flattens(F, s, n) == F = [i \in 1..n |-> IF i = 1 THEN s[i] ELSE F[i - 1] \o s[i]]

\* The recursion of FlattenSeq has a solution.
LEMMA FlattenExists ==
  ASSUME NEW s, NEW n \in Nat \ {0}
  PROVE  \E F : Flattens(F, s, n)
<1> DEFINE T == {m \in Nat : m # 0 /\ ~\E F : Flattens(F, s, m)}
<1> SUFFICES ASSUME T # {} PROVE FALSE
  OBVIOUS
<1>1. PICK m \in T : \A k \in T : m <= k
  BY Least
<1>2. CASE m = 1
  <2>1. Flattens([i \in 1..1 |-> s[1]], s, 1)
    BY DEF Flattens
  <2> QED BY <1>2, <2>1
<1>3. CASE m # 1
  <2>1. PICK F : Flattens(F, s, m - 1)
    BY <1>1, <1>3
  <2> DEFINE G == [i \in 1..m |-> IF i = m THEN F[m - 1] \o s[m] ELSE F[i]]
  <2>2. G = [i \in 1..m |-> IF i = 1 THEN s[i] ELSE G[i - 1] \o s[i]]
    <3>1. \A i \in 1..(m - 1) : F[i] = IF i = 1 THEN s[i] ELSE F[i - 1] \o s[i]
      BY <2>1 DEF Flattens
    <3>2. ASSUME NEW i \in 1..m PROVE G[i] = IF i = 1 THEN s[i] ELSE G[i - 1] \o s[i]
      <4>1. CASE i = m
        <5>1. G[i] = F[m - 1] \o s[m] /\ i # 1
          BY <1>3, <4>1
        <5>2. m - 1 \in 1..m /\ m - 1 # m
          BY <1>3
        <5>3. G[i - 1] = F[m - 1]
          BY <5>2, <4>1
        <5> HIDE DEF G
        <5> QED BY <5>1, <5>3, <4>1
      <4>2. CASE i # m
        <5>1. G[i] = F[i] /\ i \in 1..(m - 1)
          BY <4>2
        <5>2. i # 1 => G[i - 1] = F[i - 1]
          BY <4>2
        <5> QED BY <5>1, <5>2, <3>1
      <4> QED BY <4>1, <4>2
    <3> QED BY <3>2
  <2>3. Flattens(G, s, m)
    BY <2>2 DEF Flattens
  <2> QED BY <2>3
<1> QED BY <1>2, <1>3

\* What FlattenSeq returns is the last of them.
LEMMA FlattenIs ==
  ASSUME NEW s, Len(s) \in Nat \ {0}
  PROVE  \E F : Flattens(F, s, Len(s)) /\ FlattenSeq(s) = F[Len(s)]
<1> DEFINE F == CHOOSE f : Flattens(f, s, Len(s))
<1>0. \E f : Flattens(f, s, Len(s))
  BY FlattenExists
<1>1. Flattens(F, s, Len(s))
  BY <1>0
<1>2. FlattenSeq(s) = F[Len(s)]
  BY DEF FlattenSeq, Flattens
<1> QED BY <1>1, <1>2

\* Sequences over X put together are a sequence over X.
LEMMA FlattenTyped ==
  ASSUME NEW X, NEW s \in Seq(Seq(X))
  PROVE  FlattenSeq(s) \in Seq(X)
<1>1. Len(s) \in Nat /\ DOMAIN s = 1..Len(s) /\ \A i \in 1..Len(s) : s[i] \in Seq(X)
  BY LenProperties
<1>2. CASE Len(s) = 0
  <2>1. FlattenSeq(s) = <<>>
    BY <1>2 DEF FlattenSeq
  <2> QED BY <2>1
<1>3. CASE Len(s) # 0
  <2>1. PICK F : Flattens(F, s, Len(s)) /\ FlattenSeq(s) = F[Len(s)]
    BY <1>1, <1>3, FlattenIs
  <2>2. \A i \in 1..Len(s) : F[i] = IF i = 1 THEN s[i] ELSE F[i - 1] \o s[i]
    BY <2>1 DEF Flattens
  <2> DEFINE T == {i \in 1..Len(s) : F[i] \in Seq(X)}
  <2>3. ASSUME NEW i \in 1..Len(s), i = 1 \/ i - 1 \in T PROVE i \in T
    <3>1. CASE i = 1
      BY <1>1, <2>2, <3>1
    <3>2. CASE i # 1
      <4>1. F[i] = F[i - 1] \o s[i] /\ F[i - 1] \in Seq(X) /\ s[i] \in Seq(X)
        BY <1>1, <2>2, <2>3, <3>2
      <4> QED BY <4>1, ConcatProperties
    <3> QED BY <3>1, <3>2
  <2>4. Len(s) \in T
    <3> HIDE DEF T
    <3>1. \A i \in 1..Len(s) : i = 1 \/ i - 1 \in T => i \in T
      BY <2>3
    <3>2. \A i \in 1..Len(s) : i \in T
      BY <3>1, <1>1, CountUp
    <3> QED BY <3>2, <1>1, <1>3
  <2> QED BY <2>1, <2>4
<1> QED BY <1>2, <1>3

-----------------------------------------------------------------------------
(* Picked *)

\* What one round of the loop adds.
Round(q, wanted, k) == IF k \in wanted THEN <<q[k]>> ELSE <<>>

\* After i rounds F holds what was wanted among the first i members.
Holds(F, X, q, wanted, i) == F[i] \in Seq(X) /\ ToSet(F[i]) = {q[k] : k \in 1..i \cap wanted}

\* The members of two sequences put together.
LEMMA ConcatMembers ==
  ASSUME NEW X, NEW a \in Seq(X), NEW b \in Seq(X)
  PROVE  a \o b \in Seq(X) /\ ToSet(a \o b) = ToSet(a) \cup ToSet(b)
<1>1. /\ a \o b \in Seq(X) /\ Len(a \o b) = Len(a) + Len(b)
      /\ \A i \in 1..(Len(a) + Len(b)) : (a \o b)[i] = IF i <= Len(a) THEN a[i] ELSE b[i - Len(a)]
  BY ConcatProperties
<1>2. Len(a) \in Nat /\ Len(b) \in Nat
  OBVIOUS
<1>3. ToSet(a) = {a[i] : i \in 1..Len(a)} /\ ToSet(b) = {b[i] : i \in 1..Len(b)}
  BY DEF ToSet
<1>4. ToSet(a \o b) = {(a \o b)[i] : i \in 1..(Len(a) + Len(b))}
  BY <1>1 DEF ToSet
<1>5. ASSUME NEW x \in ToSet(a) PROVE x \in ToSet(a \o b)
  BY <1>1, <1>2, <1>3, <1>4
<1>6. ASSUME NEW x \in ToSet(b) PROVE x \in ToSet(a \o b)
  <2>1. PICK i \in 1..Len(b) : x = b[i]
    BY <1>3
  <2>2. Len(a) + i \in 1..(Len(a) + Len(b)) /\ ~(Len(a) + i <= Len(a)) /\ Len(a) + i - Len(a) = i
    BY <1>2
  <2>3. (a \o b)[Len(a) + i] = x
    BY <1>1, <2>1, <2>2
  <2> QED BY <1>4, <2>2, <2>3
<1>7. ASSUME NEW x \in ToSet(a \o b) PROVE x \in ToSet(a) \cup ToSet(b)
  <2>1. PICK i \in 1..(Len(a) + Len(b)) : x = (a \o b)[i]
    BY <1>4
  <2>2. i <= Len(a) \/ i - Len(a) \in 1..Len(b)
    BY <1>2
  <2> QED BY <1>1, <1>2, <1>3, <2>1, <2>2
<1> QED BY <1>1, <1>5, <1>6, <1>7

\* The first member of a sequence and the others.
LEMMA TailMembers ==
  ASSUME NEW X, NEW q \in Seq(X), q # <<>>
  PROVE  Tail(q) \in Seq(X) /\ ToSet(q) = {Head(q)} \cup ToSet(Tail(q))
<1>1. /\ Head(q) = q[1] /\ Tail(q) \in Seq(X) /\ Len(Tail(q)) = Len(q) - 1 /\ Len(q) \in Nat \ {0}
      /\ \A i \in 1..Len(Tail(q)) : Tail(q)[i] = q[i + 1]
  BY HeadTailProperties, EmptySeq, LenProperties
<1>2. ToSet(q) = {q[i] : i \in 1..Len(q)} /\ ToSet(Tail(q)) = {Tail(q)[i] : i \in 1..(Len(q) - 1)}
  <2>1. DOMAIN q = 1..Len(q) /\ DOMAIN Tail(q) = 1..(Len(q) - 1)
    BY <1>1, LenProperties
  <2> QED BY <2>1 DEF ToSet
<1>3. ASSUME NEW x \in ToSet(q) PROVE x \in {Head(q)} \cup ToSet(Tail(q))
  <2>1. PICK i \in 1..Len(q) : x = q[i]
    BY <1>2
  <2>2. CASE i = 1
    BY <1>1, <2>1, <2>2
  <2>3. CASE i # 1
    <3>1. i - 1 \in 1..(Len(q) - 1) /\ (i - 1) + 1 = i
      BY <1>1, <2>3
    <3>2. Tail(q)[i - 1] = x
      BY <1>1, <2>1, <3>1
    <3> QED BY <1>2, <3>1, <3>2
  <2> QED BY <2>2, <2>3
<1>4. ASSUME NEW x \in {Head(q)} \cup ToSet(Tail(q)) PROVE x \in ToSet(q)
  <2>1. CASE x = Head(q)
    <3>1. 1 \in 1..Len(q) /\ x = q[1]
      BY <1>1, <2>1
    <3> QED BY <1>2, <3>1
  <2>2. CASE x \in ToSet(Tail(q))
    <3>1. PICK i \in 1..(Len(q) - 1) : x = Tail(q)[i]
      BY <1>2, <2>2
    <3>2. i + 1 \in 1..Len(q) /\ x = q[i + 1]
      BY <1>1, <3>1
    <3> QED BY <1>2, <3>2
  <2> QED BY <1>4, <2>1, <2>2
<1> QED BY <1>1, <1>3, <1>4

\* Picked returns a sequence of just the members that were wanted.
LEMMA PickedMembers ==
  ASSUME NEW X, NEW q \in Seq(X), NEW wanted
  PROVE  Picked(q, wanted) \in Seq(X) /\ ToSet(Picked(q, wanted)) = {q[k] : k \in DOMAIN q \cap wanted}
<1> DEFINE s == [k \in 1..Len(q) |-> Round(q, wanted, k)]
<1>1. Picked(q, wanted) = FlattenSeq(s)
  BY DEF Picked, Round
<1>2. Len(q) \in Nat /\ DOMAIN q = 1..Len(q) /\ Len(s) = Len(q)
  <2>1. \A k \in 1..Len(q) : s[k] \in Seq(X)
    BY DEF Round
  <2>2. s \in [1..Len(q) -> Seq(X)]
    BY <2>1
  <2> QED BY <2>2
<1>3. CASE Len(q) = 0
  <2>1. s = <<>> /\ Len(s) = 0
    BY <1>2, <1>3
  <2>2. FlattenSeq(s) = <<>>
    BY <2>1 DEF FlattenSeq
  <2>3. DOMAIN q = {}
    BY <1>2, <1>3
  <2>4. <<>> \in Seq(X) /\ ToSet(<<>>) = {}
    BY DEF ToSet
  <2>5. {q[k] : k \in DOMAIN q \cap wanted} = {}
    BY <2>3
  <2> QED BY <1>1, <2>2, <2>4, <2>5
<1>4. CASE Len(q) # 0
  <2>1. PICK F : Flattens(F, s, Len(q)) /\ FlattenSeq(s) = F[Len(q)]
    <3> HIDE DEF s
    <3>1. Len(s) \in Nat \ {0}
      BY <1>2, <1>4
    <3> QED BY <3>1, <1>2, FlattenIs
  <2>2. \A i \in 1..Len(q) : F[i] = IF i = 1 THEN s[i] ELSE F[i - 1] \o s[i]
    BY <2>1 DEF Flattens
  <2>3. \A i \in 1..Len(q) : /\ s[i] \in Seq(X)
                             /\ ToSet(s[i]) = {q[k] : k \in {i} \cap wanted}
    <3> SUFFICES ASSUME NEW i \in 1..Len(q)
                 PROVE  Round(q, wanted, i) \in Seq(X)
                        /\ ToSet(Round(q, wanted, i)) = {q[k] : k \in {i} \cap wanted}
      OBVIOUS
    <3>1. q[i] \in X
      BY <1>2
    <3>2. ToSet(<<q[i]>>) = {q[i]} /\ ToSet(<<>>) = {}
      BY DEF ToSet
    <3> QED BY <3>1, <3>2 DEF Round
  <2> HIDE DEF s
  <2> DEFINE T == {i \in 1..Len(q) : Holds(F, X, q, wanted, i)}
  <2>4. ASSUME NEW i \in 1..Len(q), i = 1 \/ i - 1 \in T PROVE i \in T
    <3>1. CASE i = 1
      <4>1. 1..1 = {1}
        OBVIOUS
      <4> QED BY <2>2, <2>3, <3>1, <4>1 DEF Holds
    <3>2. CASE i # 1
      <4>1. F[i] = F[i - 1] \o s[i] /\ Holds(F, X, q, wanted, i - 1)
        BY <2>2, <2>4, <3>2
      <4>2. F[i] \in Seq(X) /\ ToSet(F[i]) = ToSet(F[i - 1]) \cup ToSet(s[i])
        BY <2>3, <4>1, ConcatMembers DEF Holds
      <4>3. 1..i = 1..(i - 1) \cup {i}
        BY <3>2
      <4>4. {q[k] : k \in 1..i \cap wanted} =
              {q[k] : k \in 1..(i - 1) \cap wanted} \cup {q[k] : k \in {i} \cap wanted}
        BY <4>3
      <4> QED BY <2>3, <4>1, <4>2, <4>4 DEF Holds
    <3> QED BY <3>1, <3>2
  <2>5. Len(q) \in T
    <3> HIDE DEF T
    <3>1. \A i \in 1..Len(q) : i = 1 \/ i - 1 \in T => i \in T
      BY <2>4
    <3>2. \A i \in 1..Len(q) : i \in T
      BY <3>1, <1>2, CountUp
    <3> QED BY <3>2, <1>2, <1>4
  <2> QED BY <1>1, <1>2, <2>1, <2>5 DEF Holds
<1> QED BY <1>3, <1>4

\* at counts what was wanted so far.
Counts(at, q, wanted) ==
  /\ \A k \in 0..Len(q) : at[k] \in Nat
  /\ \A k \in 1..Len(q) : at[k] = at[k - 1] + (IF k \in wanted THEN 1 ELSE 0)

\* F is what was wanted of the first n members, each at its place.
Lined(F, q, wanted, at, n) ==
  /\ Len(F) = at[n] - at[0]
  /\ \A m \in 1..Len(F) : \E k \in 1..n \cap wanted : at[k] = at[0] + m /\ F[m] = q[k]

\* What one round adds has a place.
LEMMA RoundLined ==
  ASSUME NEW X, NEW q \in Seq(X), NEW wanted, NEW at, Counts(at, q, wanted), NEW n \in 1..Len(q),
         NEW F \in Seq(X), Lined(F, q, wanted, at, n - 1)
  PROVE  Lined(F \o Round(q, wanted, n), q, wanted, at, n)
<1> DEFINE r == Round(q, wanted, n)
           G == F \o r
<1>1. /\ at[n] \in Nat /\ at[n - 1] \in Nat /\ at[0] \in Nat
      /\ at[n] = at[n - 1] + (IF n \in wanted THEN 1 ELSE 0) /\ q[n] \in X /\ Len(F) \in Nat
  BY DEF Counts
<1>2. /\ r \in Seq(X) /\ Len(r) = IF n \in wanted THEN 1 ELSE 0
      /\ n \in wanted => r[1] = q[n]
  BY <1>1 DEF Round
<1> HIDE DEF r
<1>3. /\ Len(G) = Len(F) + Len(r)
      /\ \A m \in 1..(Len(F) + Len(r)) : G[m] = IF m <= Len(F) THEN F[m] ELSE r[m - Len(F)]
  BY <1>2, ConcatProperties
<1> HIDE DEF G
<1>4. Len(F) = at[n - 1] - at[0] /\ Len(G) = at[n] - at[0]
  BY <1>1, <1>2, <1>3 DEF Lined
<1>5. ASSUME NEW m \in 1..Len(G) PROVE \E k \in 1..n \cap wanted : at[k] = at[0] + m /\ G[m] = q[k]
  <2>1. CASE m <= Len(F)
    <3>1. m \in 1..Len(F) /\ G[m] = F[m]
      BY <1>1, <1>2, <1>3, <2>1
    <3>2. PICK k \in 1..(n - 1) \cap wanted : at[k] = at[0] + m /\ F[m] = q[k]
      BY <3>1 DEF Lined
    <3> QED BY <3>1, <3>2
  <2>2. CASE ~(m <= Len(F))
    <3>1. n \in wanted /\ m = Len(F) + 1 /\ m - Len(F) = 1
      BY <1>1, <1>2, <1>3, <2>2
    <3>2. G[m] = q[n]
      BY <1>1, <1>2, <1>3, <2>2, <3>1
    <3>3. at[n] = at[0] + m
      BY <1>1, <1>4, <3>1
    <3> QED BY <3>1, <3>2, <3>3
  <2> QED BY <2>1, <2>2
<1> QED BY <1>4, <1>5 DEF Lined, G, r

\* Picked returns what was wanted, in order.
LEMMA PickedInOrder ==
  ASSUME NEW X, NEW q \in Seq(X), NEW wanted, NEW at, Counts(at, q, wanted)
  PROVE  Lined(Picked(q, wanted), q, wanted, at, Len(q))
<1> DEFINE s == [k \in 1..Len(q) |-> Round(q, wanted, k)]
<1>1. Picked(q, wanted) = FlattenSeq(s)
  BY DEF Picked, Round
<1>2. Len(q) \in Nat /\ Len(s) = Len(q) /\ \A k \in 1..Len(q) : s[k] = Round(q, wanted, k)
  OBVIOUS
<1>3. CASE Len(q) = 0
  <2>1. Len(s) = 0 /\ s = <<>>
    BY <1>2, <1>3
  <2>2. FlattenSeq(s) = <<>>
    BY <2>1 DEF FlattenSeq
  <2>3. at[0] \in Nat
    BY <1>2 DEF Counts
  <2>4. Lined(<<>>, q, wanted, at, 0)
    BY <2>3 DEF Lined
  <2> QED BY <1>1, <1>3, <2>2, <2>4
<1>4. CASE Len(q) # 0
  <2> HIDE DEF s
  <2>1. PICK F : Flattens(F, s, Len(q)) /\ FlattenSeq(s) = F[Len(q)]
    <3>1. Len(s) \in Nat \ {0}
      BY <1>2, <1>4
    <3> QED BY <3>1, <1>2, FlattenIs
  <2>2. \A n \in 1..Len(q) : F[n] = IF n = 1 THEN s[n] ELSE F[n - 1] \o s[n]
    BY <2>1 DEF Flattens
  <2>3. \A n \in 1..Len(q) : Round(q, wanted, n) \in Seq(X)
    BY DEF Round
  <2> DEFINE T == {n \in 1..Len(q) : F[n] \in Seq(X) /\ Lined(F[n], q, wanted, at, n)}
  <2>4. ASSUME NEW n \in 1..Len(q), n = 1 \/ n - 1 \in T PROVE n \in T
    <3> DEFINE E == IF n = 1 THEN <<>> ELSE F[n - 1]
    <3>1. F[n] = E \o Round(q, wanted, n)
      <4>1. CASE n = 1
        <5>1. <<>> \o Round(q, wanted, n) = Round(q, wanted, n)
          BY <2>3, ConcatEmptySeq
        <5> QED BY <1>2, <2>2, <4>1, <5>1
      <4> QED BY <1>2, <2>2, <4>1
    <3>2. E \in Seq(X) /\ Lined(E, q, wanted, at, n - 1)
      <4>1. CASE n = 1
        <5>1. at[0] \in Nat
          BY <1>2 DEF Counts
        <5>2. Lined(<<>>, q, wanted, at, 0)
          BY <5>1 DEF Lined
        <5> QED BY <4>1, <5>2
      <4>2. CASE n # 1
        BY <2>4, <4>2
      <4> QED BY <4>1, <4>2
    <3> HIDE DEF E
    <3>3. F[n] \in Seq(X)
      BY <2>3, <3>1, <3>2, ConcatProperties
    <3>4. Lined(F[n], q, wanted, at, n)
      BY <3>1, <3>2, RoundLined
    <3> QED BY <3>3, <3>4
  <2>5. Len(q) \in T
    <3> HIDE DEF T
    <3>1. \A n \in 1..Len(q) : n = 1 \/ n - 1 \in T => n \in T
      BY <2>4
    <3>2. \A n \in 1..Len(q) : n \in T
      BY <3>1, <1>2, CountUp
    <3> QED BY <3>2, <1>2, <1>4
  <2> QED BY <1>1, <2>1, <2>5
<1> QED BY <1>3, <1>4

-----------------------------------------------------------------------------
(* Substitute *)

\* F is what Substitute has after each offset of the text.
Builds(F, text, edits) ==
  F = [i \in 1..(Len(text) + 1) |->
         IF i = 1 THEN Piece(text, edits, 0) ELSE F[i - 1] \o Piece(text, edits, i - 1)]

\* Every replacement is a text.
AllTexts(V, edits) == \A e \in edits : e.replacement \in Seq(V)

\* No edit is heard of before offset k.
Plain(text, edits, k) == \A p \in 0..(k - 1) : Piece(text, edits, p) = <<text[p + 1]>>

\* From offset j up to k nothing is copied and nothing inserted.
Silent(text, edits, j, k) == \A p \in j..(k - 1) : Piece(text, edits, p) = <<>>

\* From offset j on two sets of edits say the same.
Agree(text, S1, S2, j) == \A p \in j..Len(text) : Piece(text, S1, p) = Piece(text, S2, p)

\* What F and G have after offset j is continued by the same text up to n.
Continue(V, F, G, j, n) == \E R \in Seq(V) : F[n] = F[j] \o R /\ G[n] = G[j] \o R

\* Offset p is where edit e begins, or in its range.
Touches(e, p) == e.begin = p \/ (e.begin <= p /\ p < e.end)

\* Substitute is the last of them.
LEMMA SubstituteIs ==
  ASSUME NEW V, NEW text \in Seq(V), NEW edits
  PROVE  \E F : Builds(F, text, edits) /\ Substitute(text, edits) = F[Len(text) + 1]
<1> DEFINE s == [i \in 1..(Len(text) + 1) |-> Piece(text, edits, i - 1)]
<1>1. Len(s) = Len(text) + 1 /\ Len(text) + 1 \in Nat \ {0}
  OBVIOUS
<1>2. PICK F : Flattens(F, s, Len(text) + 1) /\ FlattenSeq(s) = F[Len(text) + 1]
  <2> HIDE DEF s
  <2> QED BY <1>1, FlattenIs
<1>3. F = [i \in 1..(Len(text) + 1) |->
             IF i = 1 THEN Piece(text, edits, 0) ELSE F[i - 1] \o Piece(text, edits, i - 1)]
  <2>1. \A i \in 1..(Len(text) + 1) : s[i] = Piece(text, edits, i - 1)
    OBVIOUS
  <2>2. 1 - 1 = 0
    OBVIOUS
  <2> HIDE DEF s
  <2> QED BY <1>2, <2>1, <2>2 DEF Flattens
<1> QED BY <1>2, <1>3 DEF Builds, Substitute

\* Pieces of text are texts.
LEMMA PieceType ==
  ASSUME NEW V, NEW text \in Seq(V), NEW edits, AllTexts(V, edits),
         NEW p \in 0..Len(text)
  PROVE  Piece(text, edits, p) \in Seq(V)
<1> DEFINE beginning == {e \in edits : e.begin = p}
           inserted == IF beginning = {} THEN <<>> ELSE (CHOOSE e \in beginning : TRUE).replacement
           kept == IF (\E e \in edits : e.begin <= p /\ p < e.end) \/ p = Len(text) THEN <<>>
                   ELSE <<text[p + 1]>>
<1>1. inserted \in Seq(V)
  BY DEF AllTexts
<1>2. kept \in Seq(V)
  <2>1. p # Len(text) => text[p + 1] \in V
    OBVIOUS
  <2> QED BY <2>1
<1> HIDE DEF inserted, kept
<1>3. inserted \o kept \in Seq(V)
  BY <1>1, <1>2
<1> QED BY <1>3 DEF Piece, inserted, kept

\* All of them are texts.
LEMMA BuildsTexts ==
  ASSUME NEW V, NEW text \in Seq(V), NEW edits, AllTexts(V, edits),
         NEW F, Builds(F, text, edits)
  PROVE  \A i \in 1..(Len(text) + 1) : F[i] \in Seq(V)
<1> DEFINE T == {i \in 1..(Len(text) + 1) : F[i] \in Seq(V)}
<1>1. ASSUME NEW i \in 1..(Len(text) + 1), i = 1 \/ i - 1 \in T PROVE i \in T
  <2>1. Piece(text, edits, i - 1) \in Seq(V)
    BY PieceType
  <2>2. F[i] = IF i = 1 THEN Piece(text, edits, 0) ELSE F[i - 1] \o Piece(text, edits, i - 1)
    BY DEF Builds
  <2>3. CASE i = 1
    BY <2>1, <2>2, <2>3
  <2>4. CASE i # 1
    <3>1. F[i - 1] \in Seq(V)
      BY <1>1, <2>4
    <3>2. F[i - 1] \o Piece(text, edits, i - 1) \in Seq(V)
      BY <2>1, <3>1, ConcatProperties
    <3> QED BY <2>2, <2>4, <3>2
  <2> QED BY <2>3, <2>4
<1> HIDE DEF T
<1>2. \A i \in 1..(Len(text) + 1) : i \in T
  <2>1. Len(text) + 1 \in Nat
    OBVIOUS
  <2> QED BY <1>1, <2>1, CountUp
<1> QED BY <1>2 DEF T

\* What edits make of a text is a text.
LEMMA SubstituteText ==
  ASSUME NEW V, NEW text \in Seq(V), NEW edits, AllTexts(V, edits)
  PROVE  Substitute(text, edits) \in Seq(V)
<1>1. PICK F : Builds(F, text, edits) /\ Substitute(text, edits) = F[Len(text) + 1]
  BY SubstituteIs
<1>2. Len(text) + 1 \in 1..(Len(text) + 1)
  OBVIOUS
<1> QED BY <1>1, <1>2, BuildsTexts

\* Each is the one before and the piece at its offset.
LEMMA BuildsStep ==
  ASSUME NEW V, NEW text \in Seq(V), NEW edits, NEW F, Builds(F, text, edits)
  PROVE  /\ F[1] = Piece(text, edits, 0)
         /\ \A i \in 2..(Len(text) + 1) : F[i] = F[i - 1] \o Piece(text, edits, i - 1)
<1>1. \A i \in 1..(Len(text) + 1) :
        F[i] = IF i = 1 THEN Piece(text, edits, 0) ELSE F[i - 1] \o Piece(text, edits, i - 1)
  BY DEF Builds
<1>2. 1 \in 1..(Len(text) + 1)
      /\ \A i \in 2..(Len(text) + 1) : i \in 1..(Len(text) + 1) /\ i # 1
  OBVIOUS
<1> QED BY <1>1, <1>2

\* As far as no edit reaches, the text is copied.
LEMMA PlainPrefix ==
  ASSUME NEW V, NEW text \in Seq(V), NEW edits, NEW F, Builds(F, text, edits),
         NEW k \in 0..Len(text), Plain(text, edits, k)
  PROVE  \A i \in 1..k : F[i] = SubSeq(text, 1, i)
<1> DEFINE T == {i \in 1..k : F[i] = SubSeq(text, 1, i)}
<1>1. ASSUME NEW i \in 1..k, i = 1 \/ i - 1 \in T PROVE i \in T
  <2>1. Piece(text, edits, i - 1) = <<text[i]>>
    <3>1. i - 1 \in 0..(k - 1) /\ (i - 1) + 1 = i
      OBVIOUS
    <3> QED BY <3>1 DEF Plain
  <2>2. F[i] = IF i = 1 THEN Piece(text, edits, 0) ELSE F[i - 1] \o Piece(text, edits, i - 1)
    <3>1. i \in 1..(Len(text) + 1)
      OBVIOUS
    <3> QED BY <3>1 DEF Builds
  <2>3. i \in 1..Len(text)
    OBVIOUS
  <2>4. CASE i = 1
    <3>1. SubSeq(text, 1, 1) = <<text[1]>> \o SubSeq(text, 2, 1) /\ SubSeq(text, 2, 1) = <<>>
      BY <2>3, <2>4, SubSeqRecursiveFirst, SubSeqEmpty
    <3>2. <<text[1]>> \in Seq(V)
      BY <2>3, <2>4
    <3>3. SubSeq(text, 1, 1) = <<text[1]>>
      BY <3>1, <3>2, ConcatEmptySeq
    <3>4. F[1] = <<text[1]>>
      BY <2>1, <2>2, <2>4
    <3> QED BY <3>3, <3>4, <2>4
  <2>5. CASE i # 1
    <3>1. F[i - 1] = SubSeq(text, 1, i - 1)
      BY <1>1, <2>5
    <3>2. SubSeq(text, 1, i) = SubSeq(text, 1, i - 1) \o <<text[i]>>
      BY <2>3, SubSeqRecursiveSecond
    <3> QED BY <2>1, <2>2, <2>5, <3>1, <3>2
  <2> QED BY <2>4, <2>5
<1> HIDE DEF T
<1>2. \A i \in 1..k : i \in T
  <2>1. k \in Nat /\ 1 \in Nat
    OBVIOUS
  <2> QED BY <1>1, <2>1, CountUp
<1> QED BY <1>2 DEF T

\* Three texts in a row, for any first one.
LEMMA Reassociated ==
  ASSUME NEW V, NEW r \in Seq(V), NEW p \in Seq(V)
  PROVE  \A s \in Seq(V) : (s \o r) \o p = s \o (r \o p)
BY ConcatAssociative

\* What follows an offset is the same text if the pieces are the same.
LEMMA CommonRest ==
  ASSUME NEW V, NEW text \in Seq(V), NEW S1, NEW S2, NEW F, NEW G,
         Builds(F, text, S1), Builds(G, text, S2),
         AllTexts(V, S1),
         NEW j \in 1..(Len(text) + 1), F[j] \in Seq(V), G[j] \in Seq(V),
         Agree(text, S1, S2, j)
  PROVE  Continue(V, F, G, j, Len(text) + 1)
<1> DEFINE n == Len(text) + 1
           T == {i \in j..n : \E R \in Seq(V) : F[i] = F[j] \o R /\ G[i] = G[j] \o R}
<1>1. ASSUME NEW i \in j..n, i = j \/ i - 1 \in T PROVE i \in T
  <2>1. CASE i = j
    <3>1. <<>> \in Seq(V) /\ F[j] \o <<>> = F[j] /\ G[j] \o <<>> = G[j]
      OBVIOUS
    <3> QED BY <3>1, <2>1
  <2>2. CASE i # j
    <3>1. PICK R \in Seq(V) : F[i - 1] = F[j] \o R /\ G[i - 1] = G[j] \o R
      BY <1>1, <2>2
    <3> DEFINE P == Piece(text, S1, i - 1)
    <3>2. P \in Seq(V) /\ P = Piece(text, S2, i - 1)
      <4>1. i - 1 \in j..Len(text) /\ i - 1 \in 0..Len(text)
        BY <2>2
      <4> QED BY <4>1, PieceType DEF Agree
    <3>3. F[i] = F[i - 1] \o P /\ G[i] = G[i - 1] \o P
      <4>1. i \in 2..(Len(text) + 1)
        BY <2>2
      <4> QED BY <4>1, <3>2, BuildsStep
    <3> HIDE DEF P
    <3>4. \A s \in Seq(V) : (s \o R) \o P = s \o (R \o P)
      BY <3>2, Reassociated
    <3>5. (F[j] \o R) \o P = F[j] \o (R \o P) /\ (G[j] \o R) \o P = G[j] \o (R \o P)
      BY <3>4
    <3>6. R \o P \in Seq(V)
      BY <3>2, ConcatProperties
    <3> QED BY <3>1, <3>3, <3>5, <3>6
  <2> QED BY <2>1, <2>2
<1> HIDE DEF T
<1>2. \A i \in j..n : i \in T
  <2>1. n \in Nat /\ j \in Nat
    OBVIOUS
  <2> HIDE DEF n
  <2> QED BY <1>1, <2>1, CountUp
<1>3. n \in j..n
  OBVIOUS
<1> QED BY <1>2, <1>3 DEF T, Continue

\* Without edits a text is as it was.
LEMMA NothingToSubstitute ==
  ASSUME NEW V, NEW text \in Seq(V)
  PROVE  Substitute(text, {}) = text
<1>1. PICK F : Builds(F, text, {}) /\ Substitute(text, {}) = F[Len(text) + 1]
  BY SubstituteIs
<1>2. Plain(text, {}, Len(text))
  BY DEF Piece, Plain
<1>3. Piece(text, {}, Len(text)) = <<>>
  BY DEF Piece
<1>4. CASE Len(text) = 0
  <2>1. F[1] = Piece(text, {}, 0)
    BY <1>1, BuildsStep
  <2> QED BY <1>1, <1>3, <1>4, <2>1
<1>5. CASE Len(text) # 0
  <2> DEFINE n == Len(text)
  <2>1. n \in Nat \ {0} /\ n + 1 \in 2..(n + 1) /\ (n + 1) - 1 = n
    BY <1>5
  <2>2. F[n + 1] = F[n] \o <<>>
    <3>1. F[n + 1] = F[(n + 1) - 1] \o Piece(text, {}, (n + 1) - 1)
      BY <1>1, <2>1, BuildsStep
    <3> QED BY <1>3, <2>1, <3>1
  <2>3. F[n] = SubSeq(text, 1, n)
    BY <1>1, <1>2, <2>1, PlainPrefix
  <2>4. SubSeq(text, 1, n) = text /\ text \o <<>> = text
    BY SubSeqFull
  <2> QED BY <1>1, <2>2, <2>3, <2>4
<1> QED BY <1>4, <1>5

\* What has been built once the copied text ends.
LEMMA Reached ==
  ASSUME NEW V, NEW text \in Seq(V), NEW edits, NEW F, Builds(F, text, edits),
         AllTexts(V, edits),
         NEW k \in 0..Len(text), Plain(text, edits, k)
  PROVE  F[k + 1] = SubSeq(text, 1, k) \o Piece(text, edits, k)
<1>1. Piece(text, edits, k) \in Seq(V)
  BY PieceType
<1>2. CASE k = 0
  <2>1. F[1] = Piece(text, edits, 0)
    BY BuildsStep
  <2>2. SubSeq(text, 1, 0) = <<>>
    BY SubSeqEmpty
  <2>3. <<>> \o Piece(text, edits, 0) = Piece(text, edits, 0)
    BY <1>1, <1>2
  <2>4. k + 1 = 1
    BY <1>2
  <2>5. F[1] = SubSeq(text, 1, 0) \o Piece(text, edits, 0)
    BY <2>1, <2>2, <2>3
  <2> QED BY ONLY <1>2, <2>4, <2>5
<1>3. CASE k # 0
  <2>1. F[k] = SubSeq(text, 1, k)
    <3>1. k \in 1..k
      BY <1>3
    <3> QED BY <3>1, PlainPrefix
  <2>2. k + 1 \in 2..(Len(text) + 1) /\ (k + 1) - 1 = k
    BY <1>3
  <2>3. F[k + 1] = F[(k + 1) - 1] \o Piece(text, edits, (k + 1) - 1)
    BY <2>2, BuildsStep
  <2> QED BY <2>1, <2>2, <2>3
<1> QED BY <1>2, <1>3

\* Where the pieces are empty nothing is added.
LEMMA Covered ==
  ASSUME NEW V, NEW text \in Seq(V), NEW edits, NEW F, Builds(F, text, edits),
         NEW j \in 1..(Len(text) + 1), NEW k \in j..(Len(text) + 1), F[j] \in Seq(V),
         Silent(text, edits, j, k)
  PROVE  F[k] = F[j]
<1> DEFINE T == {i \in j..k : F[i] = F[j]}
<1>1. ASSUME NEW i \in j..k, i = j \/ i - 1 \in T PROVE i \in T
  <2>1. CASE i # j
    <3>1. i \in 2..(Len(text) + 1) /\ i - 1 \in j..(k - 1)
      BY <2>1
    <3>2. F[i] = F[i - 1] \o Piece(text, edits, i - 1)
      BY <3>1, BuildsStep
    <3>3. F[i - 1] = F[j] /\ Piece(text, edits, i - 1) = <<>>
      BY <1>1, <2>1, <3>1 DEF Silent
    <3>4. F[j] \o <<>> = F[j]
      OBVIOUS
    <3> QED BY <3>2, <3>3, <3>4
  <2> QED BY <2>1
<1> HIDE DEF T
<1>2. \A i \in j..k : i \in T
  <2>1. j \in Nat /\ k \in Nat
    OBVIOUS
  <2> QED BY <1>1, <2>1, CountUp
<1>3. k \in j..k
  OBVIOUS
<1> QED BY <1>2, <1>3 DEF T

\* Two texts in a row, cut in the first and between them.
LEMMA CutInTwo ==
  ASSUME NEW V, NEW y \in Seq(V), NEW r \in Seq(V), NEW b \in 0..Len(y)
  PROVE  /\ SubSeq(y \o r, 1, b) = SubSeq(y, 1, b)
         /\ SubSeq(y \o r, Len(y) + 1, Len(y \o r)) = r
         /\ Len(y) <= Len(y \o r)
<1>1. y \o r \in Seq(V) /\ Len(y \o r) = Len(y) + Len(r)
  OBVIOUS
<1>2. SubSeq(y \o r, 1, b) = SubSeq(y, 1, b)
  <2>1. CASE b = 0
    BY <2>1, SubSeqEmpty
  <2>2. CASE b # 0
    <3>1. 1 \in 1..Len(y) /\ b \in 1..Len(y)
      BY <2>2
    <3> QED BY <3>1, SubSeqOfConcat1
  <2> QED BY <2>1, <2>2
<1>3. SubSeq(y \o r, Len(y) + 1, Len(y \o r)) = r
  <2>1. CASE Len(r) = 0
    <3>1. r = <<>> /\ Len(y \o r) < Len(y) + 1
      BY <1>1, <2>1
    <3> QED BY <3>1, SubSeqEmpty
  <2>2. CASE Len(r) # 0
    <3> DEFINE m == Len(y) + 1
               l == Len(y) + Len(r)
    <3>1. m \in Len(y) + 1 .. Len(y) + Len(r) /\ l \in Len(y) + 1 .. Len(y) + Len(r)
      BY <2>2
    <3>2. m - Len(y) = 1 /\ l - Len(y) = Len(r)
      OBVIOUS
    <3> HIDE DEF m, l
    <3>3. SubSeq(y \o r, m, l) = SubSeq(r, m - Len(y), l - Len(y))
      BY <3>1, SubSeqOfConcat2
    <3> QED BY <1>1, <3>2, <3>3, SubSeqFull DEF m, l
  <2> QED BY <2>1, <2>2
<1> QED BY <1>1, <1>2, <1>3

-----------------------------------------------------------------------------
\* The replacement that edit e of text begins with at its offset.
LEMMA PieceOfEdit ==
  ASSUME NEW text, NEW edits, NEW e \in edits, NEW p \in Nat,
         e.begin = p, \A d \in edits : d.begin = p => d = e
  PROVE  Piece(text, edits, p) =
           e.replacement \o (IF (\E d \in edits : d.begin <= p /\ p < d.end) \/ p = Len(text)
                               THEN <<>> ELSE <<text[p + 1]>>)
<1>1. {d \in edits : d.begin = p} = {e}
  OBVIOUS
<1>2. (CHOOSE d \in {e} : TRUE) = e
  OBVIOUS
<1> QED BY <1>1, <1>2 DEF Piece

\* Where no edit begins and none reaches, the byte itself.
LEMMA PlainPiece ==
  ASSUME NEW V, NEW text \in Seq(V), NEW edits, NEW p \in 0..(Len(text) - 1),
         \A d \in edits : d.begin # p /\ ~(d.begin <= p /\ p < d.end)
  PROVE  Piece(text, edits, p) = <<text[p + 1]>>
<1>1. p # Len(text) /\ text[p + 1] \in V
  OBVIOUS
<1>2. {d \in edits : d.begin = p} = {}
  OBVIOUS
<1>3. <<>> \o <<text[p + 1]>> = <<text[p + 1]>>
  BY <1>1
<1> QED BY <1>1, <1>2, <1>3 DEF Piece

\* Inside a range in which no edit begins, nothing.
LEMMA SilentPiece ==
  ASSUME NEW text, NEW edits, NEW p, \A d \in edits : d.begin # p,
         NEW e \in edits, e.begin <= p, p < e.end
  PROVE  Piece(text, edits, p) = <<>>
<1>1. {d \in edits : d.begin = p} = {}
  OBVIOUS
<1>2. <<>> \o <<>> = <<>>
  OBVIOUS
<1> QED BY <1>1, <1>2 DEF Piece

\* The text inserted for the edits that begin at an offset.
Inserted(beginning) ==
  IF beginning = {} THEN <<>> ELSE (CHOOSE e \in beginning : TRUE).replacement

\* An edit that neither begins at an offset nor reaches it makes no
\* difference there.
LEMMA SamePiece ==
  ASSUME NEW text, NEW S, NEW e, NEW p, ~Touches(e, p)
  PROVE  Piece(text, S, p) = Piece(text, S \cup {e}, p)
<1> DEFINE B(X) == {d \in X : d.begin = p}
           kept(X) == IF (\E d \in X : d.begin <= p /\ p < d.end) \/ p = Len(text) THEN <<>>
                      ELSE <<text[p + 1]>>
<1>1. \A X : Piece(text, X, p) = Inserted(B(X)) \o kept(X)
  BY DEF Piece, Inserted
<1>2. B(S) = B(S \cup {e}) /\ kept(S) = kept(S \cup {e})
  BY DEF Touches
<1> HIDE DEF B, kept
<1> QED BY <1>1, <1>2

\* E makes of text what S makes of it, with r for the range from b to n.
Replaces(V, text, S, E, b, n, r) ==
  \E R \in Seq(V) : /\ Substitute(text, S) = SubSeq(text, 1, n) \o R
                     /\ Substitute(text, E) = (SubSeq(text, 1, b) \o r) \o R

\* The text with the replacement in it, from the pieces: S copies the range
\* and E replaces it, which is the only difference between them.
LEMMA SpliceBuilds ==
  ASSUME NEW V, NEW text \in Seq(V), NEW S, AllTexts(V, S), NEW E, AllTexts(V, E),
         NEW n \in 0..Len(text), NEW b \in 0..Len(text), b <= n,
         NEW r \in Seq(V), NEW kept \in Seq(V), b < n => kept = <<>>,
         Plain(text, S, n), Plain(text, E, b),
         b = n => Piece(text, S, b) = kept,
         Piece(text, E, b) = r \o kept,
         Silent(text, E, b + 1, n),
         b < n => Agree(text, S, E, n), b = n => Agree(text, S, E, b + 1)
  PROVE  Replaces(V, text, S, E, b, n, r)
<1>1. PICK F : Builds(F, text, S) /\ Substitute(text, S) = F[Len(text) + 1]
  BY SubstituteIs
<1>2. PICK G : Builds(G, text, E) /\ Substitute(text, E) = G[Len(text) + 1]
  BY SubstituteIs
<1>3. \A i \in 1..(Len(text) + 1) : F[i] \in Seq(V) /\ G[i] \in Seq(V)
  BY <1>1, <1>2, BuildsTexts
<1> DEFINE x == SubSeq(text, 1, b)
           y == SubSeq(text, 1, n)
<1>4. x \in Seq(V)
  <2>1. \A i \in 1..b : text[i] \in V
    OBVIOUS
  <2> QED BY <2>1, SubSeqProperties
<1>5. G[b + 1] = x \o (r \o kept)
  <2>1. G[b + 1] = x \o Piece(text, E, b)
    BY ONLY text \in Seq(V), AllTexts(V, E), b \in 0..Len(text), Plain(text, E, b), <1>2, Reached
  <2> QED BY <2>1
<1>6. CASE b < n
  <2>1. kept = <<>> /\ r \o <<>> = r
    BY <1>6
  <2>2. F[n] = y
    <3>1. n \in 1..n
      BY <1>6
    <3> QED BY <3>1, <1>1, PlainPrefix
  <2>3. G[n] = G[b + 1]
    <3>1. b + 1 \in 1..(Len(text) + 1) /\ n \in (b + 1)..(Len(text) + 1)
      BY <1>6
    <3>2. G[b + 1] \in Seq(V)
      BY <1>3, <3>1
    <3> QED BY <3>1, <3>2, <1>2, Covered
  <2>4. G[n] = x \o r
    BY ONLY <1>5, <2>1, <2>3
  <2>5. n \in 1..(Len(text) + 1) /\ Agree(text, S, E, n)
    BY <1>6
  <2>6. F[n] \in Seq(V) /\ G[n] \in Seq(V)
    BY <1>3, <2>5
  <2>7. Continue(V, F, G, n, Len(text) + 1)
    BY ONLY text \in Seq(V), AllTexts(V, S), <2>5, <2>6, <1>1, <1>2, CommonRest
  <2> QED BY ONLY <1>1, <1>2, <2>2, <2>4, <2>7 DEF Continue, Replaces
<1>7. CASE b = n
  <2>1. F[b + 1] = x \o kept
    <3>1. Plain(text, S, b)
      BY <1>7
    <3>2. F[b + 1] = x \o Piece(text, S, b)
      BY <1>1, <3>1, Reached
    <3> QED BY <1>7, <3>2
  <2>2. b + 1 \in 1..(Len(text) + 1) /\ Agree(text, S, E, b + 1)
    BY <1>7
  <2>3. F[b + 1] \in Seq(V) /\ G[b + 1] \in Seq(V)
    BY <1>3, <2>2
  <2>4. Continue(V, F, G, b + 1, Len(text) + 1)
    BY ONLY text \in Seq(V), AllTexts(V, S), <2>2, <2>3, <1>1, <1>2, CommonRest
  <2> HIDE DEF x, y
  <2>5. PICK R \in Seq(V) : /\ F[Len(text) + 1] = (x \o kept) \o R
                            /\ G[Len(text) + 1] = (x \o (r \o kept)) \o R
    BY ONLY <1>5, <2>1, <2>4 DEF Continue
  <2>6. (x \o kept) \o R = x \o (kept \o R) /\ kept \o R \in Seq(V)
    BY <1>4, Reassociated, ConcatProperties
  <2>7. x \o (r \o kept) = (x \o r) \o kept /\ x \o r \in Seq(V)
    BY <1>4, Reassociated, ConcatProperties
  <2>8. ((x \o r) \o kept) \o R = (x \o r) \o (kept \o R)
    BY <2>7, Reassociated
  <2>9. y = x
    BY <1>7 DEF x, y
  <2>10. F[Len(text) + 1] = y \o (kept \o R) /\ G[Len(text) + 1] = (x \o r) \o (kept \o R)
    BY ONLY <2>5, <2>6, <2>7, <2>8, <2>9
  <2> QED BY ONLY <1>1, <1>2, <2>6, <2>10 DEF x, y, Replaces
<1>8. b < n \/ b = n
  OBVIOUS
<1> QED BY <1>6, <1>7, <1>8

\* The edits of S lie behind e.
Behind(V, S, e) ==
  \A d \in S : /\ d.begin \in Nat /\ d.end \in Nat /\ d.replacement \in Seq(V)
               /\ d.begin > e.begin /\ d.begin >= e.end /\ d.begin <= d.end

\* Text t with the range of e replaced.
OneSplice(t, e) == SubSeq(t, 1, e.begin) \o e.replacement \o SubSeq(t, e.end + 1, Len(t))

\* One more edit in front of the others is one more splice: the text that
\* the others make, with the range of e replaced.
LEMMA SpliceOne ==
  ASSUME NEW V, NEW text \in Seq(V), NEW S, NEW e, Behind(V, S, e),
         e.begin \in Nat, e.end \in 0..Len(text), e.begin <= e.end, e.replacement \in Seq(V)
  PROVE  Substitute(text, S \cup {e}) = OneSplice(Substitute(text, S), e)
<1> SUFFICES ASSUME NEW b \in Nat, NEW n \in 0..Len(text), b <= n, e.begin = b, e.end = n
             PROVE  LET t == Substitute(text, S)
                    IN  /\ n <= Len(t)
                        /\ Substitute(text, S \cup {e}) =
                             SubSeq(t, 1, b) \o e.replacement \o SubSeq(t, n + 1, Len(t))
  BY DEF OneSplice
<1> USE DEF Behind
<1> DEFINE kept == IF b < n \/ b = Len(text) THEN <<>> ELSE <<text[b + 1]>>
           r == e.replacement
<1>1. kept \in Seq(V) /\ (b < n => kept = <<>>)
  OBVIOUS
<1>2. Plain(text, S, n)
  <2> SUFFICES ASSUME NEW p \in 0..(n - 1) PROVE Piece(text, S, p) = <<text[p + 1]>>
    BY DEF Plain
  <2>1. p \in 0..(Len(text) - 1) /\ \A d \in S : d.begin # p /\ ~(d.begin <= p /\ p < d.end)
    OBVIOUS
  <2> QED BY <2>1, PlainPiece
<1> SUFFICES ASSUME NEW E, E = S \cup {e}
             PROVE  LET t == Substitute(text, S)
                    IN  /\ n <= Len(t)
                        /\ Substitute(text, E) = SubSeq(t, 1, b) \o r \o SubSeq(t, n + 1, Len(t))
  OBVIOUS
<1>3. Plain(text, E, b)
  <2> SUFFICES ASSUME NEW p \in 0..(b - 1) PROVE Piece(text, E, p) = <<text[p + 1]>>
    BY DEF Plain
  <2>1. p \in 0..(Len(text) - 1) /\ \A d \in E : d.begin # p /\ ~(d.begin <= p /\ p < d.end)
    OBVIOUS
  <2> QED BY <2>1, PlainPiece
<1>4. b = n => Piece(text, S, b) = kept
  <2>1. {d \in S : d.begin = b} = {} /\ ~\E d \in S : d.begin <= b /\ b < d.end
    OBVIOUS
  <2>2. <<>> \o kept = kept
    BY <1>1
  <2> QED BY <2>1, <2>2 DEF Piece
<1>5. Piece(text, E, b) = r \o kept
  <2>1. e \in E /\ \A d \in E : d.begin = b => d = e
    OBVIOUS
  <2>2. (\E d \in E : d.begin <= b /\ b < d.end) <=> b < n
    OBVIOUS
  <2>3. Piece(text, E, b) = r \o (IF (\E d \in E : d.begin <= b /\ b < d.end) \/ b = Len(text)
                                    THEN <<>> ELSE <<text[b + 1]>>)
    BY ONLY b \in Nat, e.begin = b, <2>1, PieceOfEdit
  <2> QED BY ONLY <2>2, <2>3
<1>6. Silent(text, E, b + 1, n)
  <2> SUFFICES ASSUME NEW p \in (b + 1)..(n - 1) PROVE Piece(text, E, p) = <<>>
    BY DEF Silent
  <2>1. e \in E /\ \A d \in E : d.begin # p
    OBVIOUS
  <2>2. e.begin <= p /\ p < e.end
    OBVIOUS
  <2> QED BY <2>1, <2>2, SilentPiece
<1>7. ASSUME NEW p \in Nat, p >= n, p # b PROVE Piece(text, S, p) = Piece(text, E, p)
  <2>1. ~Touches(e, p)
    BY <1>7 DEF Touches
  <2>2. Piece(text, S, p) = Piece(text, S \cup {e}, p)
    BY <2>1, SamePiece
  <2> QED BY <2>2
<1>8. (b < n => Agree(text, S, E, n)) /\ (b = n => Agree(text, S, E, b + 1))
  <2>1. \A p \in n..Len(text) : p \in Nat /\ p >= n /\ (b < n => p # b)
    OBVIOUS
  <2>2. b = n => \A p \in (b + 1)..Len(text) : p \in Nat /\ p >= n /\ p # b
    OBVIOUS
  <2> QED BY ONLY <1>7, <2>1, <2>2 DEF Agree
<1>9. PICK R \in Seq(V) : /\ Substitute(text, S) = SubSeq(text, 1, n) \o R
                          /\ Substitute(text, E) = (SubSeq(text, 1, b) \o r) \o R
  <2>1. AllTexts(V, S) /\ AllTexts(V, E) /\ b \in 0..Len(text) /\ r \in Seq(V)
    BY DEF AllTexts
  <2> HIDE DEF kept, r
  <2>2. Replaces(V, text, S, E, b, n, r)
    BY <2>1, <1>1, <1>2, <1>3, <1>4, <1>5, <1>6, <1>8, SpliceBuilds
  <2> QED BY <2>2 DEF Replaces
<1> DEFINE x == SubSeq(text, 1, b)
           y == SubSeq(text, 1, n)
<1>10. y \in Seq(V) /\ Len(y) = n
  <2>1. \A i \in 1..n : text[i] \in V
    OBVIOUS
  <2> QED BY <2>1, SubSeqProperties
<1>11. SubSeq(y, 1, b) = x
  <2>1. CASE b = 0
    BY <2>1, SubSeqEmpty
  <2>2. CASE b # 0
    <3>1. n \in 1..Len(text) /\ 1 \in 1..Len(text) /\ 1 \in 1..(n - 1 + 1) /\ b \in 1..(n - 1 + 1)
      BY <2>2
    <3>2. SubSeq(SubSeq(text, 1, n), 1, b) = SubSeq(text, 1 + 1 - 1, 1 + b - 1)
      BY <1>10, <3>1, SubSeqOfSubSeq
    <3>3. 1 + 1 - 1 = 1 /\ 1 + b - 1 = b
      OBVIOUS
    <3> QED BY <3>2, <3>3
  <2> QED BY <2>1, <2>2
<1> HIDE DEF x, y
<1> DEFINE t == Substitute(text, S)
<1>12. SubSeq(t, 1, b) = x /\ SubSeq(t, n + 1, Len(t)) = R /\ n <= Len(t)
  <2>1. b \in 0..Len(y)
    BY <1>10
  <2>2. t = y \o R
    BY <1>9 DEF y
  <2> HIDE DEF t
  <2> QED BY <2>1, <2>2, <1>10, <1>11, CutInTwo
<1> QED BY <1>9, <1>12 DEF x

-----------------------------------------------------------------------------
(* Parts of texts *)

PartsEqual(s, a, t, b, n) == SubSeq(s, a + 1, a + n) = SubSeq(t, b + 1, b + n)
MembersEqual(s, a, t, b, n) == \A k \in 1..n : s[a + k] = t[b + k]

\* A part is a text with the members it is taken from.
LEMMA PartIs ==
  ASSUME NEW V, NEW s \in Seq(V), NEW a \in Nat, NEW n \in Nat, a + n <= Len(s)
  PROVE  /\ SubSeq(s, a + 1, a + n) \in Seq(V) /\ Len(SubSeq(s, a + 1, a + n)) = n
         /\ \A k \in 1..n : SubSeq(s, a + 1, a + n)[k] = s[a + k]
<1>1. \A m \in (a + 1)..(a + n) : m \in 1..Len(s) /\ s[m] \in V
  OBVIOUS
<1>2. a + 1 \in Int /\ a + n \in Int
  OBVIOUS
<1>3. /\ SubSeq(s, a + 1, a + n) \in Seq(V)
      /\ Len(SubSeq(s, a + 1, a + n)) = IF a + 1 <= a + n THEN (a + n) - (a + 1) + 1 ELSE 0
      /\ \A m \in 1..((a + n) - (a + 1) + 1) : SubSeq(s, a + 1, a + n)[m] = s[(a + 1) + m - 1]
  BY <1>1, <1>2, SubSeqProperties
<1> DEFINE p == SubSeq(s, a + 1, a + n)
<1> HIDE DEF p
<1>4. Len(p) = n
  BY <1>3 DEF p
<1>5. ASSUME NEW k \in 1..n PROVE p[k] = s[a + k]
  <2>1. k \in 1..((a + n) - (a + 1) + 1) /\ (a + 1) + k - 1 = a + k
    OBVIOUS
  <2> QED BY <1>3, <2>1 DEF p
<1> QED BY <1>3, <1>4, <1>5 DEF p

\* Two parts of the same length are equal if their members are.
LEMMA SameParts ==
  ASSUME NEW V, NEW s \in Seq(V), NEW t \in Seq(V), NEW a \in Nat, NEW b \in Nat, NEW n \in Nat,
         a + n <= Len(s), b + n <= Len(t)
  PROVE  PartsEqual(s, a, t, b, n) <=> MembersEqual(s, a, t, b, n)
<1> DEFINE x == SubSeq(s, a + 1, a + n)
           y == SubSeq(t, b + 1, b + n)
<1>1. /\ x \in Seq(V) /\ Len(x) = n /\ \A k \in 1..n : x[k] = s[a + k]
      /\ y \in Seq(V) /\ Len(y) = n /\ \A k \in 1..n : y[k] = t[b + k]
  BY PartIs
<1> HIDE DEF x, y
<1>2. x = y <=> \A k \in 1..n : x[k] = y[k]
  BY <1>1, SeqEqual
<1>3. x = y <=> \A k \in 1..n : s[a + k] = t[b + k]
  BY <1>1, <1>2
<1> QED BY <1>3 DEF x, y, PartsEqual, MembersEqual

\* A text is what its three parts make.
LEMMA ThreeParts ==
  ASSUME NEW V, NEW r \in Seq(V), NEW p \in Nat, NEW q \in Nat, p <= q, q <= Len(r)
  PROVE  SubSeq(r, 1, p) \o SubSeq(r, p + 1, q) \o SubSeq(r, q + 1, Len(r)) = r
<1>1. SubSeq(r, 1, p) \o SubSeq(r, p + 1, q) = SubSeq(r, 1, q)
  <2>1. 1 \in 1..(Len(r) + 1) /\ p \in (1 - 1)..Len(r) /\ q \in p..Len(r)
    OBVIOUS
  <2> QED BY <2>1, ConcatAdjacentSubSeq
<1>2. SubSeq(r, 1, q) \o SubSeq(r, q + 1, Len(r)) = SubSeq(r, 1, Len(r))
  <2>1. 1 \in 1..(Len(r) + 1) /\ q \in (1 - 1)..Len(r) /\ Len(r) \in q..Len(r)
    OBVIOUS
  <2> QED BY <2>1, ConcatAdjacentSubSeq
<1> QED BY <1>1, <1>2, SubSeqFull

-----------------------------------------------------------------------------
(* Texts in a row *)

\* Three texts in a row, cut between them.
Around(s, x, y, r) ==
  /\ SubSeq(s, 1, Len(x)) = x
  /\ SubSeq(s, Len(x) + 1, Len(x) + Len(y)) = y
  /\ SubSeq(s, Len(x) + Len(y) + 1, Len(s)) = r

\* A text made of three is cut into them.
LEMMA CutInThree ==
  ASSUME NEW V, NEW x \in Seq(V), NEW y \in Seq(V), NEW r \in Seq(V)
  PROVE  Around(x \o y \o r, x, y, r)
<1> DEFINE h == x \o y
           s == h \o r
<1>1. h \in Seq(V) /\ Len(h) = Len(x) + Len(y) /\ Len(x) \in Nat /\ Len(y) \in Nat /\ Len(r) \in Nat
      /\ s \in Seq(V) /\ Len(s) = Len(h) + Len(r)
  OBVIOUS
<1>2. (\A k \in 1..Len(x) : h[k] = x[k]) /\ \A k \in 1..Len(y) : h[Len(x) + k] = y[k]
  BY <1>1, ConcatProperties
<1>3. \A k \in 1..Len(h) : s[k] = h[k]
  <2> HIDE DEF h
  <2> QED BY <1>1, ConcatProperties
<1>4. SubSeq(s, Len(h) + 1, Len(s)) = r
  <2>1. 0 \in 0..Len(h)
    BY <1>1
  <2> HIDE DEF h
  <2> QED BY <1>1, <2>1, CutInTwo
<1> HIDE DEF h, s
<1>5. SubSeq(s, 1, Len(x)) = x
  <2> DEFINE p == SubSeq(s, 0 + 1, 0 + Len(x))
  <2>1. p \in Seq(V) /\ Len(p) = Len(x) /\ \A k \in 1..Len(x) : p[k] = s[0 + k]
    BY <1>1, PartIs
  <2> HIDE DEF p
  <2>2. \A k \in 1..Len(x) : p[k] = x[k]
    BY <1>1, <1>2, <1>3, <2>1
  <2>3. p = x
    BY <2>1, <2>2, SeqEqual
  <2>4. 0 + 1 = 1 /\ 0 + Len(x) = Len(x)
    BY <1>1
  <2> QED BY <2>3, <2>4 DEF p
<1>6. SubSeq(s, Len(x) + 1, Len(x) + Len(y)) = y
  <2> DEFINE p == SubSeq(s, Len(x) + 1, Len(x) + Len(y))
  <2>1. p \in Seq(V) /\ Len(p) = Len(y) /\ \A k \in 1..Len(y) : p[k] = s[Len(x) + k]
    BY <1>1, PartIs
  <2> HIDE DEF p
  <2>2. ASSUME NEW k \in 1..Len(y) PROVE p[k] = y[k]
    <3>1. p[k] = s[Len(x) + k] /\ h[Len(x) + k] = y[k]
      BY <1>2, <2>1
    <3>2. Len(x) + k \in 1..Len(h)
      BY <1>1
    <3> QED BY <1>3, <3>1, <3>2
  <2>3. p = y
    BY <2>1, <2>2, SeqEqual
  <2> QED BY <2>3 DEF p
<1> QED BY <1>1, <1>4, <1>5, <1>6 DEF s, h, Around

\* The last of two texts in a row ends them both.
LEMMA EndOfBoth ==
  ASSUME NEW V, NEW x \in Seq(V), NEW y \in Seq(V), Len(y) # 0
  PROVE  (x \o y)[Len(x \o y)] = y[Len(y)]
<1>1. Len(x \o y) = Len(x) + Len(y) /\ Len(x) \in Nat /\ Len(y) \in Nat
  OBVIOUS
<1>2. Len(x) + Len(y) \in 1..(Len(x) + Len(y)) /\ ~(Len(x) + Len(y) <= Len(x)) /\ Len(x) + Len(y) - Len(x) = Len(y)
  BY <1>1
<1>3. (x \o y)[Len(x) + Len(y)] = y[Len(x) + Len(y) - Len(x)]
  BY <1>2, ConcatProperties
<1> QED BY <1>1, <1>2, <1>3

-----------------------------------------------------------------------------
(* Recursions *)

\* What G gives at a place depends on what is at places of lower rank only.
Grounded(G, S, V, rank) ==
  \A f, g \in [S -> V] : \A s \in S :
    (\A r \in S : rank[r] < rank[s] => f[r] = g[r]) => G[f][s] = G[g][s]

\* A recursion over S for values in V, as a function of what it refers to.
Recursion(G, S, V, rank, top) ==
  /\ V # {} /\ top \in Nat /\ rank \in [S -> 0..top]
  /\ G \in [[S -> V] -> [S -> V]] /\ Grounded(G, S, V, rank)

(* A recursion in which each place depends on lower places only has a      *)
(* solution: one more layer of places can always be added.                 *)
LEMMA RecursionExists ==
  ASSUME NEW G, NEW S, NEW V, NEW rank, NEW top, Recursion(G, S, V, rank, top)
  PROVE  \E f \in [S -> V] : f = G[f]
<1> DEFINE Solves(f, n) == \A s \in S : rank[s] < n => f[s] = G[f][s]
           T == {n \in Nat : \E f \in [S -> V] : Solves(f, n)}
<1>0. /\ V # {} /\ top \in Nat /\ rank \in [S -> 0..top]
      /\ G \in [[S -> V] -> [S -> V]] /\ Grounded(G, S, V, rank)
  BY DEF Recursion
<1>1. 0 \in T
  <2>0. PICK v \in V : TRUE
    BY <1>0
  <2>1. [s \in S |-> v] \in [S -> V] /\ Solves([s \in S |-> v], 0)
    BY <1>0
  <2> QED BY <2>1
<1>2. ASSUME NEW n \in Nat, n \in T PROVE n + 1 \in T
  <2>1. PICK f \in [S -> V] : Solves(f, n)
    BY <1>2
  <2> DEFINE g == G[f]
  <2>2. g \in [S -> V]
    BY <1>0
  <2> HIDE DEF g
  <2>3. ASSUME NEW s \in S, rank[s] < n + 1 PROVE g[s] = G[g][s]
    <3>1. \A r \in S : rank[r] < rank[s] => f[r] = g[r]
      BY <1>0, <2>1, <2>3 DEF g
    <3>2. G[f][s] = G[g][s]
      BY <1>0, <2>2, <3>1 DEF Grounded
    <3> QED BY <3>2 DEF g
  <2>4. Solves(g, n + 1)
    BY <1>0, <2>3
  <2> HIDE DEF Solves
  <2> QED BY <2>2, <2>4
<1>3. top + 1 \in T
  <2> HIDE DEF T
  <2>1. \A n \in 0..(top + 1) : n = 0 \/ n - 1 \in T => n \in T
    <3> SUFFICES ASSUME NEW n \in 0..(top + 1), n = 0 \/ n - 1 \in T PROVE n \in T
      OBVIOUS
    <3>1. n # 0 => n - 1 \in Nat /\ (n - 1) + 1 = n
      OBVIOUS
    <3> QED BY <1>1, <1>2, <3>1
  <2>2. top + 1 \in Nat /\ top + 1 \in 0..(top + 1)
    BY <1>0
  <2> QED BY <2>1, <2>2, CountUp
<1>4. PICK f \in [S -> V] : Solves(f, top + 1)
  BY <1>0, <1>3
<1>5. G[f] \in [S -> V] /\ \A s \in S : f[s] = G[f][s]
  BY <1>0, <1>4
<1> QED BY <1>5

-----------------------------------------------------------------------------
(* Sequences with members left out *)

\* Members can be counted.
CountOf(q, wanted) == [k \in 0..Len(q) |-> Cardinality(wanted \cap 1..k)]

\* The count of the members up to each place is a count from nothing on.
LEMMA CountOfCounts ==
  ASSUME NEW X, NEW q \in Seq(X), NEW wanted
  PROVE  Counts(CountOf(q, wanted), q, wanted) /\ CountOf(q, wanted)[0] = 0
<1>1. Len(q) \in Nat
  OBVIOUS
<1>2. \A k \in 0..Len(q) : CountOf(q, wanted)[k] = Cardinality(wanted \cap 1..k) /\ IsFiniteSet(wanted \cap 1..k)
  <2> SUFFICES ASSUME NEW k \in 0..Len(q) PROVE IsFiniteSet(wanted \cap 1..k)
    BY DEF CountOf
  <2>1. IsFiniteSet(1..k)
    BY <1>1, FS_Interval
  <2> QED BY <2>1, FS_Subset
<1>3. \A k \in 0..Len(q) : CountOf(q, wanted)[k] \in Nat
  BY <1>2, FS_CardinalityType
<1>4. ASSUME NEW k \in 1..Len(q)
      PROVE  CountOf(q, wanted)[k] = CountOf(q, wanted)[k - 1] + (IF k \in wanted THEN 1 ELSE 0)
  <2>1. k \in 0..Len(q) /\ k - 1 \in 0..Len(q) /\ k \notin 1..(k - 1) /\ 1..k = 1..(k - 1) \cup {k}
    BY <1>1
  <2>2. CASE k \in wanted
    <3>1. wanted \cap 1..k = (wanted \cap 1..(k - 1)) \cup {k} /\ k \notin wanted \cap 1..(k - 1)
      BY <2>1, <2>2
    <3>2. IsFiniteSet(wanted \cap 1..(k - 1))
      BY <1>2, <2>1
    <3>3. Cardinality((wanted \cap 1..(k - 1)) \cup {k}) = Cardinality(wanted \cap 1..(k - 1)) + 1
      BY <3>1, <3>2, FS_AddElement
    <3> QED BY <1>2, <2>1, <2>2, <3>1, <3>3
  <2>3. CASE k \notin wanted
    <3>1. wanted \cap 1..k = wanted \cap 1..(k - 1)
      BY <2>1, <2>3
    <3>2. Cardinality(wanted \cap 1..(k - 1)) \in Nat
      BY <1>2, <2>1, FS_CardinalityType
    <3> QED BY <1>2, <2>1, <2>3, <3>1, <3>2
  <2> QED BY <2>2, <2>3
<1>5. CountOf(q, wanted)[0] = 0
  <2>1. wanted \cap 1..0 = {}
    OBVIOUS
  <2> QED BY <1>1, <1>2, <2>1, FS_EmptySet
<1> QED BY <1>3, <1>4, <1>5 DEF Counts

\* A count never falls.
LEMMA CountsGrow ==
  ASSUME NEW q, Len(q) \in Nat, NEW wanted, NEW at, Counts(at, q, wanted),
         NEW b \in 0..Len(q), NEW e \in 0..Len(q), b <= e
  PROVE  at[b] <= at[e]
<1> DEFINE T == {k \in 0..Len(q) : at[b] <= at[k]}
<1>1. ASSUME NEW k \in b..e, k = b \/ k - 1 \in T PROVE k \in T
  <2>1. k \in 0..Len(q) /\ at[k] \in Nat /\ at[b] \in Nat
    BY DEF Counts
  <2>2. CASE k = b
    BY <2>1, <2>2
  <2>3. CASE k # b
    <3>1. k \in 1..Len(q) /\ at[b] <= at[k - 1] /\ at[k - 1] \in Nat
      BY <1>1, <2>3 DEF Counts
    <3>2. at[k] = at[k - 1] + (IF k \in wanted THEN 1 ELSE 0)
      BY <3>1 DEF Counts
    <3> QED BY <2>1, <3>1, <3>2
  <2> QED BY <2>2, <2>3
<1>2. e \in T
  <2> HIDE DEF T
  <2>1. \A k \in b..e : k = b \/ k - 1 \in T => k \in T
    BY <1>1
  <2>2. b \in Nat /\ e \in Nat /\ e \in b..e
    OBVIOUS
  <2> QED BY <2>1, <2>2, CountUp
<1> QED BY <1>2

-----------------------------------------------------------------------------
(* q is found in t behind its first a members, with others in between. *)
Within(q, t, a) ==
  \E f \in [1..Len(q) -> (a + 1)..Len(t)] :
    /\ \A k \in 1..Len(q) : q[k] = t[f[k]]
    /\ \A k, n \in 1..Len(q) : k < n => f[k] < f[n]

\* What was picked from a sequence is found in it.
LEMMA PickedWithin ==
  ASSUME NEW X, NEW t \in Seq(X), NEW S \in SUBSET DOMAIN t
  PROVE  Picked(t, S) \in Seq(X) /\ Within(Picked(t, S), t, 0)
<1> DEFINE q == Picked(t, S)
           at == CountOf(t, S)
<1>1. q \in Seq(X)
  BY PickedMembers
<1>2. Counts(at, t, S) /\ at[0] = 0
  BY CountOfCounts
<1>3. Lined(q, t, S, at, Len(t))
  BY <1>2, PickedInOrder
<1> HIDE DEF q, at
<1>4. \A m \in 1..Len(q) : \E k \in 1..Len(t) : at[k] = m /\ q[m] = t[k]
  BY <1>2, <1>3 DEF Lined
<1> DEFINE f == [m \in 1..Len(q) |-> CHOOSE k \in 1..Len(t) : at[k] = m /\ q[m] = t[k]]
<1>5. \A m \in 1..Len(q) : f[m] \in 1..Len(t) /\ at[f[m]] = m /\ q[m] = t[f[m]]
  BY <1>4
<1>6. f \in [1..Len(q) -> 1..Len(t)]
  BY <1>5
<1> HIDE DEF f
<1>7. ASSUME NEW k \in 1..Len(q), NEW n \in 1..Len(q), k < n PROVE f[k] < f[n]
  <2>1. Len(t) \in Nat /\ f[k] \in 0..Len(t) /\ f[n] \in 0..Len(t)
    BY <1>5
  <2>2. ~(f[n] <= f[k])
    <3> SUFFICES ASSUME f[n] <= f[k] PROVE FALSE
      OBVIOUS
    <3>1. at[f[n]] <= at[f[k]]
      BY <1>2, <2>1, CountsGrow
    <3> QED BY <1>1, <1>5, <1>7, <3>1
  <2> QED BY <2>1, <2>2
<1>8. Within(q, t, 0)
  BY <1>5, <1>6, <1>7 DEF Within
<1> QED BY <1>1, <1>8 DEF q

\* Without its first member it is found behind that member.
LEMMA RestWithin ==
  ASSUME NEW X, NEW t \in Seq(X), NEW a \in 0..Len(t), NEW q \in Seq(X), q # <<>>, Within(q, t, a)
  PROVE  a < Len(t) /\ Within(Tail(q), t, a + 1)
<1>1. PICK f \in [1..Len(q) -> (a + 1)..Len(t)] :
         (\A k \in 1..Len(q) : q[k] = t[f[k]]) /\ \A k, n \in 1..Len(q) : k < n => f[k] < f[n]
  BY DEF Within
<1>2. /\ Tail(q) \in Seq(X) /\ Len(Tail(q)) = Len(q) - 1 /\ Len(q) \in Nat \ {0} /\ Len(t) \in Nat
      /\ \A k \in 1..Len(Tail(q)) : Tail(q)[k] = q[k + 1]
  BY HeadTailProperties, EmptySeq, LenProperties
<1>3. 1 \in 1..Len(q) /\ f[1] \in (a + 1)..Len(t)
  BY <1>2
<1> DEFINE g == [k \in 1..(Len(q) - 1) |-> f[k + 1]]
<1>4. \A k \in 1..(Len(q) - 1) : k + 1 \in 1..Len(q) /\ g[k] = f[k + 1] /\ g[k] \in (a + 2)..Len(t)
  <2> SUFFICES ASSUME NEW k \in 1..(Len(q) - 1) PROVE k + 1 \in 1..Len(q) /\ f[k + 1] \in (a + 2)..Len(t)
    OBVIOUS
  <2>1. k + 1 \in 1..Len(q) /\ 1 < k + 1
    BY <1>2
  <2>2. f[k + 1] \in (a + 1)..Len(t) /\ f[1] < f[k + 1]
    BY <1>1, <1>3, <2>1
  <2> QED BY <1>2, <1>3, <2>1, <2>2
<1>5. g \in [1..(Len(q) - 1) -> (a + 2)..Len(t)]
  BY <1>4
<1> HIDE DEF g
<1>6. \A k \in 1..(Len(q) - 1) : Tail(q)[k] = t[g[k]]
  BY <1>1, <1>2, <1>4
<1>7. \A k, n \in 1..(Len(q) - 1) : k < n => g[k] < g[n]
  <2> SUFFICES ASSUME NEW k \in 1..(Len(q) - 1), NEW n \in 1..(Len(q) - 1), k < n PROVE g[k] < g[n]
    OBVIOUS
  <2>1. k + 1 < n + 1
    BY <1>2
  <2> QED BY <1>1, <1>4, <2>1
<1>8. (a + 1) + 1 = a + 2
  OBVIOUS
<1>9. Within(Tail(q), t, a + 1)
  BY <1>2, <1>5, <1>6, <1>7, <1>8 DEF Within
<1> QED BY <1>2, <1>3, <1>9

\* If it does not begin with the next member, it is found behind that member.
LEMMA LaterWithin ==
  ASSUME NEW X, NEW t \in Seq(X), NEW a \in 0..Len(t), NEW q \in Seq(X), q # <<>>, Within(q, t, a),
         q[1] # t[a + 1]
  PROVE  Within(q, t, a + 1)
<1>1. PICK f \in [1..Len(q) -> (a + 1)..Len(t)] :
         (\A k \in 1..Len(q) : q[k] = t[f[k]]) /\ \A k, n \in 1..Len(q) : k < n => f[k] < f[n]
  BY DEF Within
<1>2. Len(q) \in Nat \ {0} /\ Len(t) \in Nat
  BY EmptySeq
<1>3. f[1] \in (a + 1)..Len(t) /\ q[1] = t[f[1]]
  BY <1>1, <1>2
<1>4. f[1] \in (a + 2)..Len(t)
  BY <1>2, <1>3
<1>5. \A k \in 1..Len(q) : f[k] \in (a + 2)..Len(t)
  <2> SUFFICES ASSUME NEW k \in 1..Len(q) PROVE f[k] \in (a + 2)..Len(t)
    OBVIOUS
  <2>1. CASE k = 1
    BY <1>4, <2>1
  <2>2. CASE k # 1
    <3>1. 1 < k /\ 1 \in 1..Len(q)
      BY <2>2
    <3>2. f[1] < f[k] /\ f[k] \in (a + 1)..Len(t)
      BY <1>1, <3>1
    <3> QED BY <1>2, <1>4, <3>2
  <2> QED BY <2>1, <2>2
<1>6. f \in [1..Len(q) -> (a + 2)..Len(t)] /\ (a + 1) + 1 = a + 2
  BY <1>5
<1> QED BY <1>1, <1>6 DEF Within
=============================================================================
