--------------------------- MODULE Positions_proofs ---------------------------
(***************************************************************************)
(* Lemmas about numbers and about what is left of a list, for the proofs of *)
(* the modules that shorten lists: which elements stay, how many there are, *)
(* in which order, and that they are as distinct as they were.              *)
(***************************************************************************)
EXTENDS Positions, SequencesExt, FiniteSetTheorems, SequenceTheorems, WellFoundedInduction, TLAPS

\* Every set of natural numbers has a least element.
LEMMA NatLeast ==
  ASSUME NEW T \in SUBSET Nat, T # {}
  PROVE  \E x \in T : \A y \in T : x <= y
<1> DEFINE R == OpToRel(<, Nat)
<1>1. IsWellFoundedOn(R, Nat)
  BY NatLessThanWellFounded
<1>2. \A x, y \in Nat : <<y, x>> \in R <=> y < x
  BY DEF OpToRel
<1> HIDE DEF R
<1>3. PICK x \in T : \A y \in T : ~ (<<y, x>> \in R)
  BY <1>1, WFMin
<1>4. ASSUME NEW y \in T PROVE x <= y
  <2>1. <<y, x>> \in R <=> y < x
    BY <1>2
  <2> QED BY <1>3, <2>1
<1> QED BY <1>4

\* Positions are finitely many, and the place of each is one of so many.
LEMMA RankFits ==
  ASSUME NEW m \in Nat, NEW S \in SUBSET (1 .. m)
  PROVE  /\ IsFiniteSet(S) /\ Cardinality(S) \in Nat /\ Cardinality(S) <= m
         /\ \A i \in Nat : /\ IsFiniteSet({j \in S : j <= i})
                           /\ Rank(S, i) \in Nat /\ Rank(S, i) <= Cardinality(S)
<1>1. IsFiniteSet(1 .. m) /\ Cardinality(1 .. m) = m
  BY FS_Interval
<1>2. IsFiniteSet(S) /\ Cardinality(S) <= m
  BY <1>1, FS_Subset
<1>3. Cardinality(S) \in Nat
  BY <1>2, FS_CardinalityType
<1>4. ASSUME NEW i \in Nat
      PROVE  /\ IsFiniteSet({j \in S : j <= i})
             /\ Rank(S, i) \in Nat /\ Rank(S, i) <= Cardinality(S)
  <2> DEFINE low == {j \in S : j <= i}
  <2>1. low \subseteq S
    OBVIOUS
  <2>2. IsFiniteSet(low) /\ Cardinality(low) <= Cardinality(S)
    BY <1>2, <2>1, FS_Subset
  <2>3. Cardinality(low) \in Nat
    BY <2>2, FS_CardinalityType
  <2> QED BY <1>3, <2>2, <2>3 DEF Rank
<1> QED BY <1>2, <1>3, <1>4

\* A later position has a later place.
LEMMA RankGrows ==
  ASSUME NEW m \in Nat, NEW S \in SUBSET (1 .. m), NEW i \in S, NEW k \in S, i < k
  PROVE  Rank(S, i) < Rank(S, k)
<1> DEFINE low == {j \in S : j <= i}
           high == {j \in S : j <= k}
<1>1. \A j \in S : j \in Nat
  OBVIOUS
<1>2. IsFiniteSet(low) /\ IsFiniteSet(high)
  BY <1>1, RankFits
<1>3. k \in high /\ k \notin low
  BY <1>1
<1>4. low \in SUBSET high
  <2>1. \A j \in S : j <= i => j <= k
    BY <1>1
  <2> QED BY <2>1
<1> HIDE DEF low, high
<1>5. Cardinality(low) <= Cardinality(high) /\ Cardinality(low) # Cardinality(high)
  <2>1. Cardinality(low) <= Cardinality(high)
    BY <1>2, <1>4, FS_Subset
  <2>2. Cardinality(high) = Cardinality(low) => high = low
    BY <1>2, <1>4, FS_Subset
  <2> QED BY <1>3, <2>1, <2>2
<1>6. Cardinality(low) \in Nat /\ Cardinality(high) \in Nat
  BY <1>2, FS_CardinalityType
<1>7. Cardinality(low) < Cardinality(high)
  BY <1>5, <1>6
<1> QED BY <1>7 DEF Rank, low, high

\* Every place is that of a position: of the first with as many up to it.
LEMMA RankReached ==
  ASSUME NEW m \in Nat, NEW S \in SUBSET (1 .. m), NEW n \in 1 .. Cardinality(S)
  PROVE  \E i \in S : Rank(S, i) = n
<1>0. n \in Nat /\ n > 0
  <2>1. Cardinality(S) \in Nat
    BY RankFits
  <2> QED BY <2>1
<1>p. \A j \in S : j \in Nat /\ j > 0 /\ j <= m
  OBVIOUS
<1> DEFINE T == {i \in Nat : Rank(S, i) >= n}
<1>1. m \in T
  <2>1. {j \in S : j <= m} = S
    BY <1>p
  <2>2. Rank(S, m) = Cardinality(S)
    BY <2>1 DEF Rank
  <2>3. Cardinality(S) \in Nat
    BY RankFits
  <2> QED BY <2>2, <2>3
<1>2. PICK i \in T : \A y \in T : i <= y
  <2>1. T \in SUBSET Nat /\ T # {}
    BY <1>1
  <2> HIDE DEF T
  <2> QED BY <2>1, NatLeast
<1>3. i \in Nat /\ Rank(S, i) >= n
  OBVIOUS
<1>4. Rank(S, i) \in Nat
  BY <1>3, RankFits
<1>5. i # 0
  <2>1. SUFFICES ASSUME i = 0 PROVE FALSE
    OBVIOUS
  <2>2. \A j \in S : ~ (j <= i)
    BY <1>p, <2>1
  <2>a. {j \in S : j <= i} = {}
    BY <2>2
  <2>3. Rank(S, i) = 0
    BY <2>a, FS_EmptySet DEF Rank
  <2> QED BY <1>0, <1>3, <2>3
<1>6. i - 1 \in Nat /\ i - 1 \notin T
  BY <1>2, <1>3, <1>5
<1>7. Rank(S, i - 1) \in Nat /\ Rank(S, i - 1) < n
  <2>1. Rank(S, i - 1) \in Nat
    BY <1>6, RankFits
  <2> QED BY <1>0, <1>6, <2>1
<1> DEFINE low == {j \in S : j <= i - 1}
<1>8. IsFiniteSet(low) /\ Cardinality(low) = Rank(S, i - 1)
  BY <1>6, RankFits DEF Rank
<1>9. i \in S
  <2>1. SUFFICES ASSUME i \notin S PROVE FALSE
    OBVIOUS
  <2>2. \A j \in S : j # i /\ (j <= i <=> j <= i - 1)
    BY <1>p, <1>3, <2>1
  <2>a. {j \in S : j <= i} = low
    BY <2>2
  <2>3. Rank(S, i) = Rank(S, i - 1)
    BY <2>a DEF Rank
  <2> QED BY <1>0, <1>3, <1>7, <2>3
<1>10. {j \in S : j <= i} = low \cup {i}
  <2>1. \A j \in S : j <= i <=> j <= i - 1 \/ j = i
    BY <1>p, <1>3
  <2> QED BY <1>9, <2>1
<1>11. i \notin low
  BY <1>3
<1>12. Cardinality(low \cup {i}) = Cardinality(low) + 1
  BY <1>8, <1>11, FS_AddElement
<1>13. Rank(S, i) = Rank(S, i - 1) + 1
  BY <1>8, <1>10, <1>12 DEF Rank
<1> QED BY <1>0, <1>3, <1>7, <1>9, <1>13

\* What is left of a list, position by position: those that stay, in their order.
LEMMA StayingAre ==
  ASSUME NEW X, NEW list \in Seq(X), NEW S \in SUBSET (1 .. Len(list))
  PROVE  /\ IsFiniteSet(S) /\ Cardinality(S) \in Nat /\ Cardinality(S) <= Len(list)
         /\ AtPositions(list, S) \in Seq(X)
         /\ Len(AtPositions(list, S)) = Cardinality(S)
         /\ \E at \in [1 .. Cardinality(S) -> S] :
              /\ \A n, k \in 1 .. Cardinality(S) : n < k => at[n] < at[k]
              /\ \A i \in S : \E n \in 1 .. Cardinality(S) : at[n] = i
              /\ \A n \in 1 .. Cardinality(S) : AtPositions(list, S)[n] = list[at[n]]
<1>1. Len(list) \in Nat /\ \A i \in 1 .. Len(list) : list[i] \in X
  BY LenProperties, ElementOfSeq
<1>p. \A i \in S : i \in Nat /\ i \in 1 .. Len(list)
  BY <1>1
<1> DEFINE size == Cardinality(S)
           at == [n \in 1 .. size |-> CHOOSE i \in S : Rank(S, i) = n]
<1>2. IsFiniteSet(S) /\ size \in Nat /\ size <= Len(list)
  BY <1>1, RankFits
<1>3. \A n \in 1 .. size : at[n] \in S /\ Rank(S, at[n]) = n
  <2>1. \A n \in 1 .. Cardinality(S) : \E i \in S : Rank(S, i) = n
    BY <1>1, RankReached
  <2> QED BY <2>1
<1>4. at \in [1 .. size -> S]
  BY <1>3
<1>5. ASSUME NEW n \in 1 .. size, NEW k \in 1 .. size, n < k
      PROVE  at[n] < at[k]
  <2>1. at[n] \in S /\ at[k] \in S /\ Rank(S, at[n]) = n /\ Rank(S, at[k]) = k
    BY <1>3
  <2>2. at[n] \in Nat /\ at[k] \in Nat /\ n \in Nat /\ k \in Nat
    <3>1. at[n] \in Nat /\ at[k] \in Nat
      BY <1>p, <2>1
    <3> QED BY <1>2, <3>1
  <2>3. CASE at[n] = at[k]
    <3>1. n = k
      BY <2>1, <2>3
    <3> QED BY <1>5, <2>2, <3>1
  <2>4. CASE at[k] < at[n]
    <3>1. Rank(S, at[k]) < Rank(S, at[n])
      BY <1>1, <2>1, <2>4, RankGrows
    <3> QED BY <1>5, <2>1, <2>2, <3>1
  <2> HIDE DEF at
  <2> QED BY <2>2, <2>3, <2>4
<1>6. ASSUME NEW i \in S
      PROVE  \E n \in 1 .. size : at[n] = i
  <2>1. i \in Nat
    BY <1>1
  <2>2. Rank(S, i) \in Nat /\ Rank(S, i) <= size
    BY <1>1, <2>1, RankFits
  <2>3. Rank(S, i) # 0
    <3>1. IsFiniteSet({j \in S : j <= i})
      BY <1>1, <2>1, RankFits
    <3>2. {j \in S : j <= i} # {}
      BY <2>1
    <3> QED BY <3>1, <3>2, FS_EmptySet DEF Rank
  <2>4. Rank(S, i) \in 1 .. size
    BY <1>2, <2>2, <2>3
  <2>5. at[Rank(S, i)] \in S /\ Rank(S, at[Rank(S, i)]) = Rank(S, i)
    BY <1>3, <2>4
  <2> DEFINE k == at[Rank(S, i)]
  <2>6. k \in S /\ k \in Nat /\ Rank(S, k) = Rank(S, i)
    BY <1>p, <2>5
  <2> HIDE DEF k
  <2>7. ~(k < i) /\ ~(i < k)
    <3>1. ~(Rank(S, k) < Rank(S, i)) /\ ~(Rank(S, i) < Rank(S, k))
      BY <2>2, <2>6
    <3>2. k < i => Rank(S, k) < Rank(S, i)
      BY <1>1, <2>6, RankGrows
    <3>3. i < k => Rank(S, i) < Rank(S, k)
      BY <1>1, <2>6, RankGrows
    <3> QED BY <3>1, <3>2, <3>3
  <2>8. k = i
    BY <2>1, <2>6, <2>7
  <2> QED BY <2>4, <2>8 DEF k
<1>7. AtPositions(list, S) = [n \in 1 .. size |-> list[at[n]]]
  BY DEF AtPositions
<1> HIDE DEF at
<1>8. \A n \in 1 .. size : AtPositions(list, S)[n] = list[at[n]]
  BY <1>7
<1>9. AtPositions(list, S) \in [1 .. size -> X]
  <2>1. \A n \in 1 .. size : at[n] \in 1 .. Len(list)
    BY <1>4
  <2>2. \A n \in 1 .. size : list[at[n]] \in X
    BY <1>1, <2>1
  <2> QED BY <1>7, <2>2
<1>10. AtPositions(list, S) \in Seq(X)
  BY <1>2, <1>9, SeqDef
<1>11. Len(AtPositions(list, S)) = size
  <2>1. DOMAIN AtPositions(list, S) = 1 .. Len(AtPositions(list, S)) /\ Len(AtPositions(list, S)) \in Nat
    BY <1>10, LenProperties
  <2>2. DOMAIN AtPositions(list, S) = 1 .. size
    BY <1>9
  <2> DEFINE long == Len(AtPositions(list, S))
  <2>3. long \in Nat /\ size \in Nat /\ 1 .. long = 1 .. size
    BY <1>2, <2>1, <2>2
  <2> HIDE DEF size, long
  <2>4. long = size
    BY <2>3
  <2> QED BY <2>4 DEF long
<1> QED BY <1>2, <1>4, <1>5, <1>6, <1>8, <1>10, <1>11

\* A function on the places of a list with values in a set is a list of the set.
LEMMA ListOf ==
  ASSUME NEW X, NEW list \in Seq(X)
  PROVE  /\ Len(list) \in Nat /\ DOMAIN list = 1 .. Len(list)
         /\ \A i \in 1 .. Len(list) : list[i] \in X
         /\ \A Y : (\A i \in 1 .. Len(list) : list[i] \in Y) => list \in Seq(Y)
<1>1. Len(list) \in Nat /\ DOMAIN list = 1 .. Len(list) /\ \A i \in 1 .. Len(list) : list[i] \in X
  BY LenProperties, ElementOfSeq
<1>2. list \in [1 .. Len(list) -> X]
  BY LenProperties
<1>3. ASSUME NEW Y, \A i \in 1 .. Len(list) : list[i] \in Y
      PROVE  list \in Seq(Y)
  <2>1. list \in [1 .. Len(list) -> Y]
    BY <1>2, <1>3
  <2> QED BY <1>1, <2>1, SeqDef
<1> QED BY <1>1, <1>3

\* What is left holds what was at the positions that stay, and where these hold
\* different things so does it.
LEMMA StayingHold ==
  ASSUME NEW X, NEW list \in Seq(X), NEW S \in SUBSET (1 .. Len(list))
  PROVE  /\ ToSet(AtPositions(list, S)) = {list[i] : i \in S}
         /\ (\A i, j \in S : list[i] = list[j] => i = j) => IsInjective(AtPositions(list, S))
<1> DEFINE left == AtPositions(list, S)
<1>1. left \in Seq(X) /\ Len(left) = Cardinality(S) /\ Cardinality(S) \in Nat
  BY StayingAre
<1>2. PICK at \in [1 .. Cardinality(S) -> S] :
        /\ \A n, k \in 1 .. Cardinality(S) : n < k => at[n] < at[k]
        /\ \A i \in S : \E n \in 1 .. Cardinality(S) : at[n] = i
        /\ \A n \in 1 .. Cardinality(S) : left[n] = list[at[n]]
  BY StayingAre
<1>3. DOMAIN left = 1 .. Cardinality(S)
  BY <1>1, ListOf
<1> HIDE DEF left
<1>4. {left[n] : n \in DOMAIN left} = {list[i] : i \in S}
  <2>1. \A n \in 1 .. Cardinality(S) : at[n] \in S /\ left[n] = list[at[n]]
    BY <1>2
  <2>2. \A i \in S : \E n \in 1 .. Cardinality(S) : left[n] = list[i]
    BY <1>2
  <2>3. {left[n] : n \in DOMAIN left} = {left[n] : n \in 1 .. Cardinality(S)}
    BY <1>3
  <2>4. {left[n] : n \in 1 .. Cardinality(S)} \subseteq {list[i] : i \in S}
    <3>1. ASSUME NEW n \in 1 .. Cardinality(S) PROVE left[n] \in {list[i] : i \in S}
      <4>1. at[n] \in S /\ left[n] = list[at[n]]
        BY <2>1
      <4> QED BY <4>1
    <3> QED BY <3>1
  <2>5. {list[i] : i \in S} \subseteq {left[n] : n \in 1 .. Cardinality(S)}
    BY <2>2
  <2> QED BY <2>3, <2>4, <2>5
<1>5. ASSUME \A i, j \in S : list[i] = list[j] => i = j,
             NEW n \in DOMAIN left, NEW k \in DOMAIN left, left[n] = left[k]
      PROVE  n = k
  <2>1. n \in 1 .. Cardinality(S) /\ k \in 1 .. Cardinality(S)
    BY <1>3
  <2>2. at[n] \in S /\ at[k] \in S /\ at[n] = at[k]
    <3>1. at[n] \in S /\ at[k] \in S
      BY <1>2, <2>1
    <3>2. list[at[n]] = list[at[k]]
      BY <1>2, <1>5, <2>1
    <3> QED BY <1>5, <3>1, <3>2
  <2>3. n \in Nat /\ k \in Nat /\ at[n] \in Nat
    <3>1. \A i \in S : i \in Nat
      OBVIOUS
    <3>2. at[n] \in Nat
      BY <2>2, <3>1
    <3> QED BY <1>1, <2>1, <3>2
  <2>4. ~ (n < k) /\ ~ (k < n)
    BY <1>2, <2>1, <2>2, <2>3
  <2> QED BY <2>3, <2>4
<1> QED BY <1>4, <1>5 DEF left, ToSet, IsInjective

\* What a list holds of a set: its elements of the set, as distinct as before, and
\* fewer than before if something is not of it.
LEMMA OnlyFromIs ==
  ASSUME NEW X, NEW list \in Seq(X), NEW set
  PROVE  /\ OnlyFrom(list, set) \in Seq(X)
         /\ \A n \in DOMAIN OnlyFrom(list, set) : OnlyFrom(list, set)[n] \in set
         /\ Len(OnlyFrom(list, set)) <= Len(list)
         /\ ToSet(OnlyFrom(list, set)) = ToSet(list) \cap set
         /\ IsInjective(list) => IsInjective(OnlyFrom(list, set))
         /\ (\E i \in DOMAIN list : list[i] \notin set) =>
              Len(OnlyFrom(list, set)) < Len(list)
<1> DEFINE S == {i \in DOMAIN list : list[i] \in set}
           left == AtPositions(list, S)
<1>1. Len(list) \in Nat /\ DOMAIN list = 1 .. Len(list)
  BY ListOf
<1>2. S \in SUBSET (1 .. Len(list)) /\ S \subseteq DOMAIN list
  BY <1>1
<1>3. \A i \in DOMAIN list : i \in S <=> list[i] \in set
  OBVIOUS
<1> HIDE DEF S
<1>4. /\ left \in Seq(X) /\ Len(left) = Cardinality(S)
      /\ Cardinality(S) \in Nat /\ Cardinality(S) <= Len(list)
  BY <1>2, StayingAre
<1>5. ToSet(left) = {list[i] : i \in S}
  BY <1>2, StayingHold
<1>6. (\A i, j \in S : list[i] = list[j] => i = j) => IsInjective(left)
  BY <1>2, StayingHold
<1> HIDE DEF left
<1>7. {list[i] : i \in S} = ToSet(list) \cap set
  BY <1>2, <1>3 DEF ToSet
<1>8. \A n \in DOMAIN left : left[n] \in set
  <2>1. ASSUME NEW n \in DOMAIN left PROVE left[n] \in set
    <3>1. left[n] \in ToSet(left)
      BY DEF ToSet
    <3> QED BY <1>5, <1>7, <3>1
  <2> QED BY <2>1
<1>9. ASSUME \E i \in DOMAIN list : list[i] \notin set
      PROVE  Len(left) < Len(list)
  <2>1. S # 1 .. Len(list)
    BY <1>1, <1>3, <1>9
  <2>2. IsFiniteSet(1 .. Len(list)) /\ Cardinality(1 .. Len(list)) = Len(list)
    BY <1>1, FS_Interval
  <2>3. Cardinality(1 .. Len(list)) = Cardinality(S) => 1 .. Len(list) = S
    BY <1>2, <2>2, FS_Subset
  <2> QED BY <1>1, <1>4, <2>1, <2>2, <2>3
<1>10. IsInjective(list) => IsInjective(left)
  BY <1>2, <1>6 DEF IsInjective
<1>11. left = OnlyFrom(list, set)
  BY DEF left, S, OnlyFrom
<1> QED BY <1>4, <1>5, <1>7, <1>8, <1>9, <1>10, <1>11

\* A list of different things holds as many as it is long.
LEMMA DistinctCount ==
  ASSUME NEW X, NEW list \in Seq(X), IsInjective(list)
  PROVE  Cardinality(ToSet(list)) = Len(list) /\ IsFiniteSet(ToSet(list))
<1> DEFINE held == {list[i] : i \in DOMAIN list}
<1>1. Len(list) \in Nat /\ DOMAIN list = 1 .. Len(list)
  BY ListOf
<1>2. IsFiniteSet(1 .. Len(list)) /\ Cardinality(1 .. Len(list)) = Len(list)
  BY <1>1, FS_Interval
<1>3. list \in Bijection(1 .. Len(list), held)
  <2>1. list \in [1 .. Len(list) -> held]
    <3>1. list \in [1 .. Len(list) -> X]
      BY LenProperties
    <3> QED BY <1>1, <3>1
  <2>2. list \in Injection(1 .. Len(list), held)
    BY <1>1, <2>1 DEF Injection, IsInjective
  <2>3. list \in Surjection(1 .. Len(list), held)
    BY <1>1, <2>1 DEF Surjection
  <2> QED BY <2>2, <2>3 DEF Bijection
<1>4. ExistsBijection(1 .. Len(list), held)
  BY <1>3 DEF ExistsBijection
<1>5. Cardinality(held) = Len(list) /\ IsFiniteSet(held)
  BY <1>2, <1>4, FS_Bijection
<1> QED BY <1>5 DEF ToSet

\* A part of a list holds some of the same things in the same order.
LEMMA PartIs ==
  ASSUME NEW X, NEW list \in Seq(X), NEW m \in Nat, m >= 1, NEW n \in Nat, n <= Len(list)
  PROVE  /\ SubSeq(list, m, n) \in Seq(X)
         /\ Len(SubSeq(list, m, n)) = IF m <= n THEN n - m + 1 ELSE 0
         /\ \A i \in DOMAIN SubSeq(list, m, n) :
              m + i - 1 \in DOMAIN list /\ SubSeq(list, m, n)[i] = list[m + i - 1]
         /\ ToSet(SubSeq(list, m, n)) \subseteq ToSet(list)
         /\ IsInjective(list) => IsInjective(SubSeq(list, m, n))
<1> DEFINE part == SubSeq(list, m, n)
<1>1. Len(list) \in Nat /\ DOMAIN list = 1 .. Len(list) /\ \A i \in 1 .. Len(list) : list[i] \in X
  BY ListOf
<1>2. \A i \in m .. n : list[i] \in X
  BY <1>1
<1>3. /\ part \in Seq(X) /\ Len(part) = IF m <= n THEN n - m + 1 ELSE 0
      /\ \A i \in 1 .. n - m + 1 : part[i] = list[m + i - 1]
  BY <1>2, SubSeqProperties
<1>4. DOMAIN part = 1 .. Len(part) /\ Len(part) \in Nat
  BY <1>3, ListOf
<1> HIDE DEF part
<1>5. ASSUME NEW i \in DOMAIN part
      PROVE  i \in Nat /\ m + i - 1 \in DOMAIN list /\ part[i] = list[m + i - 1]
  <2>1. i \in 1 .. n - m + 1
    BY <1>3, <1>4
  <2> QED BY <1>1, <1>3, <2>1
<1>6. ToSet(part) \subseteq ToSet(list)
  BY <1>5 DEF ToSet
<1>7. ASSUME IsInjective(list), NEW i \in DOMAIN part, NEW j \in DOMAIN part, part[i] = part[j]
      PROVE  i = j
  <2>1. m + i - 1 = m + j - 1
    BY <1>5, <1>7 DEF IsInjective
  <2> QED BY <1>5, <2>1
<1>8. IsInjective(list) => IsInjective(part)
  BY <1>7 DEF IsInjective
<1> QED BY <1>3, <1>5, <1>6, <1>8 DEF part

\* A list to which something is added holds it as well, and is as distinct as
\* before if it did not hold it.
LEMMA AddedIs ==
  ASSUME NEW X, NEW list \in Seq(X), NEW x \in X
  PROVE  /\ Append(list, x) \in Seq(X) /\ Len(Append(list, x)) = Len(list) + 1
         /\ DOMAIN Append(list, x) = 1 .. Len(list) + 1
         /\ \A i \in DOMAIN list : Append(list, x)[i] = list[i]
         /\ Append(list, x)[Len(list) + 1] = x
         /\ ToSet(Append(list, x)) = ToSet(list) \cup {x}
         /\ IsInjective(list) /\ x \notin ToSet(list) => IsInjective(Append(list, x))
<1> DEFINE longer == Append(list, x)
<1>1. Len(list) \in Nat /\ DOMAIN list = 1 .. Len(list)
  BY ListOf
<1>2. /\ longer \in Seq(X) /\ Len(longer) = Len(list) + 1
      /\ \A i \in 1 .. Len(list) : longer[i] = list[i]
      /\ longer[Len(list) + 1] = x
  BY AppendProperties
<1>3. DOMAIN longer = 1 .. Len(list) + 1
  BY <1>2, ListOf
<1> HIDE DEF longer
<1>4. DOMAIN longer = DOMAIN list \cup {Len(list) + 1}
  BY <1>1, <1>3
<1>5. \A i \in DOMAIN list : longer[i] = list[i]
  BY <1>1, <1>2
<1>6. ToSet(longer) = ToSet(list) \cup {x}
  BY <1>2, <1>4, <1>5 DEF ToSet
<1>7. IsInjective(list) /\ x \notin ToSet(list) => IsInjective(longer)
  BY <1>2, <1>4, <1>5 DEF ToSet, IsInjective
<1> QED BY <1>2, <1>3, <1>5, <1>6, <1>7 DEF longer

\* A list without its first holds what came after.
LEMMA RestIs ==
  ASSUME NEW X, NEW list \in Seq(X), list # <<>>
  PROVE  /\ Tail(list) \in Seq(X) /\ Len(Tail(list)) = Len(list) - 1
         /\ Len(list) \in Nat /\ Len(list) >= 1 /\ Head(list) = list[1]
         /\ \A i \in DOMAIN Tail(list) : i + 1 \in DOMAIN list /\ Tail(list)[i] = list[i + 1]
         /\ \A i \in DOMAIN list : i # 1 => i - 1 \in DOMAIN Tail(list)
         /\ ToSet(Tail(list)) \subseteq ToSet(list)
         /\ IsInjective(list) => IsInjective(Tail(list)) /\ Head(list) \notin ToSet(Tail(list))
<1> DEFINE rest == Tail(list)
<1>1. Len(list) \in Nat /\ DOMAIN list = 1 .. Len(list)
  BY ListOf
<1>2. Len(list) # 0
  BY EmptySeq
<1>3. /\ rest \in Seq(X) /\ Len(rest) = Len(list) - 1
      /\ \A i \in 1 .. Len(rest) : rest[i] = list[i + 1]
  BY HeadTailProperties
<1>4. DOMAIN rest = 1 .. Len(rest) /\ Len(rest) \in Nat
  BY <1>3, ListOf
<1>a. Head(list) = list[1]
  BY DEF Head
<1> HIDE DEF rest
<1>5. ASSUME NEW i \in DOMAIN rest
      PROVE  i \in Nat /\ i >= 1 /\ i + 1 \in DOMAIN list /\ rest[i] = list[i + 1]
  BY <1>1, <1>3, <1>4
<1>6. \A i \in DOMAIN list : i # 1 => i - 1 \in DOMAIN rest
  BY <1>1, <1>3, <1>4
<1>7. ToSet(rest) \subseteq ToSet(list)
  BY <1>5 DEF ToSet
<1>8. ASSUME IsInjective(list), NEW i \in DOMAIN rest, NEW j \in DOMAIN rest, rest[i] = rest[j]
      PROVE  i = j
  <2>1. i + 1 = j + 1
    BY <1>5, <1>8 DEF IsInjective
  <2> QED BY <1>5, <2>1
<1>9. IsInjective(list) => IsInjective(rest)
  BY <1>8 DEF IsInjective
<1>10. ASSUME IsInjective(list), list[1] \in ToSet(rest) PROVE FALSE
  <2>1. PICK i \in DOMAIN rest : rest[i] = list[1]
    BY <1>10 DEF ToSet
  <2>2. 1 \in DOMAIN list /\ i + 1 \in DOMAIN list /\ list[i + 1] = list[1]
    BY <1>1, <1>2, <1>5, <2>1
  <2>3. i + 1 = 1
    BY <1>10, <2>2 DEF IsInjective
  <2> QED BY <1>5, <2>3
<1> QED BY <1>1, <1>2, <1>3, <1>a, <1>5, <1>6, <1>7, <1>9, <1>10 DEF rest
=============================================================================
