--------------------------- MODULE CaptureProofs ----------------------------
(***************************************************************************)
(* Proofs about Capture and the modules it is built from, for any browser  *)
(* tabs, windows, pages, patterns and requests.                            *)
(***************************************************************************)
EXTENDS Capture, FiniteSetTheorems, FunctionTheorems, SequenceTheorems, WellFoundedInduction,
        TLAPS

-----------------------------------------------------------------------------
(* Induction, and numbers in order.                                         *)

\* A set that holds 0 and the successor of each natural number it holds, holds them all:
\* its complement would have a least interval 0..n with n missing.
LEMMA SetInduction ==
    ASSUME NEW S, 0 \in S, \A n \in Nat : n \in S => n + 1 \in S
    PROVE  Nat \subseteq S
  <1> DEFINE T == {t \in SUBSET Nat : \E n \in Nat : n \notin S /\ t = 0..n}
             R == StrictSubsetOrdering(Nat)
  <1>1. SUFFICES ASSUME NEW k \in Nat, k \notin S PROVE FALSE
    OBVIOUS
  <1>2. IsWellFoundedOn(R, FiniteSubsetsOf(Nat))
    BY FS_StrictSubsetOrderingWellFounded
  <1>3. \A n \in Nat : 0..n \in SUBSET Nat
    OBVIOUS
  <1>4. \A n \in Nat : IsFiniteSet(0..n)
    <2> TAKE n \in Nat
    <2>1. 0 \in Int /\ n \in Int
      OBVIOUS
    <2> QED
      BY <2>1, FS_Interval
  <1>5. T \subseteq FiniteSubsetsOf(Nat)
    BY <1>4 DEF FiniteSubsetsOf
  <1>6. ASSUME NEW n \in Nat, n \notin S PROVE 0..n \in T
    BY <1>3, <1>6, Zenon
  <1>7. T # {}
    BY <1>1, <1>6
  <1>8. ASSUME NEW t \in T PROVE \E n \in Nat : n \notin S /\ t = 0..n
    OBVIOUS
  <1>9. \A a, b \in SUBSET Nat : a \subseteq b /\ a # b => <<a, b>> \in R
    BY DEF StrictSubsetOrdering
  <1> HIDE DEF T, R
  <1>10. PICK x \in T : \A y \in T : ~(<<y, x>> \in R)
    BY <1>2, <1>5, <1>7, WFMin
  <1>11. PICK n \in Nat : n \notin S /\ x = 0..n
    BY <1>8, <1>10
  <1>12. n - 1 \in Nat /\ n - 1 \notin S
    <2>1. n # 0
      BY <1>11
    <2>2. n - 1 \in Nat /\ (n - 1) + 1 = n
      BY <2>1
    <2> QED
      BY <1>11, <2>2
  <1>13. 0..(n - 1) \in T
    BY <1>6, <1>12
  <1>14. 0..(n - 1) \subseteq x /\ 0..(n - 1) # x
    <2>1. n \in 0..n /\ n \notin 0..(n - 1)
      BY <1>12
    <2>2. 0..(n - 1) \subseteq 0..n
      BY <1>12
    <2> QED
      BY <1>11, <2>1, <2>2
  <1>15. <<0..(n - 1), x>> \in R
    <2>1. 0..(n - 1) \in SUBSET Nat /\ x \in SUBSET Nat
      BY <1>3, <1>11, <1>12
    <2> QED
      BY <1>9, <1>14, <2>1
  <1> QED
    BY <1>10, <1>13, <1>15, Zenon

\* Ascending lists the set, each element once and in order.
LEMMA AscendingIs ==
    ASSUME NEW S \in SUBSET Nat, IsFiniteSet(S)
    PROVE  /\ Cardinality(S) \in Nat
           /\ Ascending(S) \in [1..Cardinality(S) -> S]
           /\ Ascending(S) \in Seq(S) /\ Len(Ascending(S)) = Cardinality(S)
           /\ \A i, j \in 1..Cardinality(S) : i < j => Ascending(S)[i] < Ascending(S)[j]
           /\ \A x \in S : \E i \in 1..Cardinality(S) : Ascending(S)[i] = x
  <1> DEFINE n == Cardinality(S)
             Below(x) == {y \in S : y < x}
             rank == [x \in S |-> Cardinality(Below(x)) + 1]
  <1>0. n \in Nat
    BY FS_CardinalityType
  <1>1. ASSUME NEW x \in S
        PROVE  /\ IsFiniteSet(Below(x)) /\ Cardinality(Below(x)) \in Nat
               /\ Cardinality(Below(x)) + 1 \in 1..n
    <2>1. Below(x) \in SUBSET (S \ {x}) /\ Below(x) \in SUBSET S
      OBVIOUS
    <2>2. IsFiniteSet(S \ {x}) /\ Cardinality(S \ {x}) = n - 1
      BY FS_RemoveElement
    <2>3. IsFiniteSet(Below(x)) /\ Cardinality(Below(x)) <= n - 1
      BY <2>1, <2>2, FS_Subset
    <2>4. Cardinality(Below(x)) \in Nat
      BY <2>3, FS_CardinalityType
    <2> QED
      BY <1>0, <2>3, <2>4
  <1>2. ASSUME NEW x \in S, NEW y \in S, x < y
        PROVE  Cardinality(Below(x)) < Cardinality(Below(y))
    <2>0. S \subseteq Nat /\ x \in Nat /\ y \in Nat
      OBVIOUS
    <2>1. Below(x) \cup {x} \in SUBSET Below(y) /\ x \notin Below(x)
      <3>1. ASSUME NEW z \in S, z < x \/ z = x PROVE z < y
        <4>1. z \in Nat
          OBVIOUS
        <4> QED
          BY <1>2, <2>0, <3>1, <4>1
      <3>2. x \notin Below(x)
        BY <2>0
      <3> QED
        BY <3>1, <3>2
    <2>2. Cardinality(Below(x) \cup {x}) = Cardinality(Below(x)) + 1
      BY <1>1, <2>1, FS_AddElement
    <2>3. Cardinality(Below(x) \cup {x}) <= Cardinality(Below(y))
      BY <1>1, <2>1, FS_Subset
    <2> QED
      BY <1>1, <2>2, <2>3
  <1>3. rank \in [S -> 1..n]
    BY <1>1
  <1>4. ASSUME NEW x \in S, NEW y \in S, x # y PROVE rank[x] # rank[y]
    <2>1. x < y \/ y < x
      BY <1>4
    <2> QED
      BY <1>1, <1>2, <2>1, SMTT(30)
  <1>5. rank \in Injection(S, 1..n)
    <2> HIDE DEF rank
    <2> QED
      BY <1>3, <1>4 DEF Injection, IsInjective
  <1>6. IsFiniteSet(1..n) /\ Cardinality(1..n) = n
    BY <1>0, FS_Interval
  <1>7. rank \in Surjection(S, 1..n)
    <2> HIDE DEF rank
    <2> QED
      BY <1>5, <1>6, FS_Injection
  <1>8. ASSUME NEW k \in 1..n PROVE \E x \in S : rank[x] = k
    <2> HIDE DEF rank
    <2> QED
      BY <1>7 DEF Surjection
  <1> DEFINE a == Ascending(S)
  <1>9. ASSUME NEW k \in 1..n
        PROVE  a[k] \in S /\ Cardinality(Below(a[k])) = k - 1
    <2>1. PICK x \in S : Cardinality(Below(x)) + 1 = k
      BY <1>8
    <2>2. Cardinality({y \in S : y < x}) = k - 1
      BY <1>1, <2>1
    <2>3. a[k] = CHOOSE z \in S : Cardinality({y \in S : y < z}) = k - 1
      BY DEF Ascending
    <2> HIDE DEF a
    <2> QED
      BY <2>2, <2>3
  <1>10. DOMAIN a = 1..n /\ a = [k \in 1..n |-> a[k]]
    <2> DEFINE At(k) == CHOOSE x \in S : Cardinality({y \in S : y < x}) = k - 1
    <2>1. a = [k \in 1..n |-> At(k)]
      BY DEF Ascending
    <2> HIDE DEF a, n, At
    <2> QED
      BY <2>1
  <1> HIDE DEF a
  <1>11. a \in [1..n -> S]
    BY <1>9, <1>10
  <1>12. a \in Seq(S) /\ Len(a) = n
    BY <1>0, <1>11
  <1>13. ASSUME NEW i \in 1..n, NEW j \in 1..n, i < j PROVE a[i] < a[j]
    <2>1. a[i] \in S /\ a[j] \in S /\ a[i] \in Nat /\ a[j] \in Nat
      BY <1>9
    <2>2. Cardinality(Below(a[i])) = i - 1 /\ Cardinality(Below(a[j])) = j - 1
      BY <1>9
    <2>3. a[j] < a[i] => Cardinality(Below(a[j])) < Cardinality(Below(a[i]))
      BY <1>2, <2>1
    <2>4. a[i] # a[j]
      <3> HIDE DEF Below
      <3> QED
        BY <1>13, <2>2
    <2> HIDE DEF Below
    <2> QED
      BY <1>13, <2>1, <2>2, <2>3, <2>4
  <1>14. ASSUME NEW x \in S PROVE \E i \in 1..n : a[i] = x
    <2>1. PICK i \in 1..n : i = Cardinality(Below(x)) + 1
      BY <1>1
    <2>2. Cardinality(Below(a[i])) = Cardinality(Below(x))
      BY <1>1, <1>9, <2>1
    <2>3. a[i] \in S /\ a[i] \in Nat /\ x \in Nat
      BY <1>9
    <2>4. Cardinality(Below(x)) \in Nat
      BY <1>1
    <2>5. /\ a[i] < x => Cardinality(Below(a[i])) < Cardinality(Below(x))
          /\ x < a[i] => Cardinality(Below(x)) < Cardinality(Below(a[i]))
      BY <1>2, <2>3
    <2> HIDE DEF Below
    <2> QED
      BY <2>2, <2>3, <2>4, <2>5
  <1> QED
    BY <1>0, <1>11, <1>12, <1>13, <1>14 DEF a
\* AtPlaces takes the elements at those places, in the order of the places.
LEMMA AtPlacesIs ==
    ASSUME NEW X, NEW s \in Seq(X), NEW P \in SUBSET (1..Len(s))
    PROVE  /\ Cardinality(P) \in Nat
           /\ AtPlaces(s, P) \in Seq(X) /\ Len(AtPlaces(s, P)) = Cardinality(P)
           /\ Ascending(P) \in [1..Cardinality(P) -> P]
           /\ \A k \in 1..Cardinality(P) : AtPlaces(s, P)[k] = s[Ascending(P)[k]]
           /\ \A k, l \in 1..Cardinality(P) : k < l => Ascending(P)[k] < Ascending(P)[l]
           /\ \A i \in P : \E k \in 1..Cardinality(P) : Ascending(P)[k] = i
  <1>1. Len(s) \in Nat /\ P \in SUBSET Nat /\ s \in [1..Len(s) -> X]
    OBVIOUS
  <1>2. IsFiniteSet(P)
    BY <1>1, FS_BoundedSetOfNaturals
  <1> DEFINE a == Ascending(P)
             n == Cardinality(P)
  <1>3. /\ n \in Nat /\ a \in [1..n -> P]
        /\ \A i, j \in 1..n : i < j => a[i] < a[j]
        /\ \A x \in P : \E i \in 1..n : a[i] = x
    BY <1>1, <1>2, AscendingIs
  <1>4. AtPlaces(s, P) = [k \in DOMAIN a |-> s[a[k]]]
    BY DEF AtPlaces
  <1> HIDE DEF a, n
  <1>5. AtPlaces(s, P) \in [1..n -> X] /\ \A k \in 1..n : AtPlaces(s, P)[k] = s[a[k]]
    BY <1>1, <1>3, <1>4
  <1>6. AtPlaces(s, P) \in Seq(X) /\ Len(AtPlaces(s, P)) = n
    BY <1>3, <1>5
  <1> QED
    BY <1>3, <1>5, <1>6 DEF a, n

-----------------------------------------------------------------------------
(* The loops.                                                               *)

\* The first pass starts with nothing given away and takes the windows in turn.
LEMMA FirstPassIs ==
    ASSUME NEW found, NEW wins, Len(wins) \in Nat
    PROVE  /\ FirstPass(found, wins)[0] = [windows |-> wins, consumed |-> {}]
           /\ \A k \in 1..Len(wins) : FirstPass(found, wins)[k] = ByGeometry(found, FirstPass(found, wins)[k - 1], k)
  <1> DEFINE base == [windows |-> wins, consumed |-> {}]
             Body(f, k) == IF k = 0 THEN base ELSE ByGeometry(found, f[k - 1], k)
             S == {n \in Nat : \E f : f = [k \in 0..n |-> Body(f, k)]}
  <1>0. Len(wins) \in Nat
    OBVIOUS
  <1>1. 0 \in S
    <2>1. [k \in 0..0 |-> base] = [k \in 0..0 |-> Body([l \in 0..0 |-> base], k)]
      OBVIOUS
    <2> QED
      BY <2>1
  <1>2. ASSUME NEW n \in Nat, n \in S PROVE n + 1 \in S
    <2>1. PICK f : f = [k \in 0..n |-> Body(f, k)]
      BY <1>2
    <2> DEFINE next == ByGeometry(found, f[n], n + 1)
               g == [k \in 0..n + 1 |-> IF k = n + 1 THEN next ELSE f[k]]
    <2>2. ASSUME NEW k \in 0..n + 1 PROVE g[k] = Body(g, k)
      <3>1. CASE k = n + 1
        <4>1. g[k] = next /\ g[k - 1] = f[n] /\ k # 0
          BY <3>1
        <4> HIDE DEF g
        <4> QED
          BY <3>1, <4>1
      <3>2. CASE k # n + 1
        <4>1. g[k] = f[k] /\ (k # 0 => g[k - 1] = f[k - 1])
          BY <3>2
        <4>2. k \in 0..n
          BY <3>2
        <4>3. f[k] = Body(f, k)
          <5> HIDE DEF Body
          <5> QED
            BY <2>1, <4>2
        <4> HIDE DEF g
        <4> QED
          BY <3>2, <4>1, <4>3
      <3> QED
        BY <3>1, <3>2
    <2>3. g = [k \in 0..n + 1 |-> Body(g, k)]
      <3>1. DOMAIN g = 0..n + 1 /\ g = [k \in 0..n + 1 |-> g[k]]
        OBVIOUS
      <3> HIDE DEF g
      <3> QED
        BY <2>2, <3>1
    <2> QED
      <3> HIDE DEF g, Body
      <3> QED
        BY <2>3
  <1>3. Len(wins) \in S
    <2> HIDE DEF S
    <2> QED
      BY <1>0, <1>1, <1>2, SetInduction
  <1> DEFINE r == FirstPass(found, wins)
             m == Len(wins)
  <1>4. \E f : f = [k \in 0..m |-> Body(f, k)]
    BY <1>3
  <1>5. r = [k \in 0..m |-> Body(r, k)]
    BY <1>4 DEF FirstPass
  <1>6. 0 \in 0..m /\ \A k \in 1..m : k \in 0..m /\ k # 0
    <2> HIDE DEF m
    <2> QED
      BY <1>0 DEF m
  <1>7. \A k \in 0..m : r[k] = Body(r, k)
    <2> HIDE DEF r, m, Body
    <2> QED
      BY <1>5
  <1> HIDE DEF r, m
  <1>8. r[0] = Body(r, 0) /\ \A k \in 1..m : r[k] = Body(r, k) /\ k # 0
    BY <1>6, <1>7
  <1> QED
    BY <1>8 DEF r, m

\* The second pass goes on where the first has ended.
LEMMA SecondPassIs ==
    ASSUME NEW found, NEW wins, Len(wins) \in Nat
    PROVE  /\ SecondPass(found, wins)[0] = FirstPass(found, wins)[Len(wins)]
           /\ \A k \in 1..Len(wins) : SecondPass(found, wins)[k] = ByOrder(found, SecondPass(found, wins)[k - 1], k)
  <1> DEFINE base == FirstPass(found, wins)[Len(wins)]
             Body(f, k) == IF k = 0 THEN base ELSE ByOrder(found, f[k - 1], k)
             S == {n \in Nat : \E f : f = [k \in 0..n |-> Body(f, k)]}
  <1>0. Len(wins) \in Nat
    OBVIOUS
  <1>1. 0 \in S
    <2>1. [k \in 0..0 |-> base] = [k \in 0..0 |-> Body([l \in 0..0 |-> base], k)]
      OBVIOUS
    <2> QED
      BY <2>1
  <1>2. ASSUME NEW n \in Nat, n \in S PROVE n + 1 \in S
    <2>1. PICK f : f = [k \in 0..n |-> Body(f, k)]
      BY <1>2
    <2> DEFINE next == ByOrder(found, f[n], n + 1)
               g == [k \in 0..n + 1 |-> IF k = n + 1 THEN next ELSE f[k]]
    <2>2. ASSUME NEW k \in 0..n + 1 PROVE g[k] = Body(g, k)
      <3>1. CASE k = n + 1
        <4>1. g[k] = next /\ g[k - 1] = f[n] /\ k # 0
          BY <3>1
        <4> HIDE DEF g
        <4> QED
          BY <3>1, <4>1
      <3>2. CASE k # n + 1
        <4>1. g[k] = f[k] /\ (k # 0 => g[k - 1] = f[k - 1])
          BY <3>2
        <4>2. k \in 0..n
          BY <3>2
        <4>3. f[k] = Body(f, k)
          <5> HIDE DEF Body
          <5> QED
            BY <2>1, <4>2
        <4> HIDE DEF g
        <4> QED
          BY <3>2, <4>1, <4>3
      <3> QED
        BY <3>1, <3>2
    <2>3. g = [k \in 0..n + 1 |-> Body(g, k)]
      <3>1. DOMAIN g = 0..n + 1 /\ g = [k \in 0..n + 1 |-> g[k]]
        OBVIOUS
      <3> HIDE DEF g
      <3> QED
        BY <2>2, <3>1
    <2> QED
      <3> HIDE DEF g, Body
      <3> QED
        BY <2>3
  <1>3. Len(wins) \in S
    <2> HIDE DEF S
    <2> QED
      BY <1>0, <1>1, <1>2, SetInduction
  <1> DEFINE r == SecondPass(found, wins)
             m == Len(wins)
  <1>4. \E f : f = [k \in 0..m |-> Body(f, k)]
    BY <1>3
  <1>5. r = [k \in 0..m |-> Body(r, k)]
    BY <1>4 DEF SecondPass
  <1>6. 0 \in 0..m /\ \A k \in 1..m : k \in 0..m /\ k # 0
    <2> HIDE DEF m
    <2> QED
      BY <1>0 DEF m
  <1>7. \A k \in 0..m : r[k] = Body(r, k)
    <2> HIDE DEF r, m, Body
    <2> QED
      BY <1>5
  <1> HIDE DEF r, m
  <1>8. r[0] = Body(r, 0) /\ \A k \in 1..m : r[k] = Body(r, k) /\ k # 0
    BY <1>6, <1>7
  <1> QED
    BY <1>8 DEF r, m

\* The rounds of the matcher, one after the other.
LEMMA RoundsIs ==
    ASSUME NEW pattern, NEW text, MostRounds(pattern, text) \in Nat
    PROVE  /\ Rounds(pattern, text)[0] = AtStart
           /\ \A k \in 1..MostRounds(pattern, text) : Rounds(pattern, text)[k] = Round(pattern, text, Rounds(pattern, text)[k - 1])
  <1> DEFINE base == AtStart
             Body(f, k) == IF k = 0 THEN base ELSE Round(pattern, text, f[k - 1])
             S == {n \in Nat : \E f : f = [k \in 0..n |-> Body(f, k)]}
  <1>0. MostRounds(pattern, text) \in Nat
    OBVIOUS
  <1>1. 0 \in S
    <2>1. [k \in 0..0 |-> base] = [k \in 0..0 |-> Body([l \in 0..0 |-> base], k)]
      OBVIOUS
    <2> QED
      BY <2>1
  <1>2. ASSUME NEW n \in Nat, n \in S PROVE n + 1 \in S
    <2>1. PICK f : f = [k \in 0..n |-> Body(f, k)]
      BY <1>2
    <2> DEFINE next == Round(pattern, text, f[n])
               g == [k \in 0..n + 1 |-> IF k = n + 1 THEN next ELSE f[k]]
    <2>2. ASSUME NEW k \in 0..n + 1 PROVE g[k] = Body(g, k)
      <3>1. CASE k = n + 1
        <4>1. g[k] = next /\ g[k - 1] = f[n] /\ k # 0
          BY <3>1
        <4> HIDE DEF g
        <4> QED
          BY <3>1, <4>1
      <3>2. CASE k # n + 1
        <4>1. g[k] = f[k] /\ (k # 0 => g[k - 1] = f[k - 1])
          BY <3>2
        <4>2. k \in 0..n
          BY <3>2
        <4>3. f[k] = Body(f, k)
          <5> HIDE DEF Body
          <5> QED
            BY <2>1, <4>2
        <4> HIDE DEF g
        <4> QED
          BY <3>2, <4>1, <4>3
      <3> QED
        BY <3>1, <3>2
    <2>3. g = [k \in 0..n + 1 |-> Body(g, k)]
      <3>1. DOMAIN g = 0..n + 1 /\ g = [k \in 0..n + 1 |-> g[k]]
        OBVIOUS
      <3> HIDE DEF g
      <3> QED
        BY <2>2, <3>1
    <2> QED
      <3> HIDE DEF g, Body
      <3> QED
        BY <2>3
  <1>3. MostRounds(pattern, text) \in S
    <2> HIDE DEF S
    <2> QED
      BY <1>0, <1>1, <1>2, SetInduction
  <1> DEFINE r == Rounds(pattern, text)
             m == MostRounds(pattern, text)
  <1>4. \E f : f = [k \in 0..m |-> Body(f, k)]
    BY <1>3
  <1>5. r = [k \in 0..m |-> Body(r, k)]
    BY <1>4 DEF Rounds
  <1>6. 0 \in 0..m /\ \A k \in 1..m : k \in 0..m /\ k # 0
    <2> HIDE DEF m
    <2> QED
      BY <1>0 DEF m
  <1>7. \A k \in 0..m : r[k] = Body(r, k)
    <2> HIDE DEF r, m, Body
    <2> QED
      BY <1>5
  <1> HIDE DEF r, m
  <1>8. r[0] = Body(r, 0) /\ \A k \in 1..m : r[k] = Body(r, k) /\ k # 0
    BY <1>6, <1>7
  <1> QED
    BY <1>8 DEF r, m

\* The commands of a log are looked at in turn.
LEMMA LearnedByIs ==
    ASSUME NEW commands, Len(commands) \in Nat
    PROVE  /\ LearnedBy(commands)[0] = [tabs |-> <<>>, active |-> 0]
           /\ \A k \in 1..Len(commands) : LearnedBy(commands)[k] = Learn(LearnedBy(commands)[k - 1], commands[k])
  <1> DEFINE base == [tabs |-> <<>>, active |-> 0]
             Body(f, k) == IF k = 0 THEN base ELSE Learn(f[k - 1], commands[k])
             S == {n \in Nat : \E f : f = [k \in 0..n |-> Body(f, k)]}
  <1>0. Len(commands) \in Nat
    OBVIOUS
  <1>1. 0 \in S
    <2>1. [k \in 0..0 |-> base] = [k \in 0..0 |-> Body([l \in 0..0 |-> base], k)]
      OBVIOUS
    <2> QED
      BY <2>1
  <1>2. ASSUME NEW n \in Nat, n \in S PROVE n + 1 \in S
    <2>1. PICK f : f = [k \in 0..n |-> Body(f, k)]
      BY <1>2
    <2> DEFINE next == Learn(f[n], commands[n + 1])
               g == [k \in 0..n + 1 |-> IF k = n + 1 THEN next ELSE f[k]]
    <2>2. ASSUME NEW k \in 0..n + 1 PROVE g[k] = Body(g, k)
      <3>1. CASE k = n + 1
        <4>1. g[k] = next /\ g[k - 1] = f[n] /\ k # 0
          BY <3>1
        <4> HIDE DEF g
        <4> QED
          BY <3>1, <4>1
      <3>2. CASE k # n + 1
        <4>1. g[k] = f[k] /\ (k # 0 => g[k - 1] = f[k - 1])
          BY <3>2
        <4>2. k \in 0..n
          BY <3>2
        <4>3. f[k] = Body(f, k)
          <5> HIDE DEF Body
          <5> QED
            BY <2>1, <4>2
        <4> HIDE DEF g
        <4> QED
          BY <3>2, <4>1, <4>3
      <3> QED
        BY <3>1, <3>2
    <2>3. g = [k \in 0..n + 1 |-> Body(g, k)]
      <3>1. DOMAIN g = 0..n + 1 /\ g = [k \in 0..n + 1 |-> g[k]]
        OBVIOUS
      <3> HIDE DEF g
      <3> QED
        BY <2>2, <3>1
    <2> QED
      <3> HIDE DEF g, Body
      <3> QED
        BY <2>3
  <1>3. Len(commands) \in S
    <2> HIDE DEF S
    <2> QED
      BY <1>0, <1>1, <1>2, SetInduction
  <1> DEFINE r == LearnedBy(commands)
             m == Len(commands)
  <1>4. \E f : f = [k \in 0..m |-> Body(f, k)]
    BY <1>3
  <1>5. r = [k \in 0..m |-> Body(r, k)]
    BY <1>4 DEF LearnedBy
  <1>6. 0 \in 0..m /\ \A k \in 1..m : k \in 0..m /\ k # 0
    <2> HIDE DEF m
    <2> QED
      BY <1>0 DEF m
  <1>7. \A k \in 0..m : r[k] = Body(r, k)
    <2> HIDE DEF r, m, Body
    <2> QED
      BY <1>5
  <1> HIDE DEF r, m
  <1>8. r[0] = Body(r, 0) /\ \A k \in 1..m : r[k] = Body(r, k) /\ k # 0
    BY <1>6, <1>7
  <1> QED
    BY <1>8 DEF r, m

\* The rules are applied in turn.
LEMMA RuledByIs ==
    ASSUME NEW start
    PROVE  /\ RuledBy(start)[0] = start
           /\ \A k \in 1..Len(DefaultRules) : RuledBy(start)[k] = ApplyRule(RuledBy(start)[k - 1], DefaultRules[k])
  <1> DEFINE base == start
             Body(f, k) == IF k = 0 THEN base ELSE ApplyRule(f[k - 1], DefaultRules[k])
             S == {n \in Nat : \E f : f = [k \in 0..n |-> Body(f, k)]}
  <1>0. Len(DefaultRules) \in Nat
    BY DEF DefaultRules
  <1>1. 0 \in S
    <2>1. [k \in 0..0 |-> base] = [k \in 0..0 |-> Body([l \in 0..0 |-> base], k)]
      OBVIOUS
    <2> QED
      BY <2>1
  <1>2. ASSUME NEW n \in Nat, n \in S PROVE n + 1 \in S
    <2>1. PICK f : f = [k \in 0..n |-> Body(f, k)]
      BY <1>2
    <2> DEFINE next == ApplyRule(f[n], DefaultRules[n + 1])
               g == [k \in 0..n + 1 |-> IF k = n + 1 THEN next ELSE f[k]]
    <2>2. ASSUME NEW k \in 0..n + 1 PROVE g[k] = Body(g, k)
      <3>1. CASE k = n + 1
        <4>1. g[k] = next /\ g[k - 1] = f[n] /\ k # 0
          BY <3>1
        <4> HIDE DEF g
        <4> QED
          BY <3>1, <4>1
      <3>2. CASE k # n + 1
        <4>1. g[k] = f[k] /\ (k # 0 => g[k - 1] = f[k - 1])
          BY <3>2
        <4>2. k \in 0..n
          BY <3>2
        <4>3. f[k] = Body(f, k)
          <5> HIDE DEF Body
          <5> QED
            BY <2>1, <4>2
        <4> HIDE DEF g
        <4> QED
          BY <3>2, <4>1, <4>3
      <3> QED
        BY <3>1, <3>2
    <2>3. g = [k \in 0..n + 1 |-> Body(g, k)]
      <3>1. DOMAIN g = 0..n + 1 /\ g = [k \in 0..n + 1 |-> g[k]]
        OBVIOUS
      <3> HIDE DEF g
      <3> QED
        BY <2>2, <3>1
    <2> QED
      <3> HIDE DEF g, Body
      <3> QED
        BY <2>3
  <1>3. Len(DefaultRules) \in S
    <2> HIDE DEF S
    <2> QED
      BY <1>0, <1>1, <1>2, SetInduction
  <1> DEFINE r == RuledBy(start)
             m == Len(DefaultRules)
  <1>4. \E f : f = [k \in 0..m |-> Body(f, k)]
    BY <1>3
  <1>5. r = [k \in 0..m |-> Body(r, k)]
    BY <1>4 DEF RuledBy
  <1>6. 0 \in 0..m /\ \A k \in 1..m : k \in 0..m /\ k # 0
    <2> HIDE DEF m
    <2> QED
      BY <1>0 DEF m
  <1>7. \A k \in 0..m : r[k] = Body(r, k)
    <2> HIDE DEF r, m, Body
    <2> QED
      BY <1>5
  <1> HIDE DEF r, m
  <1>8. r[0] = Body(r, 0) /\ \A k \in 1..m : r[k] = Body(r, k) /\ k # 0
    BY <1>6, <1>7
  <1> QED
    BY <1>8 DEF r, m

\* The characters of a pattern lead on, one after the other.
LEMMA ReachIs ==
    ASSUME NEW pattern, NEW text, Len(pattern) \in Nat
    PROVE  /\ Reach(pattern, text)[0] = {0}
           /\ \A k \in 1..Len(pattern) : Reach(pattern, text)[k] = Beyond(text, Reach(pattern, text)[k - 1], pattern[k])
  <1> DEFINE base == {0}
             Body(f, k) == IF k = 0 THEN base ELSE Beyond(text, f[k - 1], pattern[k])
             S == {n \in Nat : \E f : f = [k \in 0..n |-> Body(f, k)]}
  <1>0. Len(pattern) \in Nat
    OBVIOUS
  <1>1. 0 \in S
    <2>1. [k \in 0..0 |-> base] = [k \in 0..0 |-> Body([l \in 0..0 |-> base], k)]
      OBVIOUS
    <2> QED
      BY <2>1
  <1>2. ASSUME NEW n \in Nat, n \in S PROVE n + 1 \in S
    <2>1. PICK f : f = [k \in 0..n |-> Body(f, k)]
      BY <1>2
    <2> DEFINE next == Beyond(text, f[n], pattern[n + 1])
               g == [k \in 0..n + 1 |-> IF k = n + 1 THEN next ELSE f[k]]
    <2>2. ASSUME NEW k \in 0..n + 1 PROVE g[k] = Body(g, k)
      <3>1. CASE k = n + 1
        <4>1. g[k] = next /\ g[k - 1] = f[n] /\ k # 0
          BY <3>1
        <4> HIDE DEF g
        <4> QED
          BY <3>1, <4>1
      <3>2. CASE k # n + 1
        <4>1. g[k] = f[k] /\ (k # 0 => g[k - 1] = f[k - 1])
          BY <3>2
        <4>2. k \in 0..n
          BY <3>2
        <4>3. f[k] = Body(f, k)
          <5> HIDE DEF Body
          <5> QED
            BY <2>1, <4>2
        <4> HIDE DEF g
        <4> QED
          BY <3>2, <4>1, <4>3
      <3> QED
        BY <3>1, <3>2
    <2>3. g = [k \in 0..n + 1 |-> Body(g, k)]
      <3>1. DOMAIN g = 0..n + 1 /\ g = [k \in 0..n + 1 |-> g[k]]
        OBVIOUS
      <3> HIDE DEF g
      <3> QED
        BY <2>2, <3>1
    <2> QED
      <3> HIDE DEF g, Body
      <3> QED
        BY <2>3
  <1>3. Len(pattern) \in S
    <2> HIDE DEF S
    <2> QED
      BY <1>0, <1>1, <1>2, SetInduction
  <1> DEFINE r == Reach(pattern, text)
             m == Len(pattern)
  <1>4. \E f : f = [k \in 0..m |-> Body(f, k)]
    BY <1>3
  <1>5. r = [k \in 0..m |-> Body(r, k)]
    BY <1>4 DEF Reach
  <1>6. 0 \in 0..m /\ \A k \in 1..m : k \in 0..m /\ k # 0
    <2> HIDE DEF m
    <2> QED
      BY <1>0 DEF m
  <1>7. \A k \in 0..m : r[k] = Body(r, k)
    <2> HIDE DEF r, m, Body
    <2> QED
      BY <1>5
  <1> HIDE DEF r, m
  <1>8. r[0] = Body(r, 0) /\ \A k \in 1..m : r[k] = Body(r, k) /\ k # 0
    BY <1>6, <1>7
  <1> QED
    BY <1>8 DEF r, m

\* The log at first is of the tabs that are open at first, in turn.
LEMMA FirstLogIs ==
    ASSUME Len(Opened) \in Nat
    PROVE  /\ FirstLog[0] = <<>>
           /\ \A k \in 1..Len(Opened) : FirstLog[k] = (IF Opened[k].win \in Private THEN FirstLog[k - 1] ELSE FirstLog[k - 1] \o SessionOf(k, Opened[k]))
  <1> DEFINE base == <<>>
             Body(f, k) == IF k = 0 THEN base ELSE (IF Opened[k].win \in Private THEN f[k - 1] ELSE f[k - 1] \o SessionOf(k, Opened[k]))
             S == {n \in Nat : \E f : f = [k \in 0..n |-> Body(f, k)]}
  <1>0. Len(Opened) \in Nat
    OBVIOUS
  <1>1. 0 \in S
    <2>1. [k \in 0..0 |-> base] = [k \in 0..0 |-> Body([l \in 0..0 |-> base], k)]
      OBVIOUS
    <2> QED
      BY <2>1
  <1>2. ASSUME NEW n \in Nat, n \in S PROVE n + 1 \in S
    <2>1. PICK f : f = [k \in 0..n |-> Body(f, k)]
      BY <1>2
    <2> DEFINE next == (IF Opened[n + 1].win \in Private THEN f[n] ELSE f[n] \o SessionOf((n + 1), Opened[n + 1]))
               g == [k \in 0..n + 1 |-> IF k = n + 1 THEN next ELSE f[k]]
    <2>2. ASSUME NEW k \in 0..n + 1 PROVE g[k] = Body(g, k)
      <3>1. CASE k = n + 1
        <4>1. g[k] = next /\ g[k - 1] = f[n] /\ k # 0
          BY <3>1
        <4> HIDE DEF g
        <4> QED
          BY <3>1, <4>1
      <3>2. CASE k # n + 1
        <4>1. g[k] = f[k] /\ (k # 0 => g[k - 1] = f[k - 1])
          BY <3>2
        <4>2. k \in 0..n
          BY <3>2
        <4>3. f[k] = Body(f, k)
          <5> HIDE DEF Body
          <5> QED
            BY <2>1, <4>2
        <4> HIDE DEF g
        <4> QED
          BY <3>2, <4>1, <4>3
      <3> QED
        BY <3>1, <3>2
    <2>3. g = [k \in 0..n + 1 |-> Body(g, k)]
      <3>1. DOMAIN g = 0..n + 1 /\ g = [k \in 0..n + 1 |-> g[k]]
        OBVIOUS
      <3> HIDE DEF g
      <3> QED
        BY <2>2, <3>1
    <2> QED
      <3> HIDE DEF g, Body
      <3> QED
        BY <2>3
  <1>3. Len(Opened) \in S
    <2> HIDE DEF S
    <2> QED
      BY <1>0, <1>1, <1>2, SetInduction
  <1> DEFINE r == FirstLog
             m == Len(Opened)
  <1>4. \E f : f = [k \in 0..m |-> Body(f, k)]
    BY <1>3
  <1>5. r = [k \in 0..m |-> Body(r, k)]
    BY <1>4 DEF FirstLog
  <1>6. 0 \in 0..m /\ \A k \in 1..m : k \in 0..m /\ k # 0
    <2> HIDE DEF m
    <2> QED
      BY <1>0 DEF m
  <1>7. \A k \in 0..m : r[k] = Body(r, k)
    <2> HIDE DEF r, m, Body
    <2> QED
      BY <1>5
  <1> HIDE DEF r, m
  <1>8. r[0] = Body(r, 0) /\ \A k \in 1..m : r[k] = Body(r, k) /\ k # 0
    BY <1>6, <1>7
  <1> QED
    BY <1>8 DEF r, m

-----------------------------------------------------------------------------
(* The sanitizer.                                                           *)

\* The strings, those named here among them: the provers do not know a literal for a string.
Texts == Word \cup {"", "/", "/[redacted]", "file", "[redacted]"}

Params == [key: Texts, value: Texts]

UrlRecords == [form: {"empty", "bad", "opaque", "url"}, scheme: Texts, user: BOOLEAN, host: Texts,
               path: Texts, query: Seq(Params), frag: BOOLEAN]

Results == [url: UrlRecords, modified: BOOLEAN, excluded: BOOLEAN]

\* Taking parameters out of a query leaves a query.
LEMMA QueryLeft ==
    ASSUME NEW u \in UrlRecords, NEW P \in SUBSET (DOMAIN u.query)
    PROVE  /\ AtPlaces(u.query, P) \in Seq(Params)
           /\ [u EXCEPT !.query = AtPlaces(@, P)] \in UrlRecords
           /\ \A k \in DOMAIN AtPlaces(u.query, P) : \E i \in P : AtPlaces(u.query, P)[k] = u.query[i]
  <1>1. u.query \in Seq(Params) /\ DOMAIN u.query = 1..Len(u.query)
    BY DEF UrlRecords
  <1>2. P \in SUBSET (1..Len(u.query))
    BY <1>1
  <1> DEFINE q == AtPlaces(u.query, P)
             a == Ascending(P)
             n == Cardinality(P)
  <1>3. /\ n \in Nat /\ q \in Seq(Params) /\ Len(q) = n /\ a \in [1..n -> P]
        /\ \A k \in 1..n : q[k] = u.query[a[k]]
    BY <1>1, <1>2, AtPlacesIs
  <1> HIDE DEF q, a, n
  <1>4. DOMAIN q = 1..n
    BY <1>3
  <1>5. \A k \in DOMAIN q : \E i \in P : q[k] = u.query[i]
    <2> TAKE k \in DOMAIN q
    <2>1. a[k] \in P /\ q[k] = u.query[a[k]]
      BY <1>3, <1>4
    <2> QED
      BY <2>1
  <1>6. [u EXCEPT !.query = q] \in UrlRecords
    BY <1>3 DEF UrlRecords
  <1> QED
    BY <1>3, <1>5, <1>6 DEF q

\* The rules by their effects.
LEMMA TheRules ==
    /\ Len(DefaultRules) = 8 /\ DOMAIN DefaultRules = 1..8
    /\ \A k \in 1..8 : DefaultRules[k].action \in
            {"RemoveParameter", "TruncatePath", "DropUrl", "ExcludeTab"}
    /\ \A k \in 1..8 : DefaultRules[k].action = "DropUrl" => DefaultRules[k].id = "local-files"
    /\ \A k \in 1..8 : DefaultRules[k].id = "local-files" => k = 7
  <1>1. Len(DefaultRules) = 8 /\ DOMAIN DefaultRules = 1..8
    BY DEF DefaultRules
  <1> DEFINE R(k) == DefaultRules[k]
  <1>2. /\ R(1).action = "RemoveParameter" /\ R(1).id = "oauth"
        /\ R(2).action = "RemoveParameter" /\ R(2).id = "session"
    BY DEF DefaultRules, Rule
  <1>3. /\ R(3).action = "RemoveParameter" /\ R(3).id = "presigned-storage"
        /\ R(4).action = "TruncatePath" /\ R(4).id = "reset-links"
    BY DEF DefaultRules, Rule
  <1>4. /\ R(5).action = "RemoveParameter" /\ R(5).id = "meeting-passcodes"
        /\ R(6).action = "RemoveParameter" /\ R(6).id = "trackers"
    BY DEF DefaultRules, Rule
  <1>5. /\ R(7).action = "DropUrl" /\ R(7).id = "local-files"
        /\ R(8).action = "ExcludeTab" /\ R(8).id = "private-browsing"
    BY DEF DefaultRules, Rule
  <1>6. ASSUME NEW k \in 1..8
        PROVE  /\ R(k).action \in {"RemoveParameter", "TruncatePath", "DropUrl", "ExcludeTab"}
               /\ R(k).action = "DropUrl" => R(k).id = "local-files"
               /\ R(k).id = "local-files" => k = 7
    <2>1. k \in {1, 2, 3, 4, 5, 6, 7, 8}
      OBVIOUS
    <2> HIDE DEF R
    <2> QED
      BY <1>2, <1>3, <1>4, <1>5, <2>1
  <1> QED
    BY <1>1, <1>6

\* What a rule leaves of a URL: its host, its scheme, no userinfo and no fragment that were not
\* there, no parameter that was not there, and the path or the root.
Less(v, u) ==
    /\ v.scheme = u.scheme /\ v.host = u.host /\ v.user = u.user /\ v.frag = u.frag
    /\ v.path \in {u.path, "/"} /\ v.form = u.form
    /\ \A k \in DOMAIN v.query : \E i \in DOMAIN u.query : v.query[k] = u.query[i]

\* A rule applied: a typed result, less of the URL, and nothing that the rule is there to
\* remove.
LEMMA RuleIs ==
    ASSUME NEW r \in Results, NEW k \in 1..8
    PROVE  LET rule == DefaultRules[k]
               s    == ApplyRule(r, rule)
           IN  /\ s \in Results /\ Less(s.url, r.url)
               /\ ~s.excluded => ~r.excluded
               /\ ~s.modified => ~r.modified /\ s.url = r.url
               /\ (~s.excluded /\ Concerns(rule, r.url)) =>
                    /\ rule.action # "ExcludeTab"
                    /\ rule.action = "TruncatePath" => s.url.path \in {"", "/"}
                    /\ rule.action = "RemoveParameter" =>
                            \A i \in DOMAIN s.url.query : ~Names(rule, s.url.query[i])
  <1> DEFINE rule == DefaultRules[k]
             s == ApplyRule(r, rule)
             u == r.url
  <1>0. /\ rule.action \in {"RemoveParameter", "TruncatePath", "DropUrl", "ExcludeTab"}
        /\ rule.action = "DropUrl" => rule.id = "local-files"
    BY TheRules
  <1> HIDE DEF rule
  <1>1. u \in UrlRecords /\ r.excluded \in BOOLEAN /\ r.modified \in BOOLEAN
    BY DEF Results
  <1>2. Less(u, u)
    BY DEF Less
  <1>3. ASSUME r.excluded \/ ~Concerns(rule, u) PROVE s = r
    BY <1>3 DEF ApplyRule
  <1>4. ASSUME ~r.excluded, Concerns(rule, u), rule.action = "ExcludeTab" PROVE s = Result(u, TRUE, TRUE)
    BY <1>4 DEF ApplyRule
  <1>5. ASSUME ~r.excluded, Concerns(rule, u), rule.action = "RemoveParameter"
        PROVE  /\ s \in Results /\ Less(s.url, u) /\ ~s.excluded /\ (~s.modified => ~r.modified /\ s.url = u)
               /\ \A i \in DOMAIN s.url.query : ~Names(rule, s.url.query[i])
    <2> DEFINE P == {i \in DOMAIN u.query : ~Names(rule, u.query[i])}
               v == [u EXCEPT !.query = AtPlaces(@, P)]
    <2>1. CASE Applied(rule, u)
      <3>1. s = Result(Apply(rule, u), TRUE, FALSE)
        BY <1>5, <2>1 DEF ApplyRule
      <3>2. Apply(rule, u) = v
        BY <1>1, <1>5 DEF Apply, UrlRecords
      <3>3. /\ v \in UrlRecords
            /\ \A l \in DOMAIN AtPlaces(u.query, P) : \E i \in P : AtPlaces(u.query, P)[l] = u.query[i]
        <4>1. P \in SUBSET (DOMAIN u.query)
          OBVIOUS
        <4> HIDE DEF P
        <4> QED
          BY <1>1, <4>1, QueryLeft
      <3>4. v.query = AtPlaces(u.query, P) /\ v.scheme = u.scheme /\ v.host = u.host /\ v.user = u.user
            /\ v.frag = u.frag /\ v.path = u.path /\ v.form = u.form
        BY <1>1 DEF UrlRecords
      <3>5. \A i \in P : i \in DOMAIN u.query /\ ~Names(rule, u.query[i])
        OBVIOUS
      <3> HIDE DEF v, P
      <3>6. \A l \in DOMAIN v.query : ~Names(rule, v.query[l]) /\ \E i \in DOMAIN u.query : v.query[l] = u.query[i]
        BY <3>3, <3>4, <3>5
      <3>7. s.url = v /\ s.modified = TRUE /\ s.excluded = FALSE /\ s \in Results
        BY <3>1, <3>2, <3>3 DEF Result, Results
      <3> HIDE DEF s
      <3> QED
        BY <3>4, <3>6, <3>7 DEF Less
    <2>2. CASE ~Applied(rule, u)
      <3>1. s = r
        BY <1>5, <2>2 DEF ApplyRule
      <3>2. \A i \in DOMAIN u.query : ~Names(rule, u.query[i])
        BY <1>5, <2>2 DEF Applied
      <3> QED
        BY <1>2, <1>5, <3>1, <3>2
    <2> QED
      BY <2>1, <2>2
  <1>6. ASSUME ~r.excluded, Concerns(rule, u), rule.action = "TruncatePath"
        PROVE  /\ s \in Results /\ Less(s.url, u) /\ ~s.excluded /\ (~s.modified => ~r.modified /\ s.url = u)
               /\ s.url.path \in {"", "/"}
    <2>1. CASE Applied(rule, u)
      <3> DEFINE v == [u EXCEPT !.path = "/", !.query = <<>>]
      <3>1. s = Result(v, TRUE, FALSE)
        BY <1>6, <2>1 DEF ApplyRule, Apply
      <3>2. v \in UrlRecords /\ Less(v, u) /\ v.path = "/"
        <4>1. v \in UrlRecords
          <5>1. <<>> \in Seq(Params) /\ "/" \in Texts
            BY DEF Texts
          <5> HIDE DEF Params, Texts
          <5> QED
            BY <1>1, <5>1 DEF UrlRecords
        <4>2. /\ v.scheme = u.scheme /\ v.host = u.host /\ v.user = u.user /\ v.frag = u.frag
              /\ v.path = "/" /\ v.form = u.form /\ v.query = <<>>
          BY <1>1 DEF UrlRecords
        <4> HIDE DEF v
        <4> QED
          BY <4>1, <4>2 DEF Less
      <3> HIDE DEF v
      <3>3. s.url = v /\ s.modified = TRUE /\ s.excluded = FALSE /\ s \in Results
        BY <3>1, <3>2 DEF Result, Results
      <3> QED
        BY <3>2, <3>3
    <2>2. CASE ~Applied(rule, u)
      <3>1. s = r
        BY <1>6, <2>2 DEF ApplyRule
      <3>2. u.path \in {"", "/"}
        BY <1>6, <2>2 DEF Applied
      <3> QED
        BY <1>2, <1>6, <3>1, <3>2
    <2> QED
      BY <2>1, <2>2
  <1>7. Concerns(rule, u) => rule.action # "DropUrl"
    BY <1>0 DEF Concerns
  <1>8. CASE r.excluded \/ ~Concerns(rule, u)
    <2>1. s = r
      BY <1>3, <1>8
    <2> HIDE DEF s
    <2>2. s \in Results /\ Less(s.url, r.url) /\ (~s.excluded => ~r.excluded) /\ (~s.modified => ~r.modified /\ s.url = r.url)
      BY <1>2, <2>1
    <2>3. ~(~s.excluded /\ Concerns(rule, r.url))
      BY <1>8, <2>1
    <2> QED
      BY <2>2, <2>3 DEF s, rule
  <1>9. CASE ~r.excluded /\ Concerns(rule, u) /\ rule.action = "ExcludeTab"
    <2>1. s = Result(u, TRUE, TRUE)
      BY <1>4, <1>9
    <2>2. s \in Results /\ s.url = u /\ s.excluded = TRUE /\ s.modified = TRUE
      BY <1>1, <2>1 DEF Result, Results
    <2> HIDE DEF s
    <2> QED
      BY <1>2, <2>2 DEF s, rule
  <1>10. CASE ~r.excluded /\ Concerns(rule, u) /\ rule.action = "RemoveParameter"
    <2> HIDE DEF s
    <2> QED
      BY <1>5, <1>10 DEF s, rule
  <1>11. CASE ~r.excluded /\ Concerns(rule, u) /\ rule.action = "TruncatePath"
    <2> HIDE DEF s
    <2> QED
      BY <1>6, <1>11 DEF s, rule
  <1> QED
    BY <1>0, <1>7, <1>8, <1>9, <1>10, <1>11

LEMMA LessAndLess ==
    ASSUME NEW u \in UrlRecords, NEW v \in UrlRecords, NEW w \in UrlRecords, Less(v, u), Less(w, v)
    PROVE  Less(w, u)
  <1>1. \A k \in DOMAIN w.query : \E i \in DOMAIN u.query : w.query[k] = u.query[i]
    <2> TAKE k \in DOMAIN w.query
    <2>1. PICK i \in DOMAIN v.query : w.query[k] = v.query[i]
      BY DEF Less
    <2>2. PICK j \in DOMAIN u.query : v.query[i] = u.query[j]
      BY DEF Less
    <2> QED
      BY <2>1, <2>2
  <1> QED
    BY <1>1 DEF Less

\* What every rule leaves is less of what the rules before it have left.
LEMMA RuledDown ==
    ASSUME NEW start \in Results
    PROVE  LET r == RuledBy(start)
           IN  /\ r[0] = start /\ Ruled(start) = r[8]
               /\ \A k \in 0..8 : r[k] \in Results
               /\ \A k \in 1..8 : r[k] = ApplyRule(r[k - 1], DefaultRules[k])
               /\ \A k \in 0..8 : /\ Less(r[8].url, r[k].url)
                                  /\ ~r[8].excluded => ~r[k].excluded
                                  /\ ~r[8].modified => ~r[k].modified /\ r[8].url = r[k].url
  <1> DEFINE r == RuledBy(start)
             Typed == {n \in Nat : n <= 8 => r[n] \in Results}
             Down(n, k) == /\ Less(r[n].url, r[k].url)
                           /\ ~r[n].excluded => ~r[k].excluded
                           /\ ~r[n].modified => ~r[k].modified /\ r[n].url = r[k].url
             Falling == {n \in Nat : n <= 8 => \A k \in 0..n : Down(n, k)}
  <1>1. Len(DefaultRules) = 8
    BY TheRules
  <1>2. r[0] = start /\ \A k \in 1..8 : r[k] = ApplyRule(r[k - 1], DefaultRules[k])
    <2>1. r[0] = start /\ \A k \in 1..Len(DefaultRules) : r[k] = ApplyRule(r[k - 1], DefaultRules[k])
      BY RuledByIs
    <2> HIDE DEF r
    <2> QED
      BY <1>1, <2>1
  <1>3. Ruled(start) = r[8]
    BY <1>1 DEF Ruled
  <1> HIDE DEF r
  <1>4. Nat \subseteq Typed
    <2>1. 0 \in Typed
      BY <1>2
    <2>2. ASSUME NEW n \in Nat, n \in Typed PROVE n + 1 \in Typed
      <3>1. CASE n + 1 <= 8
        <4>1. n + 1 \in 1..8 /\ (n + 1) - 1 = n /\ n <= 8
          BY <3>1
        <4>2. r[n] \in Results /\ r[n + 1] = ApplyRule(r[n], DefaultRules[n + 1])
          BY <1>2, <2>2, <4>1
        <4>3. r[n + 1] \in Results
          BY <4>1, <4>2, RuleIs
        <4> QED
          BY <4>3
      <3>2. CASE ~(n + 1 <= 8)
        BY <3>2
      <3> QED
        BY <3>1, <3>2
    <2> HIDE DEF Typed
    <2> QED
      BY <2>1, <2>2, SetInduction
  <1>5. \A k \in 0..8 : k \in Nat /\ r[k] \in Results
    BY <1>4
  <1>6. ASSUME NEW k \in 0..8 PROVE r[k].url \in UrlRecords
    BY <1>5 DEF Results
  <1>7. Nat \subseteq Falling
    <2>1. 0 \in Falling
      <3>1. \A k \in 0..0 : k = 0
        OBVIOUS
      <3>2. Less(r[0].url, r[0].url)
        BY DEF Less
      <3> QED
        BY <3>1, <3>2
    <2>2. ASSUME NEW n \in Nat, n \in Falling PROVE n + 1 \in Falling
      <3>1. CASE n + 1 <= 8
        <4>1. n + 1 \in 1..8 /\ n + 1 \in 0..8 /\ n \in 0..8 /\ (n + 1) - 1 = n /\ n <= 8
          BY <3>1
        <4>2. r[n] \in Results /\ r[n + 1] = ApplyRule(r[n], DefaultRules[n + 1])
          BY <1>2, <1>5, <4>1
        <4>3. Down(n + 1, n)
          <5> DEFINE x == r[n]
                     k == n + 1
                     y == ApplyRule(x, DefaultRules[k])
          <5>1. x \in Results /\ k \in 1..8
            BY <4>1, <4>2
          <5> HIDE DEF x, k
          <5>2. Less(y.url, x.url) /\ (~y.excluded => ~x.excluded) /\ (~y.modified => ~x.modified /\ y.url = x.url)
            BY <5>1, RuleIs
          <5> HIDE DEF y
          <5> QED
            BY <4>2, <5>2 DEF x, k, y
        <4>4. Down(n + 1, n + 1)
          BY DEF Less
        <4>5. ASSUME NEW k \in 0..n PROVE Down(n + 1, k)
          <5>1. Down(n, k) /\ k \in 0..8
            BY <2>2, <4>1
          <5>2. Less(r[n + 1].url, r[k].url)
            BY <1>6, <4>1, <4>3, <5>1, LessAndLess
          <5> QED
            BY <4>3, <5>1, <5>2
        <4>6. \A k \in 0..n + 1 : k \in 0..n \/ k = n + 1
          OBVIOUS
        <4> HIDE DEF Down
        <4> QED
          BY <4>4, <4>5, <4>6
      <3>2. CASE ~(n + 1 <= 8)
        BY <3>2
      <3> QED
        BY <3>1, <3>2
    <2> HIDE DEF Falling
    <2> QED
      BY <2>1, <2>2, SetInduction
  <1>8. 8 \in Nat /\ 8 <= 8
    OBVIOUS
  <1>9. \A k \in 0..8 : Down(8, k)
    BY <1>7, <1>8
  <1> QED
    BY <1>2, <1>3, <1>5, <1>9 DEF r

\* What the rules leave, unless the tab is excluded: no credential, no tracker, no path of a
\* reset link, and not the bank.
LEMMA RuledIs ==
    ASSUME NEW start \in Results
    PROVE  /\ Ruled(start) \in Results /\ Less(Ruled(start).url, start.url)
           /\ ~Ruled(start).modified => ~start.modified /\ Ruled(start).url = start.url
           /\ ~Ruled(start).excluded =>
                LET u == Ruled(start).url
                IN  /\ \A i \in DOMAIN u.query : u.query[i].key \notin Credentials \cup Trackers
                    /\ u.path \notin {"/reset", "/verify"} /\ u.host # "www.bank.com"
  <1> DEFINE r == RuledBy(start)
             R(k) == DefaultRules[k]
  <1>1. /\ r[0] = start /\ Ruled(start) = r[8]
        /\ \A k \in 0..8 : r[k] \in Results
        /\ \A k \in 1..8 : r[k] = ApplyRule(r[k - 1], R(k))
        /\ \A k \in 0..8 : /\ Less(r[8].url, r[k].url)
                           /\ ~r[8].excluded => ~r[k].excluded
                           /\ ~r[8].modified => ~r[k].modified /\ r[8].url = r[k].url
    BY RuledDown
  <1> HIDE DEF r
  <1> DEFINE u == r[8].url
  <1>2. ASSUME NEW k \in 1..8, ~r[8].excluded, Concerns(R(k), r[k - 1].url)
        PROVE  /\ R(k).action # "ExcludeTab"
               /\ R(k).action = "TruncatePath" => r[k].url.path \in {"", "/"}
               /\ R(k).action = "RemoveParameter" =>
                        \A i \in DOMAIN u.query : ~Names(R(k), u.query[i])
    <2>1. k - 1 \in 0..8 /\ k \in 0..8
      OBVIOUS
    <2>2. r[k - 1] \in Results /\ r[k] = ApplyRule(r[k - 1], R(k)) /\ ~r[k].excluded
      BY <1>1, <1>2, <2>1
    <2> HIDE DEF R
    <2>3. /\ R(k).action # "ExcludeTab"
          /\ R(k).action = "TruncatePath" => r[k].url.path \in {"", "/"}
          /\ R(k).action = "RemoveParameter" =>
                        \A i \in DOMAIN r[k].url.query : ~Names(R(k), r[k].url.query[i])
      <3> DEFINE x == r[k - 1]
                 y == ApplyRule(x, DefaultRules[k])
      <3>1. x \in Results /\ y = r[k] /\ ~y.excluded /\ Concerns(DefaultRules[k], x.url)
        BY <1>2, <2>2 DEF R
      <3> HIDE DEF x
      <3>2. /\ DefaultRules[k].action # "ExcludeTab"
            /\ DefaultRules[k].action = "TruncatePath" => y.url.path \in {"", "/"}
            /\ DefaultRules[k].action = "RemoveParameter" =>
                        \A i \in DOMAIN y.url.query : ~Names(DefaultRules[k], y.url.query[i])
        BY <3>1, RuleIs
      <3> HIDE DEF y
      <3> QED
        BY <3>1, <3>2 DEF R
    <2>4. Less(u, r[k].url)
      BY <1>1, <2>1
    <2>5. \A i \in DOMAIN u.query : \E j \in DOMAIN r[k].url.query : u.query[i] = r[k].url.query[j]
      BY <2>4 DEF Less
    <2> QED
      BY <2>3, <2>5
  <1>3. /\ R(1).action = "RemoveParameter" /\ R(1).id # "local-files" /\ R(1).hosts = {} /\ R(1).paths = {}
        /\ R(1).params = {"access_token", "code", "state"}
    BY DEF DefaultRules, Rule
  <1>4. /\ R(2).action = "RemoveParameter" /\ R(2).id # "local-files" /\ R(2).hosts = {} /\ R(2).paths = {}
        /\ R(2).params = {"sid", "sig", "pwd", "key"}
    BY DEF DefaultRules, Rule
  <1>5. /\ R(6).action = "RemoveParameter" /\ R(6).id # "local-files" /\ R(6).hosts = {} /\ R(6).paths = {}
        /\ R(6).params = {"utm_source"}
    BY DEF DefaultRules, Rule
  <1>6. /\ R(4).action = "TruncatePath" /\ R(4).id # "local-files" /\ R(4).hosts = {}
        /\ R(4).paths = {"/reset", "/verify"}
    BY DEF DefaultRules, Rule
  <1>7. /\ R(8).action = "ExcludeTab" /\ R(8).id # "local-files" /\ R(8).hosts = {"www.bank.com"}
        /\ R(8).paths = {}
    BY DEF DefaultRules, Rule
  <1> HIDE DEF R
  <1>8. \A k \in {1, 2, 6} : Concerns(R(k), r[k - 1].url)
    BY <1>3, <1>4, <1>5 DEF Concerns
  <1>9. ASSUME ~r[8].excluded
        PROVE  \A i \in DOMAIN u.query : u.query[i].key \notin Credentials \cup Trackers
    <2>1. 1 \in 1..8 /\ 2 \in 1..8 /\ 6 \in 1..8
      OBVIOUS
    <2>2. \A i \in DOMAIN u.query : /\ ~Names(R(1), u.query[i]) /\ ~Names(R(2), u.query[i])
                                    /\ ~Names(R(6), u.query[i])
      BY <1>2, <1>3, <1>4, <1>5, <1>8, <1>9, <2>1
    <2> HIDE DEF u
    <2> QED
      BY <1>3, <1>4, <1>5, <2>2 DEF Names, Credentials, Trackers
  <1>10. ASSUME ~r[8].excluded PROVE u.path \notin {"/reset", "/verify"}
    <2>0. 4 \in 1..8 /\ 4 \in 0..8 /\ 3 \in 0..8 /\ 4 - 1 = 3
      BY SMTT(30)
    <2>1. u.path \in {r[4].url.path, "/"}
      BY <1>1, <2>0 DEF Less
    <2>2. CASE Concerns(R(4), r[3].url)
      <3>1. r[4].url.path \in {"", "/"}
        BY <1>2, <1>6, <1>10, <2>0, <2>2
      <3> QED
        BY <2>1, <3>1
    <2>3. CASE ~Concerns(R(4), r[3].url)
      <3>1. r[4] = r[3]
        BY <1>1, <2>0, <2>3 DEF ApplyRule
      <3>2. r[3].url.path \notin {"/reset", "/verify"}
        BY <1>6, <2>3 DEF Concerns
      <3> QED
        BY <2>1, <3>1, <3>2
    <2> QED
      BY <2>2, <2>3
  <1>11. ASSUME ~r[8].excluded PROVE u.host # "www.bank.com"
    <2>0. 8 \in 1..8 /\ 8 - 1 = 7 /\ 7 \in 0..8
      BY SMTT(30)
    <2>1. u.host = r[7].url.host
      BY <1>1, <2>0 DEF Less
    <2>2. ~Concerns(R(8), r[7].url)
      BY <1>2, <1>7, <1>11, <2>0
    <2> QED
      BY <1>7, <2>1, <2>2 DEF Concerns
  <1>12. 0 \in 0..8 /\ 8 \in 0..8
    OBVIOUS
  <1>13. /\ Less(u, start.url) /\ r[8] \in Results
         /\ ~r[8].modified => ~start.modified /\ u = start.url
    BY <1>1, <1>12
  <1> QED
    BY <1>1, <1>9, <1>10, <1>11, <1>13 DEF r

\* The URLs parse_url gives, and what the sanitizer makes of them.
Seen == {u \in UrlRecords :
            /\ u.form \in {"empty", "bad"} =>
                    u.scheme = "" /\ u.host = "" /\ u.path = "" /\ u.user = FALSE /\ u.frag = FALSE
            /\ u.form = "empty" => u.query = <<>>}

LEMMA ParsedSeen == Parsed \subseteq Seen
  <1> SUFFICES ASSUME NEW u \in Parsed PROVE u \in Seen
    OBVIOUS
  <1>1. u \in Urls
    BY DEF Parsed
  <1>2. [key : Word, value : Word] \subseteq Params
    BY DEF Params, Texts
  <1>3. Seq([key : Word, value : Word]) \subseteq Seq(Params)
    <2> DEFINE P == [key : Word, value : Word]
    <2>1. P \subseteq Params
      BY <1>2
    <2> HIDE DEF P
    <2> SUFFICES ASSUME NEW s \in Seq(P) PROVE s \in Seq(Params)
      BY DEF P
    <2>2. Len(s) \in Nat /\ s \in [1..Len(s) -> P]
      OBVIOUS
    <2>3. s \in [1..Len(s) -> Params]
      BY <2>1, <2>2
    <2> QED
      BY <2>2, <2>3
  <1>4. u \in UrlRecords
    <2> DEFINE Q == Seq([key : Word, value : Word])
    <2>1. Q \subseteq Seq(Params) /\ Word \subseteq Texts
      BY <1>3 DEF Texts
    <2> HIDE DEF Q
    <2>2. u \in [form: {"empty", "bad", "opaque", "url"}, scheme: Word, user: BOOLEAN, host: Word,
                 path: Word, query: Q, frag: BOOLEAN]
      BY <1>1 DEF Urls, Q
    <2> HIDE DEF Texts
    <2> QED
      BY <2>1, <2>2 DEF UrlRecords
  <1> QED
    BY <1>4 DEF Parsed, Seen

LEMMA StrippedIs ==
    ASSUME NEW u \in UrlRecords
    PROVE  LET s == Stripped(u)
           IN  /\ s \in UrlRecords /\ s.form = u.form /\ s.scheme = u.scheme /\ s.host = u.host
               /\ StripUserinfo => ~s.user
               /\ StripFragments => ~s.frag
  <1> DEFINE user == u.user /\ ~StripUserinfo
             frag == u.frag /\ ~StripFragments
             query == IF StripAll THEN <<>> ELSE u.query
             s == [u EXCEPT !.user = user, !.frag = frag, !.query = query]
  <1>1. Stripped(u) = s
    BY DEF Stripped, UrlRecords
  <1>2. user \in BOOLEAN /\ frag \in BOOLEAN /\ (StripUserinfo => user = FALSE) /\ (StripFragments => frag = FALSE)
    BY Zenon
  <1>3. query \in Seq(Params)
    BY DEF UrlRecords
  <1> HIDE DEF user, frag, query
  <1>4. s \in UrlRecords /\ s.form = u.form /\ s.scheme = u.scheme /\ s.host = u.host /\ s.user = user /\ s.frag = frag
    BY <1>2, <1>3 DEF UrlRecords
  <1> QED
    BY <1>1, <1>2, <1>4, Zenon

LEMMA WithoutSecretsIs ==
    ASSUME NEW u \in UrlRecords
    PROVE  LET c == WithoutSecrets(u)
           IN  /\ c \in UrlRecords /\ Less(c, u) /\ c.path = u.path
               /\ \A i \in DOMAIN c.query : ~LooksLikeSecret(c.query[i])
  <1> DEFINE P == {i \in DOMAIN u.query : ~LooksLikeSecret(u.query[i])}
             q == AtPlaces(u.query, P)
             c == [u EXCEPT !.query = q]
  <1>1. WithoutSecrets(u) = c
    BY DEF WithoutSecrets, UrlRecords
  <1>2. P \in SUBSET (DOMAIN u.query) /\ \A i \in P : ~LooksLikeSecret(u.query[i])
    OBVIOUS
  <1> HIDE DEF P
  <1>3. /\ [u EXCEPT !.query = AtPlaces(@, P)] \in UrlRecords
        /\ \A k \in DOMAIN q : \E i \in P : q[k] = u.query[i]
    BY <1>2, QueryLeft
  <1>4. [u EXCEPT !.query = AtPlaces(@, P)] = c
    BY DEF UrlRecords
  <1> HIDE DEF q
  <1>5. /\ c.query = q /\ c.scheme = u.scheme /\ c.host = u.host /\ c.user = u.user /\ c.frag = u.frag
        /\ c.path = u.path /\ c.form = u.form
    BY DEF UrlRecords
  <1>6. c \in UrlRecords
    BY <1>3, <1>4
  <1> HIDE DEF c
  <1>7. \A i \in DOMAIN c.query : ~LooksLikeSecret(c.query[i]) /\ \E j \in DOMAIN u.query : c.query[i] = u.query[j]
    BY <1>2, <1>3, <1>5
  <1> QED
    BY <1>1, <1>5, <1>6, <1>7 DEF Less

\* What a URL is when it was rewritten, or left as it was: it keeps the shape parse_url gives.
LEMMA SanitizeUrlIs ==
    ASSUME NEW u \in Seen
    PROVE  LET r == SanitizeUrl(u)
           IN  /\ r.url \in Seen /\ r.modified \in BOOLEAN /\ r.excluded \in BOOLEAN
               /\ ~r.modified => r.url = u
               /\ (StripUserinfo /\ StripFragments /\ DetectEntropy /\ ~r.excluded) => Harmless(r.url)
  <1> DEFINE r == SanitizeUrl(u)
             stripped == Stripped(u)
             start == Result(stripped, stripped # u, FALSE)
             ruled == Ruled(start)
             clean == WithoutSecrets(ruled.url)
             Good(x) == /\ x.url \in Seen /\ x.modified \in BOOLEAN /\ x.excluded \in BOOLEAN
                        /\ ~x.modified => x.url = u
                        /\ (StripUserinfo /\ StripFragments /\ DetectEntropy /\ ~x.excluded) => Harmless(x.url)
  <1>1. u \in UrlRecords
    BY DEF Seen
  <1>2. /\ stripped \in UrlRecords /\ stripped.form = u.form /\ stripped.scheme = u.scheme /\ stripped.host = u.host
        /\ StripUserinfo => ~stripped.user
        /\ StripFragments => ~stripped.frag
    BY <1>1, StrippedIs
  <1> HIDE DEF stripped
  <1>3. start \in Results /\ start.url = stripped /\ start.modified = (stripped # u) /\ start.excluded = FALSE
    BY <1>2 DEF Result, Results
  <1> HIDE DEF start
  <1>4. /\ ruled \in Results /\ Less(ruled.url, stripped)
        /\ ~ruled.modified => ~start.modified /\ ruled.url = stripped
        /\ ~ruled.excluded =>
             /\ \A i \in DOMAIN ruled.url.query : ruled.url.query[i].key \notin Credentials \cup Trackers
             /\ ruled.url.path \notin {"/reset", "/verify"} /\ ruled.url.host # "www.bank.com"
    BY <1>3, RuledIs
  <1> HIDE DEF ruled
  <1>5. ruled.url \in UrlRecords
    BY <1>4 DEF Results
  <1>6. /\ clean \in UrlRecords /\ Less(clean, ruled.url) /\ clean.path = ruled.url.path
        /\ \A i \in DOMAIN clean.query : ~LooksLikeSecret(clean.query[i])
    BY <1>5, WithoutSecretsIs
  <1> HIDE DEF clean
  <1>7. /\ clean.form = u.form /\ clean.scheme = u.scheme /\ clean.user = stripped.user
        /\ clean.frag = stripped.frag /\ clean.host = ruled.url.host
    BY <1>2, <1>4, <1>6 DEF Less
  <1>8. ASSUME ~ruled.excluded, u.scheme # "file", StripUserinfo, StripFragments, DetectEntropy
        PROVE  Harmless(clean)
    <2>1. ~clean.user /\ ~clean.frag
      BY <1>2, <1>7, <1>8
    <2>2. \A i \in DOMAIN clean.query : \E j \in DOMAIN ruled.url.query : clean.query[i] = ruled.url.query[j]
      BY <1>6 DEF Less
    <2>3. \A i \in DOMAIN clean.query : clean.query[i].key \notin Credentials \cup Trackers
      BY <1>4, <1>8, <2>2
    <2>4. \A i \in DOMAIN clean.query : clean.query[i].value # "token"
      BY <1>6, <1>8 DEF LooksLikeSecret
    <2>5. clean.path \notin {"/reset", "/verify"} /\ clean.host # "www.bank.com" /\ clean.scheme # "file"
      BY <1>4, <1>6, <1>7, <1>8
    <2> QED
      BY <2>1, <2>3, <2>4, <2>5 DEF Harmless
  <1>9. u.form \in {"empty", "bad", "opaque", "url"}
    BY <1>1 DEF UrlRecords
  <1>10. ASSUME u.form \in {"empty", "bad"}, u.query = <<>> PROVE Harmless(u)
    <2>1. DOMAIN u.query = {}
      BY <1>10
    <2>2. u.scheme = "" /\ u.host = "" /\ u.path = "" /\ u.user = FALSE /\ u.frag = FALSE
      BY <1>10 DEF Seen
    <2> QED
      BY <2>1, <2>2 DEF Harmless
  <1>11. ASSUME u.form = "empty" PROVE Good(r)
    <2>1. r = Result(u, FALSE, FALSE)
      BY <1>11 DEF SanitizeUrl
    <2>2. r.url = u /\ r.modified = FALSE /\ r.excluded = FALSE
      BY <2>1 DEF Result
    <2>3. Harmless(u)
      BY <1>10, <1>11 DEF Seen
    <2> HIDE DEF r
    <2> QED
      BY <2>2, <2>3
  <1>12. ASSUME u.form = "bad" PROVE Good(r)
    <2>1. r = Result(u, u.query # <<>>, u.query # <<>>)
      BY <1>12 DEF SanitizeUrl
    <2>2. r.url = u /\ r.modified = (u.query # <<>>) /\ r.excluded = (u.query # <<>>)
      BY <2>1 DEF Result
    <2>3. r.modified \in BOOLEAN /\ r.excluded \in BOOLEAN
      BY <2>2, Zenon
    <2>4. u.query = <<>> => Harmless(u)
      BY <1>10, <1>12
    <2> HIDE DEF r
    <2> QED
      BY <2>2, <2>3, <2>4
  <1>13. ASSUME u.form \in {"url", "opaque"}, u.scheme = "file" PROVE Good(r)
    <2>1. r = Result(Redacted, TRUE, FALSE)
      BY <1>13 DEF SanitizeUrl
    <2>2. r.url = Redacted /\ r.modified = TRUE /\ r.excluded = FALSE
      BY <2>1 DEF Result
    <2>3. Redacted \in UrlRecords
      <3>1. "file" \in Texts /\ "" \in Texts /\ "/[redacted]" \in Texts /\ <<>> \in Seq(Params)
        BY DEF Texts
      <3> HIDE DEF Texts, Params
      <3> QED
        BY <3>1 DEF Redacted, UrlRecords
    <2>4. Redacted \in Seen /\ Harmless(Redacted)
      <3>1. Redacted.form = "url"
        BY DEF Redacted
      <3>2. Redacted \in Seen
        BY <2>3, <3>1 DEF Seen
      <3>3. /\ Redacted.user = FALSE /\ Redacted.frag = FALSE /\ Redacted.query = <<>>
            /\ Redacted.path = "/[redacted]" /\ Redacted.host = ""
        BY DEF Redacted
      <3>4. DOMAIN Redacted.query = {}
        <4> DEFINE q == Redacted.query
        <4>1. q = <<>>
          BY <3>3
        <4> HIDE DEF q
        <4>2. DOMAIN q = {}
          BY <4>1
        <4> QED
          BY <4>2 DEF q
      <3>5. Harmless(Redacted)
        BY <3>3, <3>4 DEF Harmless
      <3> QED
        BY <3>2, <3>5
    <2> HIDE DEF r
    <2> QED
      BY <2>2, <2>4
  <1>14. ASSUME u.form \in {"url", "opaque"}, u.scheme # "file" PROVE Good(r)
    <2>1. r = IF IsHostBlocked(u.host) THEN Result(u, TRUE, TRUE)
              ELSE IF ruled.excluded THEN Result(u, TRUE, TRUE)
              ELSE IF ruled.modified \/ clean # ruled.url THEN Result(Written(clean), TRUE, FALSE)
              ELSE Result(u, FALSE, FALSE)
      BY <1>14 DEF SanitizeUrl, ruled, clean, start, stripped
    <2> HIDE DEF r
    <2>2. CASE IsHostBlocked(u.host) \/ ruled.excluded
      <3>1. r = Result(u, TRUE, TRUE)
        BY <2>1, <2>2
      <3>2. r.url = u /\ r.modified = TRUE /\ r.excluded = TRUE
        BY <3>1 DEF Result
      <3> QED
        BY <3>2
    <2>3. CASE ~IsHostBlocked(u.host) /\ ~ruled.excluded /\ (ruled.modified \/ clean # ruled.url)
      <3> DEFINE w == Written(clean)
      <3>1. r = Result(w, TRUE, FALSE)
        BY <2>1, <2>3
      <3>2. r.url = w /\ r.modified = TRUE /\ r.excluded = FALSE
        BY <3>1 DEF Result
      <3>3. /\ w \in UrlRecords /\ w.form \in {clean.form, "url"} /\ w.scheme = clean.scheme /\ w.user = clean.user
            /\ w.host = clean.host /\ w.path = clean.path /\ w.query = clean.query /\ w.frag = clean.frag
        BY <1>6 DEF Written, UrlRecords
      <3> HIDE DEF w
      <3>4. w \in Seen
        BY <1>7, <1>14, <3>3 DEF Seen
      <3>5. clean.scheme # "file"
        BY <1>7, <1>14
      <3>6. Harmless(clean) => Harmless(w)
        BY <3>3, <3>5 DEF Harmless
      <3> QED
        BY <1>8, <1>14, <2>3, <3>2, <3>4, <3>6
    <2>4. CASE ~IsHostBlocked(u.host) /\ ~ruled.excluded /\ ~(ruled.modified \/ clean # ruled.url)
      <3>1. r = Result(u, FALSE, FALSE)
        BY <2>1, <2>4
      <3>2. r.url = u /\ r.modified = FALSE /\ r.excluded = FALSE
        BY <3>1 DEF Result
      <3>3. clean = u
        BY <1>3, <1>4, <2>4
      <3> QED
        BY <1>8, <1>14, <2>4, <3>2, <3>3
    <2> QED
      BY <2>2, <2>3, <2>4
  <1>15. Good(r)
    <2> HIDE DEF Good, r
    <2> QED
      BY <1>9, <1>11, <1>12, <1>13, <1>14
  <1> QED
    BY <1>15

-----------------------------------------------------------------------------
(* The tabs that are stored.                                                *)

TabRecords == [id: Nat, index: Nat, url: Seen, title: Texts, active: BOOLEAN, incognito: BOOLEAN,
               sanitized: BOOLEAN, of: Nat, from: Nat]

\* Tabs at increasing places, whatever was taken out between them.
InARow(tabs) == \A i, j \in DOMAIN tabs : i < j => tabs[i].index < tabs[j].index

\* What the sanitizer may be asked to hide is hidden.
Safe(tab) == /\ (StripUserinfo /\ StripFragments /\ DetectEntropy) => Harmless(tab.url)
             /\ tab.sanitized => tab.title # "telling"

LEMMA SanitizeTabIs ==
    ASSUME NEW tab \in TabRecords
    PROVE  LET s == SanitizeTab(tab)
           IN  /\ s \in TabRecords /\ s.index = tab.index /\ s.from = tab.from
               /\ (~SanitizeUrl(tab.url).excluded /\ ~tab.sanitized) => Safe(s)
  <1> DEFINE r == SanitizeUrl(tab.url)
             s == SanitizeTab(tab)
             title == IF tab.title = "telling" THEN "[redacted]" ELSE tab.title
             t == [tab EXCEPT !.url = r.url, !.sanitized = TRUE, !.title = title]
  <1>1. tab.url \in Seen /\ tab.title \in Texts
    BY DEF TabRecords
  <1>2. /\ r.url \in Seen /\ r.modified \in BOOLEAN
        /\ ~r.modified => r.url = tab.url
        /\ (StripUserinfo /\ StripFragments /\ DetectEntropy /\ ~r.excluded) => Harmless(r.url)
    BY <1>1, SanitizeUrlIs
  <1>3. s = IF ~r.modified THEN tab ELSE t
    BY DEF SanitizeTab, TabRecords
  <1>4. title \in Texts /\ title # "telling"
    BY <1>1 DEF Texts
  <1> HIDE DEF r, title, s
  <1>5. CASE ~r.modified
    <2>1. s = tab /\ r.url = tab.url
      BY <1>2, <1>3, <1>5
    <2> QED
      BY <1>2, <2>1 DEF Safe, s, r
  <1>6. CASE r.modified
    <2>1. s = t
      BY <1>3, <1>6
    <2>2. t \in TabRecords /\ t.index = tab.index /\ t.from = tab.from /\ t.url = r.url /\ t.title = title
      BY <1>2, <1>4 DEF TabRecords
    <2> HIDE DEF t
    <2>3. ~r.excluded => Safe(t)
      BY <1>2, <1>4, <2>2 DEF Safe
    <2> QED
      BY <2>1, <2>2, <2>3 DEF s, r
  <1> QED
    BY <1>5, <1>6

\* Every tab that is left is one that was there, rewritten, at its new place.
LEMMA SanitizeTabsIs ==
    ASSUME NEW tabs \in Seq(TabRecords), \A i \in DOMAIN tabs : ~tabs[i].sanitized
    PROVE  /\ SanitizeTabs(tabs) \in Seq(TabRecords) /\ InARow(SanitizeTabs(tabs))
           /\ \A i \in DOMAIN SanitizeTabs(tabs) :
                /\ Safe(SanitizeTabs(tabs)[i])
                /\ \E j \in DOMAIN tabs : SanitizeTabs(tabs)[i].from = tabs[j].from
  <1> DEFINE P == {i \in DOMAIN tabs : ~SanitizeUrl(tabs[i].url).excluded}
             a == Ascending(P)
             n == Cardinality(P)
             kept == AtPlaces(tabs, P)
             clean == [i \in DOMAIN kept |-> SanitizeTab(kept[i])]
             new == [i \in DOMAIN clean |-> [clean[i] EXCEPT !.index = i - 1]]
  <1>1. P \in SUBSET (1..Len(tabs)) /\ \A i \in P : i \in DOMAIN tabs /\ ~SanitizeUrl(tabs[i].url).excluded
    OBVIOUS
  <1>2. SanitizeTabs(tabs) = new
    BY DEF SanitizeTabs, Reindexed
  <1> HIDE DEF P
  <1>3. /\ n \in Nat /\ kept \in Seq(TabRecords) /\ Len(kept) = n /\ a \in [1..n -> P]
        /\ \A k \in 1..n : kept[k] = tabs[a[k]]
    BY <1>1, AtPlacesIs
  <1> HIDE DEF a, n, kept
  <1>4. DOMAIN kept = 1..n
    BY <1>3
  <1>5. ASSUME NEW i \in 1..n
        PROVE  /\ clean[i] \in TabRecords /\ Safe(clean[i])
               /\ \E j \in DOMAIN tabs : clean[i].from = tabs[j].from
    <2>1. a[i] \in P /\ kept[i] = tabs[a[i]] /\ kept[i] \in TabRecords /\ clean[i] = SanitizeTab(kept[i])
      BY <1>3, <1>4
    <2>2. a[i] \in DOMAIN tabs /\ ~SanitizeUrl(kept[i].url).excluded /\ ~kept[i].sanitized
      BY <1>1, <2>1
    <2> HIDE DEF clean
    <2>3. clean[i] \in TabRecords /\ clean[i].from = kept[i].from /\ Safe(clean[i])
      BY <2>1, <2>2, SanitizeTabIs
    <2> QED
      BY <2>1, <2>2, <2>3
  <1>6. DOMAIN clean = 1..n
    BY <1>4
  <1> HIDE DEF clean
  <1>7. ASSUME NEW i \in 1..n
        PROVE  /\ new[i] \in TabRecords /\ new[i].index = i - 1 /\ Safe(new[i])
               /\ \E j \in DOMAIN tabs : new[i].from = tabs[j].from
    <2> DEFINE c == clean[i]
               d == [c EXCEPT !.index = i - 1]
    <2>1. new[i] = d /\ i - 1 \in Nat
      BY <1>6
    <2>2. c \in TabRecords
      BY <1>5
    <2> HIDE DEF c
    <2>3. /\ d \in TabRecords /\ d.index = i - 1 /\ d.from = c.from
          /\ d.url = c.url /\ d.sanitized = c.sanitized /\ d.title = c.title
      BY <2>1, <2>2 DEF TabRecords
    <2> HIDE DEF d, new
    <2>4. Safe(c) => Safe(d)
      BY <2>3 DEF Safe
    <2> QED
      BY <1>5, <2>1, <2>3, <2>4 DEF c
  <1>8. DOMAIN new = 1..n
    BY <1>6
  <1>9. new = [i \in 1..n |-> new[i]]
    BY <1>6
  <1> HIDE DEF new
  <1>10. new \in Seq(TabRecords)
    <2>1. \A i \in 1..n : new[i] \in TabRecords
      BY <1>7
    <2>2. new \in [1..n -> TabRecords]
      BY <1>9, <2>1
    <2> QED
      BY <1>3, <2>2
  <1>11. InARow(new)
    <2> SUFFICES ASSUME NEW i \in 1..n, NEW j \in 1..n, i < j PROVE new[i].index < new[j].index
      BY <1>8 DEF InARow
    <2>1. new[i].index = i - 1 /\ new[j].index = j - 1
      BY <1>7
    <2> QED
      BY <2>1
  <1> QED
    BY <1>2, <1>7, <1>8, <1>10, <1>11

\* Tabs at some of the places are tabs of those that were there, in a row when they were.
LEMMA SomeOf ==
    ASSUME NEW X, NEW tabs \in Seq(X), NEW P \in SUBSET (DOMAIN tabs)
    PROVE  /\ AtPlaces(tabs, P) \in Seq(X)
           /\ \A i \in DOMAIN AtPlaces(tabs, P) : \E j \in P : AtPlaces(tabs, P)[i] = tabs[j]
           /\ \A j \in P : \E i \in DOMAIN AtPlaces(tabs, P) : AtPlaces(tabs, P)[i] = tabs[j]
           /\ InARow(tabs) => InARow(AtPlaces(tabs, P))
  <1> DEFINE a == Ascending(P)
             n == Cardinality(P)
             kept == AtPlaces(tabs, P)
  <1>1. P \in SUBSET (1..Len(tabs))
    OBVIOUS
  <1>2. /\ n \in Nat /\ kept \in Seq(X) /\ Len(kept) = n /\ a \in [1..n -> P]
        /\ \A k \in 1..n : kept[k] = tabs[a[k]]
        /\ \A k, l \in 1..n : k < l => a[k] < a[l]
        /\ \A i \in P : \E k \in 1..n : a[k] = i
    BY <1>1, AtPlacesIs, SMTT(30)
  <1> HIDE DEF a, n, kept
  <1>3. DOMAIN kept = 1..n
    BY <1>2
  <1>4. \A i \in DOMAIN kept : \E j \in P : kept[i] = tabs[j]
    <2> TAKE i \in DOMAIN kept
    <2>1. a[i] \in P /\ kept[i] = tabs[a[i]]
      BY <1>2, <1>3
    <2> QED
      BY <2>1
  <1>5. \A j \in P : \E i \in DOMAIN kept : kept[i] = tabs[j]
    BY <1>2, <1>3
  <1>6. InARow(tabs) => InARow(kept)
    <2> SUFFICES ASSUME InARow(tabs), NEW i \in 1..n, NEW j \in 1..n, i < j PROVE kept[i].index < kept[j].index
      BY <1>3 DEF InARow
    <2>1. a[i] \in DOMAIN tabs /\ a[j] \in DOMAIN tabs /\ a[i] < a[j] /\ kept[i] = tabs[a[i]] /\ kept[j] = tabs[a[j]]
      BY <1>2
    <2> QED
      BY <2>1 DEF InARow
  <1> QED
    BY <1>2, <1>4, <1>5, <1>6 DEF kept

StoredWindows == [id: Nat, browser: {"none", "chromium", "firefox"}, frame: Frame, focused: BOOLEAN,
                  app: Seq(Word), minimized: BOOLEAN, tabs: Seq(TabRecords)]

\* The same window, whatever its tabs.
Same(v, w) == /\ v.id = w.id /\ v.browser = w.browser /\ v.frame = w.frame /\ v.focused = w.focused
              /\ v.app = w.app /\ v.minimized = w.minimized

\* No pattern of the request matches the URL, as the program matches.
Listed(tab, o) == \E pattern \in o.urls : GlobMatch(pattern, Text(tab.url))

LEMMA WindowWith ==
    ASSUME NEW window \in StoredWindows, NEW tabs \in Seq(TabRecords)
    PROVE  LET v == [window EXCEPT !.tabs = tabs]
           IN  v \in StoredWindows /\ v.tabs = tabs /\ Same(v, window)
  BY DEF StoredWindows, Same

\* What is stored of the windows: themselves, with some of their tabs.
LEMMA SanitizeIs ==
    ASSUME NEW wins \in Seq(StoredWindows), NEW o,
           \A w \in DOMAIN wins : InARow(wins[w].tabs) /\ \A i \in DOMAIN wins[w].tabs : ~wins[w].tabs[i].sanitized
    PROVE  LET s == Sanitize(wins, o)
           IN  /\ s \in Seq(StoredWindows) /\ DOMAIN s = DOMAIN wins
               /\ \A w \in DOMAIN wins :
                    /\ Same(s[w], wins[w]) /\ InARow(s[w].tabs)
                    /\ \A i \in DOMAIN s[w].tabs :
                        /\ \E j \in DOMAIN wins[w].tabs : s[w].tabs[i].from = wins[w].tabs[j].from
                        /\ o.sanitize => Safe(s[w].tabs[i]) /\ ~Listed(s[w].tabs[i], o)
  <1> DEFINE s == Sanitize(wins, o)
             clean == [w \in DOMAIN wins |-> [wins[w] EXCEPT !.tabs = SanitizeTabs(wins[w].tabs)]]
             left == [w \in DOMAIN clean |-> [clean[w] EXCEPT !.tabs = Unlisted(clean[w].tabs, o)]]
             Good(v, w) ==
                /\ v \in StoredWindows /\ Same(v, wins[w]) /\ InARow(v.tabs)
                /\ \A i \in DOMAIN v.tabs :
                        /\ \E j \in DOMAIN wins[w].tabs : v.tabs[i].from = wins[w].tabs[j].from
                        /\ o.sanitize => Safe(v.tabs[i]) /\ ~Listed(v.tabs[i], o)
  <1>0. \A w \in DOMAIN wins : wins[w] \in StoredWindows
    OBVIOUS
  <1>1. CASE ~o.sanitize
    <2>1. s = wins
      BY <1>1 DEF Sanitize
    <2>2. \A w \in DOMAIN wins : Same(wins[w], wins[w])
      BY DEF Same
    <2> QED
      BY <1>1, <2>1, <2>2
  <1>2. CASE o.sanitize
    <2>1. ASSUME NEW w \in DOMAIN wins
          PROVE  /\ clean[w] \in StoredWindows /\ Same(clean[w], wins[w])
                 /\ clean[w].tabs = SanitizeTabs(wins[w].tabs)
                 /\ clean[w].tabs \in Seq(TabRecords) /\ InARow(clean[w].tabs)
                 /\ \A i \in DOMAIN clean[w].tabs :
                        /\ Safe(clean[w].tabs[i])
                        /\ \E j \in DOMAIN wins[w].tabs : clean[w].tabs[i].from = wins[w].tabs[j].from
      <3> DEFINE tabs == wins[w].tabs
                 T == SanitizeTabs(tabs)
      <3>1. tabs \in Seq(TabRecords) /\ \A i \in DOMAIN tabs : ~tabs[i].sanitized
        BY <1>0 DEF StoredWindows
      <3>2. clean[w] = [wins[w] EXCEPT !.tabs = T]
        OBVIOUS
      <3> HIDE DEF tabs, clean
      <3>3. /\ T \in Seq(TabRecords) /\ InARow(T)
            /\ \A i \in DOMAIN T : Safe(T[i]) /\ \E j \in DOMAIN tabs : T[i].from = tabs[j].from
        BY <3>1, SanitizeTabsIs
      <3> HIDE DEF T
      <3>4. clean[w] \in StoredWindows /\ clean[w].tabs = T /\ Same(clean[w], wins[w])
        BY <1>0, <3>2, <3>3, WindowWith
      <3> QED
        BY <3>3, <3>4 DEF tabs, T
    <2>2. s = left
      <3>1. SanitizeSnapshot(wins) = clean
        BY <1>0 DEF SanitizeSnapshot, StoredWindows
      <3>2. ASSUME NEW w \in DOMAIN clean
            PROVE  [clean[w] EXCEPT !.tabs = Unlisted(@, o)] = [clean[w] EXCEPT !.tabs = Unlisted(clean[w].tabs, o)]
        <4>1. clean[w] \in StoredWindows
          BY <2>1
        <4> HIDE DEF clean
        <4> QED
          BY <4>1 DEF StoredWindows
      <3>3. s = [w \in DOMAIN clean |-> [clean[w] EXCEPT !.tabs = Unlisted(@, o)]]
        BY <1>2, <3>1 DEF Sanitize
      <3> HIDE DEF s, clean
      <3> QED
        BY <3>2, <3>3
    <2>3. DOMAIN clean = DOMAIN wins /\ DOMAIN left = DOMAIN wins
      OBVIOUS
    <2>4. ASSUME NEW w \in DOMAIN wins PROVE Good(left[w], w)
      <3> DEFINE c == clean[w]
                 T == c.tabs
                 P == {i \in DOMAIN T : ~Listed(T[i], o)}
                 U == AtPlaces(T, P)
      <3>1. left[w] = [c EXCEPT !.tabs = U]
        BY <2>3 DEF Unlisted, Listed
      <3>2. /\ c \in StoredWindows /\ Same(c, wins[w]) /\ T \in Seq(TabRecords) /\ InARow(T)
            /\ \A i \in DOMAIN T :
                    /\ Safe(T[i])
                    /\ \E j \in DOMAIN wins[w].tabs : T[i].from = wins[w].tabs[j].from
        BY <2>1
      <3> HIDE DEF c, left, clean
      <3>3. P \in SUBSET (DOMAIN T) /\ \A i \in P : i \in DOMAIN T /\ ~Listed(T[i], o)
        OBVIOUS
      <3> HIDE DEF T, P
      <3>4. /\ U \in Seq(TabRecords) /\ InARow(U)
            /\ \A i \in DOMAIN U : \E j \in P : U[i] = T[j]
        BY <3>2, <3>3, SomeOf
      <3> HIDE DEF U
      <3>5. left[w] \in StoredWindows /\ left[w].tabs = U /\ Same(left[w], c)
        BY <3>1, <3>2, <3>4, WindowWith
      <3>6. Same(left[w], wins[w])
        BY <3>2, <3>5 DEF Same
      <3>7. \A i \in DOMAIN U : /\ Safe(U[i]) /\ ~Listed(U[i], o)
                                /\ \E j \in DOMAIN wins[w].tabs : U[i].from = wins[w].tabs[j].from
        BY <3>2, <3>3, <3>4
      <3> QED
        BY <3>4, <3>5, <3>6, <3>7
    <2>5. s \in Seq(StoredWindows)
      <3>1. left = [w \in 1..Len(wins) |-> left[w]] /\ Len(wins) \in Nat /\ DOMAIN wins = 1..Len(wins)
        BY <2>3, SMTT(30)
      <3>2. \A w \in 1..Len(wins) : left[w] \in StoredWindows
        BY <2>4, <3>1
      <3> HIDE DEF left
      <3>3. left \in [1..Len(wins) -> StoredWindows]
        BY <3>1, <3>2
      <3> QED
        BY <2>2, <3>1, <3>3
    <2> HIDE DEF left, s
    <2> QED
      BY <2>2, <2>3, <2>4, <2>5 DEF s
  <1> QED
    BY <1>1, <1>2

-----------------------------------------------------------------------------
(* The tabs that are given to windows.                                      *)

\* A set of numbers has a least one, and a finite one a greatest.
LEMMA MinIs ==
    ASSUME NEW S \in SUBSET Nat, S # {}
    PROVE  Min(S) \in S /\ \A x \in S : Min(S) <= x
  <1> DEFINE Above == {n \in Nat : \A m \in S : n <= m}
  <1>1. \E x \in S : \A y \in S : x <= y
    <2> SUFFICES ASSUME \A x \in S : \E y \in S : ~(x <= y) PROVE FALSE
      OBVIOUS
    <2>1. 0 \in Above
      OBVIOUS
    <2>2. ASSUME NEW n \in Nat, n \in Above PROVE n + 1 \in Above
      <3>1. \A m \in S : m \in Nat /\ n <= m
        BY <2>2
      <3>2. n \notin S
        BY <3>1
      <3>3. \A m \in S : n + 1 <= m
        BY <3>1, <3>2
      <3> QED
        BY <3>3
    <2>3. Nat \subseteq Above
      <3> HIDE DEF Above
      <3> QED
        BY <2>1, <2>2, SetInduction
    <2>4. PICK x \in S : TRUE
      OBVIOUS
    <2>5. x + 1 \in Nat /\ x \in Nat
      OBVIOUS
    <2>6. x + 1 <= x
      BY <2>3, <2>4, <2>5
    <2> QED
      BY <2>5, <2>6
  <1> QED
    BY <1>1 DEF Min

LEMMA MaxIs ==
    ASSUME NEW S \in SUBSET Nat, IsFiniteSet(S), S # {}
    PROVE  Max(S) \in S /\ \A x \in S : x <= Max(S)
  <1> DEFINE a == Ascending(S)
             n == Cardinality(S)
  <1>1. /\ n \in Nat /\ a \in [1..n -> S]
        /\ \A i, j \in 1..n : i < j => a[i] < a[j]
        /\ \A x \in S : \E i \in 1..n : a[i] = x
    BY AscendingIs
  <1> HIDE DEF a, n
  <1>2. n \in 1..n
    <2>1. PICK x \in S : TRUE
      OBVIOUS
    <2>2. PICK i \in 1..n : a[i] = x
      BY <1>1, <2>1
    <2> QED
      BY <1>1, <2>2
  <1>3. \A x \in S : x <= a[n]
    <2> TAKE x \in S
    <2>1. PICK i \in 1..n : a[i] = x
      BY <1>1
    <2>2. a[i] \in Nat /\ a[n] \in Nat
      BY <1>1, <1>2
    <2>3. i < n \/ i = n
      BY <1>1
    <2> QED
      BY <1>1, <1>2, <2>1, <2>2, <2>3
  <1>4. a[n] \in S /\ \A y \in S : a[n] >= y
    <2>1. a[n] \in Nat /\ \A y \in S : y \in Nat
      BY <1>1, <1>2
    <2> QED
      BY <1>1, <1>2, <1>3, <2>1
  <1>5. \E x \in S : \A y \in S : x >= y
    BY <1>4
  <1>6. Max(S) \in S /\ \A y \in S : Max(S) >= y
    BY <1>5 DEF Max
  <1>7. Max(S) \in Nat /\ \A y \in S : y \in Nat
    BY <1>6
  <1> QED
    BY <1>6, <1>7

\* What a browser says of a window.
FoundWindows == [from: Nat, browser: {"chromium", "firefox"}, frame: Frame \cup {NoFrame},
                 focused: BOOLEAN, incognito: BOOLEAN, tabs: Seq(TabRecords)]

\* Who has been given what: to each window the place of a browser window or 0, no two the same.
GivenBy(giver, state, wins, found) ==
    /\ giver \in [DOMAIN wins -> DOMAIN found \cup {0}]
    /\ state.windows =
        [w \in DOMAIN wins |-> [wins[w] EXCEPT !.tabs = IF giver[w] = 0 THEN <<>> ELSE found[giver[w]].tabs]]
    /\ state.consumed \in SUBSET (DOMAIN found)
    /\ \A w \in DOMAIN wins : giver[w] # 0 =>
            giver[w] \in state.consumed /\ found[giver[w]].browser = wins[w].browser
    /\ \A v, w \in DOMAIN wins : (giver[v] = giver[w] /\ giver[v] # 0) => v = w

\* A browser window that is free is given to one window.
LEMMA GiveIs ==
    ASSUME NEW wins \in Seq(StoredWindows), NEW found \in Seq(FoundWindows), NEW state, NEW giver,
           GivenBy(giver, state, wins, found), NEW w \in DOMAIN wins,
           NEW i \in Free(found, state.consumed, state.windows[w])
    PROVE  /\ GivenBy([giver EXCEPT ![w] = i], Give(state, w, found, i), wins, found)
           /\ Give(state, w, found, i).consumed = state.consumed \cup {i}
  <1> DEFINE next == Give(state, w, found, i)
             g == [giver EXCEPT ![w] = i]
             tabs(h, v) == IF h[v] = 0 THEN <<>> ELSE found[h[v]].tabs
             With(h) == [v \in DOMAIN wins |-> [wins[v] EXCEPT !.tabs = tabs(h, v)]]
  <1>1. /\ giver \in [DOMAIN wins -> DOMAIN found \cup {0}] /\ state.windows = With(giver)
        /\ state.consumed \in SUBSET (DOMAIN found)
        /\ \A v \in DOMAIN wins : giver[v] # 0 =>
                giver[v] \in state.consumed /\ found[giver[v]].browser = wins[v].browser
        /\ \A u, v \in DOMAIN wins : (giver[u] = giver[v] /\ giver[u] # 0) => u = v
    BY DEF GivenBy
  <1>2. DOMAIN found = 1..Len(found) /\ Len(found) \in Nat
    OBVIOUS
  <1>3. \A v \in DOMAIN wins : wins[v] \in StoredWindows
    OBVIOUS
  <1>4. state.windows[w].browser = wins[w].browser
    <2>1. state.windows[w] = [wins[w] EXCEPT !.tabs = tabs(giver, w)]
      BY <1>1
    <2> HIDE DEF tabs
    <2> QED
      BY <1>3, <2>1 DEF StoredWindows
  <1>5. i \in DOMAIN found /\ i \notin state.consumed /\ found[i].browser = wins[w].browser /\ i # 0
    BY <1>2, <1>4 DEF Free
  <1>6. g \in [DOMAIN wins -> DOMAIN found \cup {0}] /\ g[w] = i /\ \A v \in DOMAIN wins : v # w => g[v] = giver[v]
    BY <1>1, <1>5
  <1> HIDE DEF g
  <1>7. next.consumed = state.consumed \cup {i} /\ next.windows = [state.windows EXCEPT ![w].tabs = found[i].tabs]
    BY DEF Give
  <1>8. next.windows = With(g)
    <2> DEFINE s == state.windows
               x == [s EXCEPT ![w].tabs = found[i].tabs]
    <2>1. tabs(g, w) = found[i].tabs /\ \A v \in DOMAIN wins : v # w => tabs(g, v) = tabs(giver, v)
      BY <1>5, <1>6
    <2>2. s = With(giver)
      BY <1>1
    <2> HIDE DEF s, tabs
    <2>3. DOMAIN s = DOMAIN wins /\ \A v \in DOMAIN wins : s[v] = [wins[v] EXCEPT !.tabs = tabs(giver, v)]
      BY <2>2
    <2>4. [s[w] EXCEPT !.tabs = found[i].tabs] = [wins[w] EXCEPT !.tabs = found[i].tabs]
      BY <1>3, <2>3
    <2>5. x = [v \in DOMAIN s |-> IF v = w THEN [s[w] EXCEPT !.tabs = found[i].tabs] ELSE s[v]]
      OBVIOUS
    <2>6. \A v \in DOMAIN wins : (IF v = w THEN [s[w] EXCEPT !.tabs = found[i].tabs] ELSE s[v])
                                 = [wins[v] EXCEPT !.tabs = tabs(g, v)]
      BY <2>1, <2>3, <2>4
    <2>7. x = With(g)
      <3> HIDE DEF x
      <3> QED
        BY <2>3, <2>5, <2>6
    <2> QED
      BY <1>7, <2>7 DEF s
  <1> HIDE DEF next, With
  <1>9. next.consumed \in SUBSET (DOMAIN found)
    BY <1>1, <1>5, <1>7
  <1>10. \A v \in DOMAIN wins : g[v] # 0 => g[v] \in next.consumed /\ found[g[v]].browser = wins[v].browser
    BY <1>1, <1>5, <1>6, <1>7
  <1>11. \A u, v \in DOMAIN wins : (g[u] = g[v] /\ g[u] # 0) => u = v
    BY <1>1, <1>5, <1>6
  <1>12. GivenBy(g, next, wins, found)
    BY <1>6, <1>8, <1>9, <1>10, <1>11 DEF GivenBy, With
  <1> QED
    BY <1>7, <1>12 DEF g, next

\* A window takes its turn in one of the passes: it is given a free one or nothing is done.
LEMMA TurnIs ==
    ASSUME NEW wins \in Seq(StoredWindows), NEW found \in Seq(FoundWindows), NEW state,
           \E giver : GivenBy(giver, state, wins, found), NEW w \in DOMAIN wins
    PROVE  /\ \E giver : GivenBy(giver, ByGeometry(found, state, w), wins, found)
           /\ \E giver : GivenBy(giver, ByOrder(found, state, w), wins, found)
  <1>1. PICK g : GivenBy(g, state, wins, found)
    OBVIOUS
  <1>2. Free(found, state.consumed, state.windows[w]) \in SUBSET Nat
    <2>1. DOMAIN found \subseteq Nat
      OBVIOUS
    <2> QED
      BY <2>1 DEF Free
  <1>3. \E giver : GivenBy(giver, ByGeometry(found, state, w), wins, found)
    <2> DEFINE window == state.windows[w]
               rivals == {i \in Free(found, state.consumed, window) : Score(window, found[i]) > Threshold}
               best == {i \in rivals : \A j \in rivals : Score(window, found[i]) >= Score(window, found[j])}
    <2>1. best \subseteq Free(found, state.consumed, state.windows[w])
      OBVIOUS
    <2>2. ByGeometry(found, state, w) = IF best = {} THEN state ELSE Give(state, w, found, Min(best))
      BY DEF ByGeometry
    <2> HIDE DEF best
    <2>3. CASE best = {}
      BY <1>1, <2>2, <2>3
    <2>4. CASE best # {}
      <3>1. Min(best) \in Free(found, state.consumed, state.windows[w])
        BY <1>2, <2>1, <2>4, MinIs
      <3> DEFINE m == Min(best)
      <3> HIDE DEF m
      <3>2. GivenBy([g EXCEPT ![w] = m], Give(state, w, found, m), wins, found)
        BY <1>1, <3>1, GiveIs DEF m
      <3> QED
        BY <2>2, <2>4, <3>2 DEF m
    <2> QED
      BY <2>3, <2>4
  <1>4. \E giver : GivenBy(giver, ByOrder(found, state, w), wins, found)
    <2> DEFINE free == Free(found, state.consumed, state.windows[w])
    <2>1. ByOrder(found, state, w) = IF state.windows[w].tabs # <<>> \/ free = {} THEN state
                                     ELSE Give(state, w, found, Min(free))
      BY DEF ByOrder
    <2>2. CASE state.windows[w].tabs # <<>> \/ free = {}
      BY <1>1, <2>1, <2>2
    <2>3. CASE ~(state.windows[w].tabs # <<>> \/ free = {})
      <3> DEFINE m == Min(free)
      <3>1. m \in Free(found, state.consumed, state.windows[w])
        BY <1>2, <2>3, MinIs
      <3>2. ByOrder(found, state, w) = Give(state, w, found, m)
        BY <2>1, <2>3
      <3> HIDE DEF m
      <3>3. GivenBy([g EXCEPT ![w] = m], Give(state, w, found, m), wins, found)
        BY <1>1, <3>1, GiveIs
      <3> QED
        BY <3>2, <3>3
    <2> QED
      BY <2>2, <2>3
  <1> QED
    BY <1>3, <1>4

\* Nothing is given away at first.
LEMMA NobodyYet ==
    ASSUME NEW wins \in Seq(StoredWindows), NEW found \in Seq(FoundWindows),
           \A w \in DOMAIN wins : wins[w].tabs = <<>>
    PROVE  GivenBy([w \in DOMAIN wins |-> 0], [windows |-> wins, consumed |-> {}], wins, found)
  <1> DEFINE g == [w \in DOMAIN wins |-> 0]
             Bare(w) == [wins[w] EXCEPT !.tabs = IF g[w] = 0 THEN <<>> ELSE found[g[w]].tabs]
  <1>1. ASSUME NEW w \in DOMAIN wins PROVE Bare(w) = wins[w]
    <2>1. g[w] = 0 /\ wins[w] \in StoredWindows /\ wins[w].tabs = <<>>
      OBVIOUS
    <2>2. Bare(w) = [wins[w] EXCEPT !.tabs = <<>>]
      BY <2>1
    <2> HIDE DEF Bare
    <2> QED
      BY <2>1, <2>2 DEF StoredWindows
  <1>2. wins = [w \in DOMAIN wins |-> wins[w]]
    OBVIOUS
  <1>3. wins = [w \in DOMAIN wins |-> Bare(w)]
    <2> HIDE DEF Bare
    <2> QED
      BY <1>1, <1>2
  <1>4. g \in [DOMAIN wins -> DOMAIN found \cup {0}] /\ \A w \in DOMAIN wins : g[w] = 0
    OBVIOUS
  <1> HIDE DEF g
  <1> QED
    BY <1>3, <1>4 DEF GivenBy, g

LEMMA AttachIs ==
    ASSUME NEW wins \in Seq(StoredWindows), NEW found \in Seq(FoundWindows),
           \A w \in DOMAIN wins : wins[w].tabs = <<>>
    PROVE  \E giver : GivenBy(giver, SecondPass(found, wins)[Len(wins)], wins, found)
  <1> DEFINE n == Len(wins)
             f == FirstPass(found, wins)
             s == SecondPass(found, wins)
             First == {k \in Nat : k <= n => \E giver : GivenBy(giver, f[k], wins, found)}
             Second == {k \in Nat : k <= n => \E giver : GivenBy(giver, s[k], wins, found)}
  <1>1. n \in Nat /\ DOMAIN wins = 1..n
    OBVIOUS
  <1>2. /\ f[0] = [windows |-> wins, consumed |-> {}]
        /\ \A k \in 1..n : f[k] = ByGeometry(found, f[k - 1], k)
    BY <1>1, FirstPassIs
  <1>3. /\ s[0] = f[n]
        /\ \A k \in 1..n : s[k] = ByOrder(found, s[k - 1], k)
    BY <1>1, SecondPassIs
  <1> HIDE DEF n, f, s
  <1>4. Nat \subseteq First
    <2>1. 0 \in First
      BY <1>2, NobodyYet
    <2>2. ASSUME NEW k \in Nat, k \in First PROVE k + 1 \in First
      <3>1. CASE k + 1 <= n
        <4>1. k + 1 \in 1..n /\ (k + 1) - 1 = k /\ k <= n
          BY <1>1, <3>1
        <4>2. f[k + 1] = ByGeometry(found, f[k], k + 1) /\ k + 1 \in DOMAIN wins
          BY <1>1, <1>2, <4>1
        <4>3. \E giver : GivenBy(giver, f[k], wins, found)
          BY <2>2, <4>1
        <4>4. \E giver : GivenBy(giver, ByGeometry(found, f[k], k + 1), wins, found)
          BY <4>2, <4>3, TurnIs
        <4> QED
          BY <4>2, <4>4
      <3>2. CASE ~(k + 1 <= n)
        BY <3>2
      <3> QED
        BY <3>1, <3>2
    <2> HIDE DEF First
    <2> QED
      BY <2>1, <2>2, SetInduction
  <1>5. Nat \subseteq Second
    <2>1. 0 \in Second
      <3>1. n \in First /\ n <= n
        BY <1>1, <1>4
      <3> QED
        BY <1>3, <3>1
    <2>2. ASSUME NEW k \in Nat, k \in Second PROVE k + 1 \in Second
      <3>1. CASE k + 1 <= n
        <4>1. k + 1 \in 1..n /\ (k + 1) - 1 = k /\ k <= n
          BY <1>1, <3>1
        <4>2. s[k + 1] = ByOrder(found, s[k], k + 1) /\ k + 1 \in DOMAIN wins
          BY <1>1, <1>3, <4>1
        <4>3. \E giver : GivenBy(giver, s[k], wins, found)
          BY <2>2, <4>1
        <4>4. \E giver : GivenBy(giver, ByOrder(found, s[k], k + 1), wins, found)
          BY <4>2, <4>3, TurnIs
        <4> QED
          BY <4>2, <4>4
      <3>2. CASE ~(k + 1 <= n)
        BY <3>2
      <3> QED
        BY <3>1, <3>2
    <2> HIDE DEF Second
    <2> QED
      BY <2>1, <2>2, SetInduction
  <1>6. n \in Second /\ n <= n
    BY <1>1, <1>5
  <1> QED
    BY <1>6 DEF n, s

-----------------------------------------------------------------------------
(* What the browser is read to have.                                        *)

Browsing == UNION {[D -> BrowserTabs] : D \in SUBSET Tab}

\* What every way of asking gives: windows of one browser, each listed once, the tabs of each
\* in a row and its own, and a private one known to be private.
WellFound(found, program) ==
    /\ found \in Seq(FoundWindows)
    /\ \A i \in DOMAIN found :
        /\ found[i].browser = program /\ InARow(found[i].tabs)
        /\ found[i].from \in Private => found[i].incognito
        /\ \A j \in DOMAIN found[i].tabs : found[i].tabs[j].from = found[i].from /\ ~found[i].tabs[j].sanitized
    /\ \A i, j \in DOMAIN found : found[i].from = found[j].from => i = j

\* A list of one window for each of a set of numbers, from the window it comes from, is well found
\* when each window is.
OneFound(window, program) ==
    /\ window \in FoundWindows /\ window.browser = program /\ InARow(window.tabs)
    /\ window.from \in Private => window.incognito
    /\ \A j \in DOMAIN window.tabs : window.tabs[j].from = window.from /\ ~window.tabs[j].sanitized

LEMMA EachFound ==
    ASSUME NEW S \in SUBSET Nat, IsFiniteSet(S), NEW program, NEW found,
           DOMAIN found = DOMAIN Ascending(S), found = [i \in DOMAIN found |-> found[i]],
           \A i \in DOMAIN found : found[i].from = Ascending(S)[i] /\ OneFound(found[i], program)
    PROVE  WellFound(found, program)
  <1> DEFINE a == Ascending(S)
             n == Cardinality(S)
  <1>1. /\ n \in Nat /\ a \in [1..n -> S]
        /\ \A i, j \in 1..n : i < j => a[i] < a[j]
    BY AscendingIs
  <1>2. DOMAIN found = DOMAIN a /\ \A i \in DOMAIN found : found[i].from = a[i]
    OBVIOUS
  <1> HIDE DEF a, n
  <1>3. found \in Seq(FoundWindows)
    <2>1. \A i \in 1..n : found[i] \in FoundWindows
      BY <1>1, <1>2 DEF OneFound
    <2>2. found \in [1..n -> FoundWindows]
      BY <1>1, <1>2, <2>1
    <2> QED
      BY <1>1, <2>2
  <1>4. ASSUME NEW i \in DOMAIN found, NEW j \in DOMAIN found, found[i].from = found[j].from PROVE i = j
    <2>1. i \in 1..n /\ j \in 1..n /\ a[i] = a[j] /\ a[i] \in Nat
      BY <1>1, <1>2, <1>4
    <2> QED
      BY <1>1, <2>1
  <1> QED
    BY <1>3, <1>4 DEF WellFound, OneFound

\* Tabs numbered by their places are in a row.
LEMMA InPlaces ==
    ASSUME NEW n \in Nat, NEW tabs, tabs \in [1..n -> TabRecords], \A i \in 1..n : tabs[i].index = i - 1
    PROVE  tabs \in Seq(TabRecords) /\ DOMAIN tabs = 1..n /\ InARow(tabs)
  <1>1. tabs \in Seq(TabRecords) /\ DOMAIN tabs = 1..n
    OBVIOUS
  <1>2. InARow(tabs)
    <2> SUFFICES ASSUME NEW i \in 1..n, NEW j \in 1..n, i < j PROVE tabs[i].index < tabs[j].index
      BY <1>1 DEF InARow
    <2>1. tabs[i].index = i - 1 /\ tabs[j].index = j - 1
      OBVIOUS
    <2> QED
      BY <2>1
  <1> QED
    BY <1>1, <1>2

\* The tabs of a window of the browser, by their numbers.
Own(l, w) == {t \in DOMAIN l : l[t].win = w}

LEMMA TabsInIs ==
    ASSUME CaptureAssumption, NEW l \in Browsing, NEW w
    PROVE  /\ Own(l, w) \in SUBSET Nat /\ IsFiniteSet(Own(l, w)) /\ Cardinality(Own(l, w)) \in Nat
           /\ \A t \in Own(l, w) : t \in DOMAIN l /\ l[t].win = w
           /\ TabsIn(l, w) \in [1..Cardinality(Own(l, w)) -> Own(l, w)]
           /\ \A i, j \in 1..Cardinality(Own(l, w)) : i < j => TabsIn(l, w)[i] < TabsIn(l, w)[j]
           /\ \A t \in Own(l, w) : \E i \in 1..Cardinality(Own(l, w)) : TabsIn(l, w)[i] = t
  <1>1. DOMAIN l \subseteq Tab
    BY DEF Browsing
  <1>2. Own(l, w) \in SUBSET Tab /\ IsFiniteSet(Tab) /\ Tab \subseteq Nat
    BY <1>1 DEF CaptureAssumption, Own
  <1>3. IsFiniteSet(Own(l, w)) /\ Own(l, w) \in SUBSET Nat
    BY <1>2, FS_Subset
  <1>4. TabsIn(l, w) = Ascending(Own(l, w))
    BY DEF TabsIn, Own
  <1>5. \A t \in Own(l, w) : t \in DOMAIN l /\ l[t].win = w
    BY DEF Own
  <1> DEFINE own == Own(l, w)
             a == TabsIn(l, w)
             n == Cardinality(own)
  <1>6. a = Ascending(own) /\ own \in SUBSET Nat /\ IsFiniteSet(own)
    BY <1>3, <1>4
  <1> HIDE DEF own, a
  <1>7. /\ n \in Nat /\ a \in [1..n -> own]
        /\ \A i, j \in 1..n : i < j => a[i] < a[j]
        /\ \A t \in own : \E i \in 1..n : a[i] = t
    BY <1>6, AscendingIs
  <1> HIDE DEF n
  <1> QED
    BY <1>3, <1>5, <1>7 DEF own, a, n

LEMMA SomeWindows ==
    ASSUME CaptureAssumption, NEW S \in SUBSET Window
    PROVE  S \in SUBSET Nat /\ IsFiniteSet(S)
  BY FS_Subset DEF CaptureAssumption

LEMMA ATab ==
    ASSUME CaptureAssumption, NEW l \in Browsing, NEW t \in DOMAIN l
    PROVE  /\ t \in Tab /\ t \in Nat /\ l[t] \in BrowserTabs
           /\ l[t].win \in Window /\ l[t].win \in Nat /\ l[t].pages \in Seq(AnyPage) /\ l[t].at \in DOMAIN l[t].pages
           /\ l[t].at \in 1..Len(l[t].pages) /\ Shown(l[t]) \in AnyPage
  <1>1. t \in Tab /\ l[t] \in BrowserTabs
    BY DEF Browsing
  <1>2. l[t].win \in Window /\ l[t].pages \in Seq(AnyPage) /\ l[t].at \in DOMAIN l[t].pages
    BY <1>1 DEF BrowserTabs
  <1>3. t \in Nat /\ l[t].win \in Nat
    BY <1>1, <1>2 DEF CaptureAssumption
  <1> HIDE DEF BrowserTabs
  <1>4. l[t].at \in 1..Len(l[t].pages) /\ l[t].pages[l[t].at] \in AnyPage
    BY <1>2
  <1> QED
    BY <1>1, <1>2, <1>3, <1>4 DEF Shown

\* What the extension answers.
LEMMA ExtensionIs ==
    ASSUME CaptureAssumption, live \in Browsing, frame \in [Window -> Frame], kind \in Browsers, NEW shows
    PROVE  WellFound(ExtensionWindows(shows), kind)
  <1> DEFINE S == {w \in Window : TabsIn(live, w) # <<>> /\ (shows \/ w \notin Private)}
             sent == Ascending(S)
             Tabs(w) == [i \in DOMAIN TabsIn(live, w) |->
                           BrowserTab(TabsIn(live, w)[i], i - 1, Shown(live[TabsIn(live, w)[i]]), i = 1,
                                      w \in Private, TabsIn(live, w)[i], w)]
             Read(w) == BrowserWindow(w, kind, frame[w], w = focus, w \in Private, Tabs(w))
             found == [i \in DOMAIN sent |-> Read(sent[i])]
  <1>1. S \in SUBSET Window
    OBVIOUS
  <1>2. ExtensionWindows(shows) = found
    BY DEF ExtensionWindows
  <1>3. ASSUME NEW w \in Window PROVE OneFound(Read(w), kind) /\ Read(w).from = w
    <2> DEFINE own == Own(live, w)
               n == Cardinality(own)
               a == TabsIn(live, w)
               tabs == Tabs(w)
               private == w \in Private
               focused == w = focus
    <2>0. /\ n \in Nat /\ a \in [1..n -> own] /\ \A t \in own : t \in DOMAIN live /\ live[t].win = w
      BY TabsInIs
    <2>1. DOMAIN a = 1..n
      BY <2>0
    <2> HIDE DEF own, n, a
    <2>2. ASSUME NEW i \in 1..n
          PROVE  tabs[i] \in TabRecords /\ tabs[i].index = i - 1 /\ tabs[i].from = w /\ ~tabs[i].sanitized
      <3> DEFINE t == a[i]
                 first == i = 1
                 page == Shown(live[t])
      <3>1. t \in Nat /\ i - 1 \in Nat /\ page \in AnyPage
        BY <2>0, ATab
      <3>2. first \in BOOLEAN /\ private \in BOOLEAN
        OBVIOUS
      <3>3. w \in Nat
        BY DEF CaptureAssumption
      <3>4. tabs[i] = BrowserTab(t, i - 1, page, first, private, t, w)
        BY <2>1 DEF a
      <3> HIDE DEF t, first, page, private, tabs
      <3> DEFINE tab == BrowserTab(t, i - 1, page, first, private, t, w)
      <3>5. tab \in TabRecords /\ tab.index = i - 1 /\ tab.from = w /\ ~tab.sanitized
        <4>1. page.url \in Seen /\ page.title \in Texts
          BY <3>1, ParsedSeen DEF AnyPage, Texts
        <4>2. /\ tab.id = t /\ tab.index = i - 1 /\ tab.url = page.url /\ tab.title = page.title
              /\ tab.from = w /\ tab.sanitized = FALSE
          BY DEF BrowserTab
        <4>3. tab \in TabRecords
          BY <3>1, <3>2, <3>3, <4>1 DEF BrowserTab, TabRecords
        <4> HIDE DEF tab
        <4> QED
          BY <4>2, <4>3
      <3> QED
        BY <3>4, <3>5
    <2>3. DOMAIN tabs = 1..n
      BY <2>1 DEF a
    <2>4. tabs = [i \in 1..n |-> tabs[i]]
      BY <2>3
    <2>5. Read(w) = BrowserWindow(w, kind, frame[w], focused, private, tabs)
      OBVIOUS
    <2>6. /\ w \in Nat /\ kind \in {"chromium", "firefox"} /\ frame[w] \in Frame \cup {NoFrame}
      BY DEF CaptureAssumption
    <2>7. focused \in BOOLEAN /\ private \in BOOLEAN /\ (w \in Private => private)
      OBVIOUS
    <2> DEFINE window == BrowserWindow(w, kind, frame[w], focused, private, tabs)
    <2> HIDE DEF tabs, focused
    <2>8. tabs \in [1..n -> TabRecords]
      BY <2>2, <2>4
    <2>9. tabs \in Seq(TabRecords) /\ DOMAIN tabs = 1..n /\ InARow(tabs)
      BY <2>0, <2>2, <2>8, InPlaces
    <2>10. /\ window.from = w /\ window.browser = kind /\ window.tabs = tabs
           /\ (w \in Private => window.incognito)
      BY DEF BrowserWindow
    <2>11. window \in FoundWindows
      <3> HIDE DEF private
      <3> QED
        BY <2>6, <2>7, <2>9 DEF BrowserWindow, FoundWindows
    <2>12. Read(w) = window
      BY <2>5
    <2> HIDE DEF window, Read
    <2> QED
      BY <2>2, <2>9, <2>10, <2>11, <2>12 DEF OneFound
  <1>4. S \in SUBSET Nat /\ IsFiniteSet(S)
    BY <1>1, SomeWindows
  <1>5. sent \in [1..Cardinality(S) -> S]
    BY <1>4, AscendingIs
  <1> HIDE DEF S, Read
  <1>6. \A i \in DOMAIN found : found[i] = Read(sent[i]) /\ sent[i] \in Window
    BY <1>1, <1>5
  <1>7. DOMAIN found = DOMAIN sent /\ found = [i \in DOMAIN found |-> found[i]]
    OBVIOUS
  <1> HIDE DEF found
  <1>8. \A i \in DOMAIN found : found[i].from = sent[i] /\ OneFound(found[i], kind)
    BY <1>3, <1>6
  <1> QED
    BY <1>2, <1>4, <1>7, <1>8, EachFound, SMTT(30)

\* What is learnt of the tabs of a session file: only of windows that are not private.
Entries == UNION {[D -> AnyPage] : D \in {D \in SUBSET Nat : IsFiniteSet(D)}}

TabStates == [win: {0} \cup (Window \ Private), selected: Nat, entries: Entries]

Known == [tabs: UNION {[D -> TabStates] : D \in SUBSET Tab}, active: Nat]

LogCommands ==
    {c \in [id: {"SetTabWindow", "UpdateTabNavigation", "SetSelectedNavigationIndex", "TabClosed",
                 "SetActiveWindow"},
            win: Nat, tab: Nat, index: Nat, page: AnyPage \cup {None}] :
        /\ c.id # "SetActiveWindow" => c.tab \in Tab
        /\ c.id = "SetTabWindow" => c.win \in Window \ Private
        /\ c.id = "UpdateTabNavigation" => c.page \in AnyPage}

LEMMA UpdateIs ==
    ASSUME NEW X, NEW D, NEW f \in [D -> X], NEW x, NEW v \in X
    PROVE  /\ Update(f, x, v) \in [D \cup {x} -> X] /\ Update(f, x, v)[x] = v
           /\ \A y \in D : y # x => Update(f, x, v)[y] = f[y]
  BY DEF Update

LEMMA LearnIs ==
    ASSUME NEW known \in Known, NEW c \in LogCommands
    PROVE  Learn(known, c) \in Known
  <1> DEFINE t == Heard(known.tabs, c.tab)
             To(state) == [known EXCEPT !.tabs = Update(known.tabs, c.tab, state)]
  <1>1. PICK D \in SUBSET Tab : known.tabs \in [D -> TabStates]
    BY DEF Known
  <1>2. t \in TabStates
    <2>1. <<>> \in Entries
      <3>1. {} \in SUBSET Nat /\ IsFiniteSet({})
        BY FS_EmptySet
      <3>2. <<>> \in [{} -> AnyPage]
        OBVIOUS
      <3> QED
        BY <3>1, <3>2 DEF Entries
    <2>2. Unheard \in TabStates
      BY <2>1 DEF Unheard, TabStates
    <2> QED
      BY <1>1, <2>2 DEF Heard
  <1>3. ASSUME NEW state \in TabStates, c.tab \in Tab PROVE To(state) \in Known
    <2> DEFINE u == Update(known.tabs, c.tab, state)
    <2>1. u \in [D \cup {c.tab} -> TabStates]
      BY <1>1, UpdateIs
    <2>2. D \cup {c.tab} \in SUBSET Tab
      BY <1>3
    <2> HIDE DEF u
    <2>3. u \in UNION {[E -> TabStates] : E \in SUBSET Tab}
      BY <2>1, <2>2
    <2> QED
      BY <2>3 DEF Known, u
  <1>4. c.win \in Nat /\ c.index \in Nat
    BY DEF LogCommands
  <1> HIDE DEF t
  <1>5. \A state : [known EXCEPT !.tabs = Update(@, c.tab, state)] = To(state)
    BY DEF Known
  <1>6. CASE c.id = "UpdateTabNavigation" /\ Savable(c.page)
    <2> DEFINE e == Update(t.entries, c.index, c.page)
               s == [t EXCEPT !.entries = e]
    <2>1. PICK E : E \in SUBSET Nat /\ IsFiniteSet(E) /\ t.entries \in [E -> AnyPage]
      BY <1>2 DEF TabStates, Entries
    <2>2. c.page \in AnyPage /\ c.tab \in Tab
      BY <1>6 DEF LogCommands
    <2>3. e \in [E \cup {c.index} -> AnyPage]
      BY <2>1, <2>2, UpdateIs
    <2>4. E \cup {c.index} \in SUBSET Nat /\ IsFiniteSet(E \cup {c.index})
      BY <1>4, <2>1, FS_AddElement
    <2>5. e \in Entries
      <3> HIDE DEF e
      <3> QED
        BY <2>3, <2>4 DEF Entries
    <2>6. Learn(known, c) = To(s)
      <3>1. [t EXCEPT !.entries = Update(@, c.index, c.page)] = s
        BY <1>2 DEF TabStates
      <3>2. Learn(known, c) = [known EXCEPT !.tabs = Update(@, c.tab, [t EXCEPT !.entries = Update(@, c.index, c.page)])]
        BY <1>6 DEF Learn, t
      <3> HIDE DEF s, To
      <3> QED
        BY <1>5, <3>1, <3>2
    <2> HIDE DEF e
    <2>7. s \in TabStates
      BY <1>2, <2>5 DEF TabStates
    <2> HIDE DEF s, To
    <2> QED
      BY <1>3, <2>2, <2>6, <2>7
  <1>7. CASE c.id = "SetSelectedNavigationIndex"
    <2> DEFINE s == [t EXCEPT !.selected = c.index]
    <2>1. Learn(known, c) = To(s)
      <3>1. Learn(known, c) = [known EXCEPT !.tabs = Update(@, c.tab, s)]
        BY <1>7 DEF Learn, t
      <3> HIDE DEF s, To
      <3> QED
        BY <1>5, <3>1
    <2>2. s \in TabStates
      BY <1>2, <1>4 DEF TabStates
    <2>3. c.tab \in Tab
      BY <1>7 DEF LogCommands
    <2> HIDE DEF s, To
    <2> QED
      BY <1>3, <2>1, <2>2, <2>3
  <1>8. CASE c.id = "SetTabWindow"
    <2> DEFINE s == [t EXCEPT !.win = c.win]
    <2>1. Learn(known, c) = To(s)
      <3>1. Learn(known, c) = [known EXCEPT !.tabs = Update(@, c.tab, s)]
        BY <1>8 DEF Learn, t
      <3> HIDE DEF s, To
      <3> QED
        BY <1>5, <3>1
    <2>2. c.tab \in Tab /\ c.win \in Window \ Private
      BY <1>8 DEF LogCommands
    <2>3. s \in TabStates
      BY <1>2, <2>2 DEF TabStates
    <2> HIDE DEF s, To
    <2> QED
      BY <1>3, <2>1, <2>2, <2>3
  <1>9. CASE c.id = "SetActiveWindow"
    <2>1. Learn(known, c) = [known EXCEPT !.active = c.win]
      BY <1>9 DEF Learn
    <2> QED
      BY <1>4, <2>1 DEF Known
  <1>10. CASE ~(c.id = "UpdateTabNavigation" /\ Savable(c.page)) /\ c.id \notin {"SetSelectedNavigationIndex", "SetTabWindow", "SetActiveWindow"}
    BY <1>10 DEF Learn
  <1> QED
    BY <1>6, <1>7, <1>8, <1>9, <1>10

LEMMA LearnedIs ==
    ASSUME NEW commands \in Seq(LogCommands)
    PROVE  /\ Learned(commands) \in Known
           /\ \A k \in 0..Len(commands) : LearnedBy(commands)[k] \in Known
  <1> DEFINE n == Len(commands)
             f == LearnedBy(commands)
             Typed == {k \in Nat : k <= n => f[k] \in Known}
  <1>1. n \in Nat /\ \A k \in 1..n : commands[k] \in LogCommands
    OBVIOUS
  <1>2. f[0] = [tabs |-> <<>>, active |-> 0] /\ \A k \in 1..n : f[k] = Learn(f[k - 1], commands[k])
    BY <1>1, LearnedByIs
  <1>3. Learned(commands) = f[n]
    BY DEF Learned
  <1> HIDE DEF n, f
  <1>4. 0 \in Typed
    <2>1. {} \in SUBSET Tab /\ <<>> \in [{} -> TabStates]
      OBVIOUS
    <2>2. f[0] \in Known
      BY <1>2, <2>1 DEF Known
    <2> QED
      BY <2>2
  <1>5. ASSUME NEW k \in Nat, k \in Typed PROVE k + 1 \in Typed
    <2>1. CASE k + 1 <= n
      <3>1. k + 1 \in 1..n /\ (k + 1) - 1 = k /\ k <= n
        BY <1>1, <2>1
      <3>2. f[k] \in Known /\ f[k + 1] = Learn(f[k], commands[k + 1]) /\ commands[k + 1] \in LogCommands
        BY <1>1, <1>2, <1>5, <3>1
      <3>3. f[k + 1] \in Known
        BY <3>2, LearnIs
      <3> QED
        BY <3>3
    <2>2. CASE ~(k + 1 <= n)
      BY <2>2
    <2> QED
      BY <2>1, <2>2
  <1>6. Nat \subseteq Typed
    <2> HIDE DEF Typed
    <2> QED
      BY <1>4, <1>5, SetInduction
  <1>7. \A k \in 0..n : f[k] \in Known
    BY <1>1, <1>6
  <1>8. n \in 0..n
    BY <1>1
  <1> QED
    BY <1>3, <1>7, <1>8 DEF n, f

\* The page that is read of a tab is one that was logged.
LEMMA PageOfIs ==
    ASSUME NEW state \in TabStates, state.entries # <<>>
    PROVE  /\ PageOf(state) \in AnyPage
           /\ state.selected \in DOMAIN state.entries => PageOf(state) = state.entries[state.selected]
  <1> DEFINE e == state.entries
             D == DOMAIN e
             at == IF state.selected \in D THEN state.selected ELSE Max(D)
  <1>1. D \in SUBSET Nat /\ IsFiniteSet(D) /\ e \in [D -> AnyPage] /\ e # <<>>
    BY DEF TabStates, Entries
  <1>2. D # {}
    <2> SUFFICES ASSUME D = {} PROVE FALSE
      OBVIOUS
    <2>1. e = [x \in D |-> e[x]]
      BY <1>1
    <2> HIDE DEF D, e
    <2>2. e = <<>>
      BY <2>1
    <2> QED
      BY <1>1, <2>2
  <1>3. at \in D
    <2>1. Max(D) \in D
      BY <1>1, <1>2, MaxIs
    <2> HIDE DEF D
    <2> QED
      BY <2>1
  <1>4. PageOf(state) = e[at]
    BY DEF PageOf
  <1> HIDE DEF e
  <1>5. e[at] \in AnyPage
    BY <1>1, <1>3
  <1> QED
    BY <1>4, <1>5 DEF e

LEMMA TabIdIs ==
    ASSUME SessionAssumption, NEW n \in Nat
    PROVE  TabId(n) \in Nat
  <1>1. CharSize \in Nat /\ CharSize # 0
    BY DEF SessionAssumption
  <1> QED
    BY <1>1 DEF TabId

\* What is read from a Chromium profile.
LEMMA ChromiumIs ==
    ASSUME CaptureAssumption, SessionAssumption, NEW commands \in Seq(LogCommands)
    PROVE  WellFound(ReadChromium(commands), "chromium")
  <1> DEFINE known == Learned(commands)
             tabs == known.tabs
             heard == {t \in DOMAIN tabs : tabs[t].entries # <<>>}
             S == {tabs[t].win : t \in heard}
             ordered == Ascending(S)
             In(w) == {t \in heard : tabs[t].win = w}
             TabsOf(w) == Ascending(In(w))
             Tabs(w) == [i \in DOMAIN TabsOf(w) |->
                BrowserTab(TabId(TabsOf(w)[i]), i - 1, PageOf(tabs[TabsOf(w)[i]]), i = 1, FALSE,
                           TabsOf(w)[i], w)]
             Read(w) == BrowserWindow(w, "chromium", NoFrame, w = known.active, FALSE, Tabs(w))
             found == [i \in DOMAIN ordered |-> Read(ordered[i])]
  <1>1. ReadChromium(commands) = found
    BY DEF ReadChromium
  <1>2. known \in Known
    BY LearnedIs
  <1> HIDE DEF known
  <1>3. PICK D \in SUBSET Tab : tabs \in [D -> TabStates]
    BY <1>2 DEF Known
  <1>4. heard \in SUBSET D /\ \A t \in heard : tabs[t] \in TabStates /\ tabs[t].entries # <<>>
    BY <1>3
  <1>5. heard \in SUBSET Nat /\ IsFiniteSet(heard)
    BY <1>3, <1>4, FS_Subset DEF CaptureAssumption
  <1> HIDE DEF heard, tabs
  <1>6. \A t \in heard : tabs[t].win \in {0} \cup (Window \ Private)
    BY <1>4 DEF TabStates
  <1>7. S \in SUBSET ({0} \cup (Window \ Private))
    BY <1>6
  <1>8. S \in SUBSET Nat /\ IsFiniteSet(S)
    <2>1. Window \in SUBSET Nat /\ IsFiniteSet(Window) /\ IsFiniteSet({0})
      BY FS_Singleton DEF CaptureAssumption
    <2>2. IsFiniteSet(Window \cup {0}) /\ S \in SUBSET (Window \cup {0})
      BY <1>7, <2>1, FS_Union
    <2> QED
      BY <2>1, <2>2, FS_Subset
  <1>9. ASSUME NEW w \in S PROVE OneFound(Read(w), "chromium") /\ Read(w).from = w
    <2> DEFINE own == In(w)
               n == Cardinality(own)
               a == TabsOf(w)
               row == Tabs(w)
               focused == w = known.active
    <2>0. w \in Nat /\ w \notin Private
      <3>1. 0 \notin Private
        BY DEF CaptureAssumption
      <3> QED
        BY <1>7, <1>8, <3>1
    <2>1. own \in SUBSET heard /\ own \in SUBSET Nat /\ IsFiniteSet(own)
      BY <1>5, FS_Subset
    <2> HIDE DEF own
    <2>2. n \in Nat /\ a \in [1..n -> own]
      BY <2>1, AscendingIs DEF own
    <2>3. DOMAIN a = 1..n
      BY <2>2
    <2> HIDE DEF n, a
    <2>4. ASSUME NEW i \in 1..n
          PROVE  row[i] \in TabRecords /\ row[i].index = i - 1 /\ row[i].from = w /\ ~row[i].sanitized
      <3> DEFINE t == a[i]
                 id == TabId(t)
                 page == PageOf(tabs[t])
                 first == i = 1
                 tab == BrowserTab(id, i - 1, page, first, FALSE, t, w)
      <3>1. t \in Nat /\ t \in heard /\ i - 1 \in Nat
        <4>1. a[i] \in own
          BY <2>2
        <4>2. i - 1 \in Nat
          BY <2>2
        <4> QED
          BY <2>1, <4>1, <4>2
      <3>2. id \in Nat
        BY <3>1, TabIdIs
      <3>3. page \in AnyPage
        BY <1>4, <3>1, PageOfIs
      <3>4. first \in BOOLEAN
        OBVIOUS
      <3>5. row[i] = tab
        BY <2>3 DEF a
      <3> HIDE DEF t, first, page, id, row
      <3>6. page.url \in Seen /\ page.title \in Texts
        BY <3>3, ParsedSeen DEF AnyPage, Texts
      <3>7. tab.index = i - 1 /\ tab.from = w /\ tab.sanitized = FALSE
        BY DEF BrowserTab
      <3>8. tab \in TabRecords
        BY <2>0, <3>1, <3>2, <3>4, <3>6 DEF BrowserTab, TabRecords
      <3> HIDE DEF tab
      <3> QED
        BY <3>5, <3>7, <3>8
    <2>5. row = [i \in 1..n |-> row[i]]
      BY <2>3 DEF a
    <2> DEFINE window == BrowserWindow(w, "chromium", NoFrame, focused, FALSE, row)
    <2>6. Read(w) = window
      OBVIOUS
    <2>7. focused \in BOOLEAN
      OBVIOUS
    <2> HIDE DEF row, focused
    <2>8. row \in [1..n -> TabRecords]
      BY <2>4, <2>5
    <2>9. row \in Seq(TabRecords) /\ DOMAIN row = 1..n /\ InARow(row)
      BY <2>2, <2>4, <2>8, InPlaces
    <2>10. window.from = w /\ window.browser = "chromium" /\ window.tabs = row
      BY DEF BrowserWindow
    <2>11. window \in FoundWindows
      BY <2>0, <2>7, <2>9 DEF BrowserWindow, FoundWindows
    <2> HIDE DEF window, Read
    <2> QED
      BY <2>0, <2>4, <2>6, <2>9, <2>10, <2>11 DEF OneFound
  <1>10. ordered \in [1..Cardinality(S) -> S]
    BY <1>8, AscendingIs
  <1> HIDE DEF S, Read
  <1>11. \A i \in DOMAIN found : found[i] = Read(ordered[i]) /\ ordered[i] \in S
    BY <1>10
  <1>12. DOMAIN found = DOMAIN ordered /\ found = [i \in DOMAIN found |-> found[i]]
    OBVIOUS
  <1> HIDE DEF found
  <1>13. \A i \in DOMAIN found : found[i].from = ordered[i] /\ OneFound(found[i], "chromium")
    BY <1>9, <1>11
  <1> DEFINE program == "chromium"
  <1>14. \A i \in DOMAIN found : found[i].from = ordered[i] /\ OneFound(found[i], program)
    BY <1>13
  <1> HIDE DEF program
  <1>15. WellFound(found, program)
    BY <1>8, <1>12, <1>14, EachFound
  <1> QED
    BY <1>1, <1>15 DEF program

\* A tab and a window of a recovery file.
FileTabs == [tab: Nat, entries: Seq(AnyPage), index: Nat]

FileWindows == [win: Nat, private: BOOLEAN, frame: Frame, focused: BOOLEAN, selected: Nat, tabs: Seq(FileTabs)]

LEMMA VisibleIs ==
    ASSUME NEW tab \in FileTabs, tab.entries # <<>>
    PROVE  /\ Visible(tab) \in AnyPage
           /\ tab.index \in DOMAIN tab.entries => Visible(tab) = tab.entries[tab.index]
  <1> DEFINE e == tab.entries
             at == IF tab.index \in DOMAIN e THEN tab.index ELSE Len(e)
  <1>1. e \in Seq(AnyPage) /\ e # <<>>
    BY DEF FileTabs
  <1>2. Visible(tab) = e[at]
    BY DEF Visible
  <1> HIDE DEF e
  <1>3. at \in DOMAIN e /\ e[at] \in AnyPage
    BY <1>1
  <1> QED
    BY <1>2, <1>3 DEF e

\* The tabs of a window in the file, in their order, with the pages they show.
LEMMA AppendTabsIs ==
    ASSUME SessionAssumption, NEW file \in FileWindows
    PROVE  LET tabs == AppendTabs(file)
           IN  /\ tabs \in Seq(TabRecords) /\ InARow(tabs)
               /\ \A i \in DOMAIN tabs : tabs[i].from = file.win /\ ~tabs[i].sanitized
               /\ \A j \in DOMAIN file.tabs :
                    (file.tabs[j].entries # <<>> /\ Visible(file.tabs[j]).url.form # "empty") =>
                        \E i \in DOMAIN tabs : /\ tabs[i].of = file.tabs[j].tab
                                               /\ tabs[i].url = Visible(file.tabs[j]).url
  <1> DEFINE P == {i \in DOMAIN file.tabs : file.tabs[i].entries # <<>>}
             loaded == AtPlaces(file.tabs, P)
             numbered == [i \in DOMAIN loaded |->
                BrowserTab(TabId(i - 1), i - 1, Visible(loaded[i]), FALSE, FALSE, loaded[i].tab, file.win)]
             Q == {i \in DOMAIN numbered : numbered[i].url.form # "empty"}
             n == Len(loaded)
             tabs == AtPlaces(numbered, Q)
  <1>1. AppendTabs(file) = tabs
    BY DEF AppendTabs
  <1>2. file.tabs \in Seq(FileTabs) /\ file.win \in Nat
    BY DEF FileWindows
  <1>3. P \in SUBSET (DOMAIN file.tabs) /\ (\A i \in P : file.tabs[i].entries # <<>>)
        /\ \A j \in DOMAIN file.tabs : file.tabs[j].entries # <<>> => j \in P
    OBVIOUS
  <1> HIDE DEF P
  <1>4. /\ loaded \in Seq(FileTabs)
        /\ \A i \in DOMAIN loaded : \E j \in P : loaded[i] = file.tabs[j]
        /\ \A j \in P : \E i \in DOMAIN loaded : loaded[i] = file.tabs[j]
    BY <1>2, <1>3, SomeOf
  <1> HIDE DEF loaded
  <1>5. n \in Nat /\ DOMAIN loaded = 1..n
    BY <1>4
  <1> HIDE DEF n
  <1>6. ASSUME NEW i \in 1..n
        PROVE  /\ numbered[i] \in TabRecords /\ numbered[i].index = i - 1 /\ numbered[i].from = file.win
               /\ numbered[i].sanitized = FALSE /\ numbered[i].of = loaded[i].tab
               /\ numbered[i].url = Visible(loaded[i]).url
    <2> DEFINE id == TabId(i - 1)
               page == Visible(loaded[i])
               of == loaded[i].tab
               tab == BrowserTab(id, i - 1, page, FALSE, FALSE, of, file.win)
    <2>1. numbered[i] = tab
      BY <1>5
    <2>2. i - 1 \in Nat
      BY <1>5
    <2>3. id \in Nat
      BY <2>2, TabIdIs
    <2>4. loaded[i] \in FileTabs /\ loaded[i].entries # <<>>
      BY <1>3, <1>4, <1>5
    <2>5. page \in AnyPage /\ of \in Nat
      BY <2>4, VisibleIs DEF FileTabs
    <2> HIDE DEF id, page, of, numbered
    <2>6. page.url \in Seen /\ page.title \in Texts
      BY <2>5, ParsedSeen DEF AnyPage, Texts
    <2>7. tab.index = i - 1 /\ tab.from = file.win /\ tab.sanitized = FALSE /\ tab.of = of /\ tab.url = page.url
      BY DEF BrowserTab
    <2>8. tab \in TabRecords
      BY <1>2, <2>2, <2>3, <2>5, <2>6 DEF BrowserTab, TabRecords
    <2> HIDE DEF tab
    <2> QED
      BY <2>1, <2>7, <2>8 DEF of, page
  <1>7. numbered = [i \in 1..n |-> numbered[i]] /\ DOMAIN numbered = 1..n
    BY <1>5
  <1> HIDE DEF numbered
  <1>8. numbered \in [1..n -> TabRecords]
    BY <1>6, <1>7
  <1>9. numbered \in Seq(TabRecords) /\ InARow(numbered)
    BY <1>5, <1>6, <1>8, InPlaces
  <1>10. Q \in SUBSET (DOMAIN numbered) /\ \A i \in DOMAIN numbered : numbered[i].url.form # "empty" => i \in Q
    OBVIOUS
  <1> HIDE DEF Q
  <1>11. /\ tabs \in Seq(TabRecords) /\ InARow(tabs)
         /\ \A i \in DOMAIN tabs : \E j \in Q : tabs[i] = numbered[j]
         /\ \A j \in Q : \E i \in DOMAIN tabs : tabs[i] = numbered[j]
    BY <1>9, <1>10, SomeOf
  <1> HIDE DEF tabs
  <1>12. ASSUME NEW i \in DOMAIN tabs PROVE tabs[i].from = file.win /\ tabs[i].sanitized = FALSE
    <2>1. PICK j \in Q : tabs[i] = numbered[j]
      BY <1>11
    <2> QED
      BY <1>6, <1>7, <1>10, <2>1
  <1>13. ASSUME NEW j \in DOMAIN file.tabs, file.tabs[j].entries # <<>>, Visible(file.tabs[j]).url.form # "empty"
         PROVE  \E i \in DOMAIN tabs : /\ tabs[i].of = file.tabs[j].tab
                                       /\ tabs[i].url = Visible(file.tabs[j]).url
    <2>1. PICK k \in DOMAIN loaded : loaded[k] = file.tabs[j]
      BY <1>3, <1>4, <1>13
    <2>2. numbered[k].of = file.tabs[j].tab /\ numbered[k].url = Visible(file.tabs[j]).url
      BY <1>5, <1>6, <2>1
    <2>3. k \in Q
      BY <1>5, <1>7, <1>10, <1>13, <2>2
    <2>4. PICK i \in DOMAIN tabs : tabs[i] = numbered[k]
      BY <1>11, <2>3
    <2> QED
      BY <2>2, <2>4
  <1>14. \A i \in DOMAIN tabs : tabs[i].from = file.win /\ ~tabs[i].sanitized
    BY <1>12
  <1> QED
    BY <1>1, <1>11, <1>13, <1>14

LEMMA FirefoxWindowIs ==
    ASSUME SessionAssumption, NEW file \in FileWindows, file.win \in Private => file.private
    PROVE  LET window == ReadFirefoxWindow(file)
           IN  /\ OneFound(window, "firefox") /\ window.from = file.win
               /\ \A j \in DOMAIN file.tabs :
                    (file.tabs[j].entries # <<>> /\ Visible(file.tabs[j]).url.form # "empty") =>
                        \E i \in DOMAIN window.tabs : /\ window.tabs[i].of = file.tabs[j].tab
                                                      /\ window.tabs[i].url = Visible(file.tabs[j]).url
  <1> DEFINE read == AppendTabs(file)
             tabs == [i \in DOMAIN read |-> [read[i] EXCEPT !.active = i = file.selected]]
             window == BrowserWindow(file.win, "firefox", file.frame, file.focused, file.private, tabs)
  <1>1. ReadFirefoxWindow(file) = window
    BY DEF ReadFirefoxWindow
  <1>2. /\ read \in Seq(TabRecords) /\ InARow(read)
        /\ \A i \in DOMAIN read : read[i].from = file.win /\ ~read[i].sanitized
        /\ \A j \in DOMAIN file.tabs :
             (file.tabs[j].entries # <<>> /\ Visible(file.tabs[j]).url.form # "empty") =>
                 \E i \in DOMAIN read : /\ read[i].of = file.tabs[j].tab
                                        /\ read[i].url = Visible(file.tabs[j]).url
    BY AppendTabsIs
  <1> HIDE DEF read
  <1>3. DOMAIN tabs = DOMAIN read /\ tabs = [i \in DOMAIN read |-> tabs[i]]
    OBVIOUS
  <1>4. ASSUME NEW i \in DOMAIN read
        PROVE  /\ tabs[i] \in TabRecords /\ tabs[i].index = read[i].index /\ tabs[i].from = read[i].from
               /\ tabs[i].sanitized = read[i].sanitized /\ tabs[i].of = read[i].of /\ tabs[i].url = read[i].url
    <2> DEFINE active == i = file.selected
               tab == [read[i] EXCEPT !.active = active]
    <2>1. active \in BOOLEAN /\ read[i] \in TabRecords /\ tabs[i] = tab
      BY <1>2
    <2> HIDE DEF active, tabs
    <2>2. /\ tab \in TabRecords /\ tab.index = read[i].index /\ tab.from = read[i].from
          /\ tab.sanitized = read[i].sanitized /\ tab.of = read[i].of /\ tab.url = read[i].url
      BY <2>1 DEF TabRecords
    <2> HIDE DEF tab
    <2> QED
      BY <2>1, <2>2
  <1> HIDE DEF tabs
  <1>5. tabs \in Seq(TabRecords)
    <2> DEFINE n == Len(read)
    <2>1. n \in Nat /\ DOMAIN read = 1..n
      BY <1>2
    <2> HIDE DEF n
    <2>2. tabs \in [1..n -> TabRecords]
      BY <1>3, <1>4, <2>1
    <2> QED
      BY <2>1, <2>2
  <1>6. InARow(tabs)
    BY <1>2, <1>3, <1>4 DEF InARow
  <1>7. file.win \in Nat /\ file.private \in BOOLEAN /\ file.focused \in BOOLEAN /\ file.frame \in Frame
    BY DEF FileWindows
  <1>8. window \in FoundWindows
    BY <1>5, <1>7 DEF BrowserWindow, FoundWindows
  <1>9. window.from = file.win /\ window.browser = "firefox" /\ window.tabs = tabs /\ window.incognito = file.private
    BY DEF BrowserWindow
  <1> HIDE DEF window
  <1>10. \A i \in DOMAIN tabs : tabs[i].from = file.win /\ ~tabs[i].sanitized
    BY <1>2, <1>3, <1>4
  <1>11. OneFound(window, "firefox")
    BY <1>6, <1>8, <1>9, <1>10 DEF OneFound
  <1>12. ASSUME NEW j \in DOMAIN file.tabs, file.tabs[j].entries # <<>>, Visible(file.tabs[j]).url.form # "empty"
         PROVE  \E i \in DOMAIN tabs : /\ tabs[i].of = file.tabs[j].tab
                                       /\ tabs[i].url = Visible(file.tabs[j]).url
    <2>1. PICK i \in DOMAIN read : read[i].of = file.tabs[j].tab /\ read[i].url = Visible(file.tabs[j]).url
      BY <1>2, <1>12
    <2> QED
      BY <1>3, <1>4, <2>1
  <1> QED
    BY <1>1, <1>9, <1>11, <1>12

\* Some of the windows are well found when all are.
LEMMA SomeFound ==
    ASSUME NEW found, NEW program, WellFound(found, program), NEW P \in SUBSET (DOMAIN found)
    PROVE  WellFound(AtPlaces(found, P), program)
  <1> DEFINE some == AtPlaces(found, P)
             a == Ascending(P)
             n == Cardinality(P)
  <1>1. found \in Seq(FoundWindows) /\ P \in SUBSET (1..Len(found))
    BY DEF WellFound
  <1>2. /\ n \in Nat /\ some \in Seq(FoundWindows) /\ Len(some) = n /\ a \in [1..n -> P]
        /\ \A k \in 1..n : some[k] = found[a[k]]
        /\ \A k, l \in 1..n : k < l => a[k] < a[l]
    BY <1>1, AtPlacesIs
  <1> HIDE DEF some, a, n
  <1>3. DOMAIN some = 1..n
    BY <1>2
  <1>4. ASSUME NEW i \in 1..n PROVE some[i] = found[a[i]] /\ a[i] \in DOMAIN found /\ a[i] \in Nat
    BY <1>1, <1>2
  <1>5. ASSUME NEW i \in 1..n
        PROVE  /\ some[i].browser = program /\ InARow(some[i].tabs)
               /\ some[i].from \in Private => some[i].incognito
               /\ \A j \in DOMAIN some[i].tabs : some[i].tabs[j].from = some[i].from /\ ~some[i].tabs[j].sanitized
    BY <1>4 DEF WellFound
  <1>6. ASSUME NEW i \in 1..n, NEW j \in 1..n, some[i].from = some[j].from PROVE i = j
    <2>1. a[i] = a[j] /\ a[i] \in Nat /\ a[j] \in Nat
      BY <1>4, <1>6 DEF WellFound
    <2> QED
      BY <1>2, <2>1
  <1> QED
    BY <1>2, <1>3, <1>5, <1>6 DEF WellFound, some

\* The states of the browser that the model has kept.
Moments == [live: Browsing, frame: [Window -> Frame], focus: Window, length: Nat]

Shows(m) == {w \in Window \ Private : TabsIn(m.live, w) # <<>>}

\* What Firefox has written: its windows that are not private, in order, with their tabs.
LEMMA RecoveryIs ==
    ASSUME CaptureAssumption, NEW m \in Moments
    PROVE  LET file == Recovery(m)
               open == Ascending(Shows(m))
           IN  /\ DOMAIN file = DOMAIN open /\ file = [i \in DOMAIN file |-> file[i]]
               /\ \A i \in DOMAIN file :
                    /\ file[i] \in FileWindows /\ file[i].win = open[i] /\ open[i] \in Shows(m)
                    /\ DOMAIN file[i].tabs = DOMAIN TabsIn(m.live, open[i])
                    /\ \A j \in DOMAIN file[i].tabs :
                        LET t == TabsIn(m.live, open[i])[j]
                        IN  /\ file[i].tabs[j].tab = t /\ file[i].tabs[j].entries = m.live[t].pages
                            /\ file[i].tabs[j].index = m.live[t].at
  <1> DEFINE file == Recovery(m)
             open == Ascending(Shows(m))
             InFile(t) == [tab |-> t, entries |-> [i \in DOMAIN m.live[t].pages |-> m.live[t].pages[i]],
                           index |-> m.live[t].at]
             Tabs(w) == [i \in DOMAIN TabsIn(m.live, w) |-> InFile(TabsIn(m.live, w)[i])]
             Win(w) == [win |-> w, private |-> FALSE, frame |-> m.frame[w],
                        focused |-> w = m.focus, selected |-> 1, tabs |-> Tabs(w)]
  <1>1. file = [i \in DOMAIN open |-> Win(open[i])]
    BY DEF Recovery, Shows
  <1>2. m.live \in Browsing /\ m.frame \in [Window -> Frame]
    BY DEF Moments
  <1>3. ASSUME NEW w \in Window
        PROVE  /\ Win(w) \in FileWindows /\ Win(w).win = w /\ Win(w).tabs = Tabs(w)
               /\ DOMAIN Tabs(w) = DOMAIN TabsIn(m.live, w)
               /\ \A j \in DOMAIN Tabs(w) :
                    LET t == TabsIn(m.live, w)[j]
                    IN  /\ Tabs(w)[j].tab = t /\ Tabs(w)[j].entries = m.live[t].pages
                        /\ Tabs(w)[j].index = m.live[t].at
    <2> DEFINE a == TabsIn(m.live, w)
               n == Cardinality(Own(m.live, w))
               tabs == Tabs(w)
               focused == w = m.focus
    <2>1. n \in Nat /\ a \in [1..n -> Own(m.live, w)] /\ \A t \in Own(m.live, w) : t \in DOMAIN m.live
      BY <1>2, TabsInIs
    <2>2. tabs = [i \in DOMAIN a |-> InFile(a[i])]
      OBVIOUS
    <2> HIDE DEF tabs, a, n
    <2>3. ASSUME NEW t \in DOMAIN m.live
          PROVE  /\ InFile(t) \in FileTabs /\ InFile(t).tab = t /\ InFile(t).entries = m.live[t].pages
                 /\ InFile(t).index = m.live[t].at
      <3> DEFINE pages == m.live[t].pages
                 same == [i \in DOMAIN pages |-> pages[i]]
      <3>1. t \in Nat /\ pages \in Seq(AnyPage) /\ m.live[t].at \in 1..Len(pages)
        BY <1>2, ATab
      <3>2. InFile(t) = [tab |-> t, entries |-> same, index |-> m.live[t].at]
        OBVIOUS
      <3> HIDE DEF InFile, pages
      <3>3. same = pages /\ m.live[t].at \in Nat
        BY <3>1
      <3> HIDE DEF same
      <3>4. InFile(t) \in FileTabs /\ InFile(t).tab = t /\ InFile(t).entries = pages /\ InFile(t).index = m.live[t].at
        BY <3>1, <3>2, <3>3 DEF FileTabs
      <3> QED
        BY <3>4 DEF pages
    <2> HIDE DEF InFile
    <2>4. DOMAIN tabs = 1..n /\ DOMAIN a = 1..n /\ \A j \in 1..n : tabs[j] = InFile(a[j]) /\ a[j] \in DOMAIN m.live
      BY <2>1, <2>2
    <2>5. \A j \in 1..n : /\ tabs[j] \in FileTabs /\ tabs[j].tab = a[j] /\ tabs[j].entries = m.live[a[j]].pages
                          /\ tabs[j].index = m.live[a[j]].at
      BY <2>3, <2>4
    <2>6. tabs \in Seq(FileTabs)
      <3>1. tabs = [j \in 1..n |-> tabs[j]]
        BY <2>2, <2>4
      <3>2. tabs \in [1..n -> FileTabs]
        BY <2>5, <3>1
      <3> QED
        BY <2>1, <3>2
    <2>7. Win(w) = [win |-> w, private |-> FALSE, frame |-> m.frame[w], focused |-> focused, selected |-> 1,
                    tabs |-> tabs]
      BY DEF tabs
    <2>8. focused \in BOOLEAN /\ w \in Nat /\ m.frame[w] \in Frame
      BY <1>2 DEF CaptureAssumption
    <2> HIDE DEF focused, Win
    <2>9. Win(w) \in FileWindows /\ Win(w).win = w /\ Win(w).tabs = tabs
      BY <2>6, <2>7, <2>8 DEF FileWindows
    <2> QED
      BY <2>4, <2>5, <2>9 DEF tabs, a
  <1>4. Shows(m) \in SUBSET Nat /\ IsFiniteSet(Shows(m)) /\ Shows(m) \in SUBSET Window
    <2>1. Shows(m) \in SUBSET Window
      BY DEF Shows
    <2> QED
      BY <2>1, SomeWindows
  <1>5. open \in [1..Cardinality(Shows(m)) -> Shows(m)]
    BY <1>4, AscendingIs
  <1> HIDE DEF Win, Tabs, file
  <1>6. DOMAIN file = DOMAIN open /\ \A i \in DOMAIN file : file[i] = Win(open[i]) /\ open[i] \in Shows(m) /\ open[i] \in Window
    BY <1>1, <1>4, <1>5
  <1>7. file = [i \in DOMAIN file |-> file[i]]
    BY <1>1
  <1>8. ASSUME NEW i \in DOMAIN file
        PROVE  /\ file[i] \in FileWindows /\ file[i].win = open[i] /\ open[i] \in Shows(m)
               /\ DOMAIN file[i].tabs = DOMAIN TabsIn(m.live, open[i])
               /\ \A j \in DOMAIN file[i].tabs :
                    LET t == TabsIn(m.live, open[i])[j]
                    IN  /\ file[i].tabs[j].tab = t /\ file[i].tabs[j].entries = m.live[t].pages
                        /\ file[i].tabs[j].index = m.live[t].at
    <2> DEFINE w == open[i]
    <2>1. file[i] = Win(w) /\ w \in Shows(m) /\ w \in Window
      BY <1>6
    <2> HIDE DEF w
    <2>2. file[i].tabs = Tabs(w) /\ file[i].win = w /\ file[i] \in FileWindows
      BY <1>3, <2>1
    <2>3. /\ DOMAIN file[i].tabs = DOMAIN TabsIn(m.live, w)
          /\ \A j \in DOMAIN file[i].tabs :
                    LET t == TabsIn(m.live, w)[j]
                    IN  /\ file[i].tabs[j].tab = t /\ file[i].tabs[j].entries = m.live[t].pages
                        /\ file[i].tabs[j].index = m.live[t].at
      BY <1>3, <2>1, <2>2
    <2> QED
      BY <2>1, <2>2, <2>3 DEF w
  <1> QED
    BY <1>6, <1>7, <1>8 DEF file

\* What is read from a Firefox profile.
LEMMA FirefoxIs ==
    ASSUME CaptureAssumption, SessionAssumption, NEW m \in Moments
    PROVE  WellFound(ReadFirefox(Recovery(m)), "firefox")
  <1> DEFINE file == Recovery(m)
             open == Ascending(Shows(m))
             read == [i \in DOMAIN file |-> ReadFirefoxWindow(file[i])]
             P == {i \in DOMAIN read : read[i].tabs # <<>>}
             program == "firefox"
  <1>1. /\ DOMAIN file = DOMAIN open
        /\ \A i \in DOMAIN file : file[i] \in FileWindows /\ file[i].win = open[i] /\ open[i] \in Shows(m)
    BY RecoveryIs
  <1>2. ReadFirefox(file) = AtPlaces(read, P)
    BY DEF ReadFirefox
  <1> HIDE DEF file
  <1>3. \A w \in Shows(m) : w \notin Private
    BY DEF Shows
  <1>4. ASSUME NEW i \in DOMAIN file PROVE OneFound(read[i], program) /\ read[i].from = open[i]
    <2> DEFINE x == file[i]
               window == ReadFirefoxWindow(x)
    <2>1. x \in FileWindows /\ x.win \notin Private /\ x.win = open[i] /\ read[i] = window
      BY <1>1, <1>3
    <2> HIDE DEF x
    <2>2. OneFound(window, program) /\ window.from = x.win
      BY <2>1, FirefoxWindowIs
    <2> HIDE DEF read, window
    <2> QED
      BY <2>1, <2>2
  <1>5. DOMAIN read = DOMAIN open /\ read = [i \in DOMAIN read |-> read[i]] /\ DOMAIN read = DOMAIN file
    BY <1>1
  <1>6. Shows(m) \in SUBSET Nat /\ IsFiniteSet(Shows(m))
    <2>1. Shows(m) \in SUBSET Window
      BY DEF Shows
    <2> QED
      BY <2>1, SomeWindows
  <1>7. P \in SUBSET (DOMAIN read)
    OBVIOUS
  <1> HIDE DEF read, P, program
  <1>8. \A i \in DOMAIN read : read[i].from = open[i] /\ OneFound(read[i], program)
    BY <1>4, <1>5
  <1>9. WellFound(read, program)
    BY <1>5, <1>6, <1>8, EachFound
  <1>10. WellFound(AtPlaces(read, P), program)
    BY <1>7, <1>9, SomeFound
  <1> QED
    BY <1>2, <1>10 DEF file, program

-----------------------------------------------------------------------------
(* The windows of the desktop.                                              *)

\* A window of the browser as it is at the moment, if it is one.
AsItIs(window) ==
    window.browser # "none" =>
        /\ window.browser = kind /\ window.id \in Window
        /\ window.frame = frame[window.id] /\ window.focused = (window.id = focus)

\* No window of the browser is there twice.
OnceEach(wins) ==
    \A v, w \in DOMAIN wins :
        (wins[v].browser # "none" /\ wins[w].browser # "none" /\ wins[v].id = wins[w].id) => v = w

LEMMA DesktopIs ==
    ASSUME CaptureAssumption, live \in Browsing, frame \in [Window -> Frame], kind \in Browsers
    PROVE  /\ Desktop \in Seq(StoredWindows) /\ OnceEach(Desktop)
           /\ \A i \in DOMAIN Desktop : Desktop[i].tabs = <<>> /\ AsItIs(Desktop[i])
  <1> DEFINE S == {w \in Window : TabsIn(live, w) # <<>>}
             open == Ascending(S)
             n == Cardinality(S)
             Win(w) == DesktopWindow(w, kind, frame[w], w = focus, BrowserApp, w \in Minimized)
             rest == [i \in DOMAIN open |-> Win(open[i])]
             m == Len(Apps)
             d == Apps \o rest
  <1>1. Desktop = d
    BY DEF Desktop
  <1>2. S \in SUBSET Window
    OBVIOUS
  <1>3. S \in SUBSET Nat /\ IsFiniteSet(S)
    BY <1>2, SomeWindows
  <1>4. /\ n \in Nat /\ open \in [1..n -> S]
        /\ \A i, j \in 1..n : i < j => open[i] < open[j]
    BY <1>3, AscendingIs
  <1> HIDE DEF S, open, n
  <1>5. ASSUME NEW w \in Window
        PROVE  /\ Win(w) \in StoredWindows /\ Win(w).tabs = <<>> /\ AsItIs(Win(w)) /\ Win(w).id = w
               /\ Win(w).browser # "none"
    <2> DEFINE focused == w = focus
               minimized == w \in Minimized
               win == DesktopWindow(w, kind, frame[w], focused, BrowserApp, minimized)
    <2>1. /\ w \in Nat /\ kind \in {"chromium", "firefox"} /\ BrowserApp \in Seq(Word) /\ frame[w] \in Frame
      BY DEF CaptureAssumption
    <2>2. focused \in BOOLEAN /\ minimized \in BOOLEAN
      OBVIOUS
    <2>3. <<>> \in Seq(TabRecords)
      OBVIOUS
    <2>4. focused = (w = focus)
      OBVIOUS
    <2>5. Win(w) = win
      OBVIOUS
    <2> HIDE DEF focused, minimized, Win
    <2>6. win \in StoredWindows
      BY <2>1, <2>2, <2>3 DEF DesktopWindow, StoredWindows
    <2>7. win.id = w /\ win.browser = kind /\ win.frame = frame[w] /\ win.focused = focused /\ win.tabs = <<>>
      BY DEF DesktopWindow
    <2>8. win.focused = (win.id = focus)
      BY <2>4, <2>7
    <2> HIDE DEF win
    <2>9. AsItIs(win)
      BY <2>7, <2>8 DEF AsItIs
    <2> QED
      BY <2>1, <2>5, <2>6, <2>7, <2>9
  <1> HIDE DEF Win
  <1>6. DOMAIN rest = 1..n /\ \A i \in 1..n : rest[i] = Win(open[i]) /\ open[i] \in Window /\ open[i] \in Nat
    BY <1>2, <1>3, <1>4
  <1>7. rest \in Seq(StoredWindows) /\ Len(rest) = n
    <2>1. \A i \in 1..n : rest[i] \in StoredWindows
      BY <1>5, <1>6
    <2>2. rest = [i \in 1..n |-> rest[i]]
      BY <1>4
    <2> HIDE DEF rest
    <2>3. rest \in [1..n -> StoredWindows]
      BY <2>1, <2>2
    <2>4. n \in Nat
      BY <1>4
    <2> QED
      BY <2>3, <2>4
  <1>8. Apps \in Seq(StoredWindows) /\ m \in Nat /\ \A i \in 1..m : Apps[i].tabs = <<>> /\ Apps[i].browser = "none"
    <2>1. Apps \in Seq(AppWindows)
      BY DEF CaptureAssumption
    <2>2. m \in Nat /\ Apps \in [1..m -> AppWindows]
      BY <2>1
    <2>3. ASSUME NEW a \in AppWindows PROVE a \in StoredWindows /\ a.tabs = <<>> /\ a.browser = "none"
      <3>1. <<>> \in Seq(TabRecords)
        OBVIOUS
      <3> QED
        BY <3>1 DEF AppWindows, StoredWindows
    <2>4. AppWindows \subseteq StoredWindows
      BY <2>3
    <2>5. Apps \in [1..m -> StoredWindows]
      BY <2>2, <2>4
    <2> QED
      BY <2>2, <2>3, <2>5
  <1> HIDE DEF rest, m
  <1>9. /\ d \in Seq(StoredWindows) /\ DOMAIN d = 1..(m + n)
        /\ \A i \in 1..(m + n) : d[i] = IF i <= m THEN Apps[i] ELSE rest[i - m]
    BY <1>4, <1>7, <1>8 DEF m
  <1> HIDE DEF d
  <1>10. ASSUME NEW i \in 1..(m + n)
         PROVE  /\ d[i].tabs = <<>> /\ AsItIs(d[i])
                /\ d[i].browser # "none" => i - m \in 1..n /\ d[i].id = open[i - m]
    <2>1. CASE i <= m
      <3>1. d[i] = Apps[i] /\ i \in 1..m
        BY <1>9, <2>1
      <3> QED
        BY <1>8, <3>1 DEF AsItIs
    <2>2. CASE ~(i <= m)
      <3>1. d[i] = rest[i - m] /\ i - m \in 1..n
        BY <1>4, <1>8, <1>9, <2>2
      <3> QED
        BY <1>5, <1>6, <3>1
    <2> QED
      BY <2>1, <2>2
  <1>11. OnceEach(d)
    <2> SUFFICES ASSUME NEW v \in 1..(m + n), NEW w \in 1..(m + n), d[v].browser # "none", d[w].browser # "none",
                        d[v].id = d[w].id
                 PROVE  v = w
      BY <1>9 DEF OnceEach
    <2> DEFINE x == v - m
               y == w - m
    <2>1. x \in 1..n /\ y \in 1..n /\ open[x] = open[y]
      BY <1>10
    <2>2. open[x] \in Nat /\ (x = y => v = w)
      BY <1>6, <1>8, <2>1
    <2> HIDE DEF x, y
    <2> QED
      BY <1>4, <2>1, <2>2
  <1> QED
    BY <1>1, <1>9, <1>10, <1>11

-----------------------------------------------------------------------------
(* The types.                                                               *)

\* The inductive invariant behind TypeOK: what the log says is of windows that are not private
\* and of tabs of the browser, every state that was kept is one the browser can be in, and a
\* window that waits for its tabs has none.
TypeInv ==
    /\ kind \in Browsers /\ live \in Browsing /\ frame \in [Window -> Frame] /\ focus \in Window
    /\ log \in Seq(LogCommands) /\ past \in Seq(Moments)
    /\ saved \in 0..IF kind = "chromium" THEN Len(log) ELSE Len(past)
    /\ stage \in {"idle", "tabs"} /\ calm \in BOOLEAN
    /\ options \in Requests \cup {None}
    /\ stage = "tabs" => options \in Requests
    /\ stage = "idle" => windows = <<>>
    /\ windows \in Seq(StoredWindows) /\ \A w \in DOMAIN windows : windows[w].tabs = <<>>

\* What a tab has logged so far.
LEMMA SessionOfIs ==
    ASSUME CaptureAssumption, NEW t \in Tab, NEW tab \in BrowserTabs, tab.win \notin Private
    PROVE  SessionOf(t, tab) \in Seq(LogCommands)
  <1>1. /\ tab.win \in Window /\ tab.pages \in Seq(AnyPage) /\ tab.at \in DOMAIN tab.pages
    BY DEF BrowserTabs
  <1>2. t \in Nat /\ tab.win \in Nat
    BY <1>1 DEF CaptureAssumption
  <1> DEFINE pages == tab.pages
             n == Len(pages)
             first == <<Command("SetTabWindow", tab.win, t, 0, None)>>
             middle == [i \in DOMAIN pages |-> Command("UpdateTabNavigation", 0, t, i - 1, pages[i])]
             last == <<Command("SetSelectedNavigationIndex", 0, t, tab.at - 1, None)>>
  <1>3. n \in Nat /\ DOMAIN pages = 1..n /\ \A i \in 1..n : pages[i] \in AnyPage
    BY <1>1
  <1> HIDE DEF pages, n
  <1>4. Command("SetTabWindow", tab.win, t, 0, None) \in LogCommands
    BY <1>1, <1>2 DEF Command, LogCommands
  <1>5. Command("SetSelectedNavigationIndex", 0, t, tab.at - 1, None) \in LogCommands
    <2>1. tab.at - 1 \in Nat
      BY <1>1, <1>3 DEF pages
    <2> QED
      BY <1>2, <2>1 DEF Command, LogCommands
  <1>6. ASSUME NEW i \in 1..n PROVE middle[i] \in LogCommands
    <2>1. middle[i] = Command("UpdateTabNavigation", 0, t, i - 1, pages[i]) /\ i - 1 \in Nat
      BY <1>3
    <2> HIDE DEF middle
    <2> QED
      BY <1>2, <1>3, <2>1 DEF Command, LogCommands
  <1>7. middle = [i \in 1..n |-> middle[i]]
    BY <1>3
  <1> HIDE DEF middle
  <1>8. middle \in Seq(LogCommands)
    <2>1. middle \in [1..n -> LogCommands]
      BY <1>6, <1>7
    <2> QED
      BY <1>3, <2>1
  <1>9. first \in Seq(LogCommands) /\ last \in Seq(LogCommands)
    BY <1>4, <1>5
  <1>10. SessionOf(t, tab) = (first \o middle) \o last
    BY DEF SessionOf, middle, pages
  <1> HIDE DEF first, last
  <1> QED
    BY <1>8, <1>9, <1>10

LEMMA FirstLogTyped ==
    ASSUME CaptureAssumption
    PROVE  \A k \in 0..Len(Opened) : FirstLog[k] \in Seq(LogCommands)
  <1> DEFINE n == Len(Opened)
             f == FirstLog
             Typed == {k \in Nat : k <= n => f[k] \in Seq(LogCommands)}
  <1>1. n \in Nat /\ \A k \in 1..n : Opened[k] \in BrowserTabs /\ k \in Tab
    <2>1. Opened \in Seq(BrowserTabs) /\ DOMAIN Opened \subseteq Tab
      BY DEF CaptureAssumption
    <2> QED
      BY <2>1
  <1>2. f[0] = <<>> /\ \A k \in 1..n : f[k] = IF Opened[k].win \in Private THEN f[k - 1] ELSE f[k - 1] \o SessionOf(k, Opened[k])
    BY <1>1, FirstLogIs
  <1> HIDE DEF n, f
  <1>3. 0 \in Typed
    <2>1. <<>> \in Seq(LogCommands)
      OBVIOUS
    <2> QED
      BY <1>2, <2>1
  <1>4. ASSUME NEW k \in Nat, k \in Typed PROVE k + 1 \in Typed
    <2>1. CASE k + 1 <= n
      <3>1. k + 1 \in 1..n /\ (k + 1) - 1 = k /\ k <= n
        BY <1>1, <2>1
      <3>2. f[k] \in Seq(LogCommands) /\ Opened[k + 1] \in BrowserTabs /\ k + 1 \in Tab
        BY <1>1, <1>4, <3>1
      <3>3. f[k + 1] = IF Opened[k + 1].win \in Private THEN f[k] ELSE f[k] \o SessionOf(k + 1, Opened[k + 1])
        BY <1>2, <3>1
      <3>4. Opened[k + 1].win \notin Private => SessionOf(k + 1, Opened[k + 1]) \in Seq(LogCommands)
        BY <3>2, SessionOfIs
      <3>5. f[k + 1] \in Seq(LogCommands)
        BY <3>2, <3>3, <3>4
      <3> QED
        BY <3>5
    <2>2. CASE ~(k + 1 <= n)
      BY <2>2
    <2> QED
      BY <2>1, <2>2
  <1>5. Nat \subseteq Typed
    <2> HIDE DEF Typed
    <2> QED
      BY <1>3, <1>4, SetInduction
  <1>6. \A k \in 0..n : k \in Nat /\ k <= n
    BY <1>1
  <1> QED
    BY <1>5, <1>6 DEF n, f

LEMMA TypesAtFirst ==
    ASSUME CaptureAssumption, Init
    PROVE  TypeInv
  <1>1. live \in Browsing
    <2>1. Opened \in Seq(BrowserTabs) /\ DOMAIN Opened \in SUBSET Tab
      BY DEF CaptureAssumption
    <2>2. Opened \in [DOMAIN Opened -> BrowserTabs]
      BY <2>1
    <2>3. live = Opened
      BY DEF Init
    <2> QED
      BY <2>1, <2>2, <2>3 DEF Browsing
  <1>2. frame \in [Window -> Frame] /\ kind \in Browsers
    BY DEF Init, CaptureAssumption
  <1>3. focus \in Window
    <2>1. Window \in SUBSET Nat /\ Window # {}
      BY DEF CaptureAssumption
    <2>2. Min(Window) \in Window
      BY <2>1, MinIs
    <2> QED
      BY <2>2 DEF Init
  <1>4. log \in Seq(LogCommands)
    <2>1. Opened \in Seq(BrowserTabs)
      BY DEF CaptureAssumption
    <2>2. Len(Opened) \in 0..Len(Opened)
      BY <2>1
    <2>3. FirstLog[Len(Opened)] \in Seq(LogCommands)
      BY <2>2, FirstLogTyped
    <2>4. <<>> \in Seq(LogCommands)
      OBVIOUS
    <2>5. log = IF kind = "firefox" THEN <<>> ELSE FirstLog[Len(Opened)]
      BY DEF Init
    <2> QED
      BY <2>3, <2>4, <2>5
  <1> DEFINE m == [live |-> live, frame |-> frame, focus |-> focus, length |-> Len(log)]
  <1>5. past \in Seq(Moments) /\ Len(past) = 1
    <2>1. m \in Moments
      BY <1>1, <1>2, <1>3, <1>4 DEF Moments
    <2>2. past = <<m>>
      BY DEF Init
    <2> HIDE DEF m
    <2> QED
      BY <2>1, <2>2
  <1>6. saved \in 0..IF kind = "chromium" THEN Len(log) ELSE Len(past)
    <2>1. kind \in {"chromium", "firefox"}
      BY <1>2 DEF CaptureAssumption
    <2>2. saved \in {0, IF kind = "firefox" THEN 1 ELSE Len(log)}
      BY DEF Init
    <2>3. Len(log) \in Nat
      BY <1>4
    <2> QED
      BY <1>5, <2>1, <2>2, <2>3
  <1>7. /\ stage = "idle" /\ options = None /\ windows = <<>> /\ calm = FALSE
    BY DEF Init
  <1>8. windows \in Seq(StoredWindows) /\ \A w \in DOMAIN windows : windows[w].tabs = <<>>
    <2>1. <<>> \in Seq(StoredWindows) /\ DOMAIN windows = {}
      BY <1>7
    <2> QED
      BY <1>7, <2>1
  <1> QED
    BY <1>1, <1>2, <1>3, <1>4, <1>5, <1>6, <1>7, <1>8 DEF TypeInv

\* Whatever was done in the browser, if what becomes of it and what is logged is right.
LEMMA DoneIs ==
    ASSUME CaptureAssumption, TypeInv, NEW w, NEW commands,
           live' \in Browsing, frame' \in [Window -> Frame], focus' \in Window,
           w \notin Private => commands \in Seq(LogCommands), Done(w, commands)
    PROVE  /\ TypeInv' /\ snapshot' = snapshot /\ kind' = kind /\ windows' = windows /\ options' = options
           /\ stage' = stage /\ calm' = (calm /\ stage # "tabs")
  <1>1. /\ calm' = (calm /\ stage # "tabs")
        /\ log' = IF kind = "chromium" /\ w \notin Private THEN log \o commands ELSE log
        /\ past' = Append(past, [live |-> live', frame |-> frame', focus |-> focus', length |-> Len(log')])
        /\ kind' = kind /\ saved' = saved /\ stage' = stage /\ options' = options /\ windows' = windows
        /\ snapshot' = snapshot
    BY DEF Done, handler
  <1>2. log \in Seq(LogCommands) /\ past \in Seq(Moments)
    BY DEF TypeInv
  <1>3. log' \in Seq(LogCommands) /\ Len(log') >= Len(log)
    <2>1. Len(log) \in Nat
      BY <1>2
    <2>2. CASE kind = "chromium" /\ w \notin Private
      <3>1. log' = log \o commands /\ commands \in Seq(LogCommands)
        BY <1>1, <2>2
      <3> QED
        BY <1>2, <3>1
    <2>3. CASE ~(kind = "chromium" /\ w \notin Private)
      BY <1>1, <1>2, <2>1, <2>3
    <2> QED
      BY <2>2, <2>3
  <1> DEFINE m == [live |-> live', frame |-> frame', focus |-> focus', length |-> Len(log')]
  <1>4. m \in Moments
    BY <1>3 DEF Moments
  <1>5. past' = Append(past, m)
    BY <1>1
  <1> HIDE DEF m
  <1>6. past' \in Seq(Moments) /\ Len(past') = Len(past) + 1
    BY <1>2, <1>4, <1>5
  <1>7. saved' \in 0..IF kind' = "chromium" THEN Len(log') ELSE Len(past')
    <2>1. saved \in 0..IF kind = "chromium" THEN Len(log) ELSE Len(past)
      BY DEF TypeInv
    <2>2. Len(log) \in Nat /\ Len(past) \in Nat /\ Len(log') \in Nat /\ Len(past') \in Nat
      BY <1>2, <1>3, <1>6
    <2> QED
      BY <1>1, <1>3, <1>6, <2>1, <2>2
  <1>8. calm' \in BOOLEAN
    BY <1>1, Zenon
  <1>9. /\ kind \in Browsers /\ stage \in {"idle", "tabs"} /\ options \in Requests \cup {None}
        /\ stage = "tabs" => options \in Requests
        /\ stage = "idle" => windows = <<>>
        /\ windows \in Seq(StoredWindows) /\ \A v \in DOMAIN windows : windows[v].tabs = <<>>
    BY DEF TypeInv
  <1>10. /\ kind' \in Browsers /\ stage' \in {"idle", "tabs"} /\ options' \in Requests \cup {None}
         /\ stage' = "tabs" => options' \in Requests
         /\ stage' = "idle" => windows' = <<>>
         /\ windows' \in Seq(StoredWindows) /\ \A v \in DOMAIN windows' : windows'[v].tabs = <<>>
    BY <1>1, <1>9
  <1>11. TypeInv'
    BY <1>3, <1>6, <1>7, <1>8, <1>10 DEF TypeInv
  <1> QED
    BY <1>1, <1>11

\* A tab more, a tab less, or a tab that is another.
LEMMA OtherTabs ==
    ASSUME NEW l \in Browsing, NEW t \in Tab, NEW tab \in BrowserTabs
    PROVE  /\ Update(l, t, tab) \in Browsing
           /\ [l EXCEPT ![t] = tab] \in Browsing
           /\ [u \in DOMAIN l \ {t} |-> l[u]] \in Browsing
  <1>1. PICK D \in SUBSET Tab : l \in [D -> BrowserTabs]
    BY DEF Browsing
  <1>2. D \cup {t} \in SUBSET Tab /\ D \ {t} \in SUBSET Tab
    OBVIOUS
  <1>3. Update(l, t, tab) \in [D \cup {t} -> BrowserTabs]
    BY <1>1, UpdateIs
  <1>4. [l EXCEPT ![t] = tab] \in [D -> BrowserTabs]
    BY <1>1
  <1>5. [u \in DOMAIN l \ {t} |-> l[u]] \in [D \ {t} -> BrowserTabs]
    BY <1>1
  <1> QED
    BY <1>1, <1>2, <1>3, <1>4, <1>5 DEF Browsing

\* What the user does in the browser.
LEMMA LivesTyped ==
    ASSUME CaptureAssumption, TypeInv, Lives
    PROVE  /\ TypeInv' /\ snapshot' = snapshot /\ kind' = kind /\ windows' = windows /\ options' = options
           /\ stage' = stage
           /\ (calm' /\ stage = "tabs") => calm /\ UNCHANGED <<live, frame, focus>>
  <1> DEFINE Goal == /\ TypeInv' /\ snapshot' = snapshot /\ kind' = kind /\ windows' = windows /\ options' = options
                     /\ stage' = stage /\ calm' = (calm /\ stage # "tabs")
  <1>1. live \in Browsing /\ frame \in [Window -> Frame] /\ focus \in Window
    BY DEF TypeInv
  <1>2. \A w \in Window : w \in Nat /\ w \notin Private => w \in Window \ Private
    BY DEF CaptureAssumption
  <1>3. \A t \in Tab : t \in Nat
    BY DEF CaptureAssumption
  <1>4. ASSUME NEW t \in Tab, NEW w \in Window, NEW page \in Page, Open(t, w, page) PROVE Goal
    <2> DEFINE tab == NewTab(w, page)
    <2>1. page \in AnyPage
      BY DEF CaptureAssumption
    <2>2. tab \in BrowserTabs /\ tab.win = w
      <3> DEFINE pages == <<page>>
      <3>1. pages \in Seq(AnyPage) /\ 1 \in DOMAIN pages /\ 1 \in Nat
        BY <2>1
      <3>2. tab = [win |-> w, pages |-> pages, at |-> 1]
        BY DEF NewTab
      <3> HIDE DEF pages, tab
      <3> QED
        BY <3>1, <3>2 DEF BrowserTabs
    <2> HIDE DEF tab
    <2>3. live' = Update(live, t, tab) /\ frame' = frame /\ focus' = focus /\ Done(w, SessionOf(t, tab))
      BY <1>4 DEF Open, TabsBecome, tab
    <2>4. live' \in Browsing
      BY <1>1, <2>2, <2>3, OtherTabs
    <2>5. w \notin Private => SessionOf(t, tab) \in Seq(LogCommands)
      BY <2>2, SessionOfIs
    <2> QED
      BY <1>1, <2>3, <2>4, <2>5, DoneIs
  <1>5. ASSUME NEW t \in DOMAIN live, NEW page \in Page, Navigate(t, page) PROVE Goal
    <2> DEFINE tab == live[t]
               at == tab.at
               pages == Append(SubSeq(tab.pages, 1, at), page)
               new == [tab EXCEPT !.pages = pages, !.at = at + 1]
               commands == <<Command("SetSelectedNavigationIndex", 0, t, at, None),
                             Command("UpdateTabNavigation", 0, t, at, page)>>
    <2>1. /\ t \in Tab /\ t \in Nat /\ tab \in BrowserTabs /\ tab.win \in Window /\ tab.pages \in Seq(AnyPage)
          /\ at \in 1..Len(tab.pages)
      BY <1>1, ATab
    <2>2. page \in AnyPage
      BY DEF CaptureAssumption
    <2>3. live' = [live EXCEPT ![t] = new] /\ frame' = frame /\ focus' = focus /\ Done(tab.win, commands)
      <3>1. live' = [live EXCEPT ![t].pages = Append(SubSeq(@, 1, at), page), ![t].at = at + 1]
        BY <1>5 DEF Navigate, TabsBecome
      <3>2. [live EXCEPT ![t].pages = Append(SubSeq(@, 1, at), page), ![t].at = at + 1] = [live EXCEPT ![t] = new]
        BY <2>1 DEF BrowserTabs
      <3> QED
        BY <1>5, <3>1, <3>2 DEF Navigate, TabsBecome
    <2> HIDE DEF tab
    <2>4. at \in Nat /\ Len(tab.pages) \in Nat
      BY <2>1
    <2>5. SubSeq(tab.pages, 1, at) \in Seq(AnyPage) /\ Len(SubSeq(tab.pages, 1, at)) = at
      BY <2>1, <2>4
    <2>6. pages \in Seq(AnyPage) /\ Len(pages) = at + 1
      BY <2>2, <2>5
    <2>7. at + 1 \in DOMAIN pages
      BY <2>4, <2>6
    <2>8. Command("SetSelectedNavigationIndex", 0, t, at, None) \in LogCommands
      BY <2>1, <2>4 DEF Command, LogCommands
    <2>9. Command("UpdateTabNavigation", 0, t, at, page) \in LogCommands
      BY <2>1, <2>2, <2>4 DEF Command, LogCommands
    <2>10. commands \in Seq(LogCommands)
      BY <2>8, <2>9
    <2> HIDE DEF pages, commands
    <2>11. new \in BrowserTabs
      <3> DEFINE next == at + 1
      <3>1. next \in Nat /\ next \in DOMAIN pages
        BY <2>4, <2>7
      <3>2. tab \in [win: Window, pages: Seq(AnyPage), at: Nat]
        BY <2>1 DEF BrowserTabs
      <3> HIDE DEF next
      <3>3. [tab EXCEPT !.pages = pages, !.at = next] \in [win: Window, pages: Seq(AnyPage), at: Nat]
        BY <2>6, <3>1, <3>2
      <3>4. [tab EXCEPT !.pages = pages, !.at = next].at = next /\ [tab EXCEPT !.pages = pages, !.at = next].pages = pages
        BY <3>2
      <3>5. [tab EXCEPT !.pages = pages, !.at = next] \in BrowserTabs
        BY <3>1, <3>3, <3>4 DEF BrowserTabs
      <3> QED
        BY <3>5 DEF next
    <2> HIDE DEF new
    <2>12. live' \in Browsing
      BY <1>1, <2>1, <2>3, <2>11, OtherTabs
    <2> QED
      BY <1>1, <2>3, <2>10, <2>12, DoneIs
  <1>6. ASSUME NEW t \in DOMAIN live, NEW w \in Window, MoveTab(t, w) PROVE Goal
    <2> DEFINE tab == live[t]
               new == [tab EXCEPT !.win = w]
               commands == <<Command("SetTabWindow", w, t, 0, None)>>
    <2>1. t \in Tab /\ t \in Nat /\ tab \in BrowserTabs
      BY <1>1, ATab
    <2>2. live' = [live EXCEPT ![t] = new] /\ frame' = frame /\ focus' = focus /\ Done(w, commands)
      <3>1. [live EXCEPT ![t].win = w] = [live EXCEPT ![t] = new]
        OBVIOUS
      <3> QED
        BY <1>6, <3>1 DEF MoveTab, TabsBecome
    <2>3. w \notin Private => commands \in Seq(LogCommands)
      <3>1. w \notin Private => Command("SetTabWindow", w, t, 0, None) \in LogCommands
        BY <1>2, <2>1 DEF Command, LogCommands
      <3> QED
        BY <3>1
    <2> HIDE DEF tab, commands
    <2>4. new \in BrowserTabs
      BY <2>1 DEF BrowserTabs
    <2> HIDE DEF new
    <2>5. live' \in Browsing
      BY <1>1, <2>1, <2>2, <2>4, OtherTabs
    <2> QED
      BY <1>1, <2>2, <2>3, <2>5, DoneIs
  <1>7. ASSUME NEW t \in DOMAIN live, Back(t) PROVE Goal
    <2> DEFINE tab == live[t]
               new == [tab EXCEPT !.at = tab.at - 1]
               commands == <<Command("SetSelectedNavigationIndex", 0, t, tab.at - 2, None)>>
    <2>1. /\ t \in Tab /\ t \in Nat /\ tab \in BrowserTabs /\ tab.pages \in Seq(AnyPage)
          /\ tab.at \in 1..Len(tab.pages) /\ tab.at > 1
      BY <1>1, <1>7, ATab DEF Back
    <2>2. live' = [live EXCEPT ![t] = new] /\ frame' = frame /\ focus' = focus /\ Done(tab.win, commands)
      <3>1. [live EXCEPT ![t].at = @ - 1] = [live EXCEPT ![t] = new]
        OBVIOUS
      <3> QED
        BY <1>7, <3>1 DEF Back, TabsBecome
    <2> HIDE DEF tab
    <2>3. tab.at - 2 \in Nat /\ tab.at - 1 \in Nat /\ tab.at - 1 \in DOMAIN tab.pages
      BY <2>1, SMTT(30)
    <2>4. commands \in Seq(LogCommands)
      <3>1. Command("SetSelectedNavigationIndex", 0, t, tab.at - 2, None) \in LogCommands
        BY <2>1, <2>3 DEF Command, LogCommands
      <3> QED
        BY <3>1
    <2> HIDE DEF commands
    <2>5. new \in BrowserTabs
      BY <2>1, <2>3 DEF BrowserTabs
    <2> HIDE DEF new
    <2>6. live' \in Browsing
      BY <1>1, <2>1, <2>2, <2>5, OtherTabs
    <2> QED
      BY <1>1, <2>2, <2>4, <2>6, DoneIs
  <1>8. ASSUME NEW t \in DOMAIN live, Close(t) PROVE Goal
    <2> DEFINE commands == <<Command("TabClosed", 0, t, 0, None)>>
    <2>1. t \in Tab /\ t \in Nat /\ live[t] \in BrowserTabs
      BY <1>1, ATab
    <2>2. live' = [u \in DOMAIN live \ {t} |-> live[u]] /\ frame' = frame /\ focus' = focus /\ Done(live[t].win, commands)
      BY <1>8 DEF Close, TabsBecome
    <2>3. commands \in Seq(LogCommands)
      <3>1. Command("TabClosed", 0, t, 0, None) \in LogCommands
        BY <2>1 DEF Command, LogCommands
      <3> QED
        BY <3>1
    <2> HIDE DEF commands
    <2>4. live' \in Browsing
      BY <1>1, <2>1, <2>2, OtherTabs
    <2> QED
      BY <1>1, <2>2, <2>3, <2>4, DoneIs
  <1>9. ASSUME NEW w \in Window, Focus(w) PROVE Goal
    <2> DEFINE commands == <<Command("SetActiveWindow", w, 0, 0, None)>>
    <2>1. live' = live /\ frame' = frame /\ focus' = w /\ Done(w, commands)
      BY <1>9 DEF Focus
    <2>2. commands \in Seq(LogCommands)
      <3>1. Command("SetActiveWindow", w, 0, 0, None) \in LogCommands
        BY <1>2 DEF Command, LogCommands, CaptureAssumption
      <3> QED
        BY <3>1
    <2> HIDE DEF commands
    <2> QED
      BY <1>1, <2>1, <2>2, DoneIs
  <1>10. ASSUME NEW w \in Window, NEW f \in Frame, MoveWindow(w, f) PROVE Goal
    <2>1. live' = live /\ frame' = [frame EXCEPT ![w] = f] /\ focus' = focus /\ Done(w, <<>>)
      BY <1>10 DEF MoveWindow
    <2>2. <<>> \in Seq(LogCommands) /\ frame' \in [Window -> Frame]
      BY <1>1, <2>1
    <2> QED
      BY <1>1, <2>1, <2>2, DoneIs
  <1>11. ASSUME Save
         PROVE  /\ TypeInv' /\ snapshot' = snapshot /\ kind' = kind /\ windows' = windows /\ options' = options
                /\ stage' = stage /\ calm' = calm /\ UNCHANGED <<live, frame, focus>>
    <2>1. UNCHANGED <<kind, live, frame, focus, log, stage, options, windows, snapshot, calm, past>>
      BY <1>11 DEF Save, handler, history
    <2>2. saved' \in IF kind = "chromium" THEN saved + 1..Len(log) ELSE {Len(past)} \ {saved}
      BY <1>11 DEF Save
    <2>3. saved' \in 0..IF kind = "chromium" THEN Len(log) ELSE Len(past)
      <3>1. saved \in Nat /\ Len(past) \in Nat /\ Len(log) \in Nat
        <4>1. Len(past) \in Nat /\ Len(log) \in Nat
          BY DEF TypeInv
        <4> QED
          BY <4>1 DEF TypeInv
      <3> QED
        BY <2>2, <3>1
    <2>4. TypeInv'
      BY <2>1, <2>3 DEF TypeInv
    <2> QED
      BY <2>1, <2>4
  <1>12. ASSUME Goal
         PROVE  /\ TypeInv' /\ snapshot' = snapshot /\ kind' = kind /\ windows' = windows /\ options' = options
                /\ stage' = stage
                /\ (calm' /\ stage = "tabs") => calm /\ UNCHANGED <<live, frame, focus>>
    <2>1. ~(calm' /\ stage = "tabs")
      BY <1>12, Zenon
    <2> QED
      BY <1>12, <2>1
  <1> HIDE DEF Goal
  <1>13. Goal \/ Save
    BY <1>4, <1>5, <1>6, <1>7, <1>8, <1>9, <1>10, Zenon DEF Lives
  <1> QED
    BY <1>11, <1>12, <1>13

-----------------------------------------------------------------------------
(* What is stored.                                                          *)

\* What is read from the session file, if there is one.
LEMMA SessionIs ==
    ASSUME CaptureAssumption, SessionAssumption, TypeInv
    PROVE  WellFound(SessionWindows, kind)
  <1>1. CASE saved = 0
    <2> DEFINE none == SessionWindows
    <2>1. none = <<>>
      BY <1>1 DEF SessionWindows
    <2>2. <<>> \in Seq(FoundWindows)
      OBVIOUS
    <2> HIDE DEF none
    <2>3. WellFound(none, kind)
      BY <2>1, <2>2 DEF WellFound
    <2> QED
      BY <2>3 DEF none
  <1>2. CASE saved # 0 /\ kind = "chromium"
    <2>1. saved \in 1..Len(log) /\ log \in Seq(LogCommands)
      BY <1>2 DEF TypeInv
    <2>2. SubSeq(log, 1, saved) \in Seq(LogCommands)
      BY <2>1
    <2>3. SessionWindows = ReadChromium(SubSeq(log, 1, saved))
      BY <1>2 DEF SessionWindows
    <2> QED
      BY <1>2, <2>2, <2>3, ChromiumIs
  <1>3. CASE saved # 0 /\ kind # "chromium"
    <2>1. saved \in 1..Len(past) /\ past \in Seq(Moments) /\ kind = "firefox"
      BY <1>3 DEF TypeInv, CaptureAssumption
    <2>2. past[saved] \in Moments
      BY <2>1
    <2>3. SessionWindows = ReadFirefox(Recovery(past[saved]))
      BY <1>3 DEF SessionWindows
    <2> QED
      BY <2>1, <2>2, <2>3, FirefoxIs
  <1> QED
    BY <1>1, <1>2, <1>3

\* What is left of the windows that were found when the private ones were not asked for.
Lent(found, o) ==
    [i \in DOMAIN found |->
        IF found[i].incognito /\ ~o.incognito THEN [found[i] EXCEPT !.tabs = <<>>] ELSE found[i]]

Trimmed(lent, found, o) ==
    /\ lent \in Seq(FoundWindows) /\ DOMAIN lent = DOMAIN found
    /\ \A i \in DOMAIN found :
        /\ lent[i].from = found[i].from /\ lent[i].browser = found[i].browser
        /\ lent[i].frame = found[i].frame /\ lent[i].focused = found[i].focused
        /\ InARow(lent[i].tabs)
        /\ \A j \in DOMAIN lent[i].tabs :
            /\ lent[i].tabs[j].from = found[i].from /\ ~lent[i].tabs[j].sanitized
            /\ found[i].from \in Private => o.incognito

LEMMA LentIs ==
    ASSUME NEW found, NEW program, WellFound(found, program), NEW o
    PROVE  Trimmed(Lent(found, o), found, o)
  <1> DEFINE lent == Lent(found, o)
  <1>1. /\ found \in Seq(FoundWindows) /\ DOMAIN found = 1..Len(found) /\ Len(found) \in Nat
        /\ \A i \in DOMAIN found : found[i] \in FoundWindows
    BY DEF WellFound
  <1>2. DOMAIN lent = 1..Len(found)
    BY <1>1 DEF Lent
  <1>3. ASSUME NEW i \in DOMAIN found
        PROVE  /\ lent[i] \in FoundWindows
               /\ lent[i].from = found[i].from /\ lent[i].browser = found[i].browser
               /\ lent[i].frame = found[i].frame /\ lent[i].focused = found[i].focused
               /\ (lent[i] = found[i] /\ (found[i].incognito => o.incognito)) \/ lent[i].tabs = <<>>
    <2> DEFINE window == found[i]
               bare == [window EXCEPT !.tabs = <<>>]
    <2>1. window \in FoundWindows
      BY <1>1
    <2>2. /\ bare \in FoundWindows /\ bare.from = window.from /\ bare.browser = window.browser
          /\ bare.frame = window.frame /\ bare.focused = window.focused /\ bare.tabs = <<>>
      <3>1. <<>> \in Seq(TabRecords)
        OBVIOUS
      <3> HIDE DEF window
      <3> QED
        BY <2>1, <3>1 DEF FoundWindows
    <2>3. lent[i] = IF window.incognito /\ ~o.incognito THEN bare ELSE window
      BY DEF Lent
    <2> HIDE DEF lent, bare
    <2>4. CASE window.incognito /\ ~o.incognito
      BY <2>2, <2>3, <2>4
    <2>5. CASE ~(window.incognito /\ ~o.incognito)
      BY <2>1, <2>3, <2>5
    <2> QED
      BY <2>4, <2>5
  <1>4. lent \in Seq(FoundWindows)
    <2>1. lent \in [1..Len(found) -> FoundWindows]
      BY <1>1, <1>2, <1>3 DEF Lent
    <2> HIDE DEF lent
    <2> QED
      BY <1>1, <2>1
  <1>5. ASSUME NEW i \in DOMAIN found
        PROVE  /\ InARow(lent[i].tabs)
               /\ \A j \in DOMAIN lent[i].tabs :
                    /\ lent[i].tabs[j].from = found[i].from /\ ~lent[i].tabs[j].sanitized
                    /\ found[i].from \in Private => o.incognito
    <2> HIDE DEF lent
    <2>1. CASE lent[i].tabs = <<>>
      <3>1. DOMAIN lent[i].tabs = {}
        BY <2>1
      <3> QED
        BY <3>1 DEF InARow
    <2>2. CASE lent[i] = found[i] /\ (found[i].incognito => o.incognito)
      BY <2>2 DEF WellFound
    <2> QED
      BY <1>3, <2>1, <2>2
  <1> HIDE DEF lent
  <1>6. Trimmed(lent, found, o)
    BY <1>1, <1>2, <1>3, <1>4, <1>5 DEF Trimmed
  <1> QED
    BY <1>6 DEF lent

\* The windows with the tabs that were found, before they are sanitized.
Attached(found, wins, o) == IF found = <<>> THEN wins ELSE AttachBrowserTabs(found, wins, o)

\* Each window has the tabs of one browser window that no other has, or none.
Given(a, wins, found, o) ==
    /\ a \in Seq(StoredWindows) /\ DOMAIN a = DOMAIN wins
    /\ \E giver \in [DOMAIN wins -> DOMAIN found \cup {0}] :
        /\ \A v, w \in DOMAIN wins : (giver[v] = giver[w] /\ giver[v] # 0) => v = w
        /\ \A w \in DOMAIN wins :
            /\ Same(a[w], wins[w]) /\ InARow(a[w].tabs)
            /\ \A i \in DOMAIN a[w].tabs :
                /\ giver[w] # 0 /\ a[w].tabs[i].from = found[giver[w]].from
                /\ ~a[w].tabs[i].sanitized /\ (a[w].tabs[i].from \in Private => o.incognito)

LEMMA AttachedIs ==
    ASSUME NEW wins \in Seq(StoredWindows), \A w \in DOMAIN wins : wins[w].tabs = <<>>,
           NEW found, NEW program, WellFound(found, program), NEW o
    PROVE  Given(Attached(found, wins, o), wins, found, o)
  <1> DEFINE a == Attached(found, wins, o)
             lent == Lent(found, o)
             state == SecondPass(lent, wins)[Len(wins)]
             Fits(giver) ==
                /\ giver \in [DOMAIN wins -> DOMAIN found \cup {0}]
                /\ \A v, w \in DOMAIN wins : (giver[v] = giver[w] /\ giver[v] # 0) => v = w
                /\ \A w \in DOMAIN wins :
                    /\ Same(a[w], wins[w]) /\ InARow(a[w].tabs)
                    /\ \A i \in DOMAIN a[w].tabs :
                        /\ giver[w] # 0 /\ a[w].tabs[i].from = found[giver[w]].from
                        /\ ~a[w].tabs[i].sanitized /\ (a[w].tabs[i].from \in Private => o.incognito)
  <1>1. DOMAIN wins = 1..Len(wins) /\ Len(wins) \in Nat /\ \A w \in DOMAIN wins : wins[w] \in StoredWindows
    OBVIOUS
  <1>2. \A tabs : tabs = <<>> => DOMAIN tabs = {} /\ InARow(tabs)
    BY DEF InARow
  <1>3. CASE found = <<>>
    <2> DEFINE giver == [w \in DOMAIN wins |-> 0]
    <2>1. a = wins
      BY <1>3 DEF Attached
    <2>2. giver \in [DOMAIN wins -> DOMAIN found \cup {0}] /\ \A w \in DOMAIN wins : giver[w] = 0
      OBVIOUS
    <2> HIDE DEF giver, a
    <2>3. Fits(giver)
      BY <1>2, <2>1, <2>2 DEF Same
    <2> HIDE DEF Fits
    <2>4. a \in Seq(StoredWindows) /\ DOMAIN a = DOMAIN wins /\ \E g : Fits(g)
      BY <2>1, <2>3
    <2> QED
      BY <2>4 DEF a, Fits, Given
  <1>4. CASE found # <<>>
    <2>1. a = state.windows
      BY <1>4 DEF Attached, AttachBrowserTabs, AttachTabsToWindows, Lent
    <2>2. /\ lent \in Seq(FoundWindows) /\ DOMAIN lent = DOMAIN found
          /\ \A i \in DOMAIN found :
                /\ lent[i].from = found[i].from /\ InARow(lent[i].tabs)
                /\ \A j \in DOMAIN lent[i].tabs :
                    /\ lent[i].tabs[j].from = found[i].from /\ ~lent[i].tabs[j].sanitized
                    /\ found[i].from \in Private => o.incognito
      <3>1. WellFound(found, program)
        OBVIOUS
      <3>2. Trimmed(lent, found, o)
        BY <3>1, LentIs
      <3> HIDE DEF lent
      <3> QED
        BY <3>2 DEF Trimmed
    <2>3. \A i \in DOMAIN found : lent[i] \in FoundWindows
      BY <2>2
    <2> HIDE DEF lent
    <2>4. PICK giver : GivenBy(giver, state, wins, lent)
      BY <2>2, AttachIs
    <2> HIDE DEF state, a
    <2>5. /\ giver \in [DOMAIN wins -> DOMAIN found \cup {0}]
          /\ \A v, w \in DOMAIN wins : (giver[v] = giver[w] /\ giver[v] # 0) => v = w
          /\ a = [w \in DOMAIN wins |-> [wins[w] EXCEPT !.tabs = IF giver[w] = 0 THEN <<>> ELSE lent[giver[w]].tabs]]
      BY <2>1, <2>2, <2>4 DEF GivenBy
    <2>6. ASSUME NEW w \in DOMAIN wins
          PROVE  /\ a[w] \in StoredWindows /\ Same(a[w], wins[w]) /\ InARow(a[w].tabs)
                 /\ \A i \in DOMAIN a[w].tabs :
                        /\ giver[w] # 0 /\ a[w].tabs[i].from = found[giver[w]].from
                        /\ ~a[w].tabs[i].sanitized /\ (a[w].tabs[i].from \in Private => o.incognito)
      <3> DEFINE tabs == IF giver[w] = 0 THEN <<>> ELSE lent[giver[w]].tabs
      <3>1. a[w] = [wins[w] EXCEPT !.tabs = tabs]
        BY <2>5
      <3>2. /\ tabs \in Seq(TabRecords) /\ InARow(tabs)
            /\ \A i \in DOMAIN tabs : /\ giver[w] # 0 /\ tabs[i].from = found[giver[w]].from
                                      /\ ~tabs[i].sanitized /\ (tabs[i].from \in Private => o.incognito)
        <4>1. CASE giver[w] = 0
          <5>1. tabs = <<>>
            BY <4>1
          <5> HIDE DEF tabs
          <5>2. <<>> \in Seq(TabRecords)
            OBVIOUS
          <5> QED
            BY <1>2, <5>1, <5>2
        <4>2. CASE giver[w] # 0
          <5>1. giver[w] \in DOMAIN found /\ tabs = lent[giver[w]].tabs
            BY <2>5, <4>2
          <5>2. lent[giver[w]].tabs \in Seq(TabRecords)
            BY <2>3, <5>1 DEF FoundWindows
          <5> HIDE DEF tabs
          <5> QED
            BY <2>2, <4>2, <5>1, <5>2
        <4> QED
          BY <4>1, <4>2
      <3> HIDE DEF tabs
      <3>3. a[w] \in StoredWindows /\ a[w].tabs = tabs /\ Same(a[w], wins[w])
        BY <1>1, <3>1, <3>2, WindowWith
      <3> QED
        BY <3>2, <3>3
    <2>7. a \in Seq(StoredWindows) /\ DOMAIN a = DOMAIN wins
      <3>1. DOMAIN a = 1..Len(wins)
        BY <1>1, <2>5
      <3>2. a \in [1..Len(wins) -> StoredWindows]
        BY <1>1, <2>5, <2>6, <3>1
      <3> QED
        BY <1>1, <3>2
    <2>8. Fits(giver)
      BY <2>5, <2>6
    <2> HIDE DEF Fits
    <2>9. \E g : Fits(g)
      BY <2>8
    <2> QED
      BY <2>7, <2>9 DEF a, Fits, Given
  <1> QED
    BY <1>3, <1>4

\* What a capture stores of what it has found.
LEMMA StoredAre ==
    ASSUME CaptureAssumption, TypeInv, NEW found, NEW program, WellFound(found, program)
    PROVE  LET stored == Sanitize(Attached(found, windows, options), options)
           IN  /\ stored \in Seq(StoredWindows) /\ DOMAIN stored = DOMAIN windows
               /\ \E giver \in [DOMAIN windows -> DOMAIN found \cup {0}] :
                    /\ \A v, w \in DOMAIN windows : (giver[v] = giver[w] /\ giver[v] # 0) => v = w
                    /\ \A w \in DOMAIN windows :
                        /\ Same(stored[w], windows[w]) /\ InARow(stored[w].tabs)
                        /\ \A i \in DOMAIN stored[w].tabs :
                            /\ giver[w] # 0 /\ stored[w].tabs[i].from = found[giver[w]].from
                            /\ stored[w].tabs[i].from \in Private => options.incognito
                            /\ options.sanitize => Safe(stored[w].tabs[i]) /\ ~Listed(stored[w].tabs[i], options)
  <1> DEFINE a == Attached(found, windows, options)
             stored == Sanitize(a, options)
             Fits(giver) ==
                /\ giver \in [DOMAIN windows -> DOMAIN found \cup {0}]
                /\ \A v, w \in DOMAIN windows : (giver[v] = giver[w] /\ giver[v] # 0) => v = w
                /\ \A w \in DOMAIN windows :
                    /\ Same(stored[w], windows[w]) /\ InARow(stored[w].tabs)
                    /\ \A i \in DOMAIN stored[w].tabs :
                        /\ giver[w] # 0 /\ stored[w].tabs[i].from = found[giver[w]].from
                        /\ stored[w].tabs[i].from \in Private => options.incognito
                        /\ options.sanitize => Safe(stored[w].tabs[i]) /\ ~Listed(stored[w].tabs[i], options)
  <1>1. windows \in Seq(StoredWindows) /\ \A w \in DOMAIN windows : windows[w].tabs = <<>>
    BY DEF TypeInv
  <1>2. /\ a \in Seq(StoredWindows) /\ DOMAIN a = DOMAIN windows
        /\ \E giver \in [DOMAIN windows -> DOMAIN found \cup {0}] :
            /\ \A v, w \in DOMAIN windows : (giver[v] = giver[w] /\ giver[v] # 0) => v = w
            /\ \A w \in DOMAIN windows :
                /\ Same(a[w], windows[w]) /\ InARow(a[w].tabs)
                /\ \A i \in DOMAIN a[w].tabs :
                    /\ giver[w] # 0 /\ a[w].tabs[i].from = found[giver[w]].from
                    /\ ~a[w].tabs[i].sanitized /\ (a[w].tabs[i].from \in Private => options.incognito)
    <2>1. WellFound(found, program)
      OBVIOUS
    <2>2. Given(a, windows, found, options)
      BY <1>1, <2>1, AttachedIs
    <2> HIDE DEF a
    <2> QED
      BY <2>2 DEF Given
  <1> HIDE DEF a
  <1>3. PICK giver \in [DOMAIN windows -> DOMAIN found \cup {0}] :
            /\ \A v, w \in DOMAIN windows : (giver[v] = giver[w] /\ giver[v] # 0) => v = w
            /\ \A w \in DOMAIN windows :
                /\ Same(a[w], windows[w]) /\ InARow(a[w].tabs)
                /\ \A i \in DOMAIN a[w].tabs :
                    /\ giver[w] # 0 /\ a[w].tabs[i].from = found[giver[w]].from
                    /\ ~a[w].tabs[i].sanitized /\ (a[w].tabs[i].from \in Private => options.incognito)
    BY <1>2
  <1>4. /\ stored \in Seq(StoredWindows) /\ DOMAIN stored = DOMAIN a
        /\ \A w \in DOMAIN a :
            /\ Same(stored[w], a[w]) /\ InARow(stored[w].tabs)
            /\ \A i \in DOMAIN stored[w].tabs :
                /\ \E j \in DOMAIN a[w].tabs : stored[w].tabs[i].from = a[w].tabs[j].from
                /\ options.sanitize => Safe(stored[w].tabs[i]) /\ ~Listed(stored[w].tabs[i], options)
    BY <1>2, <1>3, SanitizeIs
  <1> HIDE DEF stored
  <1>5. ASSUME NEW w \in DOMAIN windows
        PROVE  /\ Same(stored[w], windows[w]) /\ InARow(stored[w].tabs)
               /\ \A i \in DOMAIN stored[w].tabs :
                        /\ giver[w] # 0 /\ stored[w].tabs[i].from = found[giver[w]].from
                        /\ stored[w].tabs[i].from \in Private => options.incognito
                        /\ options.sanitize => Safe(stored[w].tabs[i]) /\ ~Listed(stored[w].tabs[i], options)
    <2>1. Same(stored[w], a[w]) /\ Same(a[w], windows[w])
      BY <1>2, <1>3, <1>4
    <2>2. Same(stored[w], windows[w])
      BY <2>1 DEF Same
    <2>3. InARow(stored[w].tabs)
      BY <1>2, <1>4
    <2>4. ASSUME NEW i \in DOMAIN stored[w].tabs
          PROVE  /\ giver[w] # 0 /\ stored[w].tabs[i].from = found[giver[w]].from
                 /\ stored[w].tabs[i].from \in Private => options.incognito
                 /\ options.sanitize => Safe(stored[w].tabs[i]) /\ ~Listed(stored[w].tabs[i], options)
      <3>0. w \in DOMAIN a
        BY <1>2
      <3>1. PICK j \in DOMAIN a[w].tabs : stored[w].tabs[i].from = a[w].tabs[j].from
        BY <1>4, <3>0
      <3>2. /\ giver[w] # 0 /\ a[w].tabs[j].from = found[giver[w]].from
            /\ a[w].tabs[j].from \in Private => options.incognito
        BY <1>3
      <3>3. options.sanitize => Safe(stored[w].tabs[i]) /\ ~Listed(stored[w].tabs[i], options)
        BY <1>2, <1>4
      <3> QED
        BY <3>1, <3>2, <3>3
    <2> QED
      BY <2>2, <2>3, <2>4
  <1>6. Fits(giver)
    BY <1>3, <1>5
  <1> HIDE DEF Fits
  <1>7. stored \in Seq(StoredWindows) /\ DOMAIN stored = DOMAIN windows /\ \E g : Fits(g)
    BY <1>2, <1>4, <1>6
  <1> QED
    BY <1>7 DEF stored, Fits, a

\* What of TypeOK and of TabsAreTheirs is about the snapshot alone.
Rows == snapshot # None => \A w \in DOMAIN snapshot.windows : InARow(snapshot.windows[w].tabs)

\* A capture ends: what it stores, and what it leaves behind.
LEMMA StoresIs ==
    ASSUME CaptureAssumption, TypeInv, NEW found, NEW source, WellFound(found, kind), Stores(found, source)
    PROVE  TypeInv' /\ Rows' /\ TabsTogether'
  <1> DEFINE stored == Sanitize(Attached(found, windows, options), options)
             record == [stored |-> Storable(stored), windows |-> stored, source |-> source,
                        found |-> found, options |-> options, calm |-> calm]
  <1>1. stored \in Seq(StoredWindows) /\ DOMAIN stored = DOMAIN windows
    BY StoredAre
  <1>2. PICK giver \in [DOMAIN windows -> DOMAIN found \cup {0}] :
            /\ \A v, w \in DOMAIN windows : (giver[v] = giver[w] /\ giver[v] # 0) => v = w
            /\ \A w \in DOMAIN windows :
                /\ Same(stored[w], windows[w]) /\ InARow(stored[w].tabs)
                /\ \A i \in DOMAIN stored[w].tabs :
                    /\ giver[w] # 0 /\ stored[w].tabs[i].from = found[giver[w]].from
                    /\ stored[w].tabs[i].from \in Private => options.incognito
                    /\ options.sanitize => Safe(stored[w].tabs[i]) /\ ~Listed(stored[w].tabs[i], options)
    BY StoredAre
  <1>3. snapshot' = record /\ stage' = "idle" /\ windows' = <<>> /\ options' = None
        /\ UNCHANGED <<kind, live, frame, focus, log, saved, calm, past>>
    BY DEF Stores, Idle, browser, history, Attached
  <1> HIDE DEF stored
  <1>4. snapshot'.windows = stored
    BY <1>3
  <1> HIDE DEF record
  <1>5. TypeInv'
    <2> DEFINE none == windows'
    <2>1. none = <<>> /\ none \in Seq(StoredWindows)
      <3>1. <<>> \in Seq(StoredWindows)
        OBVIOUS
      <3> QED
        BY <1>3, <3>1
    <2>2. \A w \in DOMAIN none : none[w].tabs = <<>>
      <3>1. DOMAIN none = {}
        BY <2>1
      <3> QED
        BY <3>1
    <2> HIDE DEF none
    <2>3. windows' = <<>> /\ windows' \in Seq(StoredWindows) /\ \A w \in DOMAIN windows' : windows'[w].tabs = <<>>
      BY <2>1, <2>2 DEF none
    <2>4. stage' \in {"idle", "tabs"} /\ stage' # "tabs" /\ options' \in Requests \cup {None}
      BY <1>3
    <2>5. /\ kind' \in Browsers /\ live' \in Browsing /\ frame' \in [Window -> Frame] /\ focus' \in Window
          /\ log' \in Seq(LogCommands) /\ past' \in Seq(Moments)
          /\ saved' \in 0..IF kind' = "chromium" THEN Len(log') ELSE Len(past')
      BY <1>3 DEF TypeInv
    <2>6. calm' \in BOOLEAN
      BY <1>3 DEF TypeInv
    <2> QED
      BY <2>3, <2>4, <2>5, <2>6 DEF TypeInv
  <1>6. Rows'
    BY <1>1, <1>2, <1>4 DEF Rows
  <1>7. TabsTogether'
    <2>1. ASSUME NEW v \in DOMAIN stored, NEW w \in DOMAIN stored,
                 NEW i \in DOMAIN stored[v].tabs, NEW j \in DOMAIN stored[w].tabs
          PROVE  (stored[v].tabs[i].from = stored[w].tabs[j].from) <=> v = w
      <3>1. /\ giver[v] # 0 /\ giver[v] \in DOMAIN found /\ stored[v].tabs[i].from = found[giver[v]].from
            /\ giver[w] # 0 /\ giver[w] \in DOMAIN found /\ stored[w].tabs[j].from = found[giver[w]].from
        BY <1>1, <1>2
      <3>2. \A k, l \in DOMAIN found : found[k].from = found[l].from => k = l
        BY DEF WellFound
      <3>3. giver[v] = giver[w] => v = w
        BY <1>1, <1>2, <3>1
      <3>4. CASE v = w
        BY <3>1, <3>4
      <3>5. CASE v # w
        BY <3>1, <3>2, <3>3, <3>5
      <3> QED
        BY <3>4, <3>5
    <2> QED
      BY <1>4, <2>1 DEF TabsTogether
  <1> QED
    BY <1>5, <1>6, <1>7

\* A capture begins with the windows that are not excluded.
LEMMA EnumerateIs ==
    ASSUME CaptureAssumption, TypeInv, NEW o \in Requests, Enumerate(o)
    PROVE  /\ TypeInv' /\ snapshot' = None
           /\ OnceEach(windows') /\ \A w \in DOMAIN windows' : AsItIs(windows'[w]) /\ ~IsExcluded(windows'[w], o)
  <1> DEFINE P == {i \in DOMAIN Desktop : ~IsExcluded(Desktop[i], o)}
             d == Desktop
  <1>1. windows' = AtPlaces(d, P) /\ options' = o /\ stage' = "tabs" /\ calm' = TRUE /\ snapshot' = None
        /\ UNCHANGED <<kind, live, frame, focus, log, saved, past>>
    BY DEF Enumerate, browser
  <1>2. /\ d \in Seq(StoredWindows) /\ OnceEach(d)
        /\ \A i \in DOMAIN d : d[i].tabs = <<>> /\ AsItIs(d[i])
    BY DesktopIs DEF TypeInv
  <1>3. P \in SUBSET (DOMAIN d) /\ \A i \in P : ~IsExcluded(d[i], o)
    OBVIOUS
  <1> HIDE DEF P, d
  <1>4. DOMAIN d = 1..Len(d) /\ P \in SUBSET (1..Len(d))
    BY <1>2, <1>3
  <1>5. /\ AtPlaces(d, P) \in Seq(StoredWindows)
        /\ \A i \in DOMAIN AtPlaces(d, P) : \E j \in P : AtPlaces(d, P)[i] = d[j]
    BY <1>2, <1>3, SomeOf
  <1>6. /\ Cardinality(P) \in Nat /\ Len(AtPlaces(d, P)) = Cardinality(P)
        /\ Ascending(P) \in [1..Cardinality(P) -> P]
        /\ \A k \in 1..Cardinality(P) : AtPlaces(d, P)[k] = d[Ascending(P)[k]]
        /\ \A k, l \in 1..Cardinality(P) : k < l => Ascending(P)[k] < Ascending(P)[l]
    BY <1>2, <1>4, AtPlacesIs
  <1> DEFINE a == AtPlaces(d, P)
             order == Ascending(P)
             n == Cardinality(P)
  <1>7. DOMAIN a = 1..n
    BY <1>5, <1>6
  <1>8. /\ n \in Nat /\ order \in [1..n -> P] /\ \A k \in 1..n : a[k] = d[order[k]]
        /\ \A k, l \in 1..n : k < l => order[k] < order[l]
    BY <1>6
  <1>9. windows' = a /\ a \in Seq(StoredWindows) /\ \A i \in DOMAIN a : \E j \in P : a[i] = d[j]
    BY <1>1, <1>5
  <1> HIDE DEF a, order, n
  <1>10. \A i \in DOMAIN a : a[i].tabs = <<>> /\ AsItIs(a[i]) /\ ~IsExcluded(a[i], o)
    BY <1>2, <1>3, <1>9
  <1>11. OnceEach(a)
    <2>1. ASSUME NEW v \in DOMAIN a, NEW w \in DOMAIN a, a[v].browser # "none", a[w].browser # "none",
                 a[v].id = a[w].id
          PROVE  v = w
      <3>1. /\ v \in 1..n /\ w \in 1..n /\ order[v] \in P /\ order[w] \in P
            /\ a[v] = d[order[v]] /\ a[w] = d[order[w]]
        BY <1>7, <1>8
      <3>2. order[v] \in DOMAIN d /\ order[w] \in DOMAIN d
        BY <1>3, <3>1
      <3>3. order[v] = order[w]
        BY <1>2, <2>1, <3>1, <3>2 DEF OnceEach
      <3>4. order[v] \in Nat
        BY <1>4, <3>2
      <3> QED
        BY <1>8, <3>1, <3>3, <3>4, SMTT(30)
    <2> QED
      BY <2>1 DEF OnceEach
  <1>12. TypeInv'
    <2>1. stage' \in {"idle", "tabs"} /\ stage' # "idle" /\ options' \in Requests
      BY <1>1
    <2>2. windows' \in Seq(StoredWindows) /\ \A w \in DOMAIN windows' : windows'[w].tabs = <<>>
      BY <1>9, <1>10
    <2>3. /\ kind' \in Browsers /\ live' \in Browsing /\ frame' \in [Window -> Frame] /\ focus' \in Window
          /\ log' \in Seq(LogCommands) /\ past' \in Seq(Moments)
          /\ saved' \in 0..IF kind' = "chromium" THEN Len(log') ELSE Len(past')
      BY <1>1 DEF TypeInv
    <2>4. calm' \in BOOLEAN
      BY <1>1
    <2> QED
      BY <2>1, <2>2, <2>3, <2>4 DEF TypeInv
  <1> QED
    BY <1>1, <1>9, <1>10, <1>11, <1>12

\* What a step of the handler does.
LEMMA CapturesTyped ==
    ASSUME CaptureAssumption, SessionAssumption, TypeInv, Captures
    PROVE  TypeInv' /\ Rows' /\ TabsTogether'
  <1>1. snapshot' = None => Rows' /\ TabsTogether'
    BY DEF Rows, TabsTogether
  <1>2. ASSUME NEW o \in Requests, Enumerate(o) PROVE TypeInv' /\ snapshot' = None
    BY <1>2, EnumerateIs
  <1>3. ASSUME NEW o \in Requests, EnumerateFails(o) PROVE TypeInv' /\ snapshot' = None
    BY <1>3 DEF EnumerateFails, TypeInv, browser, history
  <1>4. CASE StoreWithoutTabs
    <2> DEFINE none == <<>>
    <2>1. none \in Seq(FoundWindows) /\ DOMAIN none = {}
      OBVIOUS
    <2>2. Stores(none, "none")
      BY <1>4 DEF StoreWithoutTabs
    <2> HIDE DEF none
    <2>3. WellFound(none, kind)
      BY <2>1 DEF WellFound
    <2> QED
      BY <2>2, <2>3, StoresIs
  <1>5. ASSUME NEW shows \in BOOLEAN, StoreExtensionTabs(shows) PROVE TypeInv' /\ Rows' /\ TabsTogether'
    <2>1. WellFound(ExtensionWindows(shows), kind)
      BY ExtensionIs DEF TypeInv
    <2>2. Stores(ExtensionWindows(shows), "extension")
      BY <1>5 DEF StoreExtensionTabs
    <2> QED
      BY <2>1, <2>2, StoresIs
  <1>6. CASE StoreSessionTabs
    <2>1. Stores(SessionWindows, "session")
      BY <1>6 DEF StoreSessionTabs
    <2> QED
      BY <2>1, SessionIs, StoresIs
  <1> QED
    BY <1>1, <1>2, <1>3, <1>4, <1>5, <1>6 DEF Captures

\* The inductive invariant of the types.
SnapshotInv == TypeInv /\ Rows /\ TabsTogether

LEMMA SnapshotAtFirst ==
    ASSUME CaptureAssumption, Init
    PROVE  SnapshotInv
  BY TypesAtFirst DEF SnapshotInv, Init, Rows, TabsTogether

LEMMA SnapshotKept ==
    ASSUME CaptureAssumption, SessionAssumption, SnapshotInv, [Next]_vars
    PROVE  SnapshotInv'
  <1>1. CASE Lives
    <2>1. TypeInv' /\ snapshot' = snapshot
      BY <1>1, LivesTyped DEF SnapshotInv
    <2>2. Rows'
      BY <2>1 DEF SnapshotInv, Rows
    <2>3. TabsTogether'
      BY <2>1 DEF SnapshotInv, TabsTogether
    <2> QED
      BY <2>1, <2>2, <2>3 DEF SnapshotInv
  <1>2. CASE Captures
    BY <1>2, CapturesTyped DEF SnapshotInv
  <1>3. CASE UNCHANGED vars
    <2>1. TypeInv'
      BY <1>3 DEF SnapshotInv, TypeInv, vars, browser, handler, history
    <2>2. Rows'
      BY <1>3 DEF SnapshotInv, Rows, vars, handler
    <2>3. TabsTogether'
      BY <1>3 DEF SnapshotInv, TabsTogether, vars, handler
    <2> QED
      BY <2>1, <2>2, <2>3 DEF SnapshotInv
  <1> QED
    BY <1>1, <1>2, <1>3 DEF Next

LEMMA SnapshotTypes ==
    ASSUME SnapshotInv, CaptureAssumption
    PROVE  TypeOK
  <1>1. live \in Browsing
    BY DEF SnapshotInv, TypeInv
  <1>2. DOMAIN live \subseteq Tab
    BY <1>1 DEF Browsing
  <1>3. \A t \in DOMAIN live : live[t].win \in Window /\ live[t].at \in DOMAIN live[t].pages
    BY <1>1, ATab
  <1>4. snapshot # None =>
            \A w \in DOMAIN snapshot.windows : \A i, j \in DOMAIN snapshot.windows[w].tabs :
                i < j => snapshot.windows[w].tabs[i].index < snapshot.windows[w].tabs[j].index
    BY DEF SnapshotInv, Rows, InARow
  <1>5. /\ frame \in [Window -> Frame] /\ focus \in Window
        /\ saved \in 0..IF kind = "chromium" THEN Len(log) ELSE Len(past)
        /\ stage \in {"idle", "tabs"} /\ options \in Requests \cup {None}
        /\ stage = "idle" => windows = <<>>
    BY DEF SnapshotInv, TypeInv
  <1>6. calm \in BOOLEAN
    BY DEF SnapshotInv, TypeInv
  <1> QED
    BY <1>2, <1>3, <1>4, <1>5, <1>6 DEF TypeOK

LEMMA SnapshotAlways == Spec => []SnapshotInv
  <1>1. CaptureAssumption /\ SessionAssumption
    BY CaptureAssumption, SessionAssumption
  <1>2. Init => SnapshotInv
    BY <1>1, SnapshotAtFirst
  <1>3. SnapshotInv /\ [Next]_vars => SnapshotInv'
    BY <1>1, SnapshotKept
  <1> QED
    BY <1>2, <1>3, PTL DEF Spec

\* However the tabs were read, given away and cleaned, the variables keep their types: a tab of
\* the browser is in one of its windows and shows one of its pages, the session file is no
\* longer than what was written, no window outlives a capture, and the tabs of a window of a
\* stored snapshot have ascending places, which is how the database orders them.
THEOREM TabsHavePlaces == Spec => []TypeOK
  <1>1. CaptureAssumption
    BY CaptureAssumption
  <1>2. SnapshotInv => TypeOK
    BY <1>1, SnapshotTypes
  <1> QED
    BY <1>2, SnapshotAlways, PTL

-----------------------------------------------------------------------------
(* Each window has its own tabs when the extension answered for those that were enumerated. *)

LEMMA DivIs ==
    ASSUME NEW a \in Nat, NEW b \in Nat \ {0}, NEW c \in Nat
    PROVE  /\ a \div b \in Nat
           /\ a < c * b => a \div b < c
           /\ a = c * b => a \div b = c
  <1> DEFINE q == a \div b
             r == a % b
  <1>1. q \in Int /\ r \in Int /\ a = b * q + r /\ 0 <= r /\ r < b
    OBVIOUS
  <1> HIDE DEF q, r
  <1>2. q >= 0
    <2>1. SUFFICES ASSUME q <= -1 PROVE FALSE
      BY <1>1
    <2>2. b * q <= b * (-1)
      BY <1>1, <2>1
    <2> QED
      BY <1>1, <2>2
  <1>3. a < c * b => q < c
    <2>1. SUFFICES ASSUME a < c * b, q >= c PROVE FALSE
      BY <1>1
    <2>2. b * q >= b * c
      BY <1>1, <2>1
    <2> QED
      BY <1>1, <2>1, <2>2
  <1>4. a = c * b => q = c
    <2>1. SUFFICES ASSUME a = c * b, q # c PROVE FALSE
      BY <1>1
    <2>2. CASE q >= c + 1
      <3>1. b * q >= b * (c + 1)
        BY <1>1, <2>2
      <3> QED
        BY <1>1, <2>1, <3>1
    <2>3. CASE q <= c - 1
      <3>1. b * q <= b * (c - 1)
        BY <1>1, <2>3
      <3> QED
        BY <1>1, <2>1, <3>1
    <2> QED
      BY <1>1, <2>1, <2>2, <2>3
  <1> QED
    BY <1>1, <1>2, <1>3, <1>4 DEF q

\* A window is nearest to itself.
LEMMA ProximityIs ==
    ASSUME NEW a \in Nat, NEW b \in Nat, NoFrame \notin {a, b}, Width \in Nat \ {0}
    PROVE  /\ Proximity(a, b) \in Nat
           /\ a = b => Proximity(a, b) = 1000
           /\ a # b => Proximity(a, b) < 1000
  <1> DEFINE d == IF a < b THEN b - a ELSE a - b
             left == Width - d
             all == Width + d
             p == (600 * left) \div all
             q == (400 * left) \div Width
  <1>1. Proximity(a, b) = IF d >= Width THEN 0 ELSE p + q
    BY DEF Proximity
  <1>2. d \in Nat /\ (a = b => d = 0) /\ (a # b => d >= 1)
    OBVIOUS
  <1>3. CASE d >= Width
    <2> HIDE DEF d, p, q
    <2> QED
      BY <1>1, <1>2, <1>3
  <1>4. CASE d < Width
    <2>1. /\ left \in Nat /\ all \in Nat \ {0} /\ 600 * left \in Nat /\ 400 * left \in Nat
          /\ 600 * left <= 600 * all /\ 400 * left <= 400 * Width
          /\ d = 0 => left = Width /\ all = Width
          /\ d >= 1 => 600 * left < 600 * all /\ 400 * left < 400 * Width
      BY <1>2, <1>4
    <2> HIDE DEF d, left, all
    <2>2. /\ p \in Nat /\ (600 * left < 600 * all => p < 600) /\ (600 * left = 600 * all => p = 600)
      BY <2>1, DivIs
    <2>3. /\ q \in Nat /\ (400 * left < 400 * Width => q < 400) /\ (400 * left = 400 * Width => q = 400)
      BY <2>1, DivIs
    <2> HIDE DEF p, q
    <2>4. Proximity(a, b) = p + q
      BY <1>1, <1>2, <1>4
    <2> QED
      BY <1>2, <2>1, <2>2, <2>3, <2>4
  <1> QED
    BY <1>3, <1>4, <1>2

\* The windows that were enumerated are those that were found, each where it was found.
Fitting(wins, found) ==
    /\ wins \in Seq(StoredWindows) /\ \A w \in DOMAIN wins : wins[w].tabs = <<>>
    /\ found \in Seq(FoundWindows) /\ OnceEach(wins)
    /\ \A i \in DOMAIN found : found[i].frame \in Frame
    /\ \A i, j \in DOMAIN found :
            \/ i = j
            \/ /\ found[i].from # found[j].from /\ found[i].frame # found[j].frame
               /\ ~(found[i].focused /\ found[j].focused)
    /\ \A w \in DOMAIN wins : wins[w].browser # "none" =>
            \E i \in DOMAIN found : /\ found[i].from = wins[w].id /\ found[i].browser = wins[w].browser
                                    /\ found[i].frame = wins[w].frame /\ found[i].focused = wins[w].focused
    /\ \A i \in DOMAIN found : \E w \in DOMAIN wins : wins[w].browser # "none" /\ found[i].from = wins[w].id

\* The windows up to the k-th have been given their own.
Settled(state, k, wins, found) ==
    /\ DOMAIN state.windows = DOMAIN wins
    /\ \A w \in DOMAIN wins :
        /\ state.windows[w] \in StoredWindows /\ Same(state.windows[w], wins[w])
        /\ \/ state.windows[w].tabs = <<>>
           \/ \E i \in DOMAIN found : found[i].from = wins[w].id /\ state.windows[w].tabs = found[i].tabs
    /\ state.consumed =
        {i \in DOMAIN found : \E w \in 1..k : wins[w].browser # "none" /\ wins[w].id = found[i].from}

LEMMA OwnIsBest ==
    ASSUME CaptureAssumption, NEW wins, NEW found, Fitting(wins, found), NEW window,
           NEW i \in DOMAIN found, NEW consumed,
           window.browser = found[i].browser, window.frame = found[i].frame, window.focused = found[i].focused,
           i \notin consumed
    PROVE  LET rivals == {j \in Free(found, consumed, window) : Score(window, found[j]) > Threshold}
           IN  {j \in rivals : \A k \in rivals : Score(window, found[j]) >= Score(window, found[k])} = {i}
  <1> DEFINE free == Free(found, consumed, window)
             score(j) == Score(window, found[j])
             near(j) == Proximity(window.frame, found[j].frame)
             bonus(j) == IF found[j].focused /\ window.focused THEN 1000 ELSE 0
             rivals == {j \in free : score(j) > Threshold}
  <1>1. free \subseteq DOMAIN found /\ i \in free
    BY DEF Free
  <1>2. \A j \in DOMAIN found : score(j) = 3 * near(j) + bonus(j)
    BY DEF Score
  <1>3. \A j \in DOMAIN found : found[j].frame \in Nat /\ found[j].frame # NoFrame
    BY ZenonT(60) DEF Fitting, CaptureAssumption
  <1>4. \A j \in DOMAIN found : j # i => found[j].frame # window.frame /\ ~(found[j].focused /\ window.focused)
    BY DEF Fitting
  <1>5. \A j \in DOMAIN found : near(j) \in Nat /\ (j = i => near(j) = 1000) /\ (j # i => near(j) < 1000)
    <2>1. ASSUME NEW j \in DOMAIN found PROVE near(j) \in Nat /\ (j = i => near(j) = 1000) /\ (j # i => near(j) < 1000)
      <3> DEFINE a == window.frame
                 b == found[j].frame
      <3>1. a \in Nat /\ b \in Nat /\ NoFrame \notin {a, b} /\ Width \in Nat \ {0}
        BY <1>3 DEF CaptureAssumption
      <3>2. (j = i => a = b) /\ (j # i => a # b)
        BY <1>4
      <3> HIDE DEF a, b
      <3>3. Proximity(a, b) \in Nat /\ (a = b => Proximity(a, b) = 1000) /\ (a # b => Proximity(a, b) < 1000)
        BY <3>1, ProximityIs
      <3>4. Proximity(a, b) \in Nat /\ (j = i => Proximity(a, b) = 1000) /\ (j # i => Proximity(a, b) < 1000)
        BY <3>2, <3>3
      <3> QED
        BY <3>4 DEF a, b
    <2> HIDE DEF near
    <2> QED
      BY <2>1
  <1>6. \A j \in DOMAIN found : bonus(j) \in Nat /\ (j # i => bonus(j) = 0)
    BY <1>4
  <1> HIDE DEF near, bonus, score
  <1>7. score(i) \in Nat /\ score(i) >= 3000
    BY <1>2, <1>5, <1>6
  <1>8. \A j \in DOMAIN found : j # i => score(j) \in Nat /\ score(j) < 3000
    BY <1>2, <1>5, <1>6
  <1>9. \A j \in DOMAIN found : score(j) \in Nat
    BY <1>7, <1>8
  <1> HIDE DEF free
  <1>10. i \in rivals /\ rivals \subseteq DOMAIN found
    BY <1>1, <1>7 DEF Threshold
  <1> HIDE DEF rivals
  <1>11. {j \in rivals : \A k \in rivals : score(j) >= score(k)} = {i}
    BY <1>7, <1>8, <1>9, <1>10
  <1> QED
    BY <1>11 DEF rivals, score, free

LEMMA SettledTurn ==
    ASSUME CaptureAssumption, NEW wins, NEW found, Fitting(wins, found), NEW state, NEW k \in Nat,
           k + 1 \in DOMAIN wins, Settled(state, k, wins, found)
    PROVE  Settled(ByGeometry(found, state, k + 1), k + 1, wins, found)
  <1> DEFINE w == k + 1
             window == state.windows[w]
             free == Free(found, state.consumed, window)
             rivals == {j \in free : Score(window, found[j]) > Threshold}
             best == {j \in rivals : \A l \in rivals : Score(window, found[j]) >= Score(window, found[l])}
             next == ByGeometry(found, state, w)
  <1>1. next = IF best = {} THEN state ELSE Give(state, w, found, Min(best))
    BY DEF ByGeometry
  <1>2. /\ w \in DOMAIN wins /\ w \in Nat /\ wins \in Seq(StoredWindows) /\ 1..w = 1..k \cup {w}
        /\ \A v \in 1..k : v \in DOMAIN wins /\ v # w
    BY DEF Fitting
  <1>3. /\ DOMAIN state.windows = DOMAIN wins
        /\ \A v \in DOMAIN wins :
            /\ state.windows[v] \in StoredWindows /\ Same(state.windows[v], wins[v])
            /\ \/ state.windows[v].tabs = <<>>
               \/ \E i \in DOMAIN found : found[i].from = wins[v].id /\ state.windows[v].tabs = found[i].tabs
    BY DEF Settled
  <1>4. state.consumed = {i \in DOMAIN found : \E v \in 1..k : wins[v].browser # "none" /\ wins[v].id = found[i].from}
    BY DEF Settled
  <1>5. \A i \in DOMAIN found : found[i] \in FoundWindows /\ i \in Nat
    BY DEF Fitting
  <1>6. window \in StoredWindows /\ Same(window, wins[w])
    BY <1>2, <1>3
  <1> HIDE DEF w, window
  <1>7. CASE wins[w].browser = "none"
    <2>1. free = {}
      <3>1. window.browser = "none"
        BY <1>6, <1>7 DEF Same
      <3>2. \A i \in DOMAIN found : found[i].browser \in {"chromium", "firefox"}
        BY <1>5 DEF FoundWindows
      <3> QED
        BY <3>1, <3>2 DEF Free
    <2> HIDE DEF free
    <2>2. best = {}
      BY <2>1
    <2> HIDE DEF best
    <2>3. next = state
      BY <1>1, <2>2
    <2>4. state.consumed = {i \in DOMAIN found : \E v \in 1..w : wins[v].browser # "none" /\ wins[v].id = found[i].from}
      BY <1>2, <1>4, <1>7
    <2> HIDE DEF next
    <2>5. Settled(next, w, wins, found)
      BY <1>3, <2>3, <2>4 DEF Settled
    <2> QED
      BY <2>5 DEF next, w
  <1>8. CASE wins[w].browser # "none"
    <2>1. PICK i \in DOMAIN found : /\ found[i].from = wins[w].id /\ found[i].browser = wins[w].browser
                                    /\ found[i].frame = wins[w].frame /\ found[i].focused = wins[w].focused
      BY <1>2, <1>8 DEF Fitting
    <2>2. i \notin state.consumed
      BY <1>2, <1>4, <1>8, <2>1 DEF Fitting, OnceEach
    <2>3. window.browser = found[i].browser /\ window.frame = found[i].frame /\ window.focused = found[i].focused
      BY <1>6, <2>1 DEF Same
    <2>4. best = {i}
      BY <2>2, <2>3, OwnIsBest
    <2> HIDE DEF best
    <2>5. best # {} /\ Min(best) = i
      <3>1. best \in SUBSET Nat /\ best # {}
        BY <1>5, <2>4
      <3> QED
        BY <2>4, <3>1, MinIs
    <2>6. next = Give(state, w, found, i)
      BY <1>1, <2>5
    <2> HIDE DEF next
    <2>7. next.windows = [state.windows EXCEPT ![w].tabs = found[i].tabs] /\ next.consumed = state.consumed \cup {i}
      BY <2>6 DEF Give
    <2>8. /\ DOMAIN next.windows = DOMAIN wins /\ next.windows[w] = [window EXCEPT !.tabs = found[i].tabs]
          /\ \A v \in DOMAIN wins : v # w => next.windows[v] = state.windows[v]
      BY <1>2, <1>3, <2>7 DEF window
    <2>9. /\ next.windows[w] \in StoredWindows /\ Same(next.windows[w], wins[w])
          /\ next.windows[w].tabs = found[i].tabs
      <3> DEFINE tabs == found[i].tabs
      <3>1. tabs \in Seq(TabRecords)
        BY <1>5 DEF FoundWindows
      <3>2. next.windows[w] = [window EXCEPT !.tabs = tabs]
        BY <2>8
      <3> HIDE DEF tabs
      <3>3. next.windows[w] \in StoredWindows /\ next.windows[w].tabs = tabs /\ Same(next.windows[w], window)
        BY <1>6, <3>1, <3>2, WindowWith
      <3>4. Same(next.windows[w], wins[w])
        BY <1>6, <3>3 DEF Same
      <3> QED
        BY <3>3, <3>4 DEF tabs
    <2>10. \A j \in DOMAIN found : found[j].from = wins[w].id => j = i
      BY <2>1 DEF Fitting
    <2>11. next.consumed = {j \in DOMAIN found : \E v \in 1..w : wins[v].browser # "none" /\ wins[v].id = found[j].from}
      BY <1>2, <1>4, <1>8, <2>1, <2>7, <2>10
    <2>12. ASSUME NEW v \in DOMAIN wins
           PROVE  /\ next.windows[v] \in StoredWindows /\ Same(next.windows[v], wins[v])
                  /\ \/ next.windows[v].tabs = <<>>
                     \/ \E j \in DOMAIN found : found[j].from = wins[v].id /\ next.windows[v].tabs = found[j].tabs
      <3>1. CASE v = w
        BY <2>1, <2>9, <3>1
      <3>2. CASE v # w
        BY <1>3, <2>8, <3>2
      <3> QED
        BY <3>1, <3>2
    <2>13. Settled(next, w, wins, found)
      BY <2>8, <2>11, <2>12 DEF Settled
    <2> QED
      BY <2>13 DEF next, w
  <1> QED
    BY <1>7, <1>8

LEMMA OwnWindows ==
    ASSUME CaptureAssumption, NEW wins, NEW found, Fitting(wins, found)
    PROVE  Settled(SecondPass(found, wins)[Len(wins)], Len(wins), wins, found)
  <1> DEFINE n == Len(wins)
             f == FirstPass(found, wins)
             s == SecondPass(found, wins)
             First == {k \in Nat : k <= n => Settled(f[k], k, wins, found)}
             Second == {k \in Nat : k <= n => s[k] = f[n]}
  <1>1. n \in Nat /\ DOMAIN wins = 1..n /\ wins \in Seq(StoredWindows)
    BY DEF Fitting
  <1>2. /\ f[0] = [windows |-> wins, consumed |-> {}]
        /\ \A k \in 1..n : f[k] = ByGeometry(found, f[k - 1], k)
    BY <1>1, FirstPassIs
  <1>3. /\ s[0] = f[n]
        /\ \A k \in 1..n : s[k] = ByOrder(found, s[k - 1], k)
    BY <1>1, SecondPassIs
  <1> HIDE DEF n, f, s
  <1>4. Nat \subseteq First
    <2>1. 0 \in First
      <3>1. f[0].windows = wins /\ f[0].consumed = {}
        BY <1>2
      <3>2. \A w \in DOMAIN wins : wins[w] \in StoredWindows /\ Same(wins[w], wins[w]) /\ wins[w].tabs = <<>>
        BY <1>1 DEF Same, Fitting
      <3>3. 1..0 = {}
        OBVIOUS
      <3>4. f[0].consumed = {i \in DOMAIN found : \E v \in 1..0 : wins[v].browser # "none" /\ wins[v].id = found[i].from}
        BY <3>1, <3>3
      <3>5. Settled(f[0], 0, wins, found)
        BY <3>1, <3>2, <3>4 DEF Settled
      <3> QED
        BY <3>5
    <2>2. ASSUME NEW k \in Nat, k \in First PROVE k + 1 \in First
      <3>1. CASE k + 1 <= n
        <4>1. k + 1 \in 1..n /\ (k + 1) - 1 = k /\ k <= n
          BY <1>1, <3>1
        <4>2. f[k + 1] = ByGeometry(found, f[k], k + 1) /\ k + 1 \in DOMAIN wins
          BY <1>1, <1>2, <4>1
        <4>3. Settled(f[k], k, wins, found)
          BY <2>2, <4>1
        <4>4. Settled(ByGeometry(found, f[k], k + 1), k + 1, wins, found)
          BY <4>2, <4>3, SettledTurn
        <4>5. Settled(f[k + 1], k + 1, wins, found)
          BY <4>2, <4>4
        <4> QED
          BY <4>5
      <3>2. CASE ~(k + 1 <= n)
        BY <3>2
      <3> QED
        BY <3>1, <3>2
    <2> HIDE DEF First
    <2> QED
      BY <2>1, <2>2, SetInduction
  <1>5. Settled(f[n], n, wins, found)
    <2>1. n \in First /\ n <= n
      BY <1>1, <1>4
    <2> QED
      BY <2>1
  <1>6. f[n].consumed = DOMAIN found
    <2>1. f[n].consumed = {i \in DOMAIN found : \E w \in 1..n : wins[w].browser # "none" /\ wins[w].id = found[i].from}
      BY <1>5 DEF Settled
    <2>2. \A i \in DOMAIN found : \E w \in DOMAIN wins : wins[w].browser # "none" /\ found[i].from = wins[w].id
      BY DEF Fitting
    <2>3. \A i \in DOMAIN found : \E w \in 1..n : wins[w].browser # "none" /\ wins[w].id = found[i].from
      BY <1>1, <2>2
    <2> QED
      BY <2>1, <2>3
  <1>7. \A k \in 1..n : ByOrder(found, f[n], k) = f[n]
    <2>1. \A window : Free(found, f[n].consumed, window) = {}
      BY <1>6 DEF Free
    <2> QED
      BY <2>1 DEF ByOrder
  <1>8. Nat \subseteq Second
    <2>1. 0 \in Second
      BY <1>3
    <2>2. ASSUME NEW k \in Nat, k \in Second PROVE k + 1 \in Second
      <3>1. CASE k + 1 <= n
        <4>1. k + 1 \in 1..n /\ (k + 1) - 1 = k /\ k <= n
          BY <1>1, <3>1
        <4>2. s[k + 1] = ByOrder(found, s[k], k + 1) /\ s[k] = f[n]
          BY <1>3, <2>2, <4>1
        <4> QED
          BY <1>7, <4>1, <4>2
      <3>2. CASE ~(k + 1 <= n)
        BY <3>2
      <3> QED
        BY <3>1, <3>2
    <2> HIDE DEF Second
    <2> QED
      BY <2>1, <2>2, SetInduction
  <1>9. s[n] = f[n]
    BY <1>1, <1>8
  <1> QED
    BY <1>5, <1>9 DEF n, s

\* The extension tells where the windows are and which has the focus as they are now.
LEMMA ExtensionLooks ==
    ASSUME CaptureAssumption, NEW shows
    PROVE  \A i \in DOMAIN ExtensionWindows(shows) :
             LET window == ExtensionWindows(shows)[i]
             IN  /\ window.from \in Window /\ window.frame = frame[window.from]
                 /\ window.focused = (window.from = focus)
  <1> DEFINE S == {w \in Window : TabsIn(live, w) # <<>> /\ (shows \/ w \notin Private)}
             sent == Ascending(S)
             found == ExtensionWindows(shows)
  <1>1. S \in SUBSET Window /\ DOMAIN found = DOMAIN sent
    BY DEF ExtensionWindows
  <1>2. \A i \in DOMAIN found : /\ found[i].from = sent[i] /\ found[i].frame = frame[sent[i]]
                                /\ found[i].focused = (sent[i] = focus)
    BY DEF ExtensionWindows, BrowserWindow
  <1>3. S \in SUBSET Nat /\ IsFiniteSet(S)
    BY <1>1, SomeWindows
  <1>4. sent \in [1..Cardinality(S) -> S]
    BY <1>3, AscendingIs
  <1> HIDE DEF S, sent, found
  <1>5. \A i \in DOMAIN found : sent[i] \in Window
    BY <1>1, <1>4
  <1>6. \A i \in DOMAIN found : /\ found[i].from \in Window /\ found[i].frame = frame[found[i].from]
                                /\ found[i].focused = (found[i].from = focus)
    BY <1>2, <1>5
  <1> QED
    BY <1>6 DEF found

\* The windows that were enumerated when the browser was as it is, and the extension answers for them.
LEMMA AnswersFit ==
    ASSUME CaptureAssumption, TypeInv, OnceEach(windows), \A w \in DOMAIN windows : AsItIs(windows[w]),
           NEW shows, NEW o, NEW found, found = ExtensionWindows(shows),
           \A i, j \in DOMAIN found : i # j => found[i].frame # found[j].frame,
           \A i \in DOMAIN found : \E w \in DOMAIN windows :
               windows[w].browser # "none" /\ windows[w].id = found[i].from,
           \A w \in DOMAIN windows : windows[w].browser # "none" =>
               \E i \in DOMAIN found : found[i].from = windows[w].id
    PROVE  Fitting(windows, Lent(found, o))
  <1> DEFINE lent == Lent(found, o)
  <1>1. windows \in Seq(StoredWindows) /\ \A w \in DOMAIN windows : windows[w].tabs = <<>>
    BY DEF TypeInv
  <1>2. WellFound(found, kind)
    BY ExtensionIs DEF TypeInv
  <1>3. /\ lent \in Seq(FoundWindows) /\ DOMAIN lent = DOMAIN found
        /\ \A i \in DOMAIN found :
            /\ lent[i].from = found[i].from /\ lent[i].browser = found[i].browser
            /\ lent[i].frame = found[i].frame /\ lent[i].focused = found[i].focused
    <2>1. Trimmed(lent, found, o)
      BY <1>2, LentIs
    <2> HIDE DEF lent
    <2> QED
      BY <2>1 DEF Trimmed
  <1>4. \A i \in DOMAIN found : /\ found[i].from \in Window /\ found[i].frame = frame[found[i].from]
                                /\ found[i].focused = (found[i].from = focus)
    BY ExtensionLooks
  <1>5. /\ \A i \in DOMAIN found : found[i].browser = kind
        /\ \A i, j \in DOMAIN found : found[i].from = found[j].from => i = j
    BY <1>2 DEF WellFound
  <1> HIDE DEF lent
  <1>6. \A i \in DOMAIN lent : lent[i].frame \in Frame
    <2>1. ASSUME NEW i \in DOMAIN lent PROVE lent[i].frame \in Frame
      <3>1. i \in DOMAIN found /\ lent[i].frame = found[i].frame
        BY <1>3
      <3>2. found[i].from \in Window /\ found[i].frame = frame[found[i].from]
        BY <1>4, <3>1
      <3>3. frame \in [Window -> Frame]
        BY DEF TypeInv
      <3> QED
        BY <3>1, <3>2, <3>3
    <2> QED
      BY <2>1
  <1>7. ASSUME NEW i \in DOMAIN lent, NEW j \in DOMAIN lent, i # j
        PROVE  /\ lent[i].from # lent[j].from /\ lent[i].frame # lent[j].frame
               /\ ~(lent[i].focused /\ lent[j].focused)
    <2>1. i \in DOMAIN found /\ j \in DOMAIN found
      BY <1>3
    <2>2. found[i].from # found[j].from /\ found[i].frame # found[j].frame
      BY <1>5, <1>7, <2>1
    <2>3. ~(found[i].focused /\ found[j].focused)
      <3>1. found[i].focused = (found[i].from = focus) /\ found[j].focused = (found[j].from = focus)
        BY <1>4, <2>1
      <3> QED
        BY <2>2, <3>1
    <2>4. lent[i].focused = found[i].focused /\ lent[j].focused = found[j].focused
      BY <1>3, <2>1
    <2> QED
      BY <1>3, <2>1, <2>2, <2>3, <2>4
  <1>8. ASSUME NEW w \in DOMAIN windows, windows[w].browser # "none"
        PROVE  \E i \in DOMAIN lent : /\ lent[i].from = windows[w].id /\ lent[i].browser = windows[w].browser
                                      /\ lent[i].frame = windows[w].frame /\ lent[i].focused = windows[w].focused
    <2>1. PICK i \in DOMAIN found : found[i].from = windows[w].id
      BY <1>8
    <2>2. /\ windows[w].browser = kind /\ windows[w].frame = frame[windows[w].id]
          /\ windows[w].focused = (windows[w].id = focus)
      BY <1>8 DEF AsItIs
    <2>3. found[i].focused = windows[w].focused
      BY <1>4, <2>1, <2>2
    <2>4. found[i].frame = windows[w].frame /\ found[i].browser = windows[w].browser
      BY <1>4, <1>5, <2>1, <2>2
    <2>5. /\ i \in DOMAIN lent /\ lent[i].from = found[i].from /\ lent[i].browser = found[i].browser
          /\ lent[i].frame = found[i].frame /\ lent[i].focused = found[i].focused
      BY <1>3, <2>1
    <2> QED
      BY <2>1, <2>3, <2>4, <2>5
  <1>9. ASSUME NEW i \in DOMAIN lent
        PROVE  \E w \in DOMAIN windows : windows[w].browser # "none" /\ lent[i].from = windows[w].id
    <2>1. i \in DOMAIN found /\ lent[i].from = found[i].from
      BY <1>3
    <2> QED
      BY <2>1
  <1>10. Fitting(windows, lent)
    BY <1>1, <1>3, <1>6, <1>7, <1>8, <1>9 DEF Fitting
  <1> QED
    BY <1>10 DEF lent

\* What is then stored is stored where it belongs.
LEMMA StoredWhereItBelongs ==
    ASSUME CaptureAssumption, TypeInv, NEW found, NEW program, WellFound(found, program),
           Fitting(windows, Lent(found, options))
    PROVE  LET stored == Sanitize(Attached(found, windows, options), options)
           IN  \A w \in DOMAIN stored : \A i \in DOMAIN stored[w].tabs : stored[w].tabs[i].from = windows[w].id
  <1> DEFINE lent == Lent(found, options)
             a == Attached(found, windows, options)
             stored == Sanitize(a, options)
             n == Len(windows)
             state == SecondPass(lent, windows)[n]
  <1>1. windows \in Seq(StoredWindows) /\ \A w \in DOMAIN windows : windows[w].tabs = <<>>
    BY DEF TypeInv
  <1>2. WellFound(found, program)
    OBVIOUS
  <1>3. Given(a, windows, found, options)
    BY <1>1, <1>2, AttachedIs
  <1>4. Settled(state, n, windows, lent)
    BY OwnWindows
  <1>5. found # <<>> => a = state.windows
    BY DEF Attached, AttachBrowserTabs, AttachTabsToWindows, Lent
  <1>6. found = <<>> => a = windows
    BY DEF Attached
  <1>7. /\ lent \in Seq(FoundWindows) /\ DOMAIN lent = DOMAIN found
        /\ \A i \in DOMAIN found : /\ lent[i].from = found[i].from
                                   /\ \A j \in DOMAIN lent[i].tabs : lent[i].tabs[j].from = found[i].from
    <2>1. Trimmed(lent, found, options)
      BY <1>2, LentIs
    <2> HIDE DEF lent
    <2> QED
      BY <2>1 DEF Trimmed
  <1> HIDE DEF lent, a, state
  <1>8. /\ a \in Seq(StoredWindows) /\ DOMAIN a = DOMAIN windows
        /\ \A w \in DOMAIN windows : InARow(a[w].tabs) /\ \A i \in DOMAIN a[w].tabs : ~a[w].tabs[i].sanitized
    BY <1>3 DEF Given
  <1>9. /\ stored \in Seq(StoredWindows) /\ DOMAIN stored = DOMAIN a
        /\ \A w \in DOMAIN a : \A i \in DOMAIN stored[w].tabs :
                \E j \in DOMAIN a[w].tabs : stored[w].tabs[i].from = a[w].tabs[j].from
    <2>1. \A w \in DOMAIN a : InARow(a[w].tabs) /\ \A i \in DOMAIN a[w].tabs : ~a[w].tabs[i].sanitized
      BY <1>8
    <2>2. /\ stored \in Seq(StoredWindows) /\ DOMAIN stored = DOMAIN a
          /\ \A w \in DOMAIN a :
                /\ Same(stored[w], a[w]) /\ InARow(stored[w].tabs)
                /\ \A i \in DOMAIN stored[w].tabs :
                    /\ \E j \in DOMAIN a[w].tabs : stored[w].tabs[i].from = a[w].tabs[j].from
                    /\ options.sanitize => Safe(stored[w].tabs[i]) /\ ~Listed(stored[w].tabs[i], options)
      BY <1>8, <2>1, SanitizeIs
    <2> HIDE DEF stored
    <2> QED
      BY <2>2
  <1> HIDE DEF stored
  <1>10. ASSUME NEW w \in DOMAIN windows, NEW j \in DOMAIN a[w].tabs PROVE a[w].tabs[j].from = windows[w].id
    <2>1. CASE found = <<>>
      <3>1. a[w].tabs = <<>>
        BY <1>1, <1>6, <2>1
      <3>2. DOMAIN a[w].tabs = {}
        BY <3>1
      <3> QED
        BY <1>10, <3>2
    <2>2. CASE found # <<>>
      <3>1. a[w].tabs = <<>> \/ \E i \in DOMAIN lent : lent[i].from = windows[w].id /\ a[w].tabs = lent[i].tabs
        BY <1>4, <1>5, <2>2 DEF Settled
      <3>2. a[w].tabs # <<>>
        <4>1. a[w].tabs = <<>> => DOMAIN a[w].tabs = {}
          OBVIOUS
        <4> QED
          BY <1>10, <4>1
      <3>3. PICK i \in DOMAIN lent : lent[i].from = windows[w].id /\ a[w].tabs = lent[i].tabs
        BY <3>1, <3>2
      <3> QED
        BY <1>7, <1>10, <3>3
    <2> QED
      BY <2>1, <2>2
  <1>11. \A w \in DOMAIN stored : \A i \in DOMAIN stored[w].tabs : stored[w].tabs[i].from = windows[w].id
    <2>1. ASSUME NEW w \in DOMAIN stored, NEW i \in DOMAIN stored[w].tabs
          PROVE  stored[w].tabs[i].from = windows[w].id
      <3>1. w \in DOMAIN a /\ w \in DOMAIN windows
        BY <1>8, <1>9
      <3>2. PICK j \in DOMAIN a[w].tabs : stored[w].tabs[i].from = a[w].tabs[j].from
        BY <1>9, <3>1
      <3> QED
        BY <1>10, <3>1, <3>2
    <2> QED
      BY <2>1
  <1> QED
    BY <1>11 DEF stored, a

\* While nothing is done in the browser the windows stay as they were enumerated.
WhileCalm == (stage = "tabs" /\ calm) => OnceEach(windows) /\ \A w \in DOMAIN windows : AsItIs(windows[w])

\* Correlated and TabsAreTheirs, of any snapshot.
CorrelatedAt(s) ==
    /\ s # None /\ s.source = "extension" /\ s.calm
    /\ \A i, j \in DOMAIN s.found : i # j => s.found[i].frame # s.found[j].frame
    /\ {s.found[i].from : i \in DOMAIN s.found} =
       {s.windows[w].id : w \in {v \in DOMAIN s.windows : s.windows[v].browser # "none"}}

Theirs(s) == CorrelatedAt(s) => \A w \in DOMAIN s.windows : \A i \in DOMAIN s.windows[w].tabs :
                                    s.windows[w].tabs[i].from = s.windows[w].id

LEMMA CorrelatedIs ==
    ASSUME NEW s, CorrelatedAt(s)
    PROVE  /\ s.source = "extension" /\ s.calm
           /\ \A i, j \in DOMAIN s.found : i # j => s.found[i].frame # s.found[j].frame
           /\ \A i \in DOMAIN s.found : \E w \in DOMAIN s.windows :
                    s.windows[w].browser # "none" /\ s.windows[w].id = s.found[i].from
           /\ \A w \in DOMAIN s.windows : s.windows[w].browser # "none" =>
                    \E i \in DOMAIN s.found : s.found[i].from = s.windows[w].id
  <1> DEFINE A == {s.found[i].from : i \in DOMAIN s.found}
             B == {s.windows[w].id : w \in {v \in DOMAIN s.windows : s.windows[v].browser # "none"}}
  <1>1. A = B
    BY DEF CorrelatedAt
  <1>2. \A i \in DOMAIN s.found : s.found[i].from \in A
    OBVIOUS
  <1>3. \A x \in B : \E w \in DOMAIN s.windows : s.windows[w].browser # "none" /\ s.windows[w].id = x
    OBVIOUS
  <1>4. \A w \in DOMAIN s.windows : s.windows[w].browser # "none" => s.windows[w].id \in B
    OBVIOUS
  <1>5. \A x \in A : \E i \in DOMAIN s.found : s.found[i].from = x
    OBVIOUS
  <1> HIDE DEF A, B
  <1>6. \A i \in DOMAIN s.found : \E w \in DOMAIN s.windows :
                    s.windows[w].browser # "none" /\ s.windows[w].id = s.found[i].from
    BY <1>1, <1>2, <1>3
  <1>7. \A w \in DOMAIN s.windows : s.windows[w].browser # "none" =>
                    \E i \in DOMAIN s.found : s.found[i].from = s.windows[w].id
    BY <1>1, <1>4, <1>5
  <1>8. /\ s.source = "extension" /\ s.calm
        /\ \A i, j \in DOMAIN s.found : i # j => s.found[i].frame # s.found[j].frame
    BY DEF CorrelatedAt
  <1> QED
    BY <1>6, <1>7, <1>8

LEMMA StoresTheirs ==
    ASSUME CaptureAssumption, SessionAssumption, TypeInv, WhileCalm, NEW shows, StoreExtensionTabs(shows)
    PROVE  Theirs(snapshot')
  <1> DEFINE found == ExtensionWindows(shows)
             stored == Sanitize(Attached(found, windows, options), options)
             record == [stored |-> Storable(stored), windows |-> stored, source |-> "extension",
                        found |-> found, options |-> options, calm |-> calm]
  <1>1. WellFound(found, kind)
    BY ExtensionIs DEF TypeInv
  <1>2. stage = "tabs" /\ snapshot' = record
    BY DEF StoreExtensionTabs, Stores, AsksBridge, Attached
  <1>3. /\ stored \in Seq(StoredWindows) /\ DOMAIN stored = DOMAIN windows
        /\ \A w \in DOMAIN windows : Same(stored[w], windows[w])
    <2>1. stored \in Seq(StoredWindows) /\ DOMAIN stored = DOMAIN windows
      BY <1>1, StoredAre
    <2>2. PICK giver \in [DOMAIN windows -> DOMAIN found \cup {0}] :
            /\ \A v, w \in DOMAIN windows : (giver[v] = giver[w] /\ giver[v] # 0) => v = w
            /\ \A w \in DOMAIN windows :
                /\ Same(stored[w], windows[w]) /\ InARow(stored[w].tabs)
                /\ \A i \in DOMAIN stored[w].tabs :
                    /\ giver[w] # 0 /\ stored[w].tabs[i].from = found[giver[w]].from
                    /\ stored[w].tabs[i].from \in Private => options.incognito
                    /\ options.sanitize => Safe(stored[w].tabs[i]) /\ ~Listed(stored[w].tabs[i], options)
      BY <1>1, StoredAre
    <2> HIDE DEF stored
    <2> QED
      BY <2>1, <2>2
  <1>4. \A i \in DOMAIN windows : windows[i].id = stored[i].id /\ windows[i].browser = stored[i].browser
    <2> HIDE DEF stored
    <2> QED
      BY <1>3 DEF Same
  <1>5. Fitting(windows, Lent(found, options)) =>
            \A w \in DOMAIN stored : \A i \in DOMAIN stored[w].tabs : stored[w].tabs[i].from = windows[w].id
    BY <1>1, StoredWhereItBelongs
  <1> HIDE DEF stored
  <1>6. /\ snapshot'.windows = stored /\ snapshot'.calm = calm /\ snapshot'.found = found
    <2> HIDE DEF found
    <2> QED
      BY <1>2
  <1> HIDE DEF record
  <1>7. ASSUME CorrelatedAt(snapshot') PROVE Fitting(windows, Lent(found, options))
    <2> DEFINE read == found
    <2>1. read = ExtensionWindows(shows)
      OBVIOUS
    <2>2. snapshot'.found = read
      BY <1>6
    <2> HIDE DEF read
    <2>3. /\ snapshot'.calm
          /\ \A i, j \in DOMAIN snapshot'.found : i # j => snapshot'.found[i].frame # snapshot'.found[j].frame
          /\ \A i \in DOMAIN snapshot'.found : \E w \in DOMAIN snapshot'.windows :
                    snapshot'.windows[w].browser # "none" /\ snapshot'.windows[w].id = snapshot'.found[i].from
          /\ \A w \in DOMAIN snapshot'.windows : snapshot'.windows[w].browser # "none" =>
                    \E i \in DOMAIN snapshot'.found : snapshot'.found[i].from = snapshot'.windows[w].id
      BY <1>7, CorrelatedIs
    <2>4. calm /\ \A i, j \in DOMAIN read : i # j => read[i].frame # read[j].frame
      BY <1>6, <2>2, <2>3
    <2>5. \A i \in DOMAIN read : \E w \in DOMAIN windows :
                windows[w].browser # "none" /\ windows[w].id = read[i].from
      <3>1. \A i \in DOMAIN read : \E w \in DOMAIN stored :
                stored[w].browser # "none" /\ stored[w].id = read[i].from
        BY <1>6, <2>2, <2>3
      <3> QED
        BY <1>3, <1>4, <3>1
    <2>6. \A w \in DOMAIN windows : windows[w].browser # "none" =>
                \E i \in DOMAIN read : read[i].from = windows[w].id
      <3>1. \A w \in DOMAIN stored : stored[w].browser # "none" =>
                \E i \in DOMAIN read : read[i].from = stored[w].id
        BY <1>6, <2>2, <2>3
      <3> QED
        BY <1>3, <1>4, <3>1
    <2>7. OnceEach(windows) /\ \A w \in DOMAIN windows : AsItIs(windows[w])
      BY <1>2, <2>4 DEF WhileCalm
    <2>8. Fitting(windows, Lent(read, options))
      BY <2>1, <2>4, <2>5, <2>6, <2>7, AnswersFit
    <2> QED
      BY <2>8 DEF read
  <1> HIDE DEF found
  <1>8. ASSUME CorrelatedAt(snapshot'), NEW w \in DOMAIN stored, NEW i \in DOMAIN stored[w].tabs
        PROVE  stored[w].tabs[i].from = stored[w].id
    <2>1. stored[w].tabs[i].from = windows[w].id
      BY <1>5, <1>7, <1>8
    <2>2. windows[w].id = stored[w].id
      BY <1>3, <1>4
    <2> QED
      BY <2>1, <2>2
  <1> QED
    BY <1>6, <1>8 DEF Theirs

\* A snapshot that has no answer of the extension is not correlated.
LEMMA OthersTheirs ==
    ASSUME NEW found, NEW source, Stores(found, source), source # "extension"
    PROVE  Theirs(snapshot')
  <1> DEFINE stored == Sanitize(IF found = <<>> THEN windows
                                ELSE AttachBrowserTabs(found, windows, options), options)
             may == Storable(stored)
  <1>1. snapshot' = [stored |-> may, windows |-> stored, source |-> source,
                     found |-> found, options |-> options, calm |-> calm]
    BY DEF Stores
  <1> HIDE DEF stored, may
  <1>2. snapshot'.source = source
    BY <1>1
  <1> QED
    BY <1>2, CorrelatedIs DEF Theirs

\* The inductive invariant of TabsAreTheirs.
TheirsInv == SnapshotInv /\ WhileCalm /\ Theirs(snapshot)

LEMMA TheirsKept ==
    ASSUME CaptureAssumption, SessionAssumption, TheirsInv, [Next]_vars
    PROVE  TheirsInv'
  <1>1. SnapshotInv'
    BY SnapshotKept DEF TheirsInv
  <1>2. TypeInv
    BY DEF TheirsInv, SnapshotInv
  <1>3. snapshot' = None => Theirs(snapshot')
    BY DEF Theirs, CorrelatedAt
  <1>4. stage' # "tabs" => WhileCalm'
    BY DEF WhileCalm
  <1>5. CASE Lives
    <2>1. /\ snapshot' = snapshot /\ kind' = kind /\ windows' = windows /\ stage' = stage
          /\ (calm' /\ stage = "tabs") => calm /\ UNCHANGED <<live, frame, focus>>
      BY <1>2, <1>5, LivesTyped
    <2>2. Theirs(snapshot')
      BY <2>1 DEF TheirsInv
    <2>3. WhileCalm'
      <3>1. SUFFICES ASSUME stage' = "tabs", calm'
                     PROVE  OnceEach(windows)' /\ \A w \in DOMAIN windows' : AsItIs(windows[w])'
        BY DEF WhileCalm
      <3>2. calm /\ UNCHANGED <<live, frame, focus>> /\ stage = "tabs"
        BY <2>1, <3>1
      <3>3. OnceEach(windows) /\ \A w \in DOMAIN windows : AsItIs(windows[w])
        BY <3>2 DEF TheirsInv, WhileCalm
      <3> QED
        BY <2>1, <3>2, <3>3 DEF OnceEach, AsItIs
    <2> QED
      BY <1>1, <2>2, <2>3 DEF TheirsInv
  <1>6. ASSUME NEW o \in Requests, Enumerate(o) PROVE Theirs(snapshot') /\ WhileCalm'
    <2>1. /\ snapshot' = None /\ OnceEach(windows') /\ \A w \in DOMAIN windows' : AsItIs(windows'[w])
          /\ UNCHANGED <<kind, frame, focus>>
      BY <1>2, <1>6, EnumerateIs DEF Enumerate, browser
    <2>2. OnceEach(windows)' /\ \A w \in DOMAIN windows' : AsItIs(windows[w])'
      BY <2>1 DEF OnceEach, AsItIs
    <2> QED
      BY <1>3, <2>1, <2>2 DEF WhileCalm
  <1>7. ASSUME NEW o \in Requests, EnumerateFails(o) PROVE Theirs(snapshot') /\ WhileCalm'
    BY <1>3, <1>4, <1>7 DEF EnumerateFails
  <1>8. ASSUME StoreWithoutTabs PROVE Theirs(snapshot') /\ WhileCalm'
    BY <1>4, <1>8, OthersTheirs DEF StoreWithoutTabs, Stores, Idle
  <1>9. ASSUME NEW shows \in BOOLEAN, StoreExtensionTabs(shows) PROVE Theirs(snapshot') /\ WhileCalm'
    BY <1>2, <1>4, <1>9, StoresTheirs DEF TheirsInv, StoreExtensionTabs, Stores, Idle
  <1>10. ASSUME StoreSessionTabs PROVE Theirs(snapshot') /\ WhileCalm'
    BY <1>4, <1>10, OthersTheirs DEF StoreSessionTabs, Stores, Idle
  <1>11. CASE UNCHANGED vars
    <2>1. Theirs(snapshot')
      BY <1>11 DEF TheirsInv, vars, handler
    <2>2. WhileCalm'
      BY <1>11 DEF TheirsInv, WhileCalm, OnceEach, AsItIs, vars, browser, handler, history
    <2> QED
      BY <1>1, <2>1, <2>2 DEF TheirsInv
  <1> QED
    BY <1>1, <1>5, <1>6, <1>7, <1>8, <1>9, <1>10, <1>11 DEF Next, Captures, TheirsInv

\* The tabs of a window of the browser are stored together, in one window, and no window has
\* those of two, whatever the frames, the focus and the order in which they were found; and
\* when the extension answered for the very windows that were enumerated, and no two of them
\* are at one place, attach_tabs_to_windows gives each its own: its own frame is worth 3000
\* of the 4000 points, and no other is worth as much without the focus, which one window has.
THEOREM TabsStayTogether == Spec => []TabsAreTheirs
  <1>1. CaptureAssumption /\ SessionAssumption
    BY CaptureAssumption, SessionAssumption
  <1>2. Init => TheirsInv
    BY <1>1, SnapshotAtFirst DEF Init, TheirsInv, WhileCalm, Theirs, CorrelatedAt
  <1>3. TheirsInv /\ [Next]_vars => TheirsInv'
    BY <1>1, TheirsKept
  <1>4. TheirsInv => TabsAreTheirs
    BY DEF TheirsInv, SnapshotInv, Theirs, CorrelatedAt, Correlated, TabsAreTheirs
  <1> QED
    BY <1>2, <1>3, <1>4, PTL DEF Spec

-----------------------------------------------------------------------------
(* The glob matcher finds every match: it gives up only when there is none. *)

\* How far the pattern has come in the text after each of its first k characters.
Walk(b, k, pattern, text) ==
    /\ b \in [0..k -> 0..Len(text)] /\ b[0] = 0
    /\ \A i \in 1..k :
        IF pattern[i] = "*" THEN b[i - 1] <= b[i]
        ELSE b[i] = b[i - 1] + 1 /\ pattern[i] \in {"?", text[b[i]]}

LEMMA WalkOn ==
    ASSUME NEW pattern, NEW text, Len(text) \in Nat, NEW k \in Nat, NEW b, Walk(b, k, pattern, text),
           NEW y \in 0..Len(text),
           IF pattern[k + 1] = "*" THEN b[k] <= y ELSE y = b[k] + 1 /\ pattern[k + 1] \in {"?", text[y]}
    PROVE  LET c == [i \in 0..k + 1 |-> IF i = k + 1 THEN y ELSE b[i]]
           IN  Walk(c, k + 1, pattern, text) /\ c[k + 1] = y
  <1> DEFINE c == [i \in 0..k + 1 |-> IF i = k + 1 THEN y ELSE b[i]]
  <1>1. /\ b \in [0..k -> 0..Len(text)] /\ b[0] = 0
        /\ \A i \in 1..k : IF pattern[i] = "*" THEN b[i - 1] <= b[i]
                           ELSE b[i] = b[i - 1] + 1 /\ pattern[i] \in {"?", text[b[i]]}
    BY DEF Walk
  <1>2. c \in [0..k + 1 -> 0..Len(text)] /\ c[k + 1] = y /\ \A i \in 0..k : c[i] = b[i]
    BY <1>1
  <1> HIDE DEF c
  <1>3. ASSUME NEW i \in 1..k + 1
        PROVE  IF pattern[i] = "*" THEN c[i - 1] <= c[i]
               ELSE c[i] = c[i - 1] + 1 /\ pattern[i] \in {"?", text[c[i]]}
    <2>1. CASE i = k + 1
      <3>1. i - 1 = k /\ c[i - 1] = b[k] /\ c[i] = y
        BY <1>2, <2>1
      <3> QED
        BY <2>1, <3>1
    <2>2. CASE i # k + 1
      <3>1. i \in 1..k /\ i - 1 \in 0..k /\ c[i] = b[i] /\ c[i - 1] = b[i - 1]
        BY <1>2, <2>2
      <3> QED
        BY <1>1, <3>1
    <2> QED
      BY <2>1, <2>2
  <1>4. c[0] = 0
    BY <1>1, <1>2
  <1> QED
    BY <1>2, <1>3, <1>4 DEF Walk, c

LEMMA WalkIs ==
    ASSUME NEW pattern, NEW text, Len(pattern) \in Nat, Len(text) \in Nat, Matches(pattern, text)
    PROVE  \E b : Walk(b, Len(pattern), pattern, text) /\ b[Len(pattern)] = Len(text)
  <1> DEFINE m == Len(pattern)
             n == Len(text)
             r == Reach(pattern, text)
             Led(k) == \A y \in r[k] : y \in 0..n /\ \E b : Walk(b, k, pattern, text) /\ b[k] = y
             S == {k \in Nat : k <= m => Led(k)}
  <1>1. r[0] = {0} /\ \A k \in 1..m : r[k] = Beyond(text, r[k - 1], pattern[k])
    BY ReachIs
  <1>2. m \in Nat /\ n \in Nat
    OBVIOUS
  <1> HIDE DEF m, n, r
  <1>3. Nat \subseteq S
    <2>1. 0 \in S
      <3> DEFINE b == [i \in 0..0 |-> 0]
      <3>1. b \in [0..0 -> 0..n] /\ b[0] = 0 /\ 1..0 = {}
        BY <1>2
      <3> HIDE DEF b
      <3>2. Walk(b, 0, pattern, text)
        BY <3>1 DEF Walk, n
      <3>3. Led(0)
        BY <1>1, <1>2, <3>1, <3>2
      <3> HIDE DEF Led
      <3> QED
        BY <3>3
    <2>2. ASSUME NEW k \in Nat, k \in S PROVE k + 1 \in S
      <3>1. CASE k + 1 <= m
        <4>1. k + 1 \in 1..m /\ (k + 1) - 1 = k /\ k <= m
          BY <1>2, <3>1
        <4>2. r[k + 1] = Beyond(text, r[k], pattern[k + 1])
          BY <1>1, <4>1
        <4>3. Led(k)
          BY <2>2, <4>1
        <4>4. ASSUME NEW y \in r[k + 1] PROVE y \in 0..n /\ \E b : Walk(b, k + 1, pattern, text) /\ b[k + 1] = y
          <5>1. /\ y \in 0..n
                /\ \E x \in r[k] : IF pattern[k + 1] = "*" THEN x <= y
                                   ELSE y = x + 1 /\ pattern[k + 1] \in {"?", text[y]}
            <6>1. CASE pattern[k + 1] = "*"
              BY <4>2, <4>4, <6>1 DEF Beyond, n
            <6>2. CASE pattern[k + 1] # "*"
              <7>1. y \in 1..n /\ y - 1 \in r[k] /\ pattern[k + 1] \in {"?", text[y]}
                BY <4>2, <4>4, <6>2 DEF Beyond, n
              <7>2. y = (y - 1) + 1 /\ y \in 0..n
                BY <1>2, <7>1
              <7> QED
                BY <6>2, <7>1, <7>2
            <6> QED
              BY <6>1, <6>2
          <5>2. PICK x \in r[k] : IF pattern[k + 1] = "*" THEN x <= y
                                  ELSE y = x + 1 /\ pattern[k + 1] \in {"?", text[y]}
            BY <5>1
          <5>3. PICK b : Walk(b, k, pattern, text) /\ b[k] = x
            BY <4>3
          <5> DEFINE c == [i \in 0..k + 1 |-> IF i = k + 1 THEN y ELSE b[i]]
          <5>4. IF pattern[k + 1] = "*" THEN b[k] <= y ELSE y = b[k] + 1 /\ pattern[k + 1] \in {"?", text[y]}
            BY <5>2, <5>3
          <5>5. y \in 0..Len(text) /\ Len(text) \in Nat
            BY <5>1 DEF n
          <5>6. Walk(c, k + 1, pattern, text) /\ c[k + 1] = y
            BY <5>3, <5>4, <5>5, WalkOn
          <5> HIDE DEF c
          <5> QED
            BY <5>1, <5>6
        <4>5. Led(k + 1)
          BY <4>4
        <4> HIDE DEF Led
        <4> QED
          BY <4>5
      <3>2. CASE ~(k + 1 <= m)
        BY <3>2
      <3> QED
        BY <3>1, <3>2
    <2> HIDE DEF S
    <2> QED
      BY <2>1, <2>2, SetInduction
  <1>4. Led(m)
    <2>1. m \in S /\ m <= m
      BY <1>2, <1>3
    <2> HIDE DEF Led
    <2> QED
      BY <2>1
  <1>5. n \in r[m]
    BY DEF Matches, m, n, r
  <1>6. \E b : Walk(b, m, pattern, text) /\ b[m] = n
    BY <1>4, <1>5
  <1> QED
    BY <1>6 DEF m, n

\* Between two stars a walk goes as far in the text as in the pattern.
Starless(pattern, s, q) == \A i \in s + 1..q : pattern[i] # "*"

LEMMA WalkStraight ==
    ASSUME NEW pattern, NEW text, NEW m \in Nat, Len(text) \in Nat, NEW b, Walk(b, m, pattern, text),
           NEW s \in 0..m, NEW q \in s..m, Starless(pattern, s, q)
    PROVE  b[q] = b[s] + (q - s)
  <1> DEFINE S == {d \in Nat : s + d <= q => b[s + d] = b[s] + d}
  <1>1. /\ b \in [0..m -> 0..Len(text)] /\ s \in Nat /\ q \in Nat /\ s <= q /\ q <= m
        /\ \A i \in 1..m : pattern[i] # "*" => b[i] = b[i - 1] + 1
        /\ \A i \in s + 1..q : pattern[i] # "*"
    BY DEF Walk, Starless
  <1>2. b[s] \in Nat
    BY <1>1
  <1>3. Nat \subseteq S
    <2>1. 0 \in S
      BY <1>1, <1>2
    <2>2. ASSUME NEW d \in Nat, d \in S PROVE d + 1 \in S
      <3>1. CASE s + (d + 1) <= q
        <4> DEFINE i == s + (d + 1)
        <4>1. i \in 1..m /\ i \in s + 1..q /\ i - 1 = s + d /\ s + d <= q
          BY <1>1, <3>1
        <4> HIDE DEF i
        <4>2. b[i] = b[i - 1] + 1
          BY <1>1, <4>1
        <4>3. b[s + d] = b[s] + d
          BY <2>2, <4>1
        <4>4. b[i] = b[s] + (d + 1)
          BY <1>2, <4>1, <4>2, <4>3
        <4> QED
          BY <4>4 DEF i
      <3>2. CASE ~(s + (d + 1) <= q)
        BY <3>2
      <3> QED
        BY <3>1, <3>2
    <2> HIDE DEF S
    <2> QED
      BY <2>1, <2>2, SetInduction
  <1>4. q - s \in Nat /\ s + (q - s) = q
    BY <1>1
  <1>5. q - s \in S
    BY <1>3, <1>4
  <1>6. b[s + (q - s)] = b[s] + (q - s)
    BY <1>1, <1>4, <1>5
  <1> QED
    BY <1>4, <1>6

\* At the end of the text only stars are left.
LEMMA WalkEnds ==
    ASSUME NEW pattern, NEW text, NEW m \in Nat, Len(text) \in Nat, NEW b, Walk(b, m, pattern, text),
           NEW p \in 1..m + 1, b[p - 1] = Len(text)
    PROVE  \A i \in p..m : pattern[i] = "*"
  <1> DEFINE n == Len(text)
             S == {d \in Nat : p - 1 + d <= m => b[p - 1 + d] = n}
  <1>1. /\ b \in [0..m -> 0..n] /\ n \in Nat /\ p \in Nat /\ p >= 1
        /\ \A i \in 1..m : IF pattern[i] = "*" THEN b[i - 1] <= b[i] ELSE b[i] = b[i - 1] + 1
    BY DEF Walk
  <1>2. b[p - 1] = n
    OBVIOUS
  <1> HIDE DEF n
  <1>3. \A i \in 1..m : b[i - 1] = n => b[i] = n /\ pattern[i] = "*"
    <2>1. ASSUME NEW i \in 1..m, b[i - 1] = n PROVE b[i] = n /\ pattern[i] = "*"
      <3>1. b[i] \in 0..n
        BY <1>1
      <3> QED
        BY <1>1, <2>1, <3>1
    <2> QED
      BY <2>1
  <1>4. Nat \subseteq S
    <2>1. 0 \in S
      BY <1>1, <1>2
    <2>2. ASSUME NEW d \in Nat, d \in S PROVE d + 1 \in S
      <3>1. CASE p - 1 + (d + 1) <= m
        <4> DEFINE i == p - 1 + (d + 1)
        <4>1. i \in 1..m /\ i - 1 = p - 1 + d /\ p - 1 + d <= m
          BY <1>1, <3>1
        <4> HIDE DEF i
        <4>2. b[i - 1] = n
          BY <2>2, <4>1
        <4>3. b[i] = n
          BY <1>3, <4>1, <4>2
        <4> QED
          BY <4>3 DEF i
      <3>2. CASE ~(p - 1 + (d + 1) <= m)
        BY <3>2
      <3> QED
        BY <3>1, <3>2
    <2> HIDE DEF S
    <2> QED
      BY <2>1, <2>2, SetInduction
  <1>5. ASSUME NEW i \in p..m PROVE pattern[i] = "*"
    <2> DEFINE d == i - p
    <2>1. d \in Nat /\ p - 1 + d = i - 1 /\ i \in 1..m /\ i - 1 <= m
      BY <1>1
    <2> HIDE DEF d
    <2>2. d \in S
      BY <1>4, <2>1
    <2>3. b[i - 1] = n
      BY <2>1, <2>2
    <2> QED
      BY <1>3, <2>1, <2>3
  <1> QED
    BY <1>5

\* Where the matcher is: since the last star it came as far in the text as in the pattern.
Within(at, pattern, text) ==
    /\ at \in [p: 1..Len(pattern) + 1, t: 1..Len(text) + 1, star: 0..Len(pattern), mark: 0..Len(text) + 1]
    /\ at.star < at.p /\ at.mark <= at.t
    /\ at.star # 0 => /\ at.t - at.mark = at.p - at.star - 1
                      /\ \A i \in at.star + 1..at.p - 1 : pattern[i] # "*"

\* It is on the walk, or will come back to it.
OnWalk(at, b) == b[at.p - 1] = at.t - 1 \/ (at.star # 0 /\ b[at.star] >= at.mark)

\* How far it has come: every round goes farther.
Progress(at, pattern) == at.mark * (Len(pattern) + 2) + at.p

LEMMA TimesIs ==
    ASSUME NEW x \in Nat, NEW y \in Nat, NEW c \in Nat, x <= y
    PROVE  x * c \in Nat /\ y * c \in Nat /\ x * c <= y * c
  <1>1. x * c \in Nat /\ y * c \in Nat
    OBVIOUS
  <1>2. PICK d \in Nat : y = x + d
    <2>1. y - x \in Nat /\ y = x + (y - x)
      OBVIOUS
    <2> QED
      BY <2>1
  <1>3. y * c = x * c + d * c /\ d * c \in Nat
    BY <1>2
  <1> QED
    BY <1>1, <1>3

LEMMA StepsOfMatcher ==
    ASSUME NEW at \in [p: Nat, t: Nat, star: Nat, mark: Nat]
    PROVE  /\ [at EXCEPT !.p = @ + 1, !.t = @ + 1] =
                [p |-> at.p + 1, t |-> at.t + 1, star |-> at.star, mark |-> at.mark]
           /\ [at EXCEPT !.p = at.star + 1, !.t = at.mark + 1, !.mark = @ + 1] =
                [p |-> at.star + 1, t |-> at.mark + 1, star |-> at.star, mark |-> at.mark + 1]
  <1> DEFINE S == [p: Nat, t: Nat, star: Nat, mark: Nat]
  <1>1. \A z \in S : z = [p |-> z.p, t |-> z.t, star |-> z.star, mark |-> z.mark]
    OBVIOUS
  <1>2. ASSUME NEW a \in Nat, NEW b \in Nat
        PROVE  [at EXCEPT !.p = a, !.t = b] = [p |-> a, t |-> b, star |-> at.star, mark |-> at.mark]
    <2> DEFINE x == [at EXCEPT !.p = a, !.t = b]
    <2>1. x \in S
      OBVIOUS
    <2>2. x.p = a /\ x.t = b /\ x.star = at.star /\ x.mark = at.mark
      OBVIOUS
    <2> HIDE DEF x, S
    <2>3. x = [p |-> x.p, t |-> x.t, star |-> x.star, mark |-> x.mark]
      BY <1>1, <2>1
    <2>4. x = [p |-> a, t |-> b, star |-> at.star, mark |-> at.mark]
      BY <2>2, <2>3
    <2> QED
      BY <2>4 DEF x
  <1>3. ASSUME NEW a \in Nat, NEW b \in Nat, NEW c \in Nat
        PROVE  [at EXCEPT !.p = a, !.t = b, !.mark = c] = [p |-> a, t |-> b, star |-> at.star, mark |-> c]
    <2> DEFINE x == [at EXCEPT !.p = a, !.t = b, !.mark = c]
    <2>1. x \in S
      OBVIOUS
    <2>2. x.p = a /\ x.t = b /\ x.star = at.star /\ x.mark = c
      OBVIOUS
    <2> HIDE DEF x, S
    <2>3. x = [p |-> x.p, t |-> x.t, star |-> x.star, mark |-> x.mark]
      BY <1>1, <2>1
    <2>4. x = [p |-> a, t |-> b, star |-> at.star, mark |-> c]
      BY <2>2, <2>3
    <2> QED
      BY <2>4 DEF x
  <1>4. /\ [at EXCEPT !.p = @ + 1, !.t = @ + 1] = [at EXCEPT !.p = at.p + 1, !.t = at.t + 1]
        /\ [at EXCEPT !.p = at.star + 1, !.t = at.mark + 1, !.mark = @ + 1] =
                [at EXCEPT !.p = at.star + 1, !.t = at.mark + 1, !.mark = at.mark + 1]
    OBVIOUS
  <1>5. at.p + 1 \in Nat /\ at.t + 1 \in Nat /\ at.star + 1 \in Nat /\ at.mark + 1 \in Nat
    OBVIOUS
  <1>6. [at EXCEPT !.p = at.p + 1, !.t = at.t + 1] =
            [p |-> at.p + 1, t |-> at.t + 1, star |-> at.star, mark |-> at.mark]
    BY <1>2, <1>5
  <1>7. [at EXCEPT !.p = at.star + 1, !.t = at.mark + 1, !.mark = at.mark + 1] =
            [p |-> at.star + 1, t |-> at.mark + 1, star |-> at.star, mark |-> at.mark + 1]
    BY <1>3, <1>5
  <1> QED
    BY <1>4, <1>6, <1>7

LEMMA RoundIs ==
    ASSUME NEW pattern, NEW text, Len(pattern) \in Nat, Len(text) \in Nat,
           \A i \in 1..Len(text) : text[i] # "*",
           NEW b, Walk(b, Len(pattern), pattern, text), b[Len(pattern)] = Len(text),
           NEW at, Within(at, pattern, text), OnWalk(at, b), at.t <= Len(text)
    PROVE  LET next == Round(pattern, text, at)
           IN  /\ Within(next, pattern, text) /\ OnWalk(next, b)
               /\ Progress(next, pattern) > Progress(at, pattern)
  <1> DEFINE m == Len(pattern)
             n == Len(text)
             p == at.p
             t == at.t
             star == at.star
             mark == at.mark
             there == p <= m
             next == Round(pattern, text, at)
             Gain == /\ Within(next, pattern, text) /\ OnWalk(next, b)
                     /\ Progress(next, pattern) > Progress(at, pattern)
  <1>1. /\ m \in Nat /\ n \in Nat /\ b \in [0..m -> 0..n] /\ b[m] = n
        /\ \A i \in 1..m : IF pattern[i] = "*" THEN b[i - 1] <= b[i]
                           ELSE b[i] = b[i - 1] + 1 /\ pattern[i] \in {"?", text[b[i]]}
    BY DEF Walk
  <1>2. /\ p \in 1..m + 1 /\ t \in 1..n /\ star \in 0..m /\ mark \in 0..n + 1 /\ star < p /\ mark <= t
        /\ star # 0 => t - mark = p - star - 1 /\ \A i \in star + 1..p - 1 : pattern[i] # "*"
    BY DEF Within
  <1>3. at = [p |-> p, t |-> t, star |-> star, mark |-> mark]
    BY DEF Within
  <1>4. b[p - 1] = t - 1 \/ (star # 0 /\ b[star] >= mark)
    BY DEF OnWalk
  <1>5. next = IF there /\ pattern[p] \in {"?", text[t]}
                    THEN [p |-> p + 1, t |-> t + 1, star |-> star, mark |-> mark]
               ELSE IF there /\ pattern[p] = "*" THEN [p |-> p + 1, t |-> t, star |-> p, mark |-> t]
               ELSE IF star # 0 THEN [p |-> star + 1, t |-> mark + 1, star |-> star, mark |-> mark + 1]
               ELSE at
    <2>1. ~(t > n)
      BY <1>1, <1>2
    <2> HIDE DEF m, n
    <2>2. /\ [at EXCEPT !.p = @ + 1, !.t = @ + 1] = [p |-> p + 1, t |-> t + 1, star |-> star, mark |-> mark]
          /\ [at EXCEPT !.p = at.star + 1, !.t = at.mark + 1, !.mark = @ + 1] =
                [p |-> star + 1, t |-> mark + 1, star |-> star, mark |-> mark + 1]
      <3>1. at \in [p: Nat, t: Nat, star: Nat, mark: Nat]
        BY <1>1, <1>2, <1>3
      <3> QED
        BY <3>1, StepsOfMatcher
    <2>3. next = IF t > n THEN at
                 ELSE IF there /\ pattern[p] \in {"?", text[t]} THEN [at EXCEPT !.p = @ + 1, !.t = @ + 1]
                 ELSE IF there /\ pattern[p] = "*" THEN [p |-> p + 1, t |-> t, star |-> p, mark |-> t]
                 ELSE IF star # 0 THEN [at EXCEPT !.p = at.star + 1, !.t = at.mark + 1, !.mark = @ + 1]
                 ELSE at
      BY DEF Round, m, n
    <2> HIDE DEF next, p, t, star, mark
    <2> QED
      BY <2>1, <2>2, <2>3
  <1>6. \A i \in 1..n : text[i] # "*"
    OBVIOUS
  <1> DEFINE Goal(z) == /\ z.p \in 1..m + 1 /\ z.t \in 1..n + 1 /\ z.star \in 0..m /\ z.mark \in 0..n + 1
                        /\ z.star < z.p /\ z.mark <= z.t
                        /\ z.star # 0 => /\ z.t - z.mark = z.p - z.star - 1
                                         /\ \A i \in z.star + 1..z.p - 1 : pattern[i] # "*"
                        /\ b[z.p - 1] = z.t - 1 \/ (z.star # 0 /\ b[z.star] >= z.mark)
                        /\ z.mark * (m + 2) + z.p > mark * (m + 2) + p
  <1>7. ASSUME NEW z, z \in [p: Nat, t: Nat, star: Nat, mark: Nat], Goal(z), next = z
        PROVE  Gain
    <2>1. z \in [p: 1..m + 1, t: 1..n + 1, star: 0..m, mark: 0..n + 1]
      BY <1>7
    <2> HIDE DEF next
    <2>2. Within(z, pattern, text) /\ OnWalk(z, b)
      BY <1>7, <2>1 DEF Within, OnWalk
    <2>3. Progress(z, pattern) > Progress(at, pattern)
      BY <1>7 DEF Progress
    <2> QED
      BY <1>7, <2>2, <2>3
  <1> HIDE DEF next, m, n, p, t, star, mark
  <1>8. ASSUME there /\ pattern[p] \in {"?", text[t]} PROVE Gain
    <2> DEFINE z == [p |-> p + 1, t |-> t + 1, star |-> star, mark |-> mark]
    <2>1. next = z /\ z \in [p: Nat, t: Nat, star: Nat, mark: Nat]
      BY <1>1, <1>2, <1>5, <1>8
    <2>2. z.p = p + 1 /\ z.t = t + 1 /\ z.star = star /\ z.mark = mark
      OBVIOUS
    <2> HIDE DEF z
    <2>3. pattern[p] # "*"
      BY <1>2, <1>6, <1>8
    <2>4. p \in 1..m /\ mark * (m + 2) + (p + 1) > mark * (m + 2) + p
      BY <1>1, <1>2, <1>8
    <2>5. b[p - 1] = t - 1 => b[p] = t
      BY <1>1, <1>2, <2>3, <2>4
    <2>6. star # 0 => \A i \in star + 1..p : pattern[i] # "*"
      BY <1>2, <2>3, <2>4
    <2>7. b[z.p - 1] = z.t - 1 \/ (z.star # 0 /\ b[z.star] >= z.mark)
      <3>1. z.p - 1 = p /\ z.t - 1 = t
        BY <1>1, <1>2, <2>2
      <3> QED
        BY <1>4, <2>2, <2>5, <3>1
    <2>8. z.star # 0 => \A i \in z.star + 1..z.p - 1 : pattern[i] # "*"
      <3>1. z.p - 1 = p
        BY <1>1, <1>2, <2>2
      <3> QED
        BY <2>2, <2>6, <3>1
    <2>9. Goal(z)
      BY <1>1, <1>2, <2>2, <2>4, <2>7, <2>8
    <2> HIDE DEF Goal, Gain
    <2> QED
      BY <1>7, <2>1, <2>9
  <1>9. ASSUME there /\ pattern[p] \notin {"?", text[t]} /\ pattern[p] = "*" PROVE Gain
    <2> DEFINE z == [p |-> p + 1, t |-> t, star |-> p, mark |-> t]
    <2>1. next = z /\ z \in [p: Nat, t: Nat, star: Nat, mark: Nat]
      BY <1>1, <1>2, <1>5, <1>9
    <2>2. z.p = p + 1 /\ z.t = t /\ z.star = p /\ z.mark = t
      OBVIOUS
    <2> HIDE DEF z
    <2>3. p \in 1..m /\ p # 0 /\ t * (m + 2) + (p + 1) > mark * (m + 2) + p
      <3>1. t * (m + 2) >= mark * (m + 2)
        <4>1. m + 2 \in Nat /\ t \in Nat /\ mark \in Nat /\ mark <= t
          BY <1>1, <1>2
        <4> QED
          BY <4>1, TimesIs
      <3>2. t * (m + 2) \in Nat /\ mark * (m + 2) \in Nat
        BY <1>1, <1>2
      <3> HIDE DEF there
      <3>3. p \in 1..m
        BY <1>1, <1>2, <1>9 DEF there
      <3> QED
        BY <3>1, <3>2, <3>3
    <2>4. b[p] >= b[p - 1] /\ b[p] \in Nat /\ b[p - 1] \in Nat
      BY <1>1, <1>9, <2>3
    <2>5. b[p] = t - 1 \/ b[p] >= t
      <3>1. CASE b[p - 1] = t - 1
        BY <1>2, <2>4, <3>1
      <3>2. CASE star # 0 /\ b[star] >= mark
        <4> DEFINE q == p - 1
        <4>1. /\ \A i \in star + 1..q : pattern[i] # "*"
              /\ t - mark = q - star /\ star \in 0..m /\ q \in star..m
          BY <1>1, <1>2, <2>3, <3>2
        <4> HIDE DEF q
        <4>2. Walk(b, m, pattern, text) /\ Len(text) \in Nat /\ m \in Nat
          BY DEF m
        <4>3. b[q] = b[star] + (q - star)
          <5>1. star \in 0..m /\ q \in star..m /\ Starless(pattern, star, q)
            BY <4>1 DEF Starless
          <5> QED
            BY <4>2, <5>1, WalkStraight
        <4>4. b[star] \in Nat /\ b[q] >= t
          BY <1>1, <1>2, <3>2, <4>1, <4>3
        <4>5. b[p - 1] >= t
          BY <4>4 DEF q
        <4> QED
          BY <1>2, <2>4, <4>5
      <3> QED
        BY <1>4, <3>1, <3>2
    <2>6. b[z.p - 1] = z.t - 1 \/ (z.star # 0 /\ b[z.star] >= z.mark)
      <3>1. z.p - 1 = p
        BY <1>1, <1>2, <2>2
      <3> QED
        BY <2>2, <2>3, <2>5, <3>1
    <2>7. \A i \in z.star + 1..z.p - 1 : pattern[i] # "*"
      BY <1>2, <2>2
    <2>8. Goal(z)
      BY <1>1, <1>2, <2>2, <2>3, <2>6, <2>7
    <2> HIDE DEF Goal, Gain
    <2> QED
      BY <1>7, <2>1, <2>8
  <1>10. ASSUME ~(there /\ pattern[p] \in {"?", text[t]}) /\ ~(there /\ pattern[p] = "*") PROVE Gain
    <2>1. b[p - 1] # t - 1
      <3>1. SUFFICES ASSUME b[p - 1] = t - 1 PROVE FALSE
        OBVIOUS
      <3>2. CASE there
        <4>1. p \in 1..m /\ pattern[p] # "*" /\ pattern[p] \notin {"?", text[t]}
          BY <1>1, <1>2, <1>10, <3>2
        <4>2. b[p] = t /\ pattern[p] \in {"?", text[b[p]]}
          BY <1>1, <1>2, <3>1, <4>1
        <4> QED
          BY <4>1, <4>2
      <3>3. CASE ~there
        <4>1. p - 1 = m
          BY <1>1, <1>2, <3>3
        <4> QED
          BY <1>1, <1>2, <3>1, <4>1
      <3> QED
        BY <3>2, <3>3
    <2>2. star # 0 /\ b[star] >= mark
      BY <1>4, <2>1
    <2> DEFINE z == [p |-> star + 1, t |-> mark + 1, star |-> star, mark |-> mark + 1]
    <2>3. next = z /\ z \in [p: Nat, t: Nat, star: Nat, mark: Nat]
      BY <1>1, <1>2, <1>5, <1>10, <2>2
    <2>4. z.p = star + 1 /\ z.t = mark + 1 /\ z.star = star /\ z.mark = mark + 1
      OBVIOUS
    <2> HIDE DEF z
    <2>5. (mark + 1) * (m + 2) + (star + 1) > mark * (m + 2) + p
      <3>1. (mark + 1) * (m + 2) = mark * (m + 2) + (m + 2) /\ mark * (m + 2) \in Nat
        BY <1>1, <1>2
      <3> HIDE DEF there
      <3> QED
        BY <1>1, <1>2, <3>1
    <2>6. b[star] \in Nat
      BY <1>1, <1>2
    <2>7. b[z.p - 1] = z.t - 1 \/ (z.star # 0 /\ b[z.star] >= z.mark)
      <3>1. z.p - 1 = star /\ z.t - 1 = mark
        BY <1>1, <1>2, <2>4
      <3>2. b[star] = mark \/ b[star] >= mark + 1
        BY <1>1, <1>2, <2>2, <2>6
      <3> QED
        BY <2>2, <2>4, <3>1, <3>2
    <2>8. \A i \in z.star + 1..z.p - 1 : pattern[i] # "*"
      BY <1>2, <2>4
    <2>9. Goal(z)
      BY <1>1, <1>2, <2>4, <2>5, <2>7, <2>8
    <2> HIDE DEF Goal, Gain
    <2> QED
      BY <1>7, <2>3, <2>9
  <1> HIDE DEF Gain
  <1>11. Gain
    BY <1>8, <1>9, <1>10
  <1> QED
    BY <1>11 DEF Gain, next

\* Where a pattern matches a text, the matcher says so, unless the text has a star of its own.
LEMMA GlobIs ==
    ASSUME NEW pattern, NEW text, Len(pattern) \in Nat, Len(text) \in Nat,
           \A i \in 1..Len(text) : text[i] # "*", Matches(pattern, text)
    PROVE  GlobMatch(pattern, text)
  <1> DEFINE m == Len(pattern)
             n == Len(text)
             r == Rounds(pattern, text)
             most == MostRounds(pattern, text)
             far(at) == Progress(at, pattern)
  <1>1. m \in Nat /\ n \in Nat /\ most = (m + 2) * (n + 2) /\ most \in Nat
    BY DEF MostRounds
  <1>2. PICK b : Walk(b, m, pattern, text) /\ b[m] = n
    BY WalkIs
  <1>3. r[0] = AtStart /\ \A k \in 1..most : r[k] = Round(pattern, text, r[k - 1])
    BY <1>1, RoundsIs
  <1>4. b[0] = 0 /\ b \in [0..m -> 0..n]
    BY <1>2 DEF Walk
  <1>5. \A at : (Within(at, pattern, text) /\ OnWalk(at, b) /\ at.t <= n) =>
            LET next == Round(pattern, text, at)
            IN  Within(next, pattern, text) /\ OnWalk(next, b) /\ far(next) > far(at)
    BY <1>2, RoundIs
  <1>6. \A at : at.t > n => Round(pattern, text, at) = at
    BY DEF Round
  <1>7. \A at : Within(at, pattern, text) =>
            /\ at.p \in 1..m + 1 /\ at.t \in 1..n + 1 /\ at.star \in 0..m /\ at.mark \in 0..n + 1
            /\ at.star < at.p /\ at.mark <= at.t
            /\ at.star # 0 => at.t - at.mark = at.p - at.star - 1 /\ Starless(pattern, at.star, at.p - 1)
    BY DEF Within, Starless
  <1>8. \A at : far(at) = at.mark * (m + 2) + at.p
    BY DEF Progress
  <1> DEFINE Good(at, k) == /\ Within(at, pattern, text) /\ OnWalk(at, b)
                            /\ at.t > n \/ far(at) >= k + 1
             S == {k \in Nat : k <= most => Good(r[k], k)}
  <1> HIDE DEF m, n, r, most, far
  <1>9. Nat \subseteq S
    <2>1. 0 \in S
      <3>1. r[0].p = 1 /\ r[0].t = 1 /\ r[0].star = 0 /\ r[0].mark = 0
            /\ r[0] \in [p: 1..m + 1, t: 1..n + 1, star: 0..m, mark: 0..n + 1]
        BY <1>1, <1>3 DEF AtStart
      <3>2. Within(r[0], pattern, text)
        BY <3>1 DEF Within, m, n
      <3>3. OnWalk(r[0], b)
        BY <1>4, <3>1 DEF OnWalk
      <3>4. far(r[0]) = 1
        BY <1>1, <1>8, <3>1
      <3>5. Good(r[0], 0)
        BY <3>2, <3>3, <3>4
      <3> HIDE DEF Good
      <3> QED
        BY <3>5
    <2>2. ASSUME NEW k \in Nat, k \in S PROVE k + 1 \in S
      <3>1. CASE k + 1 <= most
        <4>1. k + 1 \in 1..most /\ (k + 1) - 1 = k /\ k <= most
          BY <1>1, <3>1
        <4>2. r[k + 1] = Round(pattern, text, r[k])
          BY <1>3, <4>1
        <4>3. Good(r[k], k)
          BY <2>2, <4>1
        <4>4. CASE r[k].t > n
          <5>1. r[k + 1] = r[k]
            BY <1>6, <4>2, <4>4
          <5>2. Good(r[k + 1], k + 1)
            BY <4>3, <4>4, <5>1
          <5> HIDE DEF Good
          <5> QED
            BY <5>2
        <4>5. CASE ~(r[k].t > n)
          <5>1. r[k].t <= n
            BY <1>1, <1>7, <4>3, <4>5
          <5>2. Within(r[k + 1], pattern, text) /\ OnWalk(r[k + 1], b) /\ far(r[k + 1]) > far(r[k])
            BY <1>5, <4>2, <4>3, <5>1
          <5>3. far(r[k]) \in Nat /\ far(r[k + 1]) \in Nat
            <6>1. \A at : Within(at, pattern, text) => far(at) \in Nat
              <7>1. ASSUME NEW at, Within(at, pattern, text) PROVE far(at) \in Nat
                <8>1. at.mark \in Nat /\ at.p \in Nat /\ m + 2 \in Nat
                  BY <1>1, <1>7, <7>1
                <8>2. at.mark * (m + 2) \in Nat
                  BY <8>1
                <8> QED
                  BY <1>8, <8>1, <8>2
              <7> QED
                BY <7>1
            <6> QED
              BY <4>3, <5>2, <6>1
          <5>4. far(r[k]) >= k + 1
            BY <4>3, <4>5
          <5>5. far(r[k + 1]) >= (k + 1) + 1
            BY <5>2, <5>3, <5>4
          <5>6. Good(r[k + 1], k + 1)
            BY <5>2, <5>5
          <5> HIDE DEF Good
          <5> QED
            BY <5>6
        <4> QED
          BY <4>4, <4>5
      <3>2. CASE ~(k + 1 <= most)
        BY <3>2
      <3> QED
        BY <3>1, <3>2
    <2> HIDE DEF S
    <2> QED
      BY <2>1, <2>2, SetInduction
  <1> DEFINE end == r[most]
  <1>10. Good(end, most)
    <2>1. most \in S /\ most <= most
      BY <1>1, <1>9
    <2> HIDE DEF Good
    <2> QED
      BY <2>1
  <1> HIDE DEF end
  <1>11. /\ end.p \in 1..m + 1 /\ end.t \in 1..n + 1 /\ end.star \in 0..m /\ end.mark \in 0..n + 1
         /\ end.star < end.p /\ end.mark <= end.t
         /\ end.star # 0 => end.t - end.mark = end.p - end.star - 1 /\ Starless(pattern, end.star, end.p - 1)
    BY <1>7, <1>10
  <1>12. end.t = n + 1
    <2>1. SUFFICES ASSUME end.t <= n PROVE FALSE
      BY <1>1, <1>11
    <2> DEFINE c == m + 2
    <2>2. end.mark \in Nat /\ end.mark <= n /\ end.p < c /\ end.p \in Nat /\ c \in Nat /\ c >= 2
      BY <1>1, <1>11, <2>1, SMTT(30)
    <2>3. most = c * (n + 2) /\ far(end) = end.mark * c + end.p
      BY <1>1, <1>8
    <2> HIDE DEF c
    <2>4. end.mark * c <= n * c /\ end.mark * c \in Nat /\ n * c \in Nat
      BY <1>1, <2>2, TimesIs
    <2>5. c * (n + 2) = n * c + c + c
      BY <1>1, <2>2
    <2>6. far(end) >= most + 1
      BY <1>1, <1>10, <1>11, <2>1
    <2> QED
      BY <1>1, <2>2, <2>3, <2>4, <2>5, <2>6, SMTT(30)
  <1>13. b[end.p - 1] = n
    <2>1. CASE b[end.p - 1] = end.t - 1
      BY <1>1, <1>12, <2>1
    <2>2. CASE end.star # 0 /\ b[end.star] >= end.mark
      <3> DEFINE s == end.star
                 q == end.p - 1
      <3>1. s \in 0..m /\ q \in s..m /\ Starless(pattern, s, q) /\ (n + 1) - end.mark = q - s
        BY <1>1, <1>11, <1>12, <2>2
      <3>2. Walk(b, m, pattern, text) /\ m \in Nat /\ Len(text) \in Nat
        BY <1>1, <1>2
      <3> HIDE DEF s, q
      <3>3. b[q] = b[s] + (q - s)
        BY <3>1, <3>2, WalkStraight
      <3>4. b[s] >= end.mark /\ b[s] \in Nat /\ b[q] <= n
        <4>1. q \in 0..m
          BY <1>1, <3>1
        <4>2. b[s] >= end.mark
          BY <2>2 DEF s
        <4> QED
          BY <1>1, <1>4, <3>1, <4>1, <4>2
      <3>5. FALSE
        BY <1>1, <1>11, <3>1, <3>3, <3>4, SMTT(30)
      <3> QED
        BY <3>5
    <2> QED
      BY <1>10, <2>1, <2>2 DEF OnWalk
  <1>14. \A i \in end.p..m : pattern[i] = "*"
    <2> DEFINE p == end.p
    <2>1. p \in 1..m + 1 /\ b[p - 1] = Len(text) /\ Walk(b, m, pattern, text) /\ m \in Nat /\ Len(text) \in Nat
      BY <1>1, <1>2, <1>11, <1>13 DEF n
    <2> HIDE DEF p
    <2>2. \A i \in p..m : pattern[i] = "*"
      BY <2>1, WalkEnds
    <2> QED
      BY <2>2 DEF p
  <1>15. end.t > n
    BY <1>1, <1>12
  <1> QED
    BY <1>14, <1>15 DEF GlobMatch, end, r, most, m, n

-----------------------------------------------------------------------------
(* Nothing is stored that is not allowed.                                   *)

LEMMA TextIs ==
    ASSUME NEW url \in UrlRecords
    PROVE  Text(url) \in Seq(Texts)
  <1> DEFINE keys == [i \in DOMAIN url.query |-> url.query[i].key]
             first == <<url.scheme, url.host, url.path>>
  <1>1. url.query \in Seq(Params) /\ url.scheme \in Texts /\ url.host \in Texts /\ url.path \in Texts
    BY DEF UrlRecords
  <1>2. first \in Seq(Texts)
    <2> HIDE DEF Texts
    <2> QED
      BY <1>1
  <1>3. keys \in Seq(Texts)
    <2> DEFINE n == Len(url.query)
    <2>1. n \in Nat /\ DOMAIN url.query = 1..n
      BY <1>1
    <2>2. \A i \in 1..n : url.query[i].key \in Texts
      <3>1. \A i \in 1..n : url.query[i] \in Params
        BY <1>1, <2>1
      <3> QED
        BY <3>1 DEF Params
    <2> HIDE DEF n, Texts
    <2>3. keys \in [1..n -> Texts]
      BY <2>1, <2>2
    <2> HIDE DEF keys
    <2> QED
      BY <2>1, <2>3
  <1>4. Text(url) = first \o keys
    BY DEF Text
  <1> HIDE DEF first, keys, Texts
  <1> QED
    BY <1>2, <1>3, <1>4

\* What the matcher does not find in a text without stars the pattern does not mean.
LEMMA NoMatch ==
    ASSUME "*" \notin Word, NEW pattern \in Seq(STRING), NEW text \in Seq(Texts), ~GlobMatch(pattern, text)
    PROVE  ~Matches(pattern, text)
  <1>1. \A x \in Texts : x # "*"
    BY DEF Texts
  <1>2. Len(pattern) \in Nat /\ Len(text) \in Nat /\ \A i \in 1..Len(text) : text[i] \in Texts
    OBVIOUS
  <1>3. \A i \in 1..Len(text) : text[i] # "*"
    BY <1>1, <1>2
  <1> QED
    BY <1>2, <1>3, GlobIs

\* While a capture reads tabs it has no window that is excluded.
WhileAllowed == stage = "tabs" => \A w \in DOMAIN windows : ~IsExcluded(windows[w], options)

\* StoredIsAllowed, of any snapshot.
AllowedAt(s) ==
    s # None =>
        \A w \in DOMAIN s.windows :
            /\ \A pattern \in s.options.apps : ~Matches(pattern, s.windows[w].app)
            /\ s.windows[w].minimized => s.options.minimized
            /\ \A i \in DOMAIN s.windows[w].tabs :
                LET tab == s.windows[w].tabs[i]
                IN  /\ s.options.tabs /\ (tab.from \in Private => s.options.incognito)
                    /\ s.options.sanitize => /\ Harmless(tab.url)
                                             /\ \A p \in s.options.urls : ~Matches(p, Text(tab.url))
                                             /\ tab.sanitized => tab.title # "telling"

LEMMA StoresAllowed ==
    ASSUME CaptureAssumption, TypeInv, WhileAllowed, StripUserinfo, StripFragments, DetectEntropy, "*" \notin Word,
           NEW found, NEW program, WellFound(found, program), NEW source, Stores(found, source),
           found = <<>> \/ options.tabs
    PROVE  AllowedAt(snapshot')
  <1> DEFINE stored == Sanitize(Attached(found, windows, options), options)
             record == [stored |-> Storable(stored), windows |-> stored, source |-> source,
                        found |-> found, options |-> options, calm |-> calm]
  <1>1. stored \in Seq(StoredWindows) /\ DOMAIN stored = DOMAIN windows
    BY StoredAre
  <1>2. PICK giver \in [DOMAIN windows -> DOMAIN found \cup {0}] :
            /\ \A v, w \in DOMAIN windows : (giver[v] = giver[w] /\ giver[v] # 0) => v = w
            /\ \A w \in DOMAIN windows :
                /\ Same(stored[w], windows[w]) /\ InARow(stored[w].tabs)
                /\ \A i \in DOMAIN stored[w].tabs :
                    /\ giver[w] # 0 /\ stored[w].tabs[i].from = found[giver[w]].from
                    /\ stored[w].tabs[i].from \in Private => options.incognito
                    /\ options.sanitize => Safe(stored[w].tabs[i]) /\ ~Listed(stored[w].tabs[i], options)
    BY StoredAre
  <1>3. snapshot' = record /\ stage = "tabs"
    BY DEF Stores, Attached
  <1> HIDE DEF stored
  <1>4. snapshot'.windows = stored /\ snapshot'.options = options
    BY <1>3
  <1> HIDE DEF record
  <1>5. options \in Requests
    BY <1>3 DEF TypeInv
  <1>6. options.apps \in SUBSET Seq(STRING) /\ options.urls \in SUBSET Seq(STRING)
    BY <1>5 DEF CaptureAssumption, Asking
  <1>7. ASSUME NEW w \in DOMAIN stored
        PROVE  /\ \A pattern \in options.apps : ~Matches(pattern, stored[w].app)
               /\ stored[w].minimized => options.minimized
    <2>1. w \in DOMAIN windows /\ ~IsExcluded(windows[w], options) /\ windows[w] \in StoredWindows
      BY <1>1, <1>3 DEF WhileAllowed, TypeInv
    <2>2. stored[w].app = windows[w].app /\ stored[w].minimized = windows[w].minimized
      BY <1>2, <2>1 DEF Same
    <2>3. windows[w].minimized => options.minimized
      BY <2>1 DEF IsExcluded
    <2>4. \A pattern \in options.apps : ~GlobMatch(pattern, windows[w].app)
      BY <2>1 DEF IsExcluded
    <2>5. windows[w].app \in Seq(Texts)
      <3>1. windows[w].app \in Seq(Word) /\ Word \subseteq Texts
        BY <2>1 DEF StoredWindows, Texts
      <3> DEFINE app == windows[w].app
      <3> HIDE DEF Texts, app
      <3>2. app \in Seq(Word)
        BY <3>1 DEF app
      <3>3. app \in Seq(Texts)
        BY <3>1, <3>2
      <3> QED
        BY <3>3 DEF app
    <2>6. \A pattern \in options.apps : ~Matches(pattern, windows[w].app)
      BY <1>6, <2>4, <2>5, NoMatch
    <2> QED
      BY <2>2, <2>3, <2>6
  <1>8. ASSUME NEW w \in DOMAIN stored, NEW i \in DOMAIN stored[w].tabs
        PROVE  LET tab == stored[w].tabs[i]
               IN  /\ options.tabs /\ (tab.from \in Private => options.incognito)
                   /\ options.sanitize => /\ Harmless(tab.url)
                                          /\ \A p \in options.urls : ~Matches(p, Text(tab.url))
                                          /\ tab.sanitized => tab.title # "telling"
    <2> DEFINE tab == stored[w].tabs[i]
    <2>1. tab \in TabRecords
      <3>1. stored[w] \in StoredWindows
        BY <1>1
      <3>2. stored[w].tabs \in Seq(TabRecords)
        BY <3>1 DEF StoredWindows
      <3> QED
        BY <3>2
    <2>2. tab.url \in UrlRecords
      BY <2>1 DEF TabRecords, Seen
    <2>3. Text(tab.url) \in Seq(Texts)
      BY <2>2, TextIs
    <2>4. /\ giver[w] # 0 /\ tab.from \in Private => options.incognito
          /\ options.sanitize => Safe(tab) /\ ~Listed(tab, options)
      BY <1>1, <1>2
    <2>5. options.tabs
      <3>1. giver[w] \in DOMAIN found
        BY <1>1, <1>2, <2>4
      <3>2. found # <<>>
        <4>1. found = <<>> => DOMAIN found = {}
          OBVIOUS
        <4> QED
          BY <3>1, <4>1
      <3> QED
        BY <3>2
    <2> HIDE DEF tab
    <2>6. ASSUME options.sanitize, NEW p \in options.urls PROVE ~Matches(p, Text(tab.url))
      <3>1. ~GlobMatch(p, Text(tab.url))
        BY <2>4, <2>6 DEF Listed
      <3> QED
        BY <1>6, <2>3, <2>6, <3>1, NoMatch
    <2>7. options.sanitize => Harmless(tab.url) /\ (tab.sanitized => tab.title # "telling")
      BY <2>4 DEF Safe
    <2>8. tab.from \in Private => options.incognito
      BY <1>1, <1>2 DEF tab
    <2>9. /\ options.tabs /\ (tab.from \in Private => options.incognito)
          /\ options.sanitize => /\ Harmless(tab.url)
                                 /\ \A p \in options.urls : ~Matches(p, Text(tab.url))
                                 /\ tab.sanitized => tab.title # "telling"
      BY <2>5, <2>6, <2>7, <2>8
    <2> QED
      BY <2>9 DEF tab
  <1> QED
    BY <1>4, <1>7, <1>8 DEF AllowedAt

\* The inductive invariant of StoredIsAllowed.
AllowedInv == SnapshotInv /\ WhileAllowed /\ AllowedAt(snapshot)

LEMMA AllowedKept ==
    ASSUME CaptureAssumption, SessionAssumption, StripUserinfo, StripFragments, DetectEntropy, "*" \notin Word,
           AllowedInv, [Next]_vars
    PROVE  AllowedInv'
  <1>1. SnapshotInv'
    BY SnapshotKept DEF AllowedInv
  <1>2. TypeInv
    BY DEF AllowedInv, SnapshotInv
  <1>3. snapshot' = None => AllowedAt(snapshot')
    BY DEF AllowedAt
  <1>4. stage' # "tabs" => WhileAllowed'
    BY DEF WhileAllowed
  <1>5. CASE Lives
    <2>1. snapshot' = snapshot /\ windows' = windows /\ stage' = stage /\ options' = options
      BY <1>2, <1>5, LivesTyped
    <2>2. AllowedAt(snapshot')
      BY <2>1 DEF AllowedInv
    <2>3. WhileAllowed'
      BY <2>1 DEF AllowedInv, WhileAllowed, IsExcluded
    <2> QED
      BY <1>1, <2>2, <2>3 DEF AllowedInv
  <1>6. ASSUME NEW o \in Requests, Enumerate(o) PROVE AllowedAt(snapshot') /\ WhileAllowed'
    <2>1. snapshot' = None /\ options' = o /\ \A w \in DOMAIN windows' : ~IsExcluded(windows'[w], o)
      BY <1>2, <1>6, EnumerateIs DEF Enumerate
    <2>2. \A w \in DOMAIN windows' : ~IsExcluded(windows'[w], options')
      BY <2>1
    <2> QED
      BY <1>3, <2>1, <2>2 DEF WhileAllowed, IsExcluded
  <1>7. ASSUME NEW o \in Requests, EnumerateFails(o) PROVE AllowedAt(snapshot') /\ WhileAllowed'
    BY <1>3, <1>4, <1>7 DEF EnumerateFails
  <1>8. ASSUME NEW found, NEW source, WellFound(found, kind), Stores(found, source), found = <<>> \/ options.tabs
        PROVE  AllowedAt(snapshot') /\ WhileAllowed'
    <2>1. WhileAllowed
      BY DEF AllowedInv
    <2>2. AllowedAt(snapshot')
      BY <1>2, <1>8, <2>1, StoresAllowed
    <2>3. stage' = "idle"
      BY <1>8 DEF Stores, Idle
    <2> QED
      BY <1>4, <2>2, <2>3
  <1>9. ASSUME StoreWithoutTabs PROVE AllowedAt(snapshot') /\ WhileAllowed'
    <2> DEFINE none == <<>>
    <2>1. none \in Seq(FoundWindows) /\ DOMAIN none = {} /\ none = <<>>
      OBVIOUS
    <2>2. Stores(none, "none")
      BY <1>9 DEF StoreWithoutTabs
    <2> HIDE DEF none
    <2>3. WellFound(none, kind)
      BY <2>1 DEF WellFound
    <2> QED
      BY <1>8, <2>1, <2>2, <2>3
  <1>10. ASSUME NEW shows \in BOOLEAN, StoreExtensionTabs(shows) PROVE AllowedAt(snapshot') /\ WhileAllowed'
    <2>1. WellFound(ExtensionWindows(shows), kind)
      BY <1>2, ExtensionIs DEF TypeInv
    <2>2. Stores(ExtensionWindows(shows), "extension") /\ options.tabs
      BY <1>10 DEF StoreExtensionTabs, AsksBridge
    <2> QED
      BY <1>8, <2>1, <2>2
  <1>11. ASSUME StoreSessionTabs PROVE AllowedAt(snapshot') /\ WhileAllowed'
    <2>1. Stores(SessionWindows, "session") /\ options.tabs
      BY <1>11 DEF StoreSessionTabs, AsksBridge
    <2> QED
      BY <1>2, <1>8, <2>1, SessionIs
  <1>12. CASE UNCHANGED vars
    <2>1. AllowedAt(snapshot')
      BY <1>12 DEF AllowedInv, vars, handler
    <2>2. WhileAllowed'
      BY <1>12 DEF AllowedInv, WhileAllowed, IsExcluded, vars, handler
    <2> QED
      BY <1>1, <2>1, <2>2 DEF AllowedInv
  <1> QED
    BY <1>1, <1>5, <1>6, <1>7, <1>9, <1>10, <1>11, <1>12 DEF Next, Captures, AllowedInv

\* With the options that are the default of SanitizerOptions, a snapshot has nothing that may not
\* be stored: no window of an excluded program, no tab of a private window that was not asked
\* for, and, when URLs are to be sanitized, no credential, no fragment and none that a pattern
\* excludes; however the extension, the log or the recovery file had it, and whatever any
\* pattern means.  The matcher is wrong only for texts that have a star of their own.
THEOREM OnlyTheAllowedIsStored ==
    ASSUME StripUserinfo, StripFragments, DetectEntropy, "*" \notin Word
    PROVE  Spec => []StoredIsAllowed
  <1>1. CaptureAssumption /\ SessionAssumption
    BY CaptureAssumption, SessionAssumption
  <1>2. Init => AllowedInv
    BY <1>1, SnapshotAtFirst DEF Init, AllowedInv, WhileAllowed, AllowedAt
  <1>3. AllowedInv /\ [Next]_vars => AllowedInv'
    BY <1>1, AllowedKept
  <1>4. AllowedInv => StoredIsAllowed
    BY DEF AllowedInv, AllowedAt, StoredIsAllowed
  <1> QED
    BY <1>2, <1>3, <1>4, PTL DEF Spec

-----------------------------------------------------------------------------
(* What is read from the session file is what the browser had at some moment. *)

LEMMA HeardIs ==
    ASSUME NEW known \in Known, NEW t
    PROVE  Heard(known.tabs, t) \in TabStates
  <1>1. PICK D \in SUBSET Tab : known.tabs \in [D -> TabStates]
    BY DEF Known
  <1>2. <<>> \in Entries
    <2>1. {} \in SUBSET Nat /\ IsFiniteSet({})
      BY FS_EmptySet
    <2>2. <<>> \in [{} -> AnyPage]
      OBVIOUS
    <2> QED
      BY <2>1, <2>2 DEF Entries
  <1>3. Unheard \in TabStates
    BY <1>2 DEF Unheard, TabStates
  <1> QED
    BY <1>1, <1>3 DEF Heard

\* The state of a tab has become s, and nothing else is known of another.
Changed(known, next, t, s) ==
    /\ DOMAIN next.tabs = DOMAIN known.tabs \cup {t} /\ next.tabs[t] = s
    /\ \A u \in DOMAIN known.tabs : u # t => next.tabs[u] = known.tabs[u]

LEMMA LearnDoes ==
    ASSUME NEW known \in Known, NEW c \in LogCommands
    PROVE  LET old  == Heard(known.tabs, c.tab)
               next == Learn(known, c)
           IN  /\ c.id = "SetTabWindow" => Changed(known, next, c.tab, [old EXCEPT !.win = c.win])
               /\ c.id = "SetSelectedNavigationIndex" =>
                        Changed(known, next, c.tab, [old EXCEPT !.selected = c.index])
               /\ (c.id = "UpdateTabNavigation" /\ Savable(c.page)) =>
                        Changed(known, next, c.tab, [old EXCEPT !.entries = Update(old.entries, c.index, c.page)])
               /\ (c.id = "UpdateTabNavigation" /\ ~Savable(c.page)) => next = known
               /\ c.id = "TabClosed" => next = known
               /\ c.id = "SetActiveWindow" => next.tabs = known.tabs
  <1> DEFINE old == Heard(known.tabs, c.tab)
             next == Learn(known, c)
             To(state) == [known EXCEPT !.tabs = Update(known.tabs, c.tab, state)]
  <1>1. PICK D \in SUBSET Tab : known.tabs \in [D -> TabStates]
    BY DEF Known
  <1>2. \A state : To(state).tabs = Update(known.tabs, c.tab, state)
    BY DEF Known
  <1>3. ASSUME NEW state, next = To(state) PROVE Changed(known, next, c.tab, state)
    <2>1. next.tabs = Update(known.tabs, c.tab, state)
      BY <1>2, <1>3
    <2> HIDE DEF next
    <2>2. DOMAIN next.tabs = DOMAIN known.tabs \cup {c.tab} /\ next.tabs[c.tab] = state
      BY <2>1 DEF Update
    <2>3. \A u \in DOMAIN known.tabs : u # c.tab => next.tabs[u] = known.tabs[u]
      BY <2>1 DEF Update
    <2> QED
      BY <2>2, <2>3 DEF Changed
  <1>4. \A state : [known EXCEPT !.tabs = Update(@, c.tab, state)] = To(state)
    BY DEF Known
  <1>5. old \in TabStates
    BY HeardIs
  <1>6. c.id = "SetTabWindow" => next = To([old EXCEPT !.win = c.win])
    <2>1. c.id = "SetTabWindow" => next = [known EXCEPT !.tabs = Update(@, c.tab, [old EXCEPT !.win = c.win])]
      BY DEF Learn
    <2> HIDE DEF next, old, To
    <2> QED
      BY <1>4, <2>1
  <1>7. c.id = "SetSelectedNavigationIndex" => next = To([old EXCEPT !.selected = c.index])
    <2>1. c.id = "SetSelectedNavigationIndex" =>
            next = [known EXCEPT !.tabs = Update(@, c.tab, [old EXCEPT !.selected = c.index])]
      BY DEF Learn
    <2> HIDE DEF next, old, To
    <2> QED
      BY <1>4, <2>1
  <1>8. (c.id = "UpdateTabNavigation" /\ Savable(c.page)) =>
            next = To([old EXCEPT !.entries = Update(old.entries, c.index, c.page)])
    <2>1. (c.id = "UpdateTabNavigation" /\ Savable(c.page)) =>
            next = [known EXCEPT !.tabs = Update(@, c.tab, [old EXCEPT !.entries = Update(@, c.index, c.page)])]
      BY DEF Learn
    <2>2. [old EXCEPT !.entries = Update(@, c.index, c.page)] =
            [old EXCEPT !.entries = Update(old.entries, c.index, c.page)]
      BY <1>5 DEF TabStates
    <2> HIDE DEF next, old, To
    <2> QED
      BY <1>4, <2>1, <2>2
  <1>9. (c.id = "UpdateTabNavigation" /\ ~Savable(c.page)) => next = known
    BY DEF Learn
  <1>10. c.id = "TabClosed" => next = known
    BY DEF Learn
  <1>11. c.id = "SetActiveWindow" => next.tabs = known.tabs
    BY DEF Learn, Known
  <1> HIDE DEF next, old, To
  <1>12. c.id = "SetTabWindow" => Changed(known, next, c.tab, [old EXCEPT !.win = c.win])
    BY <1>3, <1>6
  <1>13. c.id = "SetSelectedNavigationIndex" => Changed(known, next, c.tab, [old EXCEPT !.selected = c.index])
    BY <1>3, <1>7
  <1>14. (c.id = "UpdateTabNavigation" /\ Savable(c.page)) =>
            Changed(known, next, c.tab, [old EXCEPT !.entries = Update(old.entries, c.index, c.page)])
    BY <1>3, <1>8
  <1> QED
    BY <1>9, <1>10, <1>11, <1>12, <1>13, <1>14 DEF next, old

\* The first pages of a tab are known, and the whole tab is.
Entered(known, t, pages, n) ==
    \A j \in 1..n : Savable(pages[j]) =>
        j - 1 \in DOMAIN known.tabs[t].entries /\ known.tabs[t].entries[j - 1] = pages[j]

Knows(known, t, tab) ==
    /\ t \in DOMAIN known.tabs /\ known.tabs[t].win = tab.win /\ known.tabs[t].selected = tab.at - 1
    /\ Entered(known, t, tab.pages, Len(tab.pages))

\* The commands about other tabs change nothing of what is known of one.
LEMMA OthersLearnt ==
    ASSUME NEW known \in Known, NEW c \in LogCommands, NEW u \in DOMAIN known.tabs, c.tab # u
    PROVE  u \in DOMAIN Learn(known, c).tabs /\ Learn(known, c).tabs[u] = known.tabs[u]
  <1> DEFINE next == Learn(known, c)
             old == Heard(known.tabs, c.tab)
  <1>1. /\ c.id = "SetTabWindow" => Changed(known, next, c.tab, [old EXCEPT !.win = c.win])
        /\ c.id = "SetSelectedNavigationIndex" => Changed(known, next, c.tab, [old EXCEPT !.selected = c.index])
        /\ (c.id = "UpdateTabNavigation" /\ Savable(c.page)) =>
                Changed(known, next, c.tab, [old EXCEPT !.entries = Update(old.entries, c.index, c.page)])
        /\ (c.id = "UpdateTabNavigation" /\ ~Savable(c.page)) => next = known
        /\ c.id = "TabClosed" => next = known
        /\ c.id = "SetActiveWindow" => next.tabs = known.tabs
    BY LearnDoes
  <1>2. c.id \in {"SetTabWindow", "UpdateTabNavigation", "SetSelectedNavigationIndex", "TabClosed", "SetActiveWindow"}
    BY DEF LogCommands
  <1> HIDE DEF next
  <1>3. next.tabs = known.tabs \/ \E s : Changed(known, next, c.tab, s)
    BY <1>1, <1>2
  <1>4. u \in DOMAIN next.tabs /\ next.tabs[u] = known.tabs[u]
    BY <1>3 DEF Changed
  <1> QED
    BY <1>4 DEF next

LEMMA Undisturbed ==
    ASSUME NEW commands \in Seq(LogCommands), NEW a \in 0..Len(commands), NEW b \in a..Len(commands), NEW u,
           \A i \in a + 1..b : commands[i].tab # u, u \in DOMAIN LearnedBy(commands)[a].tabs
    PROVE  u \in DOMAIN LearnedBy(commands)[b].tabs
           /\ LearnedBy(commands)[b].tabs[u] = LearnedBy(commands)[a].tabs[u]
  <1> DEFINE n == Len(commands)
             f == LearnedBy(commands)
             S == {d \in Nat : a + d <= b => u \in DOMAIN f[a + d].tabs /\ f[a + d].tabs[u] = f[a].tabs[u]}
  <1>1. n \in Nat /\ a \in Nat /\ b \in Nat /\ a <= b /\ b <= n /\ \A k \in 1..n : commands[k] \in LogCommands
    OBVIOUS
  <1>2. \A k \in 1..n : f[k] = Learn(f[k - 1], commands[k])
    BY <1>1, LearnedByIs
  <1>3. \A k \in 0..n : f[k] \in Known
    BY LearnedIs
  <1>4. u \in DOMAIN f[a].tabs
    OBVIOUS
  <1> HIDE DEF n, f
  <1>5. Nat \subseteq S
    <2>1. 0 \in S
      BY <1>1, <1>4
    <2>2. ASSUME NEW d \in Nat, d \in S PROVE d + 1 \in S
      <3>1. CASE a + (d + 1) <= b
        <4> DEFINE i == a + (d + 1)
        <4>1. i \in 1..n /\ i \in a + 1..b /\ i - 1 = a + d /\ a + d <= b /\ a + d \in 0..n
          BY <1>1, <3>1
        <4> HIDE DEF i
        <4>2. f[i] = Learn(f[a + d], commands[i]) /\ commands[i] \in LogCommands /\ commands[i].tab # u
          BY <1>1, <1>2, <4>1
        <4>3. f[a + d] \in Known /\ u \in DOMAIN f[a + d].tabs /\ f[a + d].tabs[u] = f[a].tabs[u]
          BY <1>3, <2>2, <4>1
        <4>4. u \in DOMAIN f[i].tabs /\ f[i].tabs[u] = f[a].tabs[u]
          BY <4>2, <4>3, OthersLearnt
        <4> QED
          BY <4>4 DEF i
      <3>2. CASE ~(a + (d + 1) <= b)
        BY <3>2
      <3> QED
        BY <3>1, <3>2
    <2> HIDE DEF S
    <2> QED
      BY <2>1, <2>2, SetInduction
  <1>6. b - a \in Nat /\ a + (b - a) = b
    BY <1>1
  <1>7. b - a \in S
    BY <1>5, <1>6
  <1>8. u \in DOMAIN f[b].tabs /\ f[b].tabs[u] = f[a].tabs[u]
    BY <1>1, <1>6, <1>7
  <1> QED
    BY <1>8 DEF f

\* A longer log tells the same at first.
LEMMA Onward ==
    ASSUME NEW log1 \in Seq(LogCommands), NEW log2 \in Seq(LogCommands), Len(log1) <= Len(log2),
           \A i \in 1..Len(log1) : log1[i] = log2[i]
    PROVE  \A k \in 0..Len(log1) : LearnedBy(log1)[k] = LearnedBy(log2)[k]
  <1> DEFINE n == Len(log1)
             m == Len(log2)
             f == LearnedBy(log1)
             g == LearnedBy(log2)
             S == {k \in Nat : k <= n => f[k] = g[k]}
  <1>1. n \in Nat /\ m \in Nat /\ n <= m /\ \A i \in 1..n : log1[i] = log2[i]
    OBVIOUS
  <1>2. f[0] = [tabs |-> <<>>, active |-> 0] /\ \A k \in 1..n : f[k] = Learn(f[k - 1], log1[k])
    BY <1>1, LearnedByIs
  <1>3. g[0] = [tabs |-> <<>>, active |-> 0] /\ \A k \in 1..m : g[k] = Learn(g[k - 1], log2[k])
    BY <1>1, LearnedByIs
  <1> HIDE DEF n, m, f, g
  <1>4. Nat \subseteq S
    <2>1. 0 \in S
      BY <1>2, <1>3
    <2>2. ASSUME NEW k \in Nat, k \in S PROVE k + 1 \in S
      <3>1. CASE k + 1 <= n
        <4>1. k + 1 \in 1..n /\ k + 1 \in 1..m /\ (k + 1) - 1 = k /\ k <= n
          BY <1>1, <3>1
        <4>2. f[k + 1] = Learn(f[k], log1[k + 1]) /\ g[k + 1] = Learn(g[k], log2[k + 1]) /\ f[k] = g[k]
          BY <1>2, <1>3, <2>2, <4>1
        <4>3. f[k + 1] = g[k + 1]
          BY <1>1, <4>1, <4>2
        <4> QED
          BY <4>3
      <3>2. CASE ~(k + 1 <= n)
        BY <3>2
      <3> QED
        BY <3>1, <3>2
    <2> HIDE DEF S
    <2> QED
      BY <2>1, <2>2, SetInduction
  <1>5. \A k \in 0..n : f[k] = g[k]
    BY <1>1, <1>4
  <1> QED
    BY <1>5 DEF n, f, g

\* A log that goes on is learnt from where it was.
LEMMA Continued ==
    ASSUME NEW log1 \in Seq(LogCommands), NEW commands \in Seq(LogCommands)
    PROVE  LET both == log1 \o commands
               a == Len(log1)
           IN  /\ both \in Seq(LogCommands) /\ Len(both) = a + Len(commands) /\ a \in Nat /\ Len(commands) \in Nat
               /\ \A i \in 1..a : both[i] = log1[i]
               /\ \A i \in 1..Len(commands) : both[a + i] = commands[i]
               /\ \A k \in 0..a : LearnedBy(both)[k] = LearnedBy(log1)[k]
               /\ \A k \in 0..Len(both) : LearnedBy(both)[k] \in Known
               /\ \A i \in 1..Len(commands) : LearnedBy(both)[a + i] = Learn(LearnedBy(both)[a + (i - 1)], commands[i])
  <1> DEFINE both == log1 \o commands
             a == Len(log1)
             n == Len(commands)
             f == LearnedBy(both)
  <1>1. /\ both \in Seq(LogCommands) /\ Len(both) = a + n /\ a \in Nat /\ n \in Nat
        /\ \A i \in 1..a : both[i] = log1[i]
        /\ \A i \in 1..n : both[a + i] = commands[i]
    OBVIOUS
  <1> HIDE DEF both, a, n
  <1>2. a <= Len(both) /\ Len(both) \in Nat
    BY <1>1
  <1>3. \A k \in 0..a : LearnedBy(log1)[k] = f[k]
    BY <1>1, <1>2, Onward DEF a
  <1>4. \A k \in 0..Len(both) : f[k] \in Known
    BY <1>1, LearnedIs
  <1>5. \A k \in 1..Len(both) : f[k] = Learn(f[k - 1], both[k])
    BY <1>2, LearnedByIs
  <1>6. ASSUME NEW i \in 1..n PROVE f[a + i] = Learn(f[a + (i - 1)], commands[i])
    <2>1. a + i \in 1..Len(both) /\ (a + i) - 1 = a + (i - 1) /\ both[a + i] = commands[i]
      BY <1>1
    <2> HIDE DEF f
    <2> QED
      BY <1>5, <2>1
  <1> QED
    BY <1>1, <1>3, <1>4, <1>6 DEF both, a, n, f

\* What is known of a tab when it is put in a window, when another of its entries is selected, and
\* when it goes to a new page.
LEMMA KnowsMoved ==
    ASSUME NEW known \in Known, NEW t, NEW tab \in BrowserTabs, Knows(known, t, tab), NEW w,
           Command("SetTabWindow", w, t, 0, None) \in LogCommands
    PROVE  Knows(Learn(known, Command("SetTabWindow", w, t, 0, None)), t, [tab EXCEPT !.win = w])
  <1> DEFINE c == Command("SetTabWindow", w, t, 0, None)
             next == Learn(known, c)
             old == known.tabs[t]
             new == [tab EXCEPT !.win = w]
  <1>1. c.id = "SetTabWindow" /\ c.tab = t /\ c.win = w
    BY DEF Command
  <1> HIDE DEF c
  <1>2. t \in DOMAIN known.tabs /\ Heard(known.tabs, t) = old /\ old \in TabStates
    <2>1. t \in DOMAIN known.tabs
      BY DEF Knows
    <2> QED
      BY <2>1, HeardIs DEF Heard
  <1>3. Changed(known, next, t, [old EXCEPT !.win = w])
    BY <1>1, <1>2, LearnDoes DEF c
  <1>4. new.win = w /\ new.at = tab.at /\ new.pages = tab.pages
    BY DEF BrowserTabs
  <1> HIDE DEF next, new
  <1>5. /\ t \in DOMAIN next.tabs /\ next.tabs[t].win = w /\ next.tabs[t].selected = old.selected
        /\ next.tabs[t].entries = old.entries
    BY <1>2, <1>3 DEF Changed, TabStates
  <1>6. Knows(next, t, new)
    BY <1>4, <1>5 DEF Knows, Entered
  <1> QED
    BY <1>6 DEF next, new, c

LEMMA KnowsSelected ==
    ASSUME NEW known \in Known, NEW t, NEW tab \in BrowserTabs, Knows(known, t, tab), NEW at \in Nat \ {0},
           Command("SetSelectedNavigationIndex", 0, t, at - 1, None) \in LogCommands
    PROVE  Knows(Learn(known, Command("SetSelectedNavigationIndex", 0, t, at - 1, None)), t, [tab EXCEPT !.at = at])
  <1> DEFINE c == Command("SetSelectedNavigationIndex", 0, t, at - 1, None)
             next == Learn(known, c)
             old == known.tabs[t]
             new == [tab EXCEPT !.at = at]
  <1>1. c.id = "SetSelectedNavigationIndex" /\ c.tab = t /\ c.index = at - 1
    BY DEF Command
  <1> HIDE DEF c
  <1>2. t \in DOMAIN known.tabs /\ Heard(known.tabs, t) = old /\ old \in TabStates
    <2>1. t \in DOMAIN known.tabs
      BY DEF Knows
    <2> QED
      BY <2>1, HeardIs DEF Heard
  <1>3. Changed(known, next, t, [old EXCEPT !.selected = at - 1])
    BY <1>1, <1>2, LearnDoes DEF c
  <1>4. new.win = tab.win /\ new.at = at /\ new.pages = tab.pages
    BY DEF BrowserTabs
  <1> HIDE DEF next, new
  <1>5. /\ t \in DOMAIN next.tabs /\ next.tabs[t].win = old.win /\ next.tabs[t].selected = at - 1
        /\ next.tabs[t].entries = old.entries
    BY <1>2, <1>3 DEF Changed, TabStates
  <1>6. Knows(next, t, new)
    BY <1>4, <1>5 DEF Knows, Entered
  <1> QED
    BY <1>6 DEF next, new, c

\* A page more of a tab, in the place behind those that have been entered.
LEMMA OneEntered ==
    ASSUME NEW known \in Known, NEW t \in DOMAIN known.tabs, NEW pages, NEW n \in Nat, Entered(known, t, pages, n),
           Command("UpdateTabNavigation", 0, t, n, pages[n + 1]) \in LogCommands
    PROVE  LET next == Learn(known, Command("UpdateTabNavigation", 0, t, n, pages[n + 1]))
           IN  /\ t \in DOMAIN next.tabs /\ next.tabs[t].win = known.tabs[t].win
               /\ next.tabs[t].selected = known.tabs[t].selected /\ Entered(next, t, pages, n + 1)
  <1> DEFINE page == pages[n + 1]
             c == Command("UpdateTabNavigation", 0, t, n, page)
             next == Learn(known, c)
             old == known.tabs[t]
             entries == Update(old.entries, n, page)
  <1>1. c.id = "UpdateTabNavigation" /\ c.tab = t /\ c.index = n /\ c.page = page
    BY DEF Command
  <1>2. Heard(known.tabs, t) = old /\ old \in TabStates
    BY HeardIs DEF Heard
  <1>3. \A j \in 1..n : Savable(pages[j]) => j - 1 \in DOMAIN old.entries /\ old.entries[j - 1] = pages[j]
    BY DEF Entered
  <1>4. \A j \in 1..n + 1 : j \in 1..n \/ j = n + 1
    OBVIOUS
  <1>5. CASE Savable(page)
    <2>1. Changed(known, next, t, [old EXCEPT !.entries = entries])
      BY <1>1, <1>2, <1>5, LearnDoes
    <2> HIDE DEF c, next, entries
    <2>2. /\ t \in DOMAIN next.tabs /\ next.tabs[t].win = old.win /\ next.tabs[t].selected = old.selected
          /\ next.tabs[t].entries = entries
      BY <1>2, <2>1 DEF Changed, TabStates
    <2>3. DOMAIN entries = DOMAIN old.entries \cup {n} /\ entries[n] = page
          /\ \A k \in DOMAIN old.entries : k # n => entries[k] = old.entries[k]
      BY DEF entries, Update
    <2>4. ASSUME NEW j \in 1..n + 1, Savable(pages[j])
          PROVE  j - 1 \in DOMAIN entries /\ entries[j - 1] = pages[j]
      <3>1. CASE j \in 1..n
        <4>1. j - 1 \in DOMAIN old.entries /\ old.entries[j - 1] = pages[j]
          BY <1>3, <2>4, <3>1
        <4>2. j - 1 # n
          BY <3>1
        <4> QED
          BY <2>3, <4>1, <4>2
      <3>2. CASE j = n + 1
        <4>1. j - 1 = n /\ pages[j] = page
          BY <3>2
        <4> QED
          BY <2>3, <4>1
      <3> QED
        BY <1>4, <3>1, <3>2
    <2>5. Entered(next, t, pages, n + 1)
      BY <2>2, <2>4 DEF Entered
    <2> QED
      BY <2>2, <2>5 DEF c, next
  <1>6. CASE ~Savable(page)
    <2>1. next = known
      BY <1>1, <1>6, LearnDoes
    <2> HIDE DEF c, next
    <2>2. \A j \in 1..n + 1 : Savable(pages[j]) => j - 1 \in DOMAIN old.entries /\ old.entries[j - 1] = pages[j]
      BY <1>3, <1>4, <1>6
    <2>3. Entered(next, t, pages, n + 1)
      BY <2>1, <2>2 DEF Entered
    <2> QED
      BY <2>1, <2>3 DEF c, next
  <1> QED
    BY <1>5, <1>6

LEMMA KnowsNavigated ==
    ASSUME CaptureAssumption, NEW known \in Known, NEW t \in Tab, NEW tab \in BrowserTabs, Knows(known, t, tab),
           NEW page \in AnyPage
    PROVE  LET first == Learn(known, Command("SetSelectedNavigationIndex", 0, t, tab.at, None))
           IN  Knows(Learn(first, Command("UpdateTabNavigation", 0, t, tab.at, page)), t,
                     [tab EXCEPT !.pages = Append(SubSeq(tab.pages, 1, tab.at), page), !.at = tab.at + 1])
  <1> DEFINE at == tab.at
             pages == Append(SubSeq(tab.pages, 1, at), page)
             c == Command("SetSelectedNavigationIndex", 0, t, at, None)
             d == Command("UpdateTabNavigation", 0, t, at, page)
             first == Learn(known, c)
             last == Learn(first, d)
             new == [tab EXCEPT !.pages = pages, !.at = at + 1]
             turned == [tab EXCEPT !.at = at + 1]
  <1>1. tab.pages \in Seq(AnyPage) /\ at \in 1..Len(tab.pages) /\ at \in Nat /\ t \in Nat
    <2>1. tab.pages \in Seq(AnyPage) /\ at \in DOMAIN tab.pages /\ t \in Nat
      BY DEF BrowserTabs, CaptureAssumption
    <2> HIDE DEF at
    <2> QED
      BY <2>1
  <1>2. new.win = tab.win /\ new.pages = pages /\ new.at = at + 1
    BY DEF BrowserTabs
  <1>3. turned.win = tab.win /\ turned.pages = tab.pages /\ turned.at = at + 1
    BY DEF BrowserTabs
  <1>4. c \in LogCommands /\ d \in LogCommands
    BY <1>1 DEF Command, LogCommands
  <1>5. Len(pages) = at + 1 /\ pages[at + 1] = page /\ \A j \in 1..at : pages[j] = tab.pages[j]
    <2> HIDE DEF at
    <2>1. Len(SubSeq(tab.pages, 1, at)) = at /\ SubSeq(tab.pages, 1, at) \in Seq(AnyPage)
          /\ \A j \in 1..at : SubSeq(tab.pages, 1, at)[j] = tab.pages[j]
      BY <1>1
    <2> QED
      BY <1>1, <2>1
  <1> DEFINE next == at + 1
  <1>6. next \in Nat \ {0} /\ next - 1 = at
    BY <1>1
  <1> HIDE DEF new, pages, next
  <1>7. Knows(first, t, [tab EXCEPT !.at = next])
    <2>1. Command("SetSelectedNavigationIndex", 0, t, next - 1, None) = c
      BY <1>6
    <2> HIDE DEF c, first
    <2>2. Knows(Learn(known, c), t, [tab EXCEPT !.at = next])
      BY <1>4, <1>6, <2>1, KnowsSelected
    <2> QED
      BY <2>2 DEF first
  <1>8. Knows(first, t, turned)
    BY <1>7 DEF next
  <1>9. first \in Known
    BY <1>4, LearnIs
  <1> HIDE DEF first, turned, c
  <1>10. /\ t \in DOMAIN first.tabs /\ first.tabs[t].win = tab.win /\ first.tabs[t].selected = at
         /\ Entered(first, t, tab.pages, Len(tab.pages))
    <2>1. next = at + 1 /\ turned.at - 1 = at
      BY <1>1, <1>3 DEF next
    <2> QED
      BY <1>3, <1>8, <2>1 DEF Knows
  <1>11. Entered(first, t, pages, at)
    <2>1. \A j \in 1..at : j \in 1..Len(tab.pages)
      BY <1>1
    <2> QED
      BY <1>5, <1>10, <2>1 DEF Entered
  <1>12. Command("UpdateTabNavigation", 0, t, at, pages[at + 1]) = d
    BY <1>5
  <1> HIDE DEF at, d
  <1>13. t \in DOMAIN last.tabs /\ last.tabs[t].win = tab.win /\ last.tabs[t].selected = at /\ Entered(last, t, pages, at + 1)
    <2> DEFINE e == Command("UpdateTabNavigation", 0, t, at, pages[at + 1])
               known2 == Learn(first, e)
    <2>1. e \in LogCommands /\ t \in DOMAIN first.tabs
      BY <1>4, <1>10, <1>12
    <2>2. /\ t \in DOMAIN known2.tabs /\ known2.tabs[t].win = first.tabs[t].win
          /\ known2.tabs[t].selected = first.tabs[t].selected /\ Entered(known2, t, pages, at + 1)
      BY <1>1, <1>9, <1>11, <2>1, OneEntered
    <2>3. last = known2
      BY <1>12
    <2> HIDE DEF known2, last
    <2> QED
      BY <1>10, <2>2, <2>3
  <1> HIDE DEF last
  <1>14. new.at - 1 = at
    BY <1>1, <1>2
  <1>15. Knows(last, t, new)
    BY <1>2, <1>5, <1>13, <1>14 DEF Knows
  <1> QED
    BY <1>15 DEF last, first, new, at, c, d, pages

\* The commands of a session, one by one.
LEMMA SessionOfHas ==
    ASSUME CaptureAssumption, NEW t \in Tab, NEW tab \in BrowserTabs, tab.win \notin Private
    PROVE  LET commands == SessionOf(t, tab)
               n == Len(tab.pages)
           IN  /\ commands \in Seq(LogCommands) /\ n \in Nat /\ Len(commands) = n + 2
               /\ commands[1] = Command("SetTabWindow", tab.win, t, 0, None)
               /\ \A i \in 1..n : commands[1 + i] = Command("UpdateTabNavigation", 0, t, i - 1, tab.pages[i])
               /\ commands[n + 2] = Command("SetSelectedNavigationIndex", 0, t, tab.at - 1, None)
               /\ \A i \in 1..Len(commands) : commands[i].tab = t
  <1> DEFINE pages == tab.pages
             n == Len(pages)
             first == <<Command("SetTabWindow", tab.win, t, 0, None)>>
             middle == [i \in DOMAIN pages |-> Command("UpdateTabNavigation", 0, t, i - 1, pages[i])]
             last == <<Command("SetSelectedNavigationIndex", 0, t, tab.at - 1, None)>>
             commands == SessionOf(t, tab)
             both == first \o middle
  <1>1. commands \in Seq(LogCommands)
    BY SessionOfIs
  <1>2. pages \in Seq(AnyPage)
    BY DEF BrowserTabs
  <1>3. commands = both \o last
    BY DEF SessionOf
  <1> HIDE DEF pages
  <1>4. n \in Nat /\ DOMAIN pages = 1..n
    BY <1>2
  <1> HIDE DEF n
  <1> DEFINE any == {Command("UpdateTabNavigation", 0, t, i - 1, pages[i]) : i \in 1..n}
                    \cup {Command("SetTabWindow", tab.win, t, 0, None), Command("SetSelectedNavigationIndex", 0, t, tab.at - 1, None)}
  <1>5. middle \in Seq(any) /\ Len(middle) = n
    <2>1. middle \in [1..n -> any]
      BY <1>4
    <2> HIDE DEF middle, any
    <2> QED
      BY <1>4, <2>1
  <1>6. \A i \in 1..n : middle[i] = Command("UpdateTabNavigation", 0, t, i - 1, pages[i])
    BY <1>4
  <1>7. first \in Seq(any) /\ Len(first) = 1 /\ first[1] = Command("SetTabWindow", tab.win, t, 0, None)
    OBVIOUS
  <1>8. last \in Seq(any) /\ Len(last) = 1 /\ last[1] = Command("SetSelectedNavigationIndex", 0, t, tab.at - 1, None)
    OBVIOUS
  <1> HIDE DEF middle, first, last, any, commands
  <1>9. both \in Seq(any) /\ Len(both) = n + 1 /\ both[1] = first[1] /\ \A i \in 1..n : both[1 + i] = middle[i]
    <2>1. /\ both \in Seq(any) /\ Len(both) = Len(first) + Len(middle)
          /\ \A i \in 1..Len(first) + Len(middle) :
                both[i] = IF i <= Len(first) THEN first[i] ELSE middle[i - Len(first)]
      BY <1>5, <1>7, ConcatProperties, ZenonT(60)
    <2> HIDE DEF both
    <2>2. ASSUME NEW i \in 1..n PROVE both[1 + i] = middle[i]
      <3>1. 1 + i \in 1..1 + n /\ ~(1 + i <= 1) /\ (1 + i) - 1 = i
        BY <1>4
      <3> QED
        BY <1>5, <1>7, <2>1, <3>1
    <2>3. 1 \in 1..1 + n /\ 1 <= 1 /\ 1 + n = n + 1
      BY <1>4
    <2> QED
      BY <1>5, <1>7, <2>1, <2>2, <2>3
  <1> HIDE DEF both
  <1>10. /\ Len(commands) = n + 2 /\ commands[1] = both[1] /\ commands[n + 2] = last[1]
         /\ \A i \in 1..n : commands[1 + i] = both[1 + i]
    <2>1. /\ Len(commands) = Len(both) + Len(last)
          /\ \A i \in 1..Len(both) + Len(last) :
                commands[i] = IF i <= Len(both) THEN both[i] ELSE last[i - Len(both)]
      <3> DEFINE all == both \o last
      <3>1. /\ Len(all) = Len(both) + Len(last)
            /\ \A i \in 1..Len(both) + Len(last) :
                  all[i] = IF i <= Len(both) THEN both[i] ELSE last[i - Len(both)]
        <4>1. both \in Seq(any) /\ last \in Seq(any)
          BY <1>8, <1>9
        <4> QED
          BY <4>1, ConcatProperties
      <3>2. commands = all
        BY <1>3
      <3> HIDE DEF all
      <3> QED
        BY <3>1, <3>2
    <2>2. ASSUME NEW i \in 1..n + 1 PROVE commands[i] = both[i]
      <3>1. i \in 1..(n + 1) + 1 /\ i <= n + 1
        BY <1>4
      <3> QED
        BY <1>8, <1>9, <2>1, <3>1
    <2>3. n + 2 \in 1..(n + 1) + 1 /\ ~(n + 2 <= n + 1) /\ (n + 2) - (n + 1) = 1 /\ (n + 1) + 1 = n + 2
      BY <1>4
    <2>4. 1 \in 1..n + 1 /\ \A i \in 1..n : 1 + i \in 1..n + 1
      BY <1>4
    <2>5. commands[n + 2] = last[1]
      BY <1>8, <1>9, <2>1, <2>3
    <2> QED
      BY <1>8, <1>9, <2>1, <2>2, <2>3, <2>4, <2>5
  <1>11. \A i \in 1..n : commands[1 + i] = Command("UpdateTabNavigation", 0, t, i - 1, pages[i])
    BY <1>6, <1>9, <1>10
  <1>12. ASSUME NEW i \in 1..Len(commands) PROVE commands[i].tab = t
    <2>1. i = 1 \/ i = n + 2 \/ \E j \in 1..n : i = 1 + j
      <3>1. i = 1 \/ i = n + 2 \/ (i - 1 \in 1..n /\ i = 1 + (i - 1))
        BY <1>4, <1>10
      <3> QED
        BY <3>1
    <2>2. CASE i = 1
      <3>1. commands[i] = Command("SetTabWindow", tab.win, t, 0, None)
        BY <1>7, <1>9, <1>10, <2>2
      <3> QED
        BY <3>1 DEF Command
    <2>3. CASE i = n + 2
      <3>1. commands[i] = Command("SetSelectedNavigationIndex", 0, t, tab.at - 1, None)
        BY <1>8, <1>10, <2>3
      <3> QED
        BY <3>1 DEF Command
    <2>4. ASSUME NEW j \in 1..n, i = 1 + j PROVE commands[i].tab = t
      <3>1. commands[i] = Command("UpdateTabNavigation", 0, t, j - 1, pages[j])
        BY <1>11, <2>4
      <3> QED
        BY <3>1 DEF Command
    <2> QED
      BY <2>1, <2>2, <2>3, <2>4
  <1> QED
    BY <1>1, <1>4, <1>7, <1>8, <1>9, <1>10, <1>11, <1>12 DEF commands, n, pages

\* After them the tab is known, whatever was known before.
LEMMA SessionLearnt ==
    ASSUME CaptureAssumption, NEW log1 \in Seq(LogCommands), NEW t \in Tab, NEW tab \in BrowserTabs,
           tab.win \notin Private
    PROVE  Knows(Learned(log1 \o SessionOf(t, tab)), t, tab)
  <1> DEFINE commands == SessionOf(t, tab)
             pages == tab.pages
             n == Len(pages)
             both == log1 \o commands
             a == Len(log1)
             f == LearnedBy(both)
  <1>1. /\ commands \in Seq(LogCommands) /\ n \in Nat /\ Len(commands) = n + 2
        /\ commands[1] = Command("SetTabWindow", tab.win, t, 0, None)
        /\ \A i \in 1..n : commands[1 + i] = Command("UpdateTabNavigation", 0, t, i - 1, pages[i])
        /\ commands[n + 2] = Command("SetSelectedNavigationIndex", 0, t, tab.at - 1, None)
    BY SessionOfHas
  <1> HIDE DEF commands
  <1>2. /\ Len(both) = a + Len(commands) /\ a \in Nat
        /\ \A k \in 0..Len(both) : f[k] \in Known
        /\ \A i \in 1..Len(commands) : f[a + i] = Learn(f[a + (i - 1)], commands[i])
    BY <1>1, Continued
  <1>3. Learned(both) = f[Len(both)]
    BY DEF Learned
  <1> HIDE DEF both, a, n, f
  <1>4. \A i \in 1..n + 2 : commands[i] \in LogCommands
    BY <1>1
  <1> DEFINE S == {i \in Nat : i <= n => /\ t \in DOMAIN f[a + (i + 1)].tabs /\ f[a + (i + 1)].tabs[t].win = tab.win
                                         /\ Entered(f[a + (i + 1)], t, pages, i)}
  <1>5. 0 \in S
    <2> DEFINE known == f[a + 0]
               next == f[a + 1]
               c == commands[1]
    <2>1. 1 \in 1..Len(commands) /\ a + 0 \in 0..Len(both) /\ 1 - 1 = 0 /\ 0 + 1 = 1
      BY <1>1, <1>2
    <2>2. next = Learn(known, c) /\ known \in Known /\ c \in LogCommands
      BY <1>1, <1>2, <1>4, <2>1
    <2>3. c.id = "SetTabWindow" /\ c.tab = t /\ c.win = tab.win
      BY <1>1 DEF Command
    <2> HIDE DEF known, next, c
    <2>4. Changed(known, next, t, [Heard(known.tabs, t) EXCEPT !.win = tab.win])
      BY <2>2, <2>3, LearnDoes
    <2>5. Heard(known.tabs, t) \in TabStates
      BY <2>2, HeardIs
    <2>6. t \in DOMAIN next.tabs /\ next.tabs[t].win = tab.win
      BY <2>4, <2>5 DEF Changed, TabStates
    <2>7. Entered(next, t, pages, 0)
      BY DEF Entered
    <2> QED
      BY <2>1, <2>6, <2>7 DEF next
  <1>6. ASSUME NEW i \in Nat, i \in S PROVE i + 1 \in S
    <2>1. CASE i + 1 <= n
      <3> DEFINE j == i + 1
                 known == f[a + j]
                 next == f[a + (j + 1)]
                 c == commands[1 + j]
      <3>1. j \in 1..n /\ j + 1 \in 1..Len(commands) /\ (j + 1) - 1 = j /\ j + 1 = 1 + j /\ j - 1 = i
            /\ a + j \in 0..Len(both) /\ i <= n /\ 1 + j \in 1..n + 2
        BY <1>1, <1>2, <2>1
      <3>2. t \in DOMAIN known.tabs /\ known.tabs[t].win = tab.win /\ Entered(known, t, pages, i)
        BY <1>6, <3>1
      <3> HIDE DEF j
      <3>3. next = Learn(known, c) /\ known \in Known
        BY <1>2, <3>1
      <3>4. c = Command("UpdateTabNavigation", 0, t, i, pages[i + 1]) /\ c \in LogCommands
        BY <1>1, <1>4, <3>1 DEF j
      <3> HIDE DEF known, next, c
      <3>5. t \in DOMAIN next.tabs /\ next.tabs[t].win = tab.win /\ Entered(next, t, pages, i + 1)
        BY <3>2, <3>3, <3>4, OneEntered
      <3> QED
        BY <3>5 DEF next, j
    <2>2. CASE ~(i + 1 <= n)
      BY <2>2
    <2> QED
      BY <2>1, <2>2
  <1>7. Nat \subseteq S
    <2> HIDE DEF S
    <2> QED
      BY <1>5, <1>6, SetInduction
  <1> DEFINE known == f[a + (n + 1)]
             next == f[a + (n + 2)]
             c == commands[n + 2]
  <1>8. t \in DOMAIN known.tabs /\ known.tabs[t].win = tab.win /\ Entered(known, t, pages, n)
    BY <1>1, <1>7
  <1>9. n + 2 \in 1..Len(commands) /\ (n + 2) - 1 = n + 1 /\ a + (n + 1) \in 0..Len(both) /\ Len(both) = a + (n + 2)
        /\ n + 2 \in 1..n + 2
    BY <1>1, <1>2, SMTT(30)
  <1>10. next = Learn(known, c) /\ known \in Known /\ c \in LogCommands
    BY <1>2, <1>4, <1>9
  <1>11. c.id = "SetSelectedNavigationIndex" /\ c.tab = t /\ c.index = tab.at - 1
    BY <1>1 DEF Command
  <1>12. Learned(both) = next
    BY <1>3, <1>9
  <1> HIDE DEF known, next, c
  <1>13. Heard(known.tabs, t) = known.tabs[t] /\ known.tabs[t] \in TabStates
    BY <1>8, <1>10, HeardIs DEF Heard
  <1>14. Changed(known, next, t, [known.tabs[t] EXCEPT !.selected = tab.at - 1])
    BY <1>10, <1>11, <1>13, LearnDoes
  <1>15. /\ t \in DOMAIN next.tabs /\ next.tabs[t].win = tab.win /\ next.tabs[t].selected = tab.at - 1
         /\ next.tabs[t].entries = known.tabs[t].entries
    BY <1>8, <1>13, <1>14 DEF Changed, TabStates
  <1>16. Entered(next, t, pages, n)
    BY <1>8, <1>15 DEF Entered
  <1>17. Knows(next, t, tab)
    BY <1>15, <1>16 DEF Knows, n, pages
  <1> QED
    BY <1>12, <1>17 DEF both, commands

\* All tabs of some state of the browser but those of private windows are known.
Remembers(known, l) == \A u \in DOMAIN l : l[u].win \notin Private => Knows(known, u, l[u])

\* Commands of one tab, states that differ in one tab at most, and a tab that the log tells of.
Concern(commands, t) == \A i \in 1..Len(commands) : commands[i].tab = t
SameBut(l, l2, t) == \A u \in DOMAIN l2 : u # t => u \in DOMAIN l /\ l2[u] = l[u]
Tells(commands, t, l) ==
    (t \in DOMAIN l /\ l[t].win \notin Private) => Knows(Learned(commands), t, l[t])

\* What is logged of one tab leaves the others as they are.
LEMMA OneTabKept ==
    ASSUME NEW log1 \in Seq(LogCommands), NEW commands \in Seq(LogCommands), NEW t, NEW l, NEW l2,
           Concern(commands, t), Remembers(Learned(log1), l), SameBut(l, l2, t), Tells(log1 \o commands, t, l2)
    PROVE  Remembers(Learned(log1 \o commands), l2)
  <1> DEFINE both == log1 \o commands
             a == Len(log1)
             f == LearnedBy(both)
  <1>1. /\ both \in Seq(LogCommands) /\ Len(both) = a + Len(commands) /\ a \in Nat /\ Len(commands) \in Nat
        /\ \A i \in 1..Len(commands) : both[a + i] = commands[i]
        /\ \A k \in 0..a : f[k] = LearnedBy(log1)[k]
    BY Continued
  <1>2. Learned(both) = f[Len(both)] /\ Learned(log1) = LearnedBy(log1)[a]
    BY DEF Learned
  <1> HIDE DEF both, a, f
  <1>3. a \in 0..a /\ a \in 0..Len(both) /\ Len(both) \in a..Len(both)
    BY <1>1
  <1>4. f[a] = Learned(log1)
    BY <1>1, <1>2, <1>3
  <1>5. ASSUME NEW i \in a + 1..Len(both) PROVE both[i].tab = t
    <2>1. i - a \in 1..Len(commands) /\ a + (i - a) = i
      BY <1>1
    <2>2. both[i] = commands[i - a]
      BY <1>1, <2>1
    <2> QED
      BY <2>1, <2>2 DEF Concern
  <1>6. ASSUME NEW u \in DOMAIN l2, l2[u].win \notin Private PROVE Knows(Learned(both), u, l2[u])
    <2>1. CASE u = t
      BY <1>6, <2>1 DEF both, Tells
    <2>2. CASE u # t
      <3>1. u \in DOMAIN l /\ l2[u] = l[u]
        BY <2>2 DEF SameBut
      <3>2. Knows(f[a], u, l[u])
        BY <1>4, <1>6, <3>1 DEF Remembers
      <3>3. u \in DOMAIN f[a].tabs
        BY <3>2 DEF Knows
      <3>4. \A i \in a + 1..Len(both) : both[i].tab # u
        BY <1>5, <2>2
      <3>5. u \in DOMAIN f[Len(both)].tabs /\ f[Len(both)].tabs[u] = f[a].tabs[u]
        BY <1>1, <1>3, <3>3, <3>4, Undisturbed DEF f
      <3>6. Knows(f[Len(both)], u, l[u])
        BY <3>2, <3>5 DEF Knows, Entered
      <3> QED
        BY <1>2, <3>1, <3>6
    <2> QED
      BY <2>1, <2>2
  <1> QED
    BY <1>6 DEF Remembers, both

-----------------------------------------------------------------------------
(* What the session log remembers.                                          *)

\* The inductive invariant behind SessionIsAPast: the last of the states that were kept is the
\* present one, at each of them the log told of all of its tabs, and what was logged between
\* two of them is of one tab.
MemoryInv ==
    kind = "chromium" =>
        /\ Len(past) \in Nat \ {0} /\ past[Len(past)].length = Len(log) /\ past[Len(past)].live = live
        /\ \A k \in 1..Len(past) : /\ past[k].length \in 0..Len(log)
                                   /\ Remembers(LearnedBy(log)[past[k].length], past[k].live)
        /\ \A k \in 1..Len(past) - 1 : \A i, j \in past[k].length + 1..past[k + 1].length :
                log[i].tab = log[j].tab

\* Whatever was done in the browser, if it and what is logged of it concern one tab.
LEMMA DoneRemembers ==
    ASSUME TypeInv, MemoryInv, NEW w, NEW commands, NEW t, Done(w, commands),
           w \notin Private => commands \in Seq(LogCommands) /\ Concern(commands, t),
           SameBut(live, live', t),
           (kind = "chromium" /\ t \in DOMAIN live' /\ live'[t].win \notin Private) =>
                w \notin Private /\ Knows(Learned(log \o commands), t, live'[t])
    PROVE  MemoryInv'
  <1> SUFFICES ASSUME kind' = "chromium"
               PROVE  /\ Len(past') \in Nat \ {0} /\ past'[Len(past')].length = Len(log')
                      /\ past'[Len(past')].live = live'
                      /\ \A k \in 1..Len(past') : /\ past'[k].length \in 0..Len(log')
                                                  /\ Remembers(LearnedBy(log')[past'[k].length], past'[k].live)
                      /\ \A k \in 1..Len(past') - 1 : \A i, j \in past'[k].length + 1..past'[k + 1].length :
                              log'[i].tab = log'[j].tab
    BY DEF MemoryInv
  <1> DEFINE m == [live |-> live', frame |-> frame', focus |-> focus', length |-> Len(log')]
             added == IF w \notin Private THEN commands ELSE <<>>
             p == Len(past)
             a == Len(log)
             both == log \o added
  <1>1. /\ kind = "chromium" /\ past' = Append(past, m)
        /\ log' = IF kind = "chromium" /\ w \notin Private THEN log \o commands ELSE log
    BY DEF Done
  <1>2. log \in Seq(LogCommands) /\ past \in Seq(Moments)
    BY DEF TypeInv
  <1>3. added \in Seq(LogCommands) /\ Concern(added, t)
    <2>1. CASE w \notin Private
      BY <2>1
    <2>2. CASE w \in Private
      BY <2>2 DEF Concern
    <2> QED
      BY <2>1, <2>2
  <1>4. log' = both
    <2>1. log \o <<>> = log
      BY <1>2
    <2> QED
      BY <1>1, <2>1
  <1>5. /\ p \in Nat \ {0} /\ past[p].length = a /\ past[p].live = live
        /\ \A k \in 1..p : past[k].length \in 0..a /\ Remembers(LearnedBy(log)[past[k].length], past[k].live)
        /\ \A k \in 1..p - 1 : \A i, j \in past[k].length + 1..past[k + 1].length : log[i].tab = log[j].tab
    BY <1>1 DEF MemoryInv
  <1>6. m.live = live' /\ m.length = Len(log')
    OBVIOUS
  <1>7. w \notin Private => added = commands
    OBVIOUS
  <1> HIDE DEF m, added, p, a
  <1>8. Len(past') = p + 1 /\ past'[p + 1] = m /\ \A k \in 1..p : past'[k] = past[k]
    BY <1>1, <1>2, <1>5 DEF p
  <1>9. /\ both \in Seq(LogCommands) /\ Len(both) = a + Len(added) /\ a \in Nat /\ Len(added) \in Nat
        /\ \A i \in 1..a : both[i] = log[i]
        /\ \A i \in 1..Len(added) : both[a + i] = added[i]
        /\ \A k \in 0..a : LearnedBy(both)[k] = LearnedBy(log)[k]
    BY <1>2, <1>3, Continued DEF a
  <1>10. Remembers(Learned(log), live)
    <2>1. Learned(log) = LearnedBy(log)[a]
      BY DEF Learned, a
    <2>2. p \in 1..p
      BY <1>5
    <2> QED
      BY <1>5, <2>1, <2>2
  <1> DEFINE l == live
             l2 == live'
  <1>11. Tells(log \o added, t, l2)
    BY <1>1, <1>7 DEF Tells
  <1>12. Remembers(Learned(log), l) /\ SameBut(l, l2, t)
    BY <1>10
  <1> HIDE DEF l, l2
  <1>13. Remembers(Learned(both), l2)
    BY <1>2, <1>3, <1>11, <1>12, OneTabKept
  <1>14. Learned(both) = LearnedBy(both)[Len(both)]
    BY DEF Learned
  <1> HIDE DEF both
  <1>15. ASSUME NEW k \in 1..p + 1
         PROVE  past'[k].length \in 0..Len(both) /\ Remembers(LearnedBy(both)[past'[k].length], past'[k].live)
    <2>1. CASE k \in 1..p
      <3>1. past'[k] = past[k] /\ past[k].length \in 0..a /\ Remembers(LearnedBy(log)[past[k].length], past[k].live)
        BY <1>5, <1>8, <2>1
      <3>2. past[k].length \in 0..Len(both) /\ LearnedBy(both)[past[k].length] = LearnedBy(log)[past[k].length]
        BY <1>9, <3>1
      <3> QED
        BY <3>1, <3>2
    <2>2. CASE k = p + 1
      <3>1. past'[k].length = Len(both) /\ past'[k].live = l2 /\ Len(both) \in 0..Len(both)
        BY <1>4, <1>6, <1>8, <1>9, <2>2 DEF l2
      <3> QED
        BY <1>13, <1>14, <3>1
    <2>3. k \in 1..p \/ k = p + 1
      BY <1>5
    <2> QED
      BY <2>1, <2>2, <2>3
  <1>16. ASSUME NEW k \in 1..p, NEW i \in past'[k].length + 1..past'[k + 1].length,
                NEW j \in past'[k].length + 1..past'[k + 1].length
         PROVE  both[i].tab = both[j].tab
    <2>1. CASE k \in 1..p - 1
      <3>1. k + 1 \in 1..p /\ k \in 1..p
        BY <1>5, <2>1
      <3>2. past'[k] = past[k] /\ past'[k + 1] = past[k + 1] /\ past[k].length \in 0..a /\ past[k + 1].length \in 0..a
        BY <1>5, <1>8, <3>1
      <3>3. i \in past[k].length + 1..past[k + 1].length /\ j \in past[k].length + 1..past[k + 1].length
        BY <3>2
      <3>4. log[i].tab = log[j].tab
        BY <1>5, <2>1, <3>3
      <3>5. i \in 1..a /\ j \in 1..a
        <4> DEFINE x == past[k].length
                   y == past[k + 1].length
        <4>1. x \in 0..a /\ y \in 0..a /\ a \in Nat /\ i \in x + 1..y /\ j \in x + 1..y
          BY <1>9, <3>2, <3>3
        <4> HIDE DEF x, y
        <4> QED
          BY <4>1
      <3> QED
        BY <1>9, <3>4, <3>5
    <2>2. CASE k = p
      <3>1. past'[k].length = a /\ past'[k + 1].length = Len(both)
        BY <1>4, <1>5, <1>6, <1>8, <2>2
      <3>2. i - a \in 1..Len(added) /\ j - a \in 1..Len(added) /\ a + (i - a) = i /\ a + (j - a) = j
        BY <1>9, <3>1
      <3>3. both[i] = added[i - a] /\ both[j] = added[j - a]
        BY <1>9, <3>2
      <3> QED
        BY <1>3, <3>2, <3>3 DEF Concern
    <2>3. k \in 1..p - 1 \/ k = p
      BY <1>5
    <2> QED
      BY <2>1, <2>2, <2>3
  <1>17. Len(past') \in Nat \ {0} /\ Len(past') - 1 = p /\ past'[Len(past')] = m
    BY <1>5, <1>8
  <1> QED
    BY <1>4, <1>6, <1>8, <1>15, <1>16, <1>17

LEMMA OneMore ==
    ASSUME NEW log1 \in Seq(LogCommands), NEW c \in LogCommands
    PROVE  Learned(log1 \o <<c>>) = Learn(Learned(log1), c) /\ Learned(log1) \in Known
  <1> DEFINE commands == <<c>>
             both == log1 \o commands
             a == Len(log1)
             f == LearnedBy(both)
  <1>1. commands \in Seq(LogCommands) /\ Len(commands) = 1 /\ commands[1] = c
    OBVIOUS
  <1>2. Learned(both) = f[Len(both)] /\ Learned(log1) = LearnedBy(log1)[a]
    BY DEF Learned
  <1> HIDE DEF commands
  <1>3. /\ Len(both) = a + Len(commands) /\ a \in Nat
        /\ \A k \in 0..a : f[k] = LearnedBy(log1)[k]
        /\ \A i \in 1..Len(commands) : f[a + i] = Learn(f[a + (i - 1)], commands[i])
    BY <1>1, Continued
  <1> HIDE DEF both, a, f
  <1>4. f[a] = Learned(log1) /\ a + 0 = a /\ 1 - 1 = 0 /\ 1 \in 1..Len(commands)
    BY <1>1, <1>2, <1>3
  <1>5. f[a + 1] = Learn(f[a + (1 - 1)], commands[1])
    BY <1>3, <1>4
  <1>6. f[a + 1] = Learn(Learned(log1), c)
    BY <1>1, <1>4, <1>5
  <1>7. Learned(both) = f[a + 1]
    BY <1>1, <1>2, <1>3
  <1>8. Learned(log1) \in Known
    BY LearnedIs
  <1> QED
    BY <1>6, <1>7, <1>8 DEF both, commands

LEMMA TwoMore ==
    ASSUME NEW log1 \in Seq(LogCommands), NEW c \in LogCommands, NEW d \in LogCommands
    PROVE  Learned(log1 \o <<c, d>>) = Learn(Learn(Learned(log1), c), d)
  <1> DEFINE first == log1 \o <<c>>
  <1>1. first \in Seq(LogCommands) /\ first \o <<d>> = log1 \o <<c, d>>
    <2>1. <<c>> \in Seq(LogCommands) /\ <<d>> \in Seq(LogCommands) /\ <<c>> \o <<d>> = <<c, d>>
      <3> DEFINE one == <<c>>
                 other == <<d>>
                 all == one \o other
      <3>1. one \in Seq(LogCommands) /\ Len(one) = 1 /\ one[1] = c
        OBVIOUS
      <3>2. other \in Seq(LogCommands) /\ Len(other) = 1 /\ other[1] = d
        OBVIOUS
      <3> HIDE DEF one, other
      <3>3. /\ all \in Seq(LogCommands) /\ Len(all) = Len(one) + Len(other)
            /\ \A i \in 1..Len(one) + Len(other) :
                  all[i] = IF i <= Len(one) THEN one[i] ELSE other[i - Len(one)]
        BY <3>1, <3>2, ConcatProperties
      <3> HIDE DEF all
      <3>4. all[1] = c /\ all[2] = d /\ Len(all) = 2
        BY <3>1, <3>2, <3>3
      <3>5. DOMAIN all = 1..2 /\ all = [i \in 1..2 |-> all[i]]
        <4>1. all \in Seq(LogCommands) /\ Len(all) = 2
          BY <3>3, <3>4
        <4> QED
          BY <4>1
      <3>6. <<c, d>> = [i \in 1..2 |-> IF i = 1 THEN c ELSE d]
        OBVIOUS
      <3>7. all = <<c, d>>
        BY <3>4, <3>5, <3>6
      <3> QED
        BY <3>1, <3>2, <3>7 DEF all, one, other
    <2>2. first \in Seq(LogCommands)
      BY <2>1
    <2>3. (log1 \o <<c>>) \o <<d>> = log1 \o (<<c>> \o <<d>>)
      BY <2>1, ConcatAssociative
    <2> QED
      BY <2>1, <2>2, <2>3
  <1>2. Learned(first) = Learn(Learned(log1), c)
    BY OneMore
  <1> HIDE DEF first
  <1>3. Learned(first \o <<d>>) = Learn(Learned(first), d)
    BY <1>1, OneMore
  <1> QED
    BY <1>1, <1>2, <1>3

\* What the user does keeps it.
LEMMA LivesRemember ==
    ASSUME CaptureAssumption, TypeInv, MemoryInv, Lives
    PROVE  MemoryInv'
  <1>1. live \in Browsing /\ log \in Seq(LogCommands)
    BY DEF TypeInv
  <1>2. \A t \in Tab : t \in Nat \ {0}
    BY DEF CaptureAssumption
  <1>3. \A w \in Window : w \in Nat /\ (w \notin Private => w \in Window \ Private)
    BY DEF CaptureAssumption
  <1>4. \A t \in DOMAIN live : t \in Tab
    BY <1>1, ATab
  <1>5. Learned(log) \in Known
    BY <1>1, LearnedIs
  <1>6. ASSUME kind = "chromium", NEW t \in DOMAIN live, live[t].win \notin Private
        PROVE  Knows(Learned(log), t, live[t])
    <2>1. /\ Len(past) \in Nat \ {0} /\ past[Len(past)].length = Len(log) /\ past[Len(past)].live = live
          /\ \A k \in 1..Len(past) : Remembers(LearnedBy(log)[past[k].length], past[k].live)
      BY <1>6 DEF MemoryInv
    <2>2. Len(past) \in 1..Len(past)
      BY <2>1
    <2>3. Remembers(LearnedBy(log)[Len(log)], live)
      BY <2>1, <2>2
    <2> QED
      BY <1>6, <2>3 DEF Remembers, Learned
  <1>7. ASSUME NEW t \in Tab, NEW w \in Window, NEW page \in Page, Open(t, w, page) PROVE MemoryInv'
    <2> DEFINE tab == NewTab(w, page)
               commands == SessionOf(t, tab)
    <2>1. tab \in BrowserTabs /\ tab.win = w
      <3> DEFINE pages == <<page>>
      <3>1. page \in AnyPage
        BY DEF CaptureAssumption
      <3>2. pages \in Seq(AnyPage) /\ 1 \in DOMAIN pages /\ 1 \in Nat
        BY <3>1
      <3>3. tab = [win |-> w, pages |-> pages, at |-> 1]
        BY DEF NewTab
      <3> HIDE DEF pages, tab
      <3> QED
        BY <3>2, <3>3 DEF BrowserTabs
    <2> HIDE DEF tab
    <2>2. live' = Update(live, t, tab) /\ Done(w, commands)
      BY <1>7 DEF Open, TabsBecome, tab
    <2>3. w \notin Private => commands \in Seq(LogCommands) /\ Concern(commands, t)
      BY <2>1, SessionOfHas DEF Concern
    <2>4. live'[t] = tab /\ SameBut(live, live', t)
      BY <2>2 DEF Update, SameBut
    <2>5. w \notin Private => Knows(Learned(log \o commands), t, tab)
      BY <1>1, <2>1, SessionLearnt
    <2> HIDE DEF commands
    <2> QED
      BY <2>1, <2>2, <2>3, <2>4, <2>5, DoneRemembers
  <1>8. ASSUME NEW t \in DOMAIN live, NEW page \in Page, Navigate(t, page) PROVE MemoryInv'
    <2> DEFINE tab == live[t]
               at == tab.at
               pages == Append(SubSeq(tab.pages, 1, at), page)
               new == [tab EXCEPT !.pages = pages, !.at = at + 1]
               c == Command("SetSelectedNavigationIndex", 0, t, at, None)
               d == Command("UpdateTabNavigation", 0, t, at, page)
               commands == <<c, d>>
    <2>1. /\ t \in Tab /\ t \in Nat /\ tab \in BrowserTabs /\ at \in Nat /\ page \in AnyPage
      <3>1. t \in Tab /\ t \in Nat /\ tab \in BrowserTabs
        BY <1>1, ATab
      <3>2. at \in Nat /\ page \in AnyPage
        BY <3>1 DEF BrowserTabs, CaptureAssumption
      <3> QED
        BY <3>1, <3>2
    <2>2. live' = [live EXCEPT ![t] = new] /\ Done(tab.win, commands)
      <3>1. live' = [live EXCEPT ![t].pages = Append(SubSeq(@, 1, at), page), ![t].at = at + 1]
        BY <1>8 DEF Navigate, TabsBecome
      <3>2. [live EXCEPT ![t].pages = Append(SubSeq(@, 1, at), page), ![t].at = at + 1] = [live EXCEPT ![t] = new]
        BY <2>1 DEF BrowserTabs
      <3> QED
        BY <1>8, <3>1, <3>2 DEF Navigate, TabsBecome
    <2>3. new.win = tab.win
      BY <2>1 DEF BrowserTabs
    <2>4. (kind = "chromium" /\ tab.win \notin Private) => Knows(Learned(log), t, tab)
      BY <1>6
    <2> HIDE DEF tab
    <2>5. c \in LogCommands /\ d \in LogCommands /\ c.tab = t /\ d.tab = t
      BY <2>1 DEF Command, LogCommands
    <2>6. Knows(Learned(log), t, tab) => Knows(Learn(Learn(Learned(log), c), d), t, new)
      BY <1>5, <2>1, KnowsNavigated
    <2> HIDE DEF c, d, new, at
    <2>7. Learned(log \o commands) = Learn(Learn(Learned(log), c), d)
      BY <1>1, <2>5, TwoMore
    <2>8. commands \in Seq(LogCommands) /\ Concern(commands, t)
      BY <2>5 DEF Concern
    <2> HIDE DEF commands
    <2>9. live'[t] = new /\ SameBut(live, live', t)
      BY <2>2 DEF SameBut
    <2> QED
      BY <2>2, <2>3, <2>4, <2>6, <2>7, <2>8, <2>9, DoneRemembers
  <1>9. ASSUME NEW t \in DOMAIN live, NEW w \in Window, MoveTab(t, w) PROVE MemoryInv'
    <2> DEFINE tab == live[t]
               new == [tab EXCEPT !.win = w]
               c == Command("SetTabWindow", w, t, 0, None)
               commands == <<c>>
    <2>1. t \in Tab /\ t \in Nat /\ tab \in BrowserTabs
      BY <1>1, ATab
    <2>2. live' = [live EXCEPT ![t] = new] /\ Done(w, commands) /\ (tab.win \in Private <=> w \in Private)
      <3>1. [live EXCEPT ![t].win = w] = [live EXCEPT ![t] = new]
        OBVIOUS
      <3> QED
        BY <1>9, <3>1 DEF MoveTab, TabsBecome
    <2>3. (kind = "chromium" /\ tab.win \notin Private) => Knows(Learned(log), t, tab)
      BY <1>6
    <2> HIDE DEF tab
    <2>4. w \notin Private => c \in LogCommands
      BY <1>3, <2>1 DEF Command, LogCommands
    <2>5. c.tab = t
      BY DEF Command
    <2>6. new.win = w
      BY <2>1 DEF BrowserTabs
    <2>7. (w \notin Private /\ Knows(Learned(log), t, tab)) => Knows(Learn(Learned(log), c), t, new)
      BY <1>5, <2>1, <2>4, KnowsMoved
    <2> HIDE DEF c, new
    <2>8. w \notin Private => Learned(log \o commands) = Learn(Learned(log), c)
      BY <1>1, <2>4, OneMore
    <2>9. w \notin Private => commands \in Seq(LogCommands) /\ Concern(commands, t)
      BY <2>4, <2>5 DEF Concern
    <2> HIDE DEF commands
    <2>10. live'[t] = new /\ SameBut(live, live', t)
      BY <2>2 DEF SameBut
    <2> QED
      BY <2>2, <2>3, <2>6, <2>7, <2>8, <2>9, <2>10, DoneRemembers
  <1>10. ASSUME NEW t \in DOMAIN live, Back(t) PROVE MemoryInv'
    <2> DEFINE tab == live[t]
               at == tab.at - 1
               new == [tab EXCEPT !.at = at]
               c == Command("SetSelectedNavigationIndex", 0, t, tab.at - 2, None)
               commands == <<c>>
    <2>1. /\ t \in Tab /\ t \in Nat /\ tab \in BrowserTabs /\ tab.at \in Nat /\ tab.at > 1
      <3>1. t \in Tab /\ t \in Nat /\ tab \in BrowserTabs /\ tab.at > 1
        BY <1>1, <1>10, ATab DEF Back
      <3> QED
        BY <3>1 DEF BrowserTabs
    <2>2. live' = [live EXCEPT ![t] = new] /\ Done(tab.win, commands)
      <3>1. [live EXCEPT ![t].at = @ - 1] = [live EXCEPT ![t] = new]
        OBVIOUS
      <3> QED
        BY <1>10, <3>1 DEF Back, TabsBecome
    <2>3. (kind = "chromium" /\ tab.win \notin Private) => Knows(Learned(log), t, tab)
      BY <1>6
    <2> HIDE DEF tab
    <2>4. at \in Nat \ {0} /\ at - 1 \in Nat /\ tab.at - 2 = at - 1
      BY <2>1
    <2> HIDE DEF at
    <2>5. c = Command("SetSelectedNavigationIndex", 0, t, at - 1, None)
      BY <2>4
    <2> HIDE DEF c
    <2>6. c \in LogCommands /\ c.tab = t
      BY <2>1, <2>4, <2>5 DEF Command, LogCommands
    <2>7. new.win = tab.win
      BY <2>1 DEF BrowserTabs
    <2>8. Knows(Learned(log), t, tab) => Knows(Learn(Learned(log), c), t, new)
      BY <1>5, <2>1, <2>4, <2>5, <2>6, KnowsSelected
    <2> HIDE DEF new
    <2>9. Learned(log \o commands) = Learn(Learned(log), c)
      BY <1>1, <2>6, OneMore
    <2>10. commands \in Seq(LogCommands) /\ Concern(commands, t)
      BY <2>6 DEF Concern
    <2> HIDE DEF commands
    <2>11. live'[t] = new /\ SameBut(live, live', t)
      BY <2>2 DEF SameBut
    <2> QED
      BY <2>2, <2>3, <2>7, <2>8, <2>9, <2>10, <2>11, DoneRemembers
  <1>11. ASSUME NEW t \in DOMAIN live, Close(t) PROVE MemoryInv'
    <2> DEFINE c == Command("TabClosed", 0, t, 0, None)
               commands == <<c>>
    <2>1. t \in Tab /\ t \in Nat
      BY <1>1, ATab
    <2>2. live' = [u \in DOMAIN live \ {t} |-> live[u]] /\ Done(live[t].win, commands)
      BY <1>11 DEF Close, TabsBecome
    <2>3. c \in LogCommands /\ c.tab = t
      BY <2>1 DEF Command, LogCommands
    <2> HIDE DEF c
    <2>4. commands \in Seq(LogCommands) /\ Concern(commands, t)
      BY <2>3 DEF Concern
    <2> HIDE DEF commands
    <2>5. t \notin DOMAIN live' /\ SameBut(live, live', t)
      BY <2>2 DEF SameBut
    <2> QED
      BY <2>2, <2>4, <2>5, DoneRemembers
  <1>12. 0 \notin DOMAIN live
    BY <1>2, <1>4
  <1>13. ASSUME NEW w \in Window, Focus(w) PROVE MemoryInv'
    <2> DEFINE c == Command("SetActiveWindow", w, 0, 0, None)
               commands == <<c>>
               none == 0
    <2>1. live' = live /\ Done(w, commands)
      BY <1>13 DEF Focus
    <2>2. c \in LogCommands /\ c.tab = none
      BY <1>3 DEF Command, LogCommands
    <2> HIDE DEF c
    <2>3. commands \in Seq(LogCommands) /\ Concern(commands, none)
      BY <2>2 DEF Concern
    <2>4. none \notin DOMAIN live' /\ SameBut(live, live', none)
      BY <1>12, <2>1 DEF SameBut
    <2> HIDE DEF commands, none
    <2> QED
      BY <2>1, <2>3, <2>4, DoneRemembers
  <1>14. ASSUME NEW w \in Window, NEW f \in Frame, MoveWindow(w, f) PROVE MemoryInv'
    <2> DEFINE commands == <<>>
               none == 0
    <2>1. live' = live /\ Done(w, commands)
      BY <1>14 DEF MoveWindow
    <2>2. commands \in Seq(LogCommands) /\ Concern(commands, none)
      BY DEF Concern
    <2>3. none \notin DOMAIN live' /\ SameBut(live, live', none)
      BY <1>12, <2>1 DEF SameBut
    <2> HIDE DEF commands, none
    <2> QED
      BY <2>1, <2>2, <2>3, DoneRemembers
  <1>15. ASSUME Save PROVE MemoryInv'
    BY <1>15 DEF Save, MemoryInv, history
  <1> QED
    BY <1>7, <1>8, <1>9, <1>10, <1>11, <1>13, <1>14, <1>15, Zenon DEF Lives

\* What is logged at first tells of the tabs that are open at first.
LEMMA FirstRemembered ==
    ASSUME CaptureAssumption
    PROVE  Remembers(Learned(FirstLog[Len(Opened)]), Opened)
  <1> DEFINE n == Len(Opened)
             f == FirstLog
             Some(k) == [u \in 1..k |-> Opened[u]]
             S == {k \in Nat : k <= n => Remembers(Learned(f[k]), Some(k))}
  <1>1. n \in Nat /\ DOMAIN Opened = 1..n /\ \A k \in 1..n : Opened[k] \in BrowserTabs /\ k \in Tab
    <2>1. Opened \in Seq(BrowserTabs) /\ DOMAIN Opened \subseteq Tab
      BY DEF CaptureAssumption
    <2> QED
      BY <2>1
  <1>2. /\ f[0] = <<>>
        /\ \A k \in 1..n : f[k] = IF Opened[k].win \in Private THEN f[k - 1] ELSE f[k - 1] \o SessionOf(k, Opened[k])
    BY <1>1, FirstLogIs
  <1>3. \A k \in 0..n : f[k] \in Seq(LogCommands)
    BY FirstLogTyped
  <1> HIDE DEF n, f
  <1>4. 0 \in S
    <2>1. DOMAIN Some(0) = {}
      OBVIOUS
    <2> HIDE DEF Some
    <2>2. Remembers(Learned(f[0]), Some(0))
      BY <2>1 DEF Remembers
    <2> QED
      BY <2>2
  <1>5. ASSUME NEW k \in Nat, k \in S PROVE k + 1 \in S
    <2>1. CASE k + 1 <= n
      <3> DEFINE t == k + 1
                 tab == Opened[t]
                 l == Some(k)
                 l2 == Some(t)
                 log1 == f[k]
                 commands == SessionOf(t, tab)
      <3>1. t \in 1..n /\ t - 1 = k /\ k <= n /\ k \in 0..n
        BY <1>1, <2>1
      <3>2. Remembers(Learned(log1), l) /\ log1 \in Seq(LogCommands) /\ tab \in BrowserTabs /\ t \in Tab
        BY <1>1, <1>3, <1>5, <3>1
      <3>3. f[t] = IF tab.win \in Private THEN log1 ELSE log1 \o commands
        BY <1>2, <3>1
      <3>4. t \in DOMAIN l2 /\ l2[t] = tab /\ SameBut(l, l2, t)
        BY <3>1 DEF SameBut
      <3> HIDE DEF t, tab, l, l2, log1
      <3>5. CASE tab.win \in Private
        <4>1. f[t] = log1
          BY <3>3, <3>5
        <4>2. Remembers(Learned(log1), l2)
          BY <3>2, <3>4, <3>5 DEF Remembers, SameBut
        <4> QED
          BY <4>1, <4>2 DEF l2, t
      <3>6. CASE tab.win \notin Private
        <4>1. commands \in Seq(LogCommands) /\ Concern(commands, t)
          BY <3>2, <3>6, SessionOfHas DEF Concern
        <4>2. Tells(log1 \o commands, t, l2)
          BY <3>2, <3>4, <3>6, SessionLearnt DEF Tells
        <4> HIDE DEF commands
        <4>3. Remembers(Learned(log1 \o commands), l2)
          BY <3>2, <3>4, <4>1, <4>2, OneTabKept
        <4>4. f[t] = log1 \o commands
          BY <3>3, <3>6
        <4>5. Remembers(Learned(f[t]), l2)
          BY <4>3, <4>4
        <4> QED
          BY <4>5 DEF l2, t
      <3> QED
        BY <3>5, <3>6
    <2>2. CASE ~(k + 1 <= n)
      BY <2>2
    <2> QED
      BY <2>1, <2>2
  <1>6. Nat \subseteq S
    <2> HIDE DEF S
    <2> QED
      BY <1>4, <1>5, SetInduction
  <1>7. Remembers(Learned(f[n]), Some(n))
    BY <1>1, <1>6
  <1>8. DOMAIN Some(n) = 1..n /\ \A u \in 1..n : Some(n)[u] = Opened[u]
    BY <1>1
  <1> HIDE DEF Some
  <1>9. Remembers(Learned(f[n]), Opened)
    BY <1>1, <1>7, <1>8 DEF Remembers
  <1> QED
    BY <1>9 DEF f, n

LEMMA MemoryAtFirst ==
    ASSUME CaptureAssumption, Init
    PROVE  MemoryInv
  <1> SUFFICES ASSUME kind = "chromium"
               PROVE  /\ Len(past) \in Nat \ {0} /\ past[Len(past)].length = Len(log) /\ past[Len(past)].live = live
                      /\ \A k \in 1..Len(past) : /\ past[k].length \in 0..Len(log)
                                                 /\ Remembers(LearnedBy(log)[past[k].length], past[k].live)
                      /\ \A k \in 1..Len(past) - 1 : \A i, j \in past[k].length + 1..past[k + 1].length :
                              log[i].tab = log[j].tab
    BY DEF MemoryInv
  <1> DEFINE m == [live |-> live, frame |-> frame, focus |-> focus, length |-> Len(log)]
  <1>1. past = <<m>> /\ live = Opened /\ log = FirstLog[Len(Opened)]
    BY DEF Init
  <1>2. Remembers(LearnedBy(log)[Len(log)], live)
    BY <1>1, FirstRemembered DEF Learned
  <1>3. Len(log) \in Nat
    <2>1. TypeInv
      BY TypesAtFirst
    <2> QED
      BY <2>1 DEF TypeInv
  <1>4. m.live = live /\ m.length = Len(log)
    OBVIOUS
  <1> HIDE DEF m
  <1>5. Len(past) = 1 /\ past[1] = m
    BY <1>1
  <1> QED
    BY <1>2, <1>3, <1>4, <1>5

LEMMA MemoryKept ==
    ASSUME CaptureAssumption, SessionAssumption, TypeInv, MemoryInv, [Next]_vars
    PROVE  MemoryInv'
  <1>1. CASE Lives
    BY <1>1, LivesRemember
  <1>2. ASSUME UNCHANGED <<kind, live, log, past>> PROVE MemoryInv'
    BY <1>2 DEF MemoryInv
  <1>3. ASSUME NEW found, NEW source, Stores(found, source) PROVE UNCHANGED <<kind, live, log, past>>
    BY <1>3 DEF Stores, Idle, browser, history
  <1>4. CASE Captures
    <2>1. ASSUME NEW o \in Requests, Enumerate(o) \/ EnumerateFails(o) PROVE UNCHANGED <<kind, live, log, past>>
      BY <2>1 DEF Enumerate, EnumerateFails, browser, history
    <2>2. StoreWithoutTabs => UNCHANGED <<kind, live, log, past>>
      BY <1>3 DEF StoreWithoutTabs
    <2>3. ASSUME NEW shows \in BOOLEAN, StoreExtensionTabs(shows) PROVE UNCHANGED <<kind, live, log, past>>
      BY <1>3, <2>3 DEF StoreExtensionTabs
    <2>4. StoreSessionTabs => UNCHANGED <<kind, live, log, past>>
      BY <1>3 DEF StoreSessionTabs
    <2>5. UNCHANGED <<kind, live, log, past>>
      BY <1>4, <2>1, <2>2, <2>3, <2>4, Zenon DEF Captures
    <2> QED
      BY <1>2, <2>5
  <1>5. CASE UNCHANGED vars
    BY <1>2, <1>5 DEF vars, browser, history
  <1> QED
    BY <1>1, <1>4, <1>5 DEF Next

\* A tab at the page it shows and in its own window is among the windows that were read.
Has(read, t, tab) ==
    \E w \in DOMAIN read : \E i \in DOMAIN read[w].tabs :
        /\ read[w].tabs[i].of = t /\ read[w].from = tab.win
        /\ read[w].tabs[i].url = Shown(tab).url

\* What is known of a tab is read of it.
LEMMA ChromiumHas ==
    ASSUME CaptureAssumption, NEW commands \in Seq(LogCommands), NEW t, NEW tab \in BrowserTabs,
           Knows(Learned(commands), t, tab), Savable(Shown(tab))
    PROVE  Has(ReadChromium(commands), t, tab)
  <1> DEFINE known == Learned(commands)
             tabs == known.tabs
             heard == {u \in DOMAIN tabs : tabs[u].entries # <<>>}
             S == {tabs[u].win : u \in heard}
             ordered == Ascending(S)
             In(w) == {u \in heard : tabs[u].win = w}
             TabsOf(w) == Ascending(In(w))
             Row(w, i) == BrowserTab(TabId(TabsOf(w)[i]), i - 1, PageOf(tabs[TabsOf(w)[i]]), i = 1, FALSE,
                                     TabsOf(w)[i], w)
             Read(w) == BrowserWindow(w, "chromium", NoFrame, w = known.active, FALSE,
                                      [i \in DOMAIN TabsOf(w) |-> Row(w, i)])
             found == [i \in DOMAIN ordered |-> Read(ordered[i])]
  <1>1. ReadChromium(commands) = found
    BY DEF ReadChromium
  <1>2. known \in Known
    BY LearnedIs
  <1>3. tab.pages \in Seq(AnyPage) /\ tab.at \in DOMAIN tab.pages /\ Shown(tab) = tab.pages[tab.at]
    BY DEF BrowserTabs, Shown
  <1>4. /\ t \in DOMAIN tabs /\ tabs[t].win = tab.win /\ tabs[t].selected = tab.at - 1
        /\ \A j \in 1..Len(tab.pages) : Savable(tab.pages[j]) =>
              j - 1 \in DOMAIN tabs[t].entries /\ tabs[t].entries[j - 1] = tab.pages[j]
    BY DEF Knows, Entered
  <1> HIDE DEF known
  <1>5. PICK D \in SUBSET Tab : tabs \in [D -> TabStates]
    BY <1>2 DEF Known
  <1>6. heard \in SUBSET D /\ \A u \in heard : tabs[u] \in TabStates
    BY <1>5
  <1>7. heard \in SUBSET Nat /\ IsFiniteSet(heard)
    BY <1>5, <1>6, FS_Subset DEF CaptureAssumption
  <1>8. tab.at - 1 \in DOMAIN tabs[t].entries /\ tabs[t].entries[tab.at - 1] = Shown(tab)
    <2>1. tab.at \in 1..Len(tab.pages)
      BY <1>3
    <2> QED
      BY <1>3, <1>4, <2>1
  <1>9. tabs[t].entries # <<>>
    <2> SUFFICES ASSUME tabs[t].entries = <<>> PROVE FALSE
      OBVIOUS
    <2>1. DOMAIN tabs[t].entries = {}
      OBVIOUS
    <2> QED
      BY <1>8, <2>1
  <1>10. t \in heard
    BY <1>4, <1>9
  <1>11. PageOf(tabs[t]) = Shown(tab)
    <2>1. tabs[t] \in TabStates
      BY <1>6, <1>10
    <2>2. tabs[t].selected \in DOMAIN tabs[t].entries
      BY <1>4, <1>8
    <2>3. PageOf(tabs[t]) = tabs[t].entries[tabs[t].selected]
      BY <1>9, <2>1, <2>2, PageOfIs
    <2> QED
      BY <1>4, <1>8, <2>3
  <1> DEFINE w == tab.win
             own == In(w)
  <1>12. t \in own /\ w \in S
    BY <1>4, <1>10
  <1>13. own \in SUBSET Nat /\ IsFiniteSet(own)
    BY <1>7, FS_Subset
  <1> HIDE DEF heard, tabs
  <1>14. S \in SUBSET Nat /\ IsFiniteSet(S)
    <2>1. S \in SUBSET (Window \cup {0})
      BY <1>6 DEF TabStates
    <2>2. Window \in SUBSET Nat /\ IsFiniteSet(Window) /\ IsFiniteSet({0})
      BY FS_Singleton DEF CaptureAssumption
    <2>3. IsFiniteSet(Window \cup {0}) /\ Window \cup {0} \in SUBSET Nat
      <3>1. IsFiniteSet(Window \cup {0})
        BY <2>2, FS_Union
      <3>2. Window \cup {0} \in SUBSET Nat
        BY <2>2
      <3> QED
        BY <3>1, <3>2
    <2> HIDE DEF S
    <2>4. IsFiniteSet(S)
      BY <2>1, <2>3, FS_Subset
    <2>5. S \in SUBSET Nat
      BY <2>1, <2>3
    <2> QED
      BY <2>4, <2>5
  <1> HIDE DEF own, S
  <1>15. \E k \in DOMAIN ordered : ordered[k] = w
    <2>1. ordered \in [1..Cardinality(S) -> S] /\ \A x \in S : \E k \in 1..Cardinality(S) : ordered[k] = x
      BY <1>14, AscendingIs
    <2> QED
      BY <1>12, <2>1
  <1>16. \E i \in DOMAIN Ascending(own) : Ascending(own)[i] = t
    <2>1. /\ Ascending(own) \in [1..Cardinality(own) -> own]
          /\ \A x \in own : \E i \in 1..Cardinality(own) : Ascending(own)[i] = x
      BY <1>13, AscendingIs
    <2> QED
      BY <1>12, <2>1
  <1>17. PICK k \in DOMAIN ordered : ordered[k] = w
    BY <1>15
  <1>18. PICK i \in DOMAIN TabsOf(w) : TabsOf(w)[i] = t
    BY <1>16 DEF own
  <1> HIDE DEF ordered
  <1>19. k \in DOMAIN found /\ found[k] = Read(w)
    BY <1>17
  <1> HIDE DEF w, TabsOf, found
  <1>20. Read(w).from = w /\ Read(w).tabs = [j \in DOMAIN TabsOf(w) |-> Row(w, j)]
    BY DEF BrowserWindow
  <1>21. Row(w, i).of = t /\ Row(w, i).url = Shown(tab).url
    BY <1>11, <1>18 DEF BrowserTab
  <1> HIDE DEF Row, Read
  <1>22. i \in DOMAIN found[k].tabs /\ found[k].tabs[i] = Row(w, i) /\ found[k].from = w
    BY <1>18, <1>19, <1>20
  <1>23. Has(found, t, tab)
    BY <1>19, <1>21, <1>22 DEF Has, w
  <1> QED
    BY <1>1, <1>23

\* What is at a place that is kept is among what is kept.
PlaceOf(read, n, P, k) == n \in Nat /\ (\E X : read \in [1..n -> X]) /\ P \in SUBSET (1..n) /\ k \in P
Among(read, P, k) == \E l \in DOMAIN AtPlaces(read, P) : AtPlaces(read, P)[l] = read[k]

LEMMA IsKept ==
    ASSUME NEW read, NEW n, NEW P, NEW k, PlaceOf(read, n, P, k)
    PROVE  Among(read, P, k)
  <1>0. PICK X : n \in Nat /\ read \in [1..n -> X] /\ P \in SUBSET (1..n) /\ k \in P
    BY DEF PlaceOf
  <1>1. read \in Seq(X) /\ P \in SUBSET (DOMAIN read)
    BY <1>0
  <1>2. \A g \in P : \E l \in DOMAIN AtPlaces(read, P) : AtPlaces(read, P)[l] = read[g]
    BY <1>1, SomeOf
  <1> QED
    BY <1>0, <1>2 DEF Among

LEMMA FirefoxHas ==
    ASSUME CaptureAssumption, SessionAssumption, NEW m \in Moments, NEW t \in DOMAIN m.live,
           m.live[t].win \notin Private, Savable(Shown(m.live[t]))
    PROVE  Has(ReadFirefox(Recovery(m)), t, m.live[t])
  <1> DEFINE tab == m.live[t]
             w == tab.win
             file == Recovery(m)
             open == Ascending(Shows(m))
             read == [i \in DOMAIN file |-> ReadFirefoxWindow(file[i])]
             P == {i \in DOMAIN read : read[i].tabs # <<>>}
             kept == AtPlaces(read, P)
  <1>1. m.live \in Browsing
    BY DEF Moments
  <1>2. tab \in BrowserTabs /\ w \in Window /\ tab.at \in DOMAIN tab.pages /\ Shown(tab) \in AnyPage
    BY <1>1, ATab
  <1>3. ReadFirefox(file) = kept
    BY DEF ReadFirefox
  <1>4. /\ DOMAIN file = DOMAIN open
        /\ \A i \in DOMAIN file :
             /\ file[i] \in FileWindows /\ file[i].win = open[i] /\ open[i] \in Shows(m)
             /\ DOMAIN file[i].tabs = DOMAIN TabsIn(m.live, open[i])
             /\ \A j \in DOMAIN file[i].tabs :
                 LET u == TabsIn(m.live, open[i])[j]
                 IN  /\ file[i].tabs[j].tab = u /\ file[i].tabs[j].entries = m.live[u].pages
                     /\ file[i].tabs[j].index = m.live[u].at
    BY RecoveryIs
  <1>5. /\ t \in Own(m.live, w) /\ Cardinality(Own(m.live, w)) \in Nat
        /\ TabsIn(m.live, w) \in [1..Cardinality(Own(m.live, w)) -> Own(m.live, w)]
        /\ \A u \in Own(m.live, w) : \E i \in 1..Cardinality(Own(m.live, w)) : TabsIn(m.live, w)[i] = u
    <2>1. t \in Own(m.live, w)
      BY DEF Own
    <2> QED
      BY <1>1, <2>1, TabsInIs
  <1>6. PICK j \in DOMAIN TabsIn(m.live, w) : TabsIn(m.live, w)[j] = t
    BY <1>5
  <1>7. TabsIn(m.live, w) # <<>>
    <2> SUFFICES ASSUME TabsIn(m.live, w) = <<>> PROVE FALSE
      OBVIOUS
    <2>1. DOMAIN TabsIn(m.live, w) = {}
      OBVIOUS
    <2> QED
      BY <1>6, <2>1
  <1>8. w \in Shows(m)
    BY <1>2, <1>7 DEF Shows
  <1>9. /\ Cardinality(Shows(m)) \in Nat /\ open \in [1..Cardinality(Shows(m)) -> Shows(m)]
        /\ \A x \in Shows(m) : \E k \in 1..Cardinality(Shows(m)) : open[k] = x
    <2>1. Shows(m) \in SUBSET Window
      BY DEF Shows
    <2>2. Shows(m) \in SUBSET Nat /\ IsFiniteSet(Shows(m))
      BY <2>1, SomeWindows
    <2> QED
      BY <2>2, AscendingIs
  <1>10. PICK k \in DOMAIN open : open[k] = w
    BY <1>8, <1>9
  <1> HIDE DEF open
  <1> DEFINE x == file[k]
  <1>11. /\ k \in DOMAIN file /\ x \in FileWindows /\ x.win = w /\ j \in DOMAIN x.tabs
         /\ x.tabs[j].tab = t /\ x.tabs[j].entries = tab.pages /\ x.tabs[j].index = tab.at
    BY <1>4, <1>6, <1>10
  <1>12. read[k] = ReadFirefoxWindow(x) /\ k \in DOMAIN read
    BY <1>11
  <1>13. DOMAIN read = 1..Cardinality(Shows(m)) /\ read = [i \in DOMAIN read |-> read[i]]
    BY <1>4, <1>9
  <1> HIDE DEF x, read, file
  <1>14. x.tabs[j] \in FileTabs
    <2>1. x.tabs \in Seq(FileTabs)
      BY <1>11 DEF FileWindows
    <2> QED
      BY <1>11, <2>1
  <1>15. x.tabs[j].entries # <<>>
    <2> SUFFICES ASSUME tab.pages = <<>> PROVE FALSE
      BY <1>11
    <2>1. DOMAIN tab.pages = {}
      OBVIOUS
    <2> QED
      BY <1>2, <2>1
  <1>16. Visible(x.tabs[j]) = Shown(tab)
    <2>1. Visible(x.tabs[j]) = x.tabs[j].entries[x.tabs[j].index]
      BY <1>2, <1>11, <1>14, <1>15, VisibleIs
    <2> QED
      BY <1>11, <2>1 DEF Shown
  <1>17. Shown(tab).url.form # "empty"
    <2> DEFINE u == Shown(tab).url
    <2>1. u \in Parsed /\ u.scheme \in {"http", "https", "file", "chrome"}
      BY <1>2 DEF AnyPage, Savable
    <2>2. u.form = "empty" => <<u.scheme, u.host, u.path, u.user, u.frag>> = <<"", "", "", FALSE, FALSE>>
      BY <2>1 DEF Parsed
    <2> HIDE DEF u
    <2>3. u.form = "empty" => u.scheme = ""
      BY <2>2
    <2> QED
      BY <2>1, <2>3 DEF u
  <1> HIDE DEF tab
  <1>18. read[k].from = w /\ \E i \in DOMAIN read[k].tabs : /\ read[k].tabs[i].of = t
                                                            /\ read[k].tabs[i].url = Shown(tab).url
    <2> DEFINE window == ReadFirefoxWindow(x)
    <2>1. x.win \notin Private
      BY <1>11 DEF tab
    <2>2. /\ window.from = x.win
          /\ \A l \in DOMAIN x.tabs :
               (x.tabs[l].entries # <<>> /\ Visible(x.tabs[l]).url.form # "empty") =>
                   \E i \in DOMAIN window.tabs : /\ window.tabs[i].of = x.tabs[l].tab
                                                 /\ window.tabs[i].url = Visible(x.tabs[l]).url
      BY <1>11, <2>1, FirefoxWindowIs
    <2> HIDE DEF window
    <2>3. window.from = w /\ \E i \in DOMAIN window.tabs : /\ window.tabs[i].of = t
                                                           /\ window.tabs[i].url = Shown(tab).url
      BY <1>11, <1>15, <1>16, <1>17, <2>2
    <2>4. read[k] = window
      BY <1>12 DEF window
    <2> QED
      BY <2>3, <2>4
  <1>19. k \in P
    <2> SUFFICES ASSUME read[k].tabs = <<>> PROVE FALSE
      BY <1>12
    <2>1. DOMAIN read[k].tabs = {}
      OBVIOUS
    <2> QED
      BY <1>18, <2>1
  <1>20. P \in SUBSET (DOMAIN read)
    OBVIOUS
  <1> HIDE DEF P
  <1>21. \E l \in DOMAIN kept : kept[l] = read[k]
    <2> DEFINE X == {read[i] : i \in DOMAIN read}
               n == Cardinality(Shows(m))
    <2>1. read \in [1..n -> X]
      BY <1>13
    <2>2. n \in Nat
      BY <1>9
    <2> HIDE DEF X, n
    <2>3. P \in SUBSET (1..n)
      BY <1>20, <2>1
    <2>4. PlaceOf(read, n, P, k)
      BY <1>19, <2>1, <2>2, <2>3 DEF PlaceOf
    <2>5. Among(read, P, k)
      BY <2>4, IsKept, Zenon
    <2> QED
      BY <2>5 DEF Among
  <1> HIDE DEF kept
  <1>22. Has(kept, t, tab)
    BY <1>18, <1>21 DEF Has, w
  <1> QED
    BY <1>3, <1>22 DEF file, tab

\* The state of the log at the last whole moment is that at the end of the file, but for the tab
\* whose commands are cut off.
LEMMA MemoryTells ==
    ASSUME CaptureAssumption, SessionAssumption, TypeInv, MemoryInv
    PROVE  SessionIsAPast
  <1> DEFINE whole == IF kind = "firefox" THEN {saved} ELSE {k \in DOMAIN past : past[k].length <= saved}
             moment == past[Max(whole)]
             cut == IF whole # {} /\ kind = "chromium" /\ moment.length < saved THEN log[saved].tab ELSE 0
  <1>1. SUFFICES ASSUME saved > 0, whole # {}, NEW t \in DOMAIN moment.live \ {cut},
                        moment.live[t].win \notin Private, Savable(Shown(moment.live[t]))
                 PROVE  Has(SessionWindows, t, moment.live[t])
    BY DEF SessionIsAPast, Has
  <1>2. kind \in {"chromium", "firefox"} /\ past \in Seq(Moments) /\ log \in Seq(LogCommands)
    BY DEF TypeInv, CaptureAssumption
  <1>3. saved \in 1..IF kind = "chromium" THEN Len(log) ELSE Len(past)
    <2>1. saved \in 0..IF kind = "chromium" THEN Len(log) ELSE Len(past)
      BY DEF TypeInv
    <2>2. Len(log) \in Nat /\ Len(past) \in Nat
      BY <1>2
    <2> QED
      BY <1>1, <2>1, <2>2
  <1>4. CASE kind = "firefox"
    <2>1. saved \in 1..Len(past) /\ saved \in Nat /\ past[saved] \in Moments
      BY <1>2, <1>3, <1>4
    <2>2. Max({saved}) = saved
      <3>1. IsFiniteSet({saved}) /\ {saved} \in SUBSET Nat /\ {saved} # {}
        BY <2>1, FS_Singleton
      <3>2. Max({saved}) \in {saved}
        BY <3>1, MaxIs
      <3> QED
        BY <3>2
    <2>3. moment = past[saved]
      BY <1>4, <2>2
    <2>4. SessionWindows = ReadFirefox(Recovery(past[saved]))
      BY <1>1, <1>4 DEF SessionWindows
    <2>5. Has(ReadFirefox(Recovery(moment)), t, moment.live[t])
      <3>1. moment \in Moments /\ t \in DOMAIN moment.live
        BY <1>1, <2>1, <2>3
      <3> HIDE DEF moment
      <3> QED
        BY <1>1, <3>1, FirefoxHas
    <2> QED
      BY <2>3, <2>4, <2>5
  <1>5. CASE kind = "chromium"
    <2> DEFINE p == Len(past)
               k == Max(whole)
               a == moment.length
               commands == SubSeq(log, 1, saved)
    <2>1. whole = {i \in 1..p : past[i].length <= saved}
      BY <1>2, <1>5
    <2>2. /\ p \in Nat \ {0} /\ past[p].length = Len(log)
          /\ \A i \in 1..p : /\ past[i].length \in 0..Len(log)
                             /\ Remembers(LearnedBy(log)[past[i].length], past[i].live)
          /\ \A i \in 1..p - 1 : \A x, y \in past[i].length + 1..past[i + 1].length : log[x].tab = log[y].tab
      BY <1>5 DEF MemoryInv
    <2>3. saved \in 1..Len(log) /\ Len(log) \in Nat
      BY <1>2, <1>3, <1>5
    <2> HIDE DEF p
    <2>4. k \in whole /\ \A i \in whole : i <= k
      <3>1. whole \in SUBSET Nat /\ IsFiniteSet(whole)
        <4>1. 1 \in Int /\ p \in Int
          BY <2>2
        <4>2. IsFiniteSet(1..p)
          BY <4>1, FS_Interval
        <4>3. whole \in SUBSET (1..p)
          BY <2>1
        <4> HIDE DEF whole
        <4>4. IsFiniteSet(whole)
          BY <4>2, <4>3, FS_Subset
        <4>5. 1..p \in SUBSET Nat
          BY <2>2
        <4>6. whole \in SUBSET Nat
          BY <4>3, <4>5
        <4> QED
          BY <4>4, <4>6
      <3> HIDE DEF whole
      <3> QED
        BY <1>1, <3>1, MaxIs
    <2>5. moment = past[k]
      OBVIOUS
    <2>6. cut = IF a < saved THEN log[saved].tab ELSE 0
      BY <1>1, <1>5
    <2>7. t \in DOMAIN moment.live /\ t # cut
      BY <1>1
    <2>8. SessionWindows = ReadChromium(commands)
      BY <1>1, <1>5 DEF SessionWindows
    <2> HIDE DEF k, cut
    <2>9. k \in 1..p /\ past[k].length <= saved /\ \A i \in 1..p : past[i].length <= saved => i <= k
      BY <2>1, <2>4
    <2> HIDE DEF whole
    <2>10. a \in 0..Len(log) /\ a <= saved /\ Remembers(LearnedBy(log)[a], moment.live)
      BY <2>2, <2>5, <2>9
    <2>11. Knows(LearnedBy(log)[a], t, moment.live[t])
      BY <1>1, <2>7, <2>10 DEF Remembers
    <2>12. ASSUME NEW i \in a + 1..saved PROVE log[i].tab # t
      <3>1. a < saved /\ cut = log[saved].tab
        BY <2>3, <2>6, <2>10
      <3>2. k # p
        BY <2>2, <2>3, <2>5, <3>1
      <3>3. k \in 1..p - 1 /\ k + 1 \in 1..p
        BY <2>2, <2>9, <3>2
      <3>4. past[k + 1].length > saved
        <4>1. ~(k + 1 <= k)
          BY <2>9
        <4>2. past[k + 1].length \in 0..Len(log)
          BY <2>2, <3>3
        <4> QED
          BY <2>3, <2>9, <3>3, <4>1, <4>2
      <3>5. past[k + 1].length \in Nat /\ past[k].length = a
        BY <2>2, <2>3, <2>5, <3>3
      <3>6. i \in past[k].length + 1..past[k + 1].length /\ saved \in past[k].length + 1..past[k + 1].length
        BY <2>3, <2>10, <3>1, <3>4, <3>5, SMTT(30)
      <3>7. log[i].tab = log[saved].tab
        BY <2>2, <3>3, <3>6
      <3> QED
        BY <2>7, <3>1, <3>7
    <2> DEFINE tab == moment.live[t]
    <2>13. tab \in BrowserTabs
      <3>1. moment \in Moments
        BY <1>2, <2>5, <2>9 DEF p
      <3>2. moment.live \in Browsing
        BY <3>1 DEF Moments
      <3> HIDE DEF moment
      <3> QED
        BY <2>7, <3>2, ATab
    <2>14. tab.win \notin Private /\ Savable(Shown(tab))
      BY <1>1
    <2>15. Knows(LearnedBy(log)[a], t, tab)
      BY <2>11
    <2> HIDE DEF a, moment, tab
    <2>16. Knows(LearnedBy(log)[saved], t, tab)
      <3>1. t \in DOMAIN LearnedBy(log)[a].tabs
        BY <2>15 DEF Knows
      <3>2. saved \in a..Len(log) /\ a \in 0..Len(log)
        BY <2>3, <2>10
      <3>3. t \in DOMAIN LearnedBy(log)[saved].tabs /\ LearnedBy(log)[saved].tabs[t] = LearnedBy(log)[a].tabs[t]
        BY <1>2, <2>12, <3>1, <3>2, Undisturbed
      <3> QED
        BY <2>15, <3>3 DEF Knows, Entered
    <2>17. commands \in Seq(LogCommands) /\ Len(commands) = saved /\ \A i \in 1..saved : commands[i] = log[i]
      BY <1>2, <2>3
    <2> HIDE DEF commands
    <2>18. Learned(commands) = LearnedBy(log)[saved]
      <3>1. Len(commands) <= Len(log) /\ \A i \in 1..Len(commands) : commands[i] = log[i]
        BY <2>3, <2>17
      <3>2. \A i \in 0..Len(commands) : LearnedBy(commands)[i] = LearnedBy(log)[i]
        BY <1>2, <2>17, <3>1, Onward
      <3>3. saved \in 0..Len(commands)
        BY <2>3, <2>17
      <3> QED
        BY <2>17, <3>2, <3>3 DEF Learned
    <2>19. Has(ReadChromium(commands), t, tab)
      BY <2>13, <2>14, <2>16, <2>17, <2>18, ChromiumHas
    <2> QED
      BY <2>8, <2>19 DEF tab
  <1> QED
    BY <1>2, <1>4, <1>5

\* Wherever the log or the recovery file ends and however long the browser has been used, what
\* is read of it is the state of the browser at the last moment all of which is on the disk, apart
\* from the one tab whose commands are cut off.
THEOREM SessionsAreRead == Spec => []SessionIsAPast
  <1>1. CaptureAssumption /\ SessionAssumption
    BY CaptureAssumption, SessionAssumption
  <1>2. Init => MemoryInv
    BY <1>1, MemoryAtFirst
  <1>3. SnapshotInv /\ MemoryInv /\ [Next]_vars => MemoryInv'
    BY <1>1, MemoryKept DEF SnapshotInv
  <1>4. SnapshotInv /\ MemoryInv => SessionIsAPast
    BY <1>1, MemoryTells DEF SnapshotInv
  <1> QED
    BY <1>2, <1>3, <1>4, SnapshotAlways, PTL DEF Spec
=============================================================================
