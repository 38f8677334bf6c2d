--------------------------- MODULE MatchingProofs ---------------------------
(***************************************************************************)
(* What Matching proposes, for every number of drivers, of candidates and  *)
(* of scores.  The proof is about lists: what filter, sort and slice make  *)
(* of the list they are given.                                             *)
(***************************************************************************)
EXTENDS Matching, FiniteSetTheorems, FunctionTheorems, TLAPS

(***************************************************************************)
(* Positions.                                                              *)
(***************************************************************************)

\* In a finite set with a strict total order, the number of smaller elements
\* tells an element from the others and takes every value.
LEMMA Ranks ==
  ASSUME NEW S, IsFiniteSet(S), NEW R,
         \A x \in S : <<x, x>> \notin R,
         \A x, y, z \in S : <<x, y>> \in R /\ <<y, z>> \in R => <<x, z>> \in R,
         \A x, y \in S : x # y => <<x, y>> \in R \/ <<y, x>> \in R
  PROVE  LET rank == [x \in S |-> Cardinality({y \in S : <<y, x>> \in R})] IN
         /\ Cardinality(S) \in Nat
         /\ \A x \in S : rank[x] \in 0 .. Cardinality(S) - 1
         /\ \A x, y \in S : <<x, y>> \in R <=> rank[x] < rank[y]
         /\ \A k \in 0 .. Cardinality(S) - 1 : \E x \in S : rank[x] = k
<1> DEFINE Below(x) == {y \in S : <<y, x>> \in R}
           rank == [x \in S |-> Cardinality(Below(x))]
           ranks == 0 .. Cardinality(S) - 1
<1>1. Cardinality(S) \in Nat
  BY FS_CardinalityType
<1>2. \A x \in S : IsFiniteSet(Below(x)) /\ rank[x] \in Nat
  BY FS_Subset, FS_CardinalityType
<1>3. ASSUME NEW x \in S PROVE rank[x] \in ranks
  <2>1. Below(x) \in SUBSET S /\ Below(x) # S
    OBVIOUS
  <2>2. Cardinality(Below(x)) <= Cardinality(S) /\ Cardinality(Below(x)) # Cardinality(S)
    BY <2>1, FS_Subset
  <2> QED BY <1>1, <1>2, <2>2
<1>4. ASSUME NEW x \in S, NEW y \in S, <<x, y>> \in R PROVE rank[x] < rank[y]
  <2>1. Below(x) \in SUBSET Below(y) /\ x \in Below(y) /\ x \notin Below(x)
    BY <1>4
  <2>2. Cardinality(Below(x)) <= Cardinality(Below(y)) /\ Cardinality(Below(x)) # Cardinality(Below(y))
    BY <1>2, <2>1, FS_Subset
  <2> QED BY <1>2, <2>2
<1> HIDE DEF Below, rank
<1>5. ASSUME NEW x \in S, NEW y \in S, rank[x] < rank[y] PROVE <<x, y>> \in R
  <2>1. CASE x = y
    BY <1>2, <1>5, <2>1
  <2>2. CASE <<y, x>> \in R
    BY <1>2, <1>4, <1>5, <2>2
  <2> QED BY <2>1, <2>2
<1>6. rank \in Injection(S, ranks)
  <2>1. ASSUME NEW x \in S, NEW y \in S, rank[x] = rank[y] PROVE x = y
    <3>1. ~ (<<x, y>> \in R) /\ ~ (<<y, x>> \in R)
      BY <1>2, <1>4, <2>1
    <3> QED BY <3>1
  <2> HIDE DEF ranks
  <2>2. rank \in [S -> ranks]
    BY <1>3 DEF rank
  <2> QED BY <2>1, <2>2, Fun_IsInj
<1>7. IsFiniteSet(ranks) /\ Cardinality(ranks) = Cardinality(S)
  <2>1. /\ IsFiniteSet(0 .. (Cardinality(S) - 1))
        /\ Cardinality(0 .. (Cardinality(S) - 1)) =
              IF 0 > Cardinality(S) - 1 THEN 0 ELSE (Cardinality(S) - 1) - 0 + 1
    BY <1>1, FS_Interval
  <2> QED BY <1>1, <2>1
<1>8. rank \in Surjection(S, ranks)
  <2> HIDE DEF ranks
  <2> QED BY <1>6, <1>7, FS_Injection
<1>9. \A k \in ranks : \E x \in S : rank[x] = k
  <2> HIDE DEF ranks
  <2> QED BY <1>8 DEF Surjection
<1> QED BY <1>1, <1>3, <1>4, <1>5, <1>9 DEF rank, Below

\* filter keeps the elements that are good, in their order.
LEMMA KeptFacts ==
  ASSUME NEW list \in Seq(Driver), NEW good
  PROVE  LET kept == Kept(list, good) IN
         /\ kept \in Seq(Driver)
         /\ \E at \in [1 .. Len(kept) -> 1 .. Len(list)] :
               /\ \A n \in 1 .. Len(kept) : kept[n] = list[at[n]] /\ kept[n] \in good
               /\ \A n, m \in 1 .. Len(kept) : n < m => at[n] < at[m]
               /\ \A i \in 1 .. Len(list) : list[i] \in good => \E n \in 1 .. Len(kept) : at[n] = i
<1> DEFINE S == {i \in 1 .. Len(list) : list[i] \in good}
           R == {p \in S \X S : p[1] < p[2]}
           rank == [i \in S |-> Cardinality({j \in S : <<j, i>> \in R})]
           kept == Kept(list, good)
<1>1. IsFiniteSet(S) /\ S \subseteq Nat
  <2>1. Len(list) \in Nat
    OBVIOUS
  <2>2. IsFiniteSet(1 .. Len(list)) /\ S \in SUBSET (1 .. Len(list))
    BY <2>1, FS_Interval
  <2> QED BY <2>1, <2>2, FS_Subset
<1>2. \A i, j \in S : <<i, j>> \in R <=> i < j
  OBVIOUS
<1>3. /\ Cardinality(S) \in Nat
      /\ \A x \in S : rank[x] \in 0 .. Cardinality(S) - 1
      /\ \A x, y \in S : <<x, y>> \in R <=> rank[x] < rank[y]
      /\ \A k \in 0 .. Cardinality(S) - 1 : \E x \in S : rank[x] = k
  <2> HIDE DEF S, R
  <2>1. /\ \A x \in S : <<x, x>> \notin R
        /\ \A x, y, z \in S : <<x, y>> \in R /\ <<y, z>> \in R => <<x, z>> \in R
        /\ \A x, y \in S : x # y => <<x, y>> \in R \/ <<y, x>> \in R
    BY <1>1, <1>2
  <2> QED BY <1>1, <2>1, Ranks
<1>4. \A i \in S : {j \in S : j < i} = {j \in S : <<j, i>> \in R}
  BY <1>2
<1> DEFINE at == [n \in 1 .. Cardinality(S) |-> CHOOSE i \in S : Cardinality({j \in S : j < i}) = n - 1]
<1> HIDE DEF R
<1>5. ASSUME NEW n \in 1 .. Cardinality(S) PROVE at[n] \in S /\ rank[at[n]] = n - 1
  <2>1. n - 1 \in 0 .. Cardinality(S) - 1
    BY <1>3
  <2>2. \E i \in S : rank[i] = n - 1
    BY <1>3, <2>1
  <2>3. \E i \in S : Cardinality({j \in S : j < i}) = n - 1
    BY <1>4, <2>2
  <2>4. at[n] \in S /\ Cardinality({j \in S : j < at[n]}) = n - 1
    BY <2>3
  <2> QED BY <1>4, <2>4
<1>6a. \A i \in S : i \in 1 .. Len(list) /\ i \in Nat /\ list[i] \in good /\ list[i] \in Driver
  OBVIOUS
<1>6. kept = [n \in 1 .. Cardinality(S) |-> list[at[n]]]
  BY DEF Kept
<1> HIDE DEF at, S, rank, kept
<1>7. kept \in Seq(Driver) /\ Len(kept) = Cardinality(S)
  <2>1. \A n \in 1 .. Cardinality(S) : list[at[n]] \in Driver
    BY <1>5, <1>6a
  <2> QED BY <1>3, <1>6, <2>1
<1>8. at \in [1 .. Len(kept) -> 1 .. Len(list)]
  BY <1>5, <1>6a, <1>7 DEF at
<1>9. \A n \in 1 .. Len(kept) : kept[n] = list[at[n]] /\ kept[n] \in good
  BY <1>5, <1>6, <1>6a, <1>7
<1>10. ASSUME NEW n \in 1 .. Len(kept), NEW m \in 1 .. Len(kept), n < m PROVE at[n] < at[m]
  <2>1. rank[at[n]] < rank[at[m]] /\ at[n] \in S /\ at[m] \in S
    BY <1>3, <1>5, <1>7, <1>10
  <2> QED BY <1>2, <1>3, <2>1
<1>11. ASSUME NEW i \in 1 .. Len(list), list[i] \in good PROVE \E n \in 1 .. Len(kept) : at[n] = i
  <2>1. i \in S
    BY <1>11 DEF S
  <2>2. rank[i] + 1 \in 1 .. Cardinality(S) /\ rank[i] \in Nat
    BY <1>3, <2>1
  <2>3. PICK n \in 1 .. Cardinality(S) : n = rank[i] + 1
    BY <2>2
  <2>4. at[n] \in S /\ rank[at[n]] = rank[i]
    BY <1>5, <2>2, <2>3
  <2>5. at[n] = i
    <3>1. PICK j \in S : j = at[n]
      BY <2>4
    <3>2. ~ (<<i, j>> \in R) /\ ~ (<<j, i>> \in R)
      BY <1>3, <2>1, <2>2, <2>4, <3>1
    <3> QED BY <1>2, <1>6a, <2>1, <3>1, <3>2
  <2> QED BY <1>7, <2>5
<1> QED BY <1>7, <1>8, <1>9, <1>10, <1>11 DEF kept

-----------------------------------------------------------------------------
(***************************************************************************)
(* Lists that name each driver of a set once, and those that are sorted.   *)
(***************************************************************************)
Lists(list, drivers) ==
    /\ list \in Seq(Driver)
    /\ \A i \in 1 .. Len(list) : list[i] \in drivers
    /\ \A d \in drivers : \E i \in 1 .. Len(list) : list[i] = d
    /\ \A i, j \in 1 .. Len(list) : list[i] = list[j] => i = j

InOrder(list) == \A i, j \in 1 .. Len(list) : i < j => Before(list[i], list[j])

\* filter lists what is good of the set that was listed.
LEMMA KeptLists ==
  ASSUME NEW list, NEW drivers, Lists(list, drivers), NEW good
  PROVE  Lists(Kept(list, good), drivers \cap good)
<1> DEFINE kept == Kept(list, good)
<1>1. list \in Seq(Driver)
  BY DEF Lists
<1> HIDE DEF kept
<1>2. kept \in Seq(Driver)
  BY <1>1, KeptFacts DEF kept
<1>3. PICK at \in [1 .. Len(kept) -> 1 .. Len(list)] :
         /\ \A n \in 1 .. Len(kept) : kept[n] = list[at[n]] /\ kept[n] \in good
         /\ \A n, m \in 1 .. Len(kept) : n < m => at[n] < at[m]
         /\ \A i \in 1 .. Len(list) : list[i] \in good => \E n \in 1 .. Len(kept) : at[n] = i
  BY <1>1, KeptFacts DEF kept
<1>4. \A n \in 1 .. Len(kept) : n \in Nat /\ at[n] \in 1 .. Len(list) /\ at[n] \in Nat
  BY <1>1, <1>2
<1>5. \A n \in 1 .. Len(kept) : kept[n] \in drivers \cap good
  BY <1>3, <1>4 DEF Lists
<1>6. ASSUME NEW d \in drivers \cap good PROVE \E n \in 1 .. Len(kept) : kept[n] = d
  BY <1>3 DEF Lists
<1>7. ASSUME NEW n \in 1 .. Len(kept), NEW m \in 1 .. Len(kept), kept[n] = kept[m]
      PROVE  n = m
  <2>1. at[n] = at[m]
    <3>1. PICK i \in 1 .. Len(list) : i = at[n]
      BY <1>4
    <3>2. PICK j \in 1 .. Len(list) : j = at[m]
      BY <1>4
    <3>3. list[i] = list[j]
      BY <1>3, <1>7, <3>1, <3>2
    <3> QED BY <3>1, <3>2, <3>3 DEF Lists
  <2>2. ~ (n < m) /\ ~ (m < n)
    BY <1>3, <1>4, <2>1
  <2> QED BY <1>4, <2>2
<1> QED BY <1>2, <1>5, <1>6, <1>7 DEF Lists, kept

\* filter keeps a sorted list sorted.
LEMMA KeptInOrder ==
  ASSUME NEW list \in Seq(Driver), InOrder(list), NEW good
  PROVE  InOrder(Kept(list, good))
<1> DEFINE kept == Kept(list, good)
<1> HIDE DEF kept
<1>1. kept \in Seq(Driver)
  BY KeptFacts DEF kept
<1>2. PICK at \in [1 .. Len(kept) -> 1 .. Len(list)] :
         /\ \A n \in 1 .. Len(kept) : kept[n] = list[at[n]]
         /\ \A n, m \in 1 .. Len(kept) : n < m => at[n] < at[m]
  BY KeptFacts DEF kept
<1>3. ASSUME NEW n \in 1 .. Len(kept), NEW m \in 1 .. Len(kept), n < m
      PROVE  Before(kept[n], kept[m])
  <2>1. Before(list[at[n]], list[at[m]])
    BY <1>2, <1>3 DEF InOrder
  <2> QED BY <1>2, <2>1
<1> QED BY <1>3 DEF InOrder, kept

\* Before is a strict total order of the drivers.
LEMMA BeforeOrders ==
  ASSUME score \in [Driver -> 1 .. MaxScore]
  PROVE  /\ \A d \in Driver : ~ Before(d, d)
         /\ \A d, e, f \in Driver : Before(d, e) /\ Before(e, f) => Before(d, f)
         /\ \A d, e \in Driver : d # e => Before(d, e) \/ Before(e, d)
<1>1. \A d \in Driver : d \in Nat /\ score[d] \in Nat
  BY MatchingAssumption DEF Driver
<1> QED BY <1>1 DEF Before

\* sort lists the same drivers, in order.
LEMMA SortedLists ==
  ASSUME score \in [Driver -> 1 .. MaxScore],
         NEW list, NEW drivers, Lists(list, drivers)
  PROVE  Lists(Sorted(list), drivers) /\ InOrder(Sorted(list))
<1> DEFINE S == 1 .. Len(list)
           R == {p \in S \X S : Before(list[p[1]], list[p[2]])}
           rank == [i \in S |-> Cardinality({j \in S : <<j, i>> \in R})]
           at == [n \in S |-> CHOOSE i \in S : Cardinality({j \in S : Before(list[j], list[i])}) = n - 1]
           sorted == Sorted(list)
<1>1. Len(list) \in Nat /\ \A i \in S : i \in Nat /\ list[i] \in Driver /\ list[i] \in drivers
  BY DEF Lists
<1>2. IsFiniteSet(S) /\ Cardinality(S) = Len(list)
  <2>1. IsFiniteSet(1 .. Len(list)) /\ Cardinality(1 .. Len(list)) = IF 1 > Len(list) THEN 0 ELSE Len(list) - 1 + 1
    BY <1>1, FS_Interval
  <2> QED BY <1>1, <2>1
<1>3. \A i, j \in S : <<i, j>> \in R <=> Before(list[i], list[j])
  OBVIOUS
<1>4. \A i \in S : {j \in S : Before(list[j], list[i])} = {j \in S : <<j, i>> \in R}
  BY <1>3
<1>5. sorted = [n \in S |-> list[at[n]]]
  BY DEF Sorted
<1>6. \A n \in S : n - 1 \in 0 .. Cardinality(S) - 1 /\ n \in Nat
  BY <1>1, <1>2
<1>7. \A k \in 0 .. Cardinality(S) - 1 : k \in Nat /\ k + 1 \in S
  BY <1>1, <1>2
<1>8. \A d \in drivers : \E i \in S : list[i] = d
  BY DEF Lists
<1>9. \A i, j \in S : list[i] = list[j] => i = j
  BY DEF Lists
<1>10. DOMAIN sorted = S
  BY <1>5
<1> HIDE DEF R, sorted
<1>11. /\ \A x \in S : rank[x] \in 0 .. Cardinality(S) - 1
       /\ \A x, y \in S : <<x, y>> \in R <=> rank[x] < rank[y]
       /\ \A k \in 0 .. Cardinality(S) - 1 : \E x \in S : rank[x] = k
  <2> HIDE DEF S
  <2>1. /\ \A x \in S : <<x, x>> \notin R
        /\ \A x, y, z \in S : <<x, y>> \in R /\ <<y, z>> \in R => <<x, z>> \in R
        /\ \A x, y \in S : x # y => <<x, y>> \in R \/ <<y, x>> \in R
    BY <1>1, <1>3, <1>9, BeforeOrders
  <2> QED BY <1>2, <2>1, Ranks
<1>12. ASSUME NEW n \in S PROVE at[n] \in S /\ rank[at[n]] = n - 1
  <2>1. \E i \in S : rank[i] = n - 1
    BY <1>6, <1>11
  <2>2. \E i \in S : Cardinality({j \in S : Before(list[j], list[i])}) = n - 1
    BY <1>4, <2>1
  <2>3. at[n] \in S /\ Cardinality({j \in S : Before(list[j], list[at[n]])}) = n - 1
    BY <2>2
  <2> QED BY <1>4, <2>3
<1> HIDE DEF at, rank
<1>13. sorted \in Seq(Driver) /\ Len(sorted) = Len(list)
  <2>1. \A n \in S : list[at[n]] \in Driver
    BY <1>1, <1>12
  <2> QED BY <1>1, <1>5, <2>1
<1> HIDE DEF S
<1>14. 1 .. Len(sorted) = S
  BY <1>13 DEF S
<1>15. \A n \in S : sorted[n] = list[at[n]] /\ at[n] \in S
  BY <1>5, <1>12
<1>16. ASSUME NEW i \in S PROVE \E n \in S : at[n] = i
  <2>1. PICK k \in 0 .. Cardinality(S) - 1 : k = rank[i]
    BY <1>11
  <2>2. PICK n \in S : n = k + 1
    BY <1>7
  <2>3. PICK j \in S : j = at[n] /\ rank[j] = n - 1
    BY <1>12
  <2>4. rank[j] = rank[i] /\ k \in Nat
    BY <1>7, <2>1, <2>2, <2>3
  <2>5. ~ (<<i, j>> \in R) /\ ~ (<<j, i>> \in R)
    BY <1>11, <2>1, <2>4
  <2>6. ~ Before(list[i], list[j]) /\ ~ Before(list[j], list[i])
    BY <1>3, <2>5
  <2>7. i = j
    BY <1>1, <1>9, <2>6, BeforeOrders
  <2> QED BY <2>3, <2>7
<1>17. ASSUME NEW n \in S, NEW m \in S, n < m PROVE Before(sorted[n], sorted[m])
  <2>1. PICK i \in S : i = at[n] /\ rank[i] = n - 1
    BY <1>12
  <2>2. PICK j \in S : j = at[m] /\ rank[j] = m - 1
    BY <1>12
  <2>3. <<i, j>> \in R
    BY <1>6, <1>11, <1>17, <2>1, <2>2
  <2> QED BY <1>3, <1>15, <2>1, <2>2, <2>3
<1>18. \A n \in S : sorted[n] \in drivers /\ sorted[n] \in Driver
  BY <1>1, <1>15
<1>19. \A d \in drivers : \E n \in S : sorted[n] = d
  BY <1>8, <1>15, <1>16
<1>20. ASSUME NEW n \in S, NEW m \in S, sorted[n] = sorted[m] PROVE n = m
  <2>1. ~ (n < m) /\ ~ (m < n)
    BY <1>17, <1>18, <1>20, BeforeOrders
  <2> QED BY <1>6, <2>1
<1> QED BY <1>13, <1>14, <1>17, <1>18, <1>19, <1>20 DEF Lists, InOrder, sorted

\* slice(0, n) of a list.
LEMMA FirstFacts ==
  ASSUME NEW list \in Seq(Driver), NEW n \in Nat
  PROVE  LET first == FirstOf(n, list) IN
         /\ first \in Seq(Driver)
         /\ Len(first) = IF Len(list) < n THEN Len(list) ELSE n
         /\ \A i \in 1 .. Len(first) : i \in 1 .. Len(list) /\ first[i] = list[i]
<1>1. Len(list) \in Nat
  OBVIOUS
<1> QED BY <1>1 DEF FirstOf

-----------------------------------------------------------------------------
(***************************************************************************)
(* The pipeline.                                                           *)
(***************************************************************************)

\* The GEO search returns the nearest drivers within the radius; what is left
\* after the two filters is the pool.
LEMMA AvailableLists ==
  ASSUME TypeOK, NEW r \in {"default", "double"}
  PROVE  Lists(FilterAvailable(Nearby(r)), Pool(r))
<1> DEFINE all == [i \in 1 .. radius[r] |-> i]
           found == FirstOf(SearchCount, all)
           drivers == {d \in Driver : d <= radius[r] /\ d <= 2 * MaxCandidates}
<1>1. Members \in Nat /\ MaxCandidates \in Nat /\ radius[r] \in 0 .. Members /\ SearchCount \in Nat
      /\ SearchCount = 2 * MaxCandidates
  BY MatchingAssumption DEF TypeOK, SearchCount
<1>2. all \in Seq(Driver) /\ Len(all) = radius[r] /\ \A i \in 1 .. radius[r] : all[i] = i
  BY <1>1 DEF Driver
<1> HIDE DEF all
<1>3. /\ found \in Seq(Driver)
      /\ Len(found) = IF radius[r] < SearchCount THEN radius[r] ELSE SearchCount
      /\ \A i \in 1 .. Len(found) : found[i] = i
  BY <1>1, <1>2, FirstFacts
<1> HIDE DEF found
<1>4. Lists(found, drivers)
  <2>1. \A i \in 1 .. Len(found) : found[i] \in drivers
    BY <1>1, <1>3 DEF Driver
  <2>2. \A d \in drivers : d \in 1 .. Len(found) /\ found[d] = d
    BY <1>1, <1>3 DEF Driver
  <2> QED BY <1>3, <2>1, <2>2 DEF Lists
<1> HIDE DEF drivers
<1>5. Lists(Nearby(r), drivers \cap (Driver \ offline))
  BY <1>4, KeptLists DEF Nearby, found, all
<1>6. Lists(FilterAvailable(Nearby(r)), (drivers \cap (Driver \ offline)) \cap (Driver \ unavailable))
  BY <1>5, KeptLists DEF FilterAvailable
<1>7. (drivers \cap (Driver \ offline)) \cap (Driver \ unavailable) = Pool(r)
  BY DEF drivers, Pool
<1> QED BY <1>6, <1>7

\* The candidates: the best of the pool in order, and all the others come after
\* them, if there are any.
Candidates(list, r) ==
    /\ list \in Seq(Driver)
    /\ InOrder(list)
    /\ \A i \in 1 .. Len(list) : list[i] \in Pool(r)
    /\ Len(list) <= MaxCandidates
    /\ \A d \in Pool(r) :
          \/ \E i \in 1 .. Len(list) : list[i] = d
          \/ /\ Len(list) = MaxCandidates
             /\ \A i \in 1 .. Len(list) : Before(list[i], d)

\* What findMatches returns (matching.service.ts:57-110) are the candidates.
LEMMA FindMatchesFacts ==
  ASSUME TypeOK, NEW r \in {"default", "double"}
  PROVE  Candidates(FindMatches(r), r)
<1> DEFINE sorted == Sorted(FilterAvailable(Nearby(r)))
           list == FindMatches(r)
<1>1. Lists(sorted, Pool(r)) /\ InOrder(sorted)
  BY AvailableLists, SortedLists DEF TypeOK
<1> HIDE DEF sorted, list
<1>2. sorted \in Seq(Driver) /\ Len(sorted) \in Nat /\ MaxCandidates \in Nat
  BY <1>1, MatchingAssumption DEF Lists
<1>3. list = FirstOf(MaxCandidates, sorted)
  BY DEF list, sorted, FindMatches, ScoreAndRank
<1>4. /\ list \in Seq(Driver)
      /\ Len(list) = IF Len(sorted) < MaxCandidates THEN Len(sorted) ELSE MaxCandidates
      /\ \A i \in 1 .. Len(list) : i \in 1 .. Len(sorted) /\ list[i] = sorted[i]
  BY <1>2, <1>3, FirstFacts
<1>5. InOrder(list)
  BY <1>1, <1>4 DEF InOrder
<1>6. \A i \in 1 .. Len(list) : list[i] \in Pool(r)
  BY <1>1, <1>4 DEF Lists
<1>7. ASSUME NEW d \in Pool(r)
      PROVE  \/ \E i \in 1 .. Len(list) : list[i] = d
             \/ /\ Len(list) = MaxCandidates
                /\ \A i \in 1 .. Len(list) : Before(list[i], d)
  <2>1. PICK k \in 1 .. Len(sorted) : sorted[k] = d
    BY <1>1 DEF Lists
  <2>2. CASE k <= Len(list)
    <3>1. k \in 1 .. Len(list)
      BY <1>2, <1>4, <2>2
    <3> QED BY <1>4, <2>1, <3>1
  <2>3. CASE ~ (k <= Len(list))
    <3>1. Len(list) = MaxCandidates
      BY <1>2, <1>4, <2>3
    <3>2. ASSUME NEW i \in 1 .. Len(list) PROVE Before(list[i], d)
      <4>1. i < k /\ i \in 1 .. Len(sorted)
        BY <1>2, <1>4, <2>3
      <4> QED BY <1>1, <1>4, <2>1, <4>1 DEF InOrder
    <3> QED BY <3>1, <3>2
  <2> QED BY <2>2, <2>3
<1> QED BY <1>2, <1>4, <1>5, <1>6, <1>7 DEF Candidates, list

-----------------------------------------------------------------------------
(***************************************************************************)
(* The invariant.                                                          *)
(***************************************************************************)
Named(list) == {list[i] : i \in 1 .. Len(list)}

\* Who was asked is on the list the search returns again each time.
AskedInv == phase = "offered" =>
    /\ candidate \in Driver
    /\ expanded \/ declined \cup {candidate} \subseteq Named(FindMatches("default"))

ExpandedInv == expanded => Pool("default") = {}

MatchingInv ==
    /\ TypeOK
    /\ phase = "start" => declined = {} /\ ~ expanded
    /\ AskedInv /\ ExpandedInv
    /\ ProposalIsBest /\ GivesUpWhenExhausted

\* What a search returns depends on the world only.
LEMMA SameWorld ==
  ASSUME UNCHANGED world
  PROVE  \A r : Pool(r)' = Pool(r) /\ FindMatches(r)' = FindMatches(r)
<1>1. UNCHANGED <<offline, unavailable, unroutable, score, radius>>
  BY DEF world
<1>2. ASSUME NEW r PROVE Pool(r)' = Pool(r) /\ FindMatches(r)' = FindMatches(r)
  <2>1. Pool(r)' = Pool(r)
    BY <1>1 DEF Pool
  <2>2. FilterAvailable(Nearby(r))' = FilterAvailable(Nearby(r))
    BY <1>1 DEF FilterAvailable, Nearby
  <2>3. Sorted(FilterAvailable(Nearby(r)))' = Sorted(FilterAvailable(Nearby(r)))
    BY <1>1, <2>2 DEF Sorted, Before
  <2> QED BY <2>1, <2>3 DEF FindMatches, ScoreAndRank
<1> QED BY <1>2

\* The head of a sorted list is the best of those it stands for.
LEMMA HeadIsBest ==
  ASSUME NEW list \in Seq(Driver), list # <<>>, InOrder(list),
         NEW drivers, \A i \in 1 .. Len(list) : list[i] \in drivers,
         \A d \in drivers :
            (\E i \in 1 .. Len(list) : list[i] = d) \/ \A i \in 1 .. Len(list) : Before(list[i], d)
  PROVE  /\ Head(list) \in drivers /\ Head(list) \in Named(list) /\ Head(list) \in Driver
         /\ \A d \in drivers \ {Head(list)} : Before(Head(list), d)
<1>1. 1 \in 1 .. Len(list) /\ Head(list) = list[1] /\ Head(list) \in Driver
  OBVIOUS
<1>2. \A i \in 1 .. Len(list) : i # 1 => 1 < i
  OBVIOUS
<1>3. ASSUME NEW d \in drivers, d # Head(list) PROVE Before(Head(list), d)
  BY <1>1, <1>2, <1>3 DEF InOrder
<1> QED BY <1>1, <1>3 DEF Named

\* What is left of the candidates without those that declined.
LEMMA ExcludeFacts ==
  ASSUME NEW r, NEW list, Candidates(list, r), NEW gone
  PROVE  LET open == Kept(list, Driver \ gone) IN
         /\ open = <<>> => Named(list) \subseteq gone
         /\ open # <<>> =>
               /\ Head(open) \in Pool(r) \ gone /\ Head(open) \in Named(list)
               /\ \A d \in Pool(r) \ (gone \cup {Head(open)}) : Before(Head(open), d)
<1> DEFINE good == Driver \ gone
           open == Kept(list, good)
<1>1. list \in Seq(Driver) /\ InOrder(list) /\ \A i \in 1 .. Len(list) : list[i] \in Driver
  BY DEF Candidates
<1> HIDE DEF open, good
<1>2. open \in Seq(Driver)
  BY <1>1, KeptFacts DEF open
<1>3. PICK at \in [1 .. Len(open) -> 1 .. Len(list)] :
         /\ \A n \in 1 .. Len(open) : open[n] = list[at[n]] /\ open[n] \in good
         /\ \A i \in 1 .. Len(list) :
               list[i] \in good => \E n \in 1 .. Len(open) : at[n] = i
  BY <1>1, KeptFacts DEF open
<1>4. ASSUME open = <<>> PROVE Named(list) \subseteq gone
  <2>1. ~ \E n \in 1 .. Len(open) : TRUE
    BY <1>4
  <2> QED BY <1>1, <1>3, <2>1 DEF Named, good
<1>5. InOrder(open)
  BY <1>1, KeptInOrder DEF open
<1>6. \A n \in 1 .. Len(open) : open[n] \in Pool(r) \ gone /\ open[n] \in Named(list)
  BY <1>3 DEF Candidates, Named, good
<1>7. ASSUME NEW d \in Pool(r) \ gone
      PROVE  (\E n \in 1 .. Len(open) : open[n] = d) \/ \A n \in 1 .. Len(open) : Before(open[n], d)
  <2>1. d \in good
    BY DEF Pool, good
  <2>2. CASE \E i \in 1 .. Len(list) : list[i] = d
    BY <1>3, <2>1, <2>2
  <2>3. CASE \A i \in 1 .. Len(list) : Before(list[i], d)
    BY <1>3, <2>3
  <2> QED BY <2>2, <2>3 DEF Candidates
<1>8. ASSUME open # <<>>
      PROVE  /\ Head(open) \in Pool(r) \ gone /\ Head(open) \in Named(open)
             /\ \A d \in (Pool(r) \ gone) \ {Head(open)} : Before(Head(open), d)
  <2> DEFINE left == Pool(r) \ gone
  <2> HIDE DEF left
  <2> QED BY <1>2, <1>5, <1>6, <1>7, <1>8, HeadIsBest DEF left
<1>9. Named(open) \subseteq Named(list)
  BY <1>6 DEF Named
<1> QED BY <1>4, <1>8, <1>9 DEF open, good

\* Before, in the terms of ProposalIsBest: a lower score, or the nearer of two
\* with the same.
LEMMA BestProposal ==
  ASSUME TypeOK, NEW c \in Driver, NEW d \in Driver, Before(c, d)
  PROVE  score[c] <= score[d] /\ (score[c] = score[d] => c < d)
<1>1. score[c] \in Nat /\ score[d] \in Nat
  BY DEF TypeOK
<1> QED BY <1>1 DEF Before

\* A sorted list names as many drivers as it is long.
LEMMA NamedCardinality ==
  ASSUME NEW list \in Seq(Driver), InOrder(list), score \in [Driver -> 1 .. MaxScore]
  PROVE  Cardinality(Named(list)) = Len(list)
<1>1. Len(list) \in Nat /\ \A i \in 1 .. Len(list) : list[i] \in Driver /\ i \in Nat
  OBVIOUS
<1>2. \A i, j \in 1 .. Len(list) : list[i] = list[j] => i = j
  BY <1>1, BeforeOrders DEF InOrder
<1>3. list \in [1 .. Len(list) -> Named(list)]
  BY DEF Named
<1>4. \A d \in Named(list) : \E i \in 1 .. Len(list) : list[i] = d
  BY DEF Named
<1>5. list \in Bijection(1 .. Len(list), Named(list))
  BY <1>2, <1>3, <1>4, Fun_IsBij
<1>6. ExistsBijection(1 .. Len(list), Named(list))
  BY <1>5, Fun_ExistsBij
<1> QED BY <1>1, <1>6, FS_CountingElements

\* Before the first search nobody has been asked.
LEMMA MatchingStart == Init => MatchingInv
<1> SUFFICES ASSUME Init PROVE MatchingInv
  OBVIOUS
<1>1. TypeOK
  BY DEF Init, TypeOK
<1> QED BY <1>1 DEF Init, MatchingInv, AskedInv, ExpandedInv, ProposalIsBest, GivesUpWhenExhausted

\* A first or a wider search.
LEMMA SearchProposes ==
  ASSUME MatchingInv, UNCHANGED <<world, declined>>, declined = {},
         NEW r \in {"default", "double"}, Proposes(FindMatches(r)),
         r = IF expanded' THEN "double" ELSE "default",
         expanded' => Pool("default") = {} , expanded' \in BOOLEAN,
         FindMatches(r) # <<>> \/ expanded'
  PROVE  MatchingInv'
<1> DEFINE list == FindMatches(r)
<1>1. Candidates(list, r) /\ TypeOK
  BY FindMatchesFacts DEF MatchingInv
<1>2. Pool("default")' = Pool("default") /\ Pool("double")' = Pool("double")
      /\ FindMatches("default")' = FindMatches("default")
  BY SameWorld
<1> HIDE DEF list
<1>3. CASE list = <<>>
  <2>1. candidate' = None /\ phase' = "none" /\ expanded'
    BY <1>3 DEF Proposes, list
  <2>2. TypeOK'
    BY <1>1, <2>1 DEF TypeOK, world
  <2>3. Pool(r) = {}
    <3>1. Len(list) = 0 /\ ~ \E i \in 1 .. Len(list) : TRUE
      BY <1>3
    <3> QED BY <1>1, <3>1, MatchingAssumption DEF Candidates
  <2> QED BY <1>2, <2>1, <2>2, <2>3 DEF MatchingInv, AskedInv, ExpandedInv, ProposalIsBest,
             GivesUpWhenExhausted
<1>4. CASE list # <<>>
  <2>1. candidate' = Head(list) /\ phase' = "offered"
    BY <1>4 DEF Proposes, list
  <2>2. /\ Head(list) \in Pool(r) /\ Head(list) \in Named(list) /\ Head(list) \in Driver
        /\ \A d \in Pool(r) \ {Head(list)} : Before(Head(list), d)
    BY <1>1, <1>4, HeadIsBest DEF Candidates
  <2>3. TypeOK'
    BY <1>1, <2>1, <2>2 DEF TypeOK, world
  <2>4. Pool(r) \subseteq Driver
    BY DEF Pool
  <2>5. \A d \in Pool(r) \ {Head(list)} :
           score[Head(list)] <= score[d] /\ (score[Head(list)] = score[d] => Head(list) < d)
    BY <1>1, <2>2, <2>4, BestProposal
  <2>6. ProposalIsBest'
    BY <1>2, <2>1, <2>2, <2>5 DEF ProposalIsBest, world
  <2>7. AskedInv'
    BY <1>2, <2>1, <2>2 DEF AskedInv, list
  <2> QED BY <1>2, <2>1, <2>3, <2>6, <2>7 DEF MatchingInv, ExpandedInv, GivesUpWhenExhausted
<1> QED BY <1>3, <1>4

\* The next candidate.
LEMMA NextProposes ==
  ASSUME MatchingInv, NextCandidate
  PROVE  MatchingInv'
<1> DEFINE list == FindMatches("default")
           open == Exclude(list)
<1>1. Candidates(list, "default") /\ TypeOK
  BY FindMatchesFacts DEF MatchingInv
<1>2. Pool("default")' = Pool("default") /\ Pool("double")' = Pool("double")
      /\ FindMatches("default")' = FindMatches("default")
  BY SameWorld DEF NextCandidate
<1>3. /\ UNCHANGED <<world, expanded>> /\ declined' = declined \cup {candidate}
      /\ candidate \in Driver /\ expanded \in BOOLEAN /\ declined' # {}
      /\ expanded \/ declined' \subseteq Named(list)
  BY DEF NextCandidate, MatchingInv, AskedInv, TypeOK
<1>4. open = Kept(list, Driver \ declined') /\ Proposes(open)
  BY DEF Exclude, NextCandidate
<1> HIDE DEF list, open
<1>5. /\ open = <<>> => Named(list) \subseteq declined'
      /\ open # <<>> =>
            /\ Head(open) \in Pool("default") \ declined' /\ Head(open) \in Named(list)
            /\ \A d \in Pool("default") \ (declined' \cup {Head(open)}) : Before(Head(open), d)
  BY <1>1, <1>4, ExcludeFacts
<1>6. Pool("default") \subseteq Driver /\ Named(list) \subseteq Pool("default")
  BY <1>1 DEF Pool, Candidates, Named
<1>7. ExpandedInv'
  BY <1>2, <1>3 DEF ExpandedInv, MatchingInv
<1>8. CASE open = <<>>
  <2>1. candidate' = None /\ phase' = "none"
    BY <1>4, <1>8 DEF Proposes
  <2>2. TypeOK'
    BY <1>1, <1>3, <2>1 DEF TypeOK, world
  <2>3. GivesUpWhenExhausted'
    <3>1. CASE expanded
      BY <1>2, <1>3, <2>1, <3>1 DEF GivesUpWhenExhausted, MatchingInv, ExpandedInv
    <3>2. CASE ~ expanded
      <4>1. declined' = Named(list)
        BY <1>3, <1>5, <1>8, <3>2
      <4>2. CASE \A d \in Pool("default") : \E i \in 1 .. Len(list) : list[i] = d
        <5>1. Pool("default") \subseteq Named(list)
          BY <4>2 DEF Named
        <5> QED BY <1>2, <1>3, <1>6, <3>2, <4>1, <5>1 DEF GivesUpWhenExhausted
      <4>3. CASE Len(list) = MaxCandidates
        <5>1. Cardinality(declined') = MaxCandidates
          BY <1>1, <4>1, <4>3, NamedCardinality DEF Candidates, TypeOK
        <5> QED BY <1>2, <1>3, <1>6, <3>2, <4>1, <5>1 DEF GivesUpWhenExhausted
      <4> QED BY <1>1, <4>2, <4>3 DEF Candidates
    <3> QED BY <3>1, <3>2
  <2> QED BY <1>7, <2>1, <2>2, <2>3 DEF MatchingInv, AskedInv, ProposalIsBest
<1>9. CASE open # <<>>
  <2>1. candidate' = Head(open) /\ phase' = "offered"
    BY <1>4, <1>9 DEF Proposes
  <2>2. candidate' \in Driver /\ ~ expanded
    <3>1. Pool("default") # {}
      BY <1>5, <1>9
    <3> QED BY <1>5, <1>6, <1>9, <2>1, <3>1 DEF MatchingInv, ExpandedInv
  <2>3. TypeOK'
    BY <1>1, <1>3, <2>1, <2>2 DEF TypeOK, world
  <2>4. \A d \in Pool("default") \ (declined' \cup {candidate'}) :
           score[candidate'] <= score[d] /\ (score[candidate'] = score[d] => candidate' < d)
    BY <1>1, <1>5, <1>6, <1>9, <2>1, <2>2, BestProposal
  <2>5. ProposalIsBest'
    BY <1>2, <1>3, <1>5, <1>9, <2>1, <2>2, <2>4 DEF ProposalIsBest, world
  <2>6. AskedInv'
    BY <1>2, <1>3, <1>5, <1>9, <2>1, <2>2 DEF AskedInv, list
  <2> QED BY <1>7, <2>1, <2>3, <2>5, <2>6 DEF MatchingInv, GivesUpWhenExhausted
<1> QED BY <1>8, <1>9

\* A search, the next candidate after a decline, and a search that OSRM fails
\* keep the invariant.
LEMMA MatchingStep == MatchingInv /\ [Next]_vars => MatchingInv'
<1> SUFFICES ASSUME MatchingInv, [Next]_vars PROVE MatchingInv'
  OBVIOUS
<1>1. CASE FirstSearch
  <2>1. declined = {} /\ ~ expanded /\ expanded' = FALSE
    BY <1>1 DEF FirstSearch, MatchingInv
  <2> QED BY <1>1, <2>1, SearchProposes DEF FirstSearch
<1>2. CASE WiderSearch
  <2>1. declined = {} /\ expanded'
    BY <1>2 DEF WiderSearch, MatchingInv
  <2>2. Candidates(FindMatches("default"), "default") /\ FindMatches("default") = <<>>
    BY <1>2, FindMatchesFacts DEF WiderSearch, MatchingInv
  <2>3. Pool("default") = {}
    <3> DEFINE list == FindMatches("default")
    <3> HIDE DEF list
    <3>1. Len(list) = 0 /\ ~ \E i \in 1 .. Len(list) : TRUE
      BY <2>2 DEF list
    <3> QED BY <2>2, <3>1, MatchingAssumption DEF Candidates, list
  <2> QED BY <1>2, <2>1, <2>3, SearchProposes DEF WiderSearch
<1>3. CASE NextCandidate
  BY <1>3, NextProposes
<1>4. CASE SearchFails
  <2>1. Pool("default")' = Pool("default")
    BY <1>4, SameWorld DEF SearchFails
  <2>2. TypeOK'
    BY <1>4 DEF SearchFails, MatchingInv, TypeOK, world
  <2> QED BY <1>4, <2>1, <2>2 DEF SearchFails, MatchingInv, AskedInv, ExpandedInv,
             ProposalIsBest, GivesUpWhenExhausted
<1>5. CASE UNCHANGED vars
  <2>1. /\ \A r : Pool(r)' = Pool(r) /\ FindMatches(r)' = FindMatches(r)
        /\ UNCHANGED <<world, declined, expanded, candidate, phase>>
    BY <1>5, SameWorld DEF vars
  <2>2. TypeOK'
    BY <2>1 DEF MatchingInv, TypeOK, world
  <2>3. AskedInv' /\ ExpandedInv'
    BY <2>1 DEF MatchingInv, AskedInv, ExpandedInv
  <2>4. ProposalIsBest'
    BY <2>1 DEF MatchingInv, ProposalIsBest, world
  <2>5. GivesUpWhenExhausted'
    BY <2>1 DEF MatchingInv, GivesUpWhenExhausted
  <2> QED BY <2>1, <2>2, <2>3, <2>4, <2>5 DEF MatchingInv
<1> QED BY <1>1, <1>2, <1>3, <1>4, <1>5 DEF Next

\* The invariant holds in every reachable state.
LEMMA MatchingInvariance == Spec => []MatchingInv
  BY MatchingStart, MatchingStep, PTL DEF Spec

\* Every reachable state is type correct; in particular the head of the list
\* that is proposed (matching.service.ts:106-109, :143) is a driver.
THEOREM MatchingTypeCorrect == Spec => []TypeOK
  BY MatchingInvariance, PTL DEF MatchingInv

\* Whoever is proposed is within the radius of the search, online, approved and
\* not among those that declined, and nobody else of whom that is true scores
\* lower, or scores the same and is nearer: counting, filtering, sorting and
\* slicing (matching.service.ts:74-109, :171, :233-236) lose nobody better.
THEOREM ProposalsAreBest == Spec => []ProposalIsBest
  BY MatchingInvariance, PTL DEF MatchingInv

\* The search gives up only when all within the radius that could be asked have
\* declined, or as many as one list holds; or, once it was widened, because the
\* default radius, where the next is sought, has nobody
\* (matching.service.ts:115-144).
THEOREM SearchesExhaust == Spec => []GivesUpWhenExhausted
  BY MatchingInvariance, PTL DEF MatchingInv
=============================================================================
