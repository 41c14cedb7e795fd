-------------------------- MODULE OverviewPages_proofs --------------------------
(* Theorems about OverviewPages and the views it shows, for any employees,       *)
(* events, frames, signals and scores, and any number of changes and failures    *)
(* while a page is loaded: the dashboard's list, queue and figures agree as far  *)
(* as their requests allow, the worst is shown first, and what is said of a      *)
(* frame hangs together.                                                         *)
(*                                                                               *)
(* The inductive invariant says of the answers which snapshots they are: one of  *)
(* an earlier or the present state of the backend each, those of a later stage   *)
(* not older than those it waited for.  The rest is about the views: a sort is a *)
(* rearrangement by keys, a filter keeps the order, and both are one for one.    *)
EXTENDS OverviewPages, TLAPS, FiniteSetTheorems, FunctionTheorems, SequenceTheorems

-----------------------------------------------------------------------------
(* Lists: what Arranged, Sorted, Kept and Total return.  A list is arranged by
   sets: ahead[i] holds the places whose elements come before that of i. *)

Ranked(kept, ahead) ==
  /\ IsFiniteSet(kept)
  /\ \A i \in kept : ahead[i] \subseteq kept \ {i}
  /\ \A i, k \in kept : k \in ahead[i] => ahead[k] \subseteq ahead[i]
  /\ \A i, k \in kept : i = k \/ i \in ahead[k] \/ k \in ahead[i]

\* The first N elements that at points at.
Listed(s, at, N) == [n \in 1 .. N |-> s[at[n]]]

\* at goes through the places that are kept, in order.
Arranging(at, kept, ahead) ==
  /\ at \in [1 .. Cardinality(kept) -> kept]
  /\ \A i \in kept : \E n \in 1 .. Cardinality(kept) : at[n] = i
  /\ \A m, n \in 1 .. Cardinality(kept) : at[m] = at[n] => m = n
  /\ \A m, n \in 1 .. Cardinality(kept) : m < n => at[m] \in ahead[at[n]]

\* What is ahead has fewer elements ahead of it.
LEMMA FewerAhead ==
  ASSUME NEW kept, NEW ahead, Ranked(kept, ahead)
  PROVE  /\ Cardinality(kept) \in Nat
         /\ \A i \in kept : Cardinality(ahead[i]) \in 0 .. Cardinality(kept) - 1
         /\ \A i, k \in kept : k \in ahead[i] => Cardinality(ahead[k]) < Cardinality(ahead[i])
<1>1. IsFiniteSet(kept) /\ Cardinality(kept) \in Nat
  BY FS_CardinalityType DEF Ranked
<1>2. ASSUME NEW i \in kept
      PROVE  IsFiniteSet(ahead[i]) /\ Cardinality(ahead[i]) \in 0 .. Cardinality(kept) - 1
  <2>1. IsFiniteSet(kept \ {i}) /\ Cardinality(kept \ {i}) = Cardinality(kept) - 1
    BY <1>1, FS_RemoveElement
  <2>2. ahead[i] \subseteq kept \ {i}
    BY DEF Ranked
  <2>3. IsFiniteSet(ahead[i]) /\ Cardinality(ahead[i]) <= Cardinality(kept \ {i})
    BY <2>1, <2>2, FS_Subset
  <2>4. Cardinality(ahead[i]) \in Nat
    BY <2>3, FS_CardinalityType
  <2> QED
    BY <1>1, <2>1, <2>3, <2>4
<1>3. ASSUME NEW i \in kept, NEW k \in kept, k \in ahead[i]
      PROVE  Cardinality(ahead[k]) < Cardinality(ahead[i])
  <2>1. ahead[k] \subseteq ahead[i] \ {k}
    BY <1>3 DEF Ranked
  <2>2. IsFiniteSet(ahead[i] \ {k}) /\ Cardinality(ahead[i] \ {k}) = Cardinality(ahead[i]) - 1
    BY <1>2, <1>3, FS_RemoveElement
  <2>3. Cardinality(ahead[k]) <= Cardinality(ahead[i] \ {k})
    BY <2>1, <2>2, FS_Subset
  <2>4. Cardinality(ahead[k]) \in Nat /\ Cardinality(ahead[i]) \in Nat
    BY <1>1, <1>2
  <2> QED
    BY <2>2, <2>3, <2>4
<1> QED
  BY <1>1, <1>2, <1>3

\* For each place of the list there is an element.
LEMMA PlacesFilled ==
  ASSUME NEW kept, NEW ahead, Ranked(kept, ahead), NEW n \in 1 .. Cardinality(kept)
  PROVE  \E i \in kept : Cardinality(ahead[i]) = n - 1
<1> DEFINE last == Cardinality(kept) - 1
           rank == [i \in kept |-> Cardinality(ahead[i])]
<1>1. Cardinality(kept) \in Nat /\ \A i \in kept : Cardinality(ahead[i]) \in 0 .. last
  BY FewerAhead
<1>2. \A i, k \in kept : i # k => Cardinality(ahead[i]) # Cardinality(ahead[k])
  <2> SUFFICES ASSUME NEW i \in kept, NEW k \in kept, i # k
               PROVE  Cardinality(ahead[i]) # Cardinality(ahead[k])
    OBVIOUS
  <2>1. Cardinality(ahead[k]) < Cardinality(ahead[i]) \/ Cardinality(ahead[i]) < Cardinality(ahead[k])
    <3>1. i \in ahead[k] \/ k \in ahead[i]
      BY DEF Ranked
    <3> QED
      BY <3>1, FewerAhead
  <2>2. Cardinality(ahead[k]) \in Nat /\ Cardinality(ahead[i]) \in Nat
    BY <1>1
  <2> QED
    BY <2>1, <2>2
<1>3. rank \in Injection(kept, 0 .. last)
  <2>1. rank \in [kept -> 0 .. last]
    BY <1>1
  <2>2. \A i, k \in kept : rank[i] = rank[k] => i = k
    BY <1>2
  <2> QED
    BY <2>1, <2>2, Fun_IsInj
<1>4. IsFiniteSet(0 .. last) /\ Cardinality(0 .. last) = Cardinality(kept)
  <2>1. 0 \in Int /\ last \in Int
    BY <1>1
  <2>2. IsFiniteSet(0 .. last) /\ Cardinality(0 .. last) = IF 0 > last THEN 0 ELSE last - 0 + 1
    BY <2>1, FS_Interval
  <2> QED
    BY <1>1, <2>2
<1>5. rank \in Surjection(kept, 0 .. last)
  BY <1>3, <1>4, FS_Injection
<1>6. n - 1 \in 0 .. last
  BY <1>1
<1>7. \E i \in kept : rank[i] = n - 1
  <2> HIDE DEF rank, last
  <2>1. \A t \in 0 .. last : \E i \in kept : rank[i] = t
    BY <1>5, Fun_SurjectionProperties
  <2> QED
    BY <1>6, <2>1
<1> QED
  BY <1>7

\* An arranged list holds what is kept, each element once and in order.
LEMMA ArrangedBy ==
  ASSUME NEW s, NEW kept, NEW ahead, Ranked(kept, ahead)
  PROVE  \E at : /\ Arranging(at, kept, ahead)
                 /\ Arranged(s, kept, ahead) = Listed(s, at, Cardinality(kept))
<1> DEFINE N == Cardinality(kept)
           at == [n \in 1 .. N |-> CHOOSE i \in kept : Cardinality(ahead[i]) = n - 1]
<1>1. \A n \in 1 .. N : at[n] \in kept /\ Cardinality(ahead[at[n]]) = n - 1
  BY PlacesFilled
<1>2. N \in Nat /\ \A i \in kept : Cardinality(ahead[i]) \in 0 .. N - 1
  BY FewerAhead
<1>3. \A i, k \in kept : Cardinality(ahead[i]) = Cardinality(ahead[k]) => i = k
  <2> SUFFICES ASSUME NEW i \in kept, NEW k \in kept, i # k
               PROVE  Cardinality(ahead[i]) # Cardinality(ahead[k])
    OBVIOUS
  <2>1. i \in ahead[k] \/ k \in ahead[i]
    BY DEF Ranked
  <2>2. Cardinality(ahead[k]) < Cardinality(ahead[i]) \/ Cardinality(ahead[i]) < Cardinality(ahead[k])
    BY <2>1, FewerAhead
  <2> QED
    BY <1>2, <2>2
<1>4. at \in [1 .. N -> kept]
  BY <1>1
<1>5. ASSUME NEW i \in kept PROVE \E n \in 1 .. N : at[n] = i
  <2>1. Cardinality(ahead[i]) + 1 \in 1 .. N
    BY <1>2
  <2>2. Cardinality(ahead[at[Cardinality(ahead[i]) + 1]]) = Cardinality(ahead[i])
    <3> DEFINE c == Cardinality(ahead[i])
    <3>1. c \in Int /\ Cardinality(ahead[at[c + 1]]) = (c + 1) - 1
      BY <1>1, <1>2, <2>1
    <3> HIDE DEF c
    <3>2. Cardinality(ahead[at[c + 1]]) = c
      BY <3>1
    <3> QED
      BY <3>2 DEF c
  <2>3. at[Cardinality(ahead[i]) + 1] = i
    <3> HIDE DEF at
    <3> QED
      BY <1>1, <1>3, <2>1, <2>2
  <2> QED
    BY <2>1, <2>3
<1>6. \A m, n \in 1 .. N : at[m] = at[n] => m = n
  <2> HIDE DEF at
  <2>1. \A m, n \in 1 .. N : at[m] = at[n] => m - 1 = n - 1
    BY <1>1
  <2> QED
    BY <2>1
<1>7. ASSUME NEW m \in 1 .. N, NEW n \in 1 .. N, m < n PROVE at[m] \in ahead[at[n]]
  <2> DEFINE i == at[m]
             k == at[n]
  <2>1. i \in kept /\ k \in kept /\ Cardinality(ahead[i]) = m - 1 /\ Cardinality(ahead[k]) = n - 1
    BY <1>1
  <2> HIDE DEF i, k
  <2>2. i # k
    BY <2>1, <1>7
  <2>3. k \notin ahead[i]
    <3>1. k \in ahead[i] => Cardinality(ahead[k]) < Cardinality(ahead[i])
      BY <2>1, FewerAhead
    <3>2. ~ (n - 1 < m - 1)
      BY <1>7
    <3> QED
      BY <2>1, <3>1, <3>2
  <2>4. i \in ahead[k]
    BY <2>1, <2>2, <2>3 DEF Ranked
  <2> QED
    BY <2>4 DEF i, k
<1>8. Arranged(s, kept, ahead) = Listed(s, at, N)
  BY DEF Arranged, Listed
<1>9. Arranging(at, kept, ahead)
  <2> HIDE DEF at
  <2> QED
    BY <1>4, <1>5, <1>6, <1>7 DEF Arranging
<1> QED
  BY <1>8, <1>9

\* A rearrangement neither loses nor repeats places.
LEMMA CountThrough ==
  ASSUME NEW N \in Nat, NEW kept, IsFiniteSet(kept), NEW at \in [1 .. N -> kept],
         \A i \in kept : \E n \in 1 .. N : at[n] = i,
         \A m, n \in 1 .. N : at[m] = at[n] => m = n,
         NEW P \in SUBSET kept
  PROVE  Cardinality({n \in 1 .. N : at[n] \in P}) = Cardinality(P)
<1> DEFINE Q == {n \in 1 .. N : at[n] \in P}
           f == [n \in Q |-> at[n]]
<1>1. f \in Injection(Q, P)
  <2>1. f \in [Q -> P]
    OBVIOUS
  <2>2. \A m, n \in Q : f[m] = f[n] => m = n
    OBVIOUS
  <2> QED
    BY <2>1, <2>2, Fun_IsInj
<1>2. f \in Surjection(Q, P)
  <2>1. \A i \in P : \E n \in Q : f[n] = i
    OBVIOUS
  <2>2. f \in [Q -> P]
    OBVIOUS
  <2> QED
    BY <2>1, <2>2, Fun_IsSurj
<1>3. IsFiniteSet(P)
  BY FS_Subset
<1> QED
  BY <1>1, <1>2, <1>3, FS_Injection

\* The element at i comes before that at k by three keys, the highest first.
Higher(p, q, r, i, k) ==
  \/ p[i] > p[k]
  \/ p[i] = p[k] /\ q[i] > q[k]
  \/ p[i] = p[k] /\ q[i] = q[k] /\ r[i] > r[k]

\* at lists the places 1 .. n by those keys.
OrderedBy(at, n, p, q, r) ==
  /\ at \in [1 .. n -> 1 .. n]
  /\ \A i \in 1 .. n : \E m \in 1 .. n : at[m] = i
  /\ \A l, m \in 1 .. n : at[l] = at[m] => l = m
  /\ \A l, m \in 1 .. n : l < m => ~ Higher(p, q, r, at[m], at[l])

\* ahead holds the sets of a stable sort by those keys.
AheadByKeys(ahead, n, p, q, r) ==
  \A i \in 1 .. n :
    /\ ahead[i] \subseteq 1 .. n
    /\ \A k \in 1 .. n : k \in ahead[i] <=> Higher(p, q, r, k, i) \/ (~ Higher(p, q, r, i, k) /\ k < i)

LEMMA KeysRank ==
  ASSUME NEW n \in Nat, NEW p \in [1 .. n -> Int], NEW q \in [1 .. n -> Int], NEW r \in [1 .. n -> Int],
         NEW ahead, AheadByKeys(ahead, n, p, q, r)
  PROVE  Ranked(1 .. n, ahead)
<1> DEFINE first(k, i) == Higher(p, q, r, k, i) \/ (~ Higher(p, q, r, i, k) /\ k < i)
<1>1. \A i \in 1 .. n : ~ first(i, i)
  BY DEF Higher
<1>2. \A i, k \in 1 .. n : i = k \/ first(i, k) \/ first(k, i)
  BY DEF Higher
<1>3. \A i, k, l \in 1 .. n : first(l, k) /\ first(k, i) => first(l, i)
  <2> SUFFICES ASSUME NEW i \in 1 .. n, NEW k \in 1 .. n, NEW l \in 1 .. n, first(l, k), first(k, i)
               PROVE  first(l, i)
    OBVIOUS
  <2>1. /\ p[i] \in Int /\ p[k] \in Int /\ p[l] \in Int
        /\ q[i] \in Int /\ q[k] \in Int /\ q[l] \in Int
        /\ r[i] \in Int /\ r[k] \in Int /\ r[l] \in Int
    OBVIOUS
  <2> QED
    BY <2>1, SMTT(30) DEF Higher
<1>4. IsFiniteSet(1 .. n)
  BY FS_Interval
<1>5. \A i \in 1 .. n : ahead[i] \subseteq 1 .. n /\ \A k \in 1 .. n : k \in ahead[i] <=> first(k, i)
  BY DEF AheadByKeys
<1> HIDE DEF first
<1>6. \A i \in 1 .. n : ahead[i] \subseteq (1 .. n) \ {i}
  BY <1>1, <1>5
<1>7. \A i, k \in 1 .. n : k \in ahead[i] => ahead[k] \subseteq ahead[i]
  BY <1>3, <1>5
<1>8. \A i, k \in 1 .. n : i = k \/ i \in ahead[k] \/ k \in ahead[i]
  BY <1>2, <1>5
<1> QED
  BY <1>4, <1>6, <1>7, <1>8, Zenon DEF Ranked

\* L is s in the order of the keys.
InOrder(L, s, n, p, q, r) == \E at : OrderedBy(at, n, p, q, r) /\ L = Listed(s, at, n)

\* A stable sort by keys lists each element once, and none behind a lower one.
LEMMA SortedByKeys ==
  ASSUME NEW s, NEW n \in Nat, DOMAIN s = 1 .. n,
         NEW p \in [1 .. n -> Int], NEW q \in [1 .. n -> Int], NEW r \in [1 .. n -> Int],
         NEW ahead, AheadByKeys(ahead, n, p, q, r)
  PROVE  InOrder(Arranged(s, DOMAIN s, ahead), s, n, p, q, r)
<1>1. Ranked(1 .. n, ahead)
  BY KeysRank
<1>2. PICK at : /\ Arranging(at, 1 .. n, ahead)
                /\ Arranged(s, 1 .. n, ahead) = Listed(s, at, Cardinality(1 .. n))
  BY <1>1, ArrangedBy, Zenon
<1>3. Cardinality(1 .. n) = n
  BY FS_Interval
<1>4. ASSUME NEW l \in 1 .. n, NEW m \in 1 .. n, l < m PROVE ~ Higher(p, q, r, at[m], at[l])
  <2>1. at[l] \in 1 .. n /\ at[m] \in 1 .. n /\ at[l] \in ahead[at[m]]
    BY <1>2, <1>3, <1>4 DEF Arranging
  <2> DEFINE i == at[l]
             k == at[m]
  <2>2. i \in 1 .. n /\ k \in 1 .. n /\ i \in ahead[k]
    BY <2>1
  <2> HIDE DEF i, k
  <2>3. Higher(p, q, r, i, k) \/ ~ Higher(p, q, r, k, i)
    BY <2>2 DEF AheadByKeys
  <2>4. /\ p[i] \in Int /\ p[k] \in Int /\ q[i] \in Int
        /\ q[k] \in Int /\ r[i] \in Int /\ r[k] \in Int
    BY <2>2
  <2>5. ~ Higher(p, q, r, k, i)
    BY <2>3, <2>4 DEF Higher
  <2> QED
    BY <2>5 DEF i, k
<1>5. OrderedBy(at, n, p, q, r)
  BY <1>2, <1>3, <1>4 DEF OrderedBy, Arranging
<1>6. Arranged(s, DOMAIN s, ahead) = Listed(s, at, n)
  BY <1>2, <1>3
<1> QED
  BY <1>5, <1>6 DEF InOrder

\* L holds the elements of s at the places that are kept, in their order.
InPlace(L, s, kept) ==
  /\ Cardinality(kept) \in Nat
  /\ \E at \in [1 .. Cardinality(kept) -> kept] :
       /\ \A i \in kept : \E m \in 1 .. Cardinality(kept) : at[m] = i
       /\ \A l, m \in 1 .. Cardinality(kept) : l < m => at[l] < at[m]
       /\ L = Listed(s, at, Cardinality(kept))

\* A filter keeps the order of the places.
LEMMA KeptBy ==
  ASSUME NEW s, NEW n \in Nat, NEW kept \in SUBSET (1 .. n),
         NEW ahead, ahead = [i \in kept |-> {k \in kept : k < i}]
  PROVE  IsFiniteSet(kept) /\ InPlace(Arranged(s, kept, ahead), s, kept)
<1>1. IsFiniteSet(kept)
  <2>1. IsFiniteSet(1 .. n)
    BY FS_Interval
  <2> QED
    BY <2>1, FS_Subset
<1>2. Ranked(kept, ahead)
  <2>1. \A i \in kept : ahead[i] = {k \in kept : k < i}
    OBVIOUS
  <2>2. \A i \in kept : i \in Int
    OBVIOUS
  <2>3. \A i \in kept : ahead[i] \subseteq kept \ {i}
    BY <2>1, <2>2
  <2>4. ASSUME NEW i \in kept, NEW k \in kept, k \in ahead[i] PROVE ahead[k] \subseteq ahead[i]
    <3>1. k < i /\ i \in Int /\ k \in Int
      BY <2>1, <2>2, <2>4
    <3>2. \A l \in kept : l < k => l < i
      BY <2>2, <3>1
    <3>3. ahead[k] = {l \in kept : l < k} /\ ahead[i] = {l \in kept : l < i}
      BY <2>1
    <3> QED
      BY <3>2, <3>3
  <2>5. \A i, k \in kept : i = k \/ i \in ahead[k] \/ k \in ahead[i]
    BY <2>1, <2>2
  <2> QED
    BY <1>1, <2>3, <2>4, <2>5, Zenon DEF Ranked
<1>3. PICK at : /\ Arranging(at, kept, ahead)
                /\ Arranged(s, kept, ahead) = Listed(s, at, Cardinality(kept))
  BY <1>2, ArrangedBy, Zenon
<1>4. Cardinality(kept) \in Nat
  BY <1>1, FS_CardinalityType
<1>5. ASSUME NEW l \in 1 .. Cardinality(kept), NEW m \in 1 .. Cardinality(kept), l < m
      PROVE  at[l] < at[m]
  <2>1. at[m] \in kept /\ at[l] \in ahead[at[m]]
    BY <1>3, <1>5 DEF Arranging
  <2> QED
    BY <2>1
<1> QED
  BY <1>1, <1>3, <1>4, <1>5 DEF Arranging, InPlace

LEMMA KeptIsList ==
  ASSUME NEW S, NEW s \in Seq(S), NEW kept \in SUBSET DOMAIN s,
         NEW ahead, ahead = [i \in kept |-> {k \in kept : k < i}]
  PROVE  Arranged(s, kept, ahead) \in Seq(S)
<1> DEFINE L == Arranged(s, kept, ahead)
<1>1. Len(s) \in Nat /\ kept \in SUBSET (1 .. Len(s)) /\ \A i \in 1 .. Len(s) : s[i] \in S
  BY LenProperties, ElementOfSeq
<1>2. InPlace(L, s, kept)
  BY <1>1, KeptBy
<1> HIDE DEF L
<1>3. PICK at \in [1 .. Cardinality(kept) -> kept] : L = Listed(s, at, Cardinality(kept))
  BY <1>2 DEF InPlace
<1>4. L \in [1 .. Cardinality(kept) -> S]
  BY <1>1, <1>3 DEF Listed
<1>5. Cardinality(kept) \in Nat
  BY <1>2 DEF InPlace
<1>6. L \in Seq(S)
  BY <1>4, <1>5, SeqDef
<1> QED
  BY <1>6 DEF L

\* The elements of a reversed list.
LEMMA Reversed ==
  ASSUME NEW S, NEW s \in Seq(S)
  PROVE  /\ Reverse(s) \in Seq(S) /\ Len(Reverse(s)) = Len(s)
         /\ \A i \in 1 .. Len(s) : Reverse(s)[i] = s[Len(s) + 1 - i]
<1>1. Len(s) \in Nat /\ DOMAIN s = 1 .. Len(s)
  BY LenProperties
<1>2. \A i \in 1 .. Len(s) : Len(s) + 1 - i \in 1 .. Len(s)
  BY <1>1
<1>3. Reverse(s) = [i \in 1 .. Len(s) |-> s[Len(s) + 1 - i]]
  BY <1>1, <1>2 DEF Reverse
<1>4. Reverse(s) \in [1 .. Len(s) -> S]
  BY <1>2, <1>3, ElementOfSeq
<1> QED
  BY <1>1, <1>3, <1>4, SeqDef

\* One for one.
LEMMA AsMany ==
  ASSUME NEW A, NEW B, IsFiniteSet(B), NEW f \in [A -> B],
         \A x, y \in A : f[x] = f[y] => x = y, \A z \in B : \E x \in A : f[x] = z
  PROVE  IsFiniteSet(A) /\ Cardinality(A) = Cardinality(B)
<1>1. f \in Injection(A, B)
  BY Fun_IsInj
<1>2. f \in Surjection(A, B)
  BY Fun_IsSurj
<1> QED
  BY <1>1, <1>2, FS_Injection

\* At most as many.
LEMMA AtMostAsMany ==
  ASSUME NEW A, NEW B, IsFiniteSet(B), NEW f \in [A -> B], \A x, y \in A : f[x] = f[y] => x = y
  PROVE  /\ IsFiniteSet(A) /\ Cardinality(A) <= Cardinality(B)
         /\ Cardinality(A) \in Nat /\ Cardinality(B) \in Nat
<1>1. f \in Injection(A, B)
  BY Fun_IsInj
<1>2. IsFiniteSet(A) /\ Cardinality(A) <= Cardinality(B)
  BY <1>1, FS_Injection
<1> QED
  BY <1>2, FS_CardinalityType

\* Among places there is one with the highest keys.
Highest(i, S, p, q) == i \in S /\ \A k \in S : p[k] < p[i] \/ (p[k] = p[i] /\ q[k] <= q[i])

LEMMA OneIsHighest ==
  ASSUME NEW n \in Nat, NEW S \in SUBSET (1 .. n), S # {}, NEW p \in [1 .. n -> Int], NEW q \in [1 .. n -> Int]
  PROVE  \E i : Highest(i, S, p, q)
<1> DEFINE in == [i \in 1 .. n |-> IF i \in S THEN 1 ELSE 0]
           ahead == [i \in 1 .. n |-> {k \in 1 .. n : Higher(in, p, q, k, i) \/ (~ Higher(in, p, q, i, k) /\ k < i)}]
           places == [i \in 1 .. n |-> i]
<1>1. in \in [1 .. n -> Int] /\ DOMAIN places = 1 .. n
  OBVIOUS
<1>2. \A i \in 1 .. n : in[i] = IF i \in S THEN 1 ELSE 0
  OBVIOUS
<1>3. PICK at : OrderedBy(at, n, in, p, q)
  <2> HIDE DEF in, places
  <2>1. AheadByKeys(ahead, n, in, p, q)
    BY DEF AheadByKeys
  <2> HIDE DEF ahead
  <2>2. InOrder(Arranged(places, DOMAIN places, ahead), places, n, in, p, q)
    BY <1>1, <2>1, SortedByKeys
  <2> QED
    BY <2>2 DEF InOrder
<1> HIDE DEF in
<1> DEFINE i == at[1]
<1>4. 1 \in 1 .. n /\ i \in 1 .. n
  <2>1. PICK k \in S : k \in 1 .. n
    OBVIOUS
  <2>2. 1 \in 1 .. n
    BY <2>1
  <2> QED
    BY <1>3, <2>2 DEF OrderedBy
<1>5. ASSUME NEW k \in 1 .. n PROVE ~ Higher(in, p, q, k, i)
  <2>1. PICK m \in 1 .. n : at[m] = k
    BY <1>3 DEF OrderedBy
  <2>2. CASE m = 1
    BY <1>1, <1>4, <2>1, <2>2 DEF Higher
  <2>3. CASE m # 1
    <3>1. 1 < m
      BY <2>3
    <3> QED
      BY <1>3, <1>4, <2>1, <3>1 DEF OrderedBy
  <2> QED
    BY <2>2, <2>3
<1> HIDE DEF i
<1>6. i \in S
  <2>1. PICK k \in S : TRUE
    OBVIOUS
  <2>2. k \in 1 .. n /\ in[k] = 1 /\ in[i] \in {0, 1}
    BY <1>2, <1>4
  <2> QED
    BY <1>2, <1>4, <1>5, <2>2 DEF Higher
<1>7. ASSUME NEW k \in S PROVE p[k] < p[i] \/ (p[k] = p[i] /\ q[k] <= q[i])
  <2>1. k \in 1 .. n /\ in[k] = in[i]
    BY <1>2, <1>4, <1>6
  <2>2. p[k] \in Int /\ p[i] \in Int /\ q[k] \in Int /\ q[i] \in Int
    BY <1>4, <2>1
  <2> QED
    BY <1>5, <2>1, <2>2 DEF Higher
<1> QED
  BY <1>6, <1>7 DEF Highest

\* There is one way to go through the places that are kept.
LEMMA OneOrder ==
  ASSUME NEW s, NEW n \in Nat, NEW kept \in SUBSET (1 .. n),
         NEW ahead, ahead = [i \in kept |-> {k \in kept : k < i}],
         NEW c \in Nat, NEW at \in [1 .. c -> kept],
         \A i \in kept : \E m \in 1 .. c : at[m] = i,
         \A l, m \in 1 .. c : l < m => at[l] < at[m]
  PROVE  Arranged(s, kept, ahead) = Listed(s, at, c)
<1>1. IsFiniteSet(1 .. n) /\ IsFiniteSet(1 .. c) /\ Cardinality(1 .. c) = c
  BY FS_Interval
<1>2. IsFiniteSet(kept)
  BY <1>1, FS_Subset
<1>3. \A m \in 1 .. c : at[m] \in Int
  <2>1. kept \subseteq Int
    OBVIOUS
  <2> QED
    BY <2>1
<1>4. \A l, m \in 1 .. c : at[l] = at[m] => l = m
  <2> SUFFICES ASSUME NEW l \in 1 .. c, NEW m \in 1 .. c, l # m PROVE at[l] # at[m]
    OBVIOUS
  <2>1. at[l] \in Int /\ at[m] \in Int
    BY <1>3
  <2>2. l < m \/ m < l
    OBVIOUS
  <2>3. at[l] < at[m] \/ at[m] < at[l]
    BY <2>2
  <2> QED
    BY <2>1, <2>3
<1>5. Cardinality(kept) = c
  BY <1>1, <1>2, <1>4, AsMany
<1>6. ASSUME NEW m \in 1 .. c PROVE Cardinality(ahead[at[m]]) = m - 1
  <2> DEFINE before == 1 .. m - 1
             rest == [l \in before |-> at[l]]
             those == ahead[at[m]]
  <2>1. those = {k \in kept : k < at[m]}
    OBVIOUS
  <2>2. IsFiniteSet(those)
    BY <1>2, <2>1, FS_Subset
  <2>3. rest \in [before -> those]
    BY <2>1
  <2>4. \A k, l \in before : rest[k] = rest[l] => k = l
    BY <1>4
  <2>5. ASSUME NEW z \in those PROVE \E l \in before : rest[l] = z
    <3>1. z \in kept /\ z < at[m]
      BY <2>1
    <3>2. PICK l \in 1 .. c : at[l] = z
      BY <3>1
    <3>3. at[l] \in Int /\ at[m] \in Int
      BY <1>3
    <3>4. l < m
      BY <3>1, <3>2, <3>3
    <3> QED
      BY <3>2, <3>4
  <2>6. Cardinality(before) = m - 1
    <3>1. 1 \in Int /\ m - 1 \in Int
      OBVIOUS
    <3>2. Cardinality(1 .. m - 1) = IF 1 > m - 1 THEN 0 ELSE (m - 1) - 1 + 1
      BY <3>1, FS_Interval
    <3> QED
      BY <3>2
  <2> HIDE DEF before, rest, those
  <2>7. Cardinality(before) = Cardinality(those)
    BY <2>2, <2>3, <2>4, <2>5, AsMany
  <2> QED
    BY <2>6, <2>7 DEF those
<1>7. ASSUME NEW m \in 1 .. c PROVE (CHOOSE i \in kept : Cardinality(ahead[i]) = m - 1) = at[m]
  <2>1. ASSUME NEW i \in kept, Cardinality(ahead[i]) = m - 1 PROVE i = at[m]
    <3>1. PICK l \in 1 .. c : at[l] = i
      OBVIOUS
    <3>2. l - 1 = m - 1
      BY <1>6, <2>1, <3>1
    <3> QED
      BY <3>1, <3>2
  <2>2. at[m] \in kept
    OBVIOUS
  <2> QED
    BY <1>6, <2>1, <2>2
<1>8. Arranged(s, kept, ahead) = [m \in 1 .. c |-> s[CHOOSE i \in kept : Cardinality(ahead[i]) = m - 1]]
  BY <1>5 DEF Arranged
<1>9. \A m \in 1 .. c : s[CHOOSE i \in kept : Cardinality(ahead[i]) = m - 1] = s[at[m]]
  BY <1>7
<1> QED
  BY <1>8, <1>9 DEF Listed

-----------------------------------------------------------------------------
(* Words and their weights *)

Sev == DOMAIN Weight
Statuses == {"open"} \cup ReviewActions

LEMMA SevIs == Sev = {"low", "medium", "high", "critical"}
BY DEF Sev, Weight

\* The backend and the console weigh severities differently, in the same order
\* and far enough apart for the statuses.
LEMMA WeightsAgree ==
  /\ \A x \in Sev : Weight[x] \in Nat /\ SeverityWeight[x] \in Nat
  /\ \A x, y \in Sev : Weight[x] = Weight[y] => x = y
  /\ \A x, y \in Sev : SeverityWeight[x] < SeverityWeight[y] => SeverityWeight[x] + 10 <= SeverityWeight[y]
<1>1. Weight["low"] = 8 /\ Weight["medium"] = 18 /\ Weight["high"] = 30 /\ Weight["critical"] = 42
  BY DEF Weight
<1>2. /\ SeverityWeight["low"] = 10 /\ SeverityWeight["medium"] = 20
      /\ SeverityWeight["high"] = 30 /\ SeverityWeight["critical"] = 40
  BY DEF SeverityWeight
<1> QED
  BY <1>1, <1>2, SevIs

LEMMA PercentIs == \A x \in Statuses : Percent(x) \in Nat
BY DEF Percent, Statuses

LEMMA DevicePointsAre ==
  DOMAIN DevicePoints = {"online", "stale", "aged", "offline"} /\ \A x \in DOMAIN DevicePoints : DevicePoints[x] \in Nat
<1>1. DOMAIN DevicePoints = {"online", "stale", "aged", "offline"}
  BY DEF DevicePoints
<1>2. DevicePoints["online"] = 0 /\ DevicePoints["stale"] = 8 /\ DevicePoints["aged"] = 16 /\ DevicePoints["offline"] = 18
  BY DEF DevicePoints
<1> QED
  BY <1>1, <1>2

\* The statuses in the vocabularies of the list and of the queue.
LEMMA StatusesMap ==
  /\ EventStatus("open") = "reviewing"
  /\ \A x \in ReviewActions : EventStatus(x) = x /\ QueueStatus(x) = x /\ x # "open"
  /\ QueueStatus("open") = "new"
  /\ Statuses \cap Reviewable = {"open", "reviewing"}
  /\ Statuses \cap Settled = {}
BY DEF EventStatus, QueueStatus, ReviewActions, Statuses, Reviewable, Settled

LEMMA GradesAre ==
  /\ Grade("none") = 1 /\ Grade("low") = 2 /\ Grade("medium") = 3 /\ Grade("high") = 4 /\ Grade("critical") = 5
<1>1. DOMAIN Severities = 1 .. 5
  BY DEF Severities
<1>2. /\ Severities[1] = "none" /\ Severities[2] = "low" /\ Severities[3] = "medium"
      /\ Severities[4] = "high" /\ Severities[5] = "critical"
  BY DEF Severities
<1>3. 1 .. 5 = {1, 2, 3, 4, 5}
  OBVIOUS
<1>4. ASSUME NEW x, NEW i \in 1 .. 5, Severities[i] = x, \A k \in 1 .. 5 : Severities[k] = x => k = i
      PROVE  Grade(x) = i
  BY <1>1, <1>4 DEF Grade
<1> HIDE DEF Severities
<1>5. Grade("none") = 1
  BY <1>2, <1>3, <1>4
<1>6. Grade("low") = 2
  BY <1>2, <1>3, <1>4
<1>7. Grade("medium") = 3
  BY <1>2, <1>3, <1>4
<1>8. Grade("high") = 4
  BY <1>2, <1>3, <1>4
<1>9. Grade("critical") = 5
  BY <1>2, <1>3, <1>4
<1> QED
  BY <1>5, <1>6, <1>7, <1>8, <1>9

\* The levels are numbers, whatever the score.
LEMMA LevelsAreNumbers == \A score : RiskLevel(score) \in Nat
<1> SUFFICES ASSUME NEW score PROVE RiskLevel(score) \in Nat
  OBVIOUS
<1>1. {1, 30, 60, 80} \subseteq 1 .. 80
  OBVIOUS
<1>2. IsFiniteSet(1 .. 80)
  <2>1. 1 \in Int /\ 80 \in Int
    OBVIOUS
  <2> QED
    BY <2>1, FS_Interval
<1>3. IsFiniteSet({limit \in {1, 30, 60, 80} : score >= limit})
  <2> DEFINE met == {limit \in {1, 30, 60, 80} : score >= limit}
  <2>1. met \in SUBSET (1 .. 80)
    BY <1>1
  <2> HIDE DEF met
  <2>2. IsFiniteSet(met)
    BY <1>2, <2>1, FS_Subset
  <2> QED
    BY <2>2 DEF met
<1> QED
  BY <1>3, FS_CardinalityType DEF RiskLevel

-----------------------------------------------------------------------------
(* Sums *)

Units(f) == UNION {{x} \X (1 .. f[x]) : x \in DOMAIN f}

LEMMA UnitsAre ==
  ASSUME NEW f
  PROVE  \A u : u \in Units(f) <=> \E x \in DOMAIN f : \E k \in 1 .. f[x] : u = <<x, k>>
BY DEF Units

LEMMA TotalIsNat ==
  ASSUME NEW f, IsFiniteSet(DOMAIN f), \A x \in DOMAIN f : f[x] \in Nat
  PROVE  IsFiniteSet(Units(f)) /\ Total(f) = Cardinality(Units(f)) /\ Total(f) \in Nat
<1> DEFINE parts == {{x} \X (1 .. f[x]) : x \in DOMAIN f}
<1>1. IsFiniteSet(parts)
  <2> DEFINE part == [x \in DOMAIN f |-> {x} \X (1 .. f[x])]
  <2>1. part \in Surjection(DOMAIN f, parts)
    <3>1. part \in [DOMAIN f -> parts]
      OBVIOUS
    <3>2. \A t \in parts : \E x \in DOMAIN f : part[x] = t
      OBVIOUS
    <3> QED
      BY <3>1, <3>2, Fun_IsSurj
  <2> HIDE DEF part, parts
  <2> QED
    BY <2>1, FS_Surjection
<1>2. \A t \in parts : IsFiniteSet(t)
  <2> SUFFICES ASSUME NEW x \in DOMAIN f PROVE IsFiniteSet({x} \X (1 .. f[x]))
    OBVIOUS
  <2>1. IsFiniteSet({x})
    BY FS_Singleton
  <2>2. IsFiniteSet(1 .. f[x])
    BY FS_Interval
  <2> QED
    BY <2>1, <2>2, FS_Product
<1>3. IsFiniteSet(UNION parts)
  <2> HIDE DEF parts
  <2> QED
    BY <1>1, <1>2, FS_UNION
<1>4. IsFiniteSet(Units(f)) /\ Total(f) = Cardinality(Units(f))
  BY <1>3 DEF Units, Total
<1> QED
  BY <1>4, FS_CardinalityType

\* A sum over fewer and smaller numbers is smaller: each number of f is at most
\* one of g, and no two at the same.
LEMMA SmallerTotal ==
  ASSUME NEW f, IsFiniteSet(DOMAIN f), \A x \in DOMAIN f : f[x] \in Nat,
         NEW g, IsFiniteSet(DOMAIN g), \A y \in DOMAIN g : g[y] \in Nat,
         NEW to \in [DOMAIN f -> DOMAIN g], \A x, y \in DOMAIN f : to[x] = to[y] => x = y,
         \A x \in DOMAIN f : f[x] <= g[to[x]]
  PROVE  Total(f) <= Total(g)
<1> DEFINE move == [u \in Units(f) |-> <<to[u[1]], u[2]>>]
<1>1. ASSUME NEW u \in Units(f)
      PROVE  u = <<u[1], u[2]>> /\ u[1] \in DOMAIN f /\ u[2] \in 1 .. f[u[1]]
  BY UnitsAre
<1>2. ASSUME NEW u \in Units(f) PROVE move[u] \in Units(g)
  <2>1. to[u[1]] \in DOMAIN g /\ u[2] \in 1 .. g[to[u[1]]]
    BY <1>1
  <2> QED
    BY <2>1, UnitsAre
<1>3. \A u, v \in Units(f) : move[u] = move[v] => u = v
  <2> SUFFICES ASSUME NEW u \in Units(f), NEW v \in Units(f), move[u] = move[v]
               PROVE  u = v
    OBVIOUS
  <2>1. to[u[1]] = to[v[1]] /\ u[2] = v[2]
    OBVIOUS
  <2>2. u[1] = v[1]
    BY <1>1, <2>1
  <2> QED
    BY <1>1, <2>1, <2>2
<1>4. move \in Injection(Units(f), Units(g))
  <2>1. move \in [Units(f) -> Units(g)]
    BY <1>2
  <2> HIDE DEF move
  <2> QED
    BY <1>3, <2>1, Fun_IsInj
<1>5. IsFiniteSet(Units(g)) /\ Total(g) = Cardinality(Units(g)) /\ Total(f) = Cardinality(Units(f))
  BY TotalIsNat
<1> HIDE DEF move
<1> QED
  BY <1>4, <1>5, FS_Injection

-----------------------------------------------------------------------------
(* ChangeLevel, for every value of the three signals *)

\* Two of the three signals.
LEMMA WeakSignalsAreFew ==
  ASSUME NEW h \in Int, NEW s \in Int, NEW b \in Int
  PROVE  /\ IsFiniteSet(WeakSignals(h, s, b)) /\ WeakSignals(h, s, b) \subseteq {"hash", "similarity", "blocks"}
         /\ Cardinality(WeakSignals(h, s, b)) \in Nat
<1>1. WeakSignals(h, s, b) \subseteq {"hash", "similarity", "blocks"}
  BY DEF WeakSignals
<1>2. IsFiniteSet({"hash", "similarity", "blocks"})
  <2>1. IsFiniteSet({"hash"})
    BY FS_Singleton
  <2>2. IsFiniteSet({"hash"} \cup {"similarity"})
    BY <2>1, FS_AddElement
  <2>3. IsFiniteSet(({"hash"} \cup {"similarity"}) \cup {"blocks"})
    BY <2>2, FS_AddElement
  <2>4. {"hash", "similarity", "blocks"} = ({"hash"} \cup {"similarity"}) \cup {"blocks"}
    OBVIOUS
  <2> QED
    BY <2>3, <2>4
<1> QED
  BY <1>1, <1>2, FS_Subset, FS_CardinalityType

\* A pair of screenshots that is classified as unchanged is never an effective
\* change, whichever signals are missing: the thresholds of
\* _classify_change_level and _is_effective_change do not contradict each other.
THEOREM QuietIsIneffective ==
  ASSUME NEW h \in Int, NEW s \in Int, NEW b \in Int, Level(h, s, b) = "none"
  PROVE  ~ IsEffective(h, s, b)
<1>1. Quiet(h, s, b)
  BY DEF Level
<1>2. WeakSignals(h, s, b) = {}
  BY <1>1 DEF Quiet, WeakSignals, Present, RatioAtLeast, Blocks
<1> QED
  BY <1>2, FS_EmptySet DEF IsEffective

\* When a pair differs more than another in every signal, and the second is an
\* effective change, then the first is: no screenshot resets the streak of
\* unchanged ones by differing less.
THEOREM MoreDifferenceStaysEffective ==
  ASSUME NEW h \in Nat, NEW s \in Nat, NEW b \in Nat, NEW hh \in Nat, NEW ss \in Nat, NEW bb \in Nat,
         h <= hh, ss <= s, b <= bb, IsEffective(h, s, b)
  PROVE  IsEffective(hh, ss, bb)
<1>1. Present(h) /\ Present(s) /\ Present(b) /\ Present(hh) /\ Present(ss) /\ Present(bb)
  BY DEF Present, Missing
<1>2. WeakSignals(h, s, b) \subseteq WeakSignals(hh, ss, bb)
  BY <1>1 DEF WeakSignals, RatioAtLeast, Blocks
<1>3. Cardinality(WeakSignals(h, s, b)) <= Cardinality(WeakSignals(hh, ss, bb))
  <2> DEFINE before == WeakSignals(h, s, b)
             after == WeakSignals(hh, ss, bb)
  <2>1. IsFiniteSet(after) /\ before \subseteq after
    <3>1. hh \in Int /\ ss \in Int /\ bb \in Int
      OBVIOUS
    <3>2. IsFiniteSet(WeakSignals(hh, ss, bb))
      BY <3>1, WeakSignalsAreFew
    <3> QED
      BY <1>2, <3>2
  <2> HIDE DEF before, after
  <2>2. Cardinality(before) <= Cardinality(after)
    BY <2>1, FS_Subset
  <2> QED
    BY <2>2 DEF before, after
<1>4. Quiet(hh, ss, bb) => Quiet(h, s, b)
  BY <1>1 DEF Quiet, RatioAtLeast, Blocks
<1>5. Strong(h, s, b) => Strong(hh, ss, bb)
  BY <1>1 DEF Strong, RatioAtLeast, Blocks
<1>6. CASE Level(h, s, b) = "major"
  <2>1. Level(hh, ss, bb) = "major"
    BY <1>1, <1>4, <1>5, <1>6 DEF Level
  <2> QED
    BY <2>1 DEF IsEffective
<1>7. CASE Cardinality(WeakSignals(h, s, b)) >= 2
  <2>1. Cardinality(WeakSignals(hh, ss, bb)) >= 2
    <3> DEFINE few == Cardinality(WeakSignals(h, s, b))
               many == Cardinality(WeakSignals(hh, ss, bb))
    <3>1. few \in Nat /\ many \in Nat /\ few >= 2 /\ few <= many
      BY <1>3, <1>7, WeakSignalsAreFew
    <3> HIDE DEF few, many
    <3>2. many >= 2
      BY <3>1
    <3> QED
      BY <3>2 DEF many
  <2>2. Level(hh, ss, bb) # "unknown"
    BY <1>1 DEF Level
  <2> QED
    BY <2>1, <2>2 DEF IsEffective
<1> QED
  BY <1>6, <1>7 DEF IsEffective

-----------------------------------------------------------------------------
(* The state *)

EventType ==
  [id : Nat, emp : Employee, sev : Sev, status : Statuses, still : BOOLEAN,
   from : Nat, until : Nat, shot : Nat]
Diffs == {{}} \cup {{d} : d \in Signals}
FrameType ==
  [id : Nat, emp : Employee, at : Nat, screen : {1, 2}, diff : Diffs, activity : Activities,
   abnormal : BOOLEAN, keys : Nat, analysis : {"completed", "skipped"}]
Db ==
  {at \in [events : Seq(EventType), device : [Employee -> DOMAIN DevicePoints],
           frames : Seq(FrameType), now : Nat] : \A i \in DOMAIN at.events : at.events[i].id = i}

TypeOK ==
  /\ db \in Db
  /\ page \in Page
  /\ stage \in 0 .. Len(Stages(page)) + 1
  /\ try \in [Request -> 1 .. 2]
  /\ DOMAIN answers \subseteq Request
  /\ \A r \in DOMAIN answers : \A at \in answers[r] : at \in Db
  /\ \A r \in DOMAIN answers : \A at, too \in answers[r] : at = too
  /\ changes \in Nat

\* The requests of each page.
LEMMA StagesAre ==
  /\ Stages("dashboard") = <<{"events"}, {"summary", "risk", "access"}, {"queue"}>>
  /\ Stages("access") = <<{"access", "employees"}>>
  /\ Stages("realtime") = <<{"devices"}>>
  /\ Stages("timeline") = <<{"timeline", "anomalies"}>>
BY DEF Stages

LEMMA StagesType ==
  ASSUME NEW p \in Page
  PROVE  Stages(p) \in Seq(SUBSET Request) /\ Len(Stages(p)) \in Nat /\ DOMAIN Stages(p) = 1 .. Len(Stages(p))
<1>1. CASE p = "dashboard"
  <2>1. {"events"} \in SUBSET Request /\ {"summary", "risk", "access"} \in SUBSET Request /\ {"queue"} \in SUBSET Request
    BY DEF Request
  <2>2. Stages(p) = <<{"events"}, {"summary", "risk", "access"}, {"queue"}>>
    BY <1>1, StagesAre
  <2> QED
    BY <2>1, <2>2
<1>2. CASE p # "dashboard"
  <2>1. PICK S \in SUBSET Request : Stages(p) = <<S>>
    BY <1>2, StagesAre DEF Page, Request
  <2> QED
    BY <2>1
<1>3. Stages(p) \in Seq(SUBSET Request)
  BY <1>1, <1>2
<1> QED
  BY <1>3, LenProperties

LEMMA DbIs ==
  ASSUME NEW at \in Db
  PROVE  /\ at.events \in Seq(EventType) /\ at.device \in [Employee -> DOMAIN DevicePoints]
         /\ at.frames \in Seq(FrameType) /\ at.now \in Nat
         /\ \A i \in DOMAIN at.events : at.events[i].id = i
BY DEF Db

LEMMA EventIs ==
  ASSUME NEW e \in EventType
  PROVE  /\ e.id \in Nat /\ e.emp \in Employee /\ e.sev \in Sev /\ e.status \in Statuses
         /\ e.still \in BOOLEAN /\ e.from \in Nat /\ e.until \in Nat /\ e.shot \in Nat
BY DEF EventType

LEMMA FrameIs ==
  ASSUME NEW f \in FrameType
  PROVE  /\ f.id \in Nat /\ f.emp \in Employee /\ f.at \in Nat /\ f.diff \in Diffs
         /\ f.activity \in Activities /\ f.abnormal \in BOOLEAN /\ f.keys \in Nat
BY DEF FrameType

\* The frames of an employee are frames.
LEMMA FramesOfAre ==
  ASSUME TypeOK, NEW emp
  PROVE  FramesOf(emp) # <<>> => Last(FramesOf(emp)) \in FrameType
<1> DEFINE s == db.frames
           kept == {i \in DOMAIN s : s[i].emp = emp}
           ahead == [i \in kept |-> {k \in kept : k < i}]
           own == Arranged(s, kept, ahead)
<1>1. s \in Seq(FrameType)
  BY DbIs DEF TypeOK
<1>2. Len(s) \in Nat /\ DOMAIN s = 1 .. Len(s) /\ kept \in SUBSET (1 .. Len(s))
  BY <1>1, LenProperties
<1>3. FramesOf(emp) = own
  BY DEF Kept, FramesOf
<1> HIDE DEF s
<1>4. own \in Seq(FrameType)
  <2> HIDE DEF kept
  <2> QED
    BY <1>1, <1>2, KeptIsList
<1> HIDE DEF own, kept
<1>5. own # <<>> => Last(own) \in FrameType
  <2> SUFFICES ASSUME own # <<>> PROVE Last(own) \in FrameType
    OBVIOUS
  <2>1. Len(own) \in 1 .. Len(own)
    BY <1>4, EmptySeq
  <2> QED
    BY <1>4, <2>1, ElementOfSeq DEF Last
<1> QED
  BY <1>3, <1>5

\* The database as each action leaves it.
LEMMA RaisedEvent ==
  ASSUME TypeOK, NEW emp \in Employee, NEW kind \in Kinds, RaiseEvent(emp, kind)
  PROVE  /\ db' \in Db
         /\ Len(db'.events) = Len(db.events) + 1
         /\ \A i \in 1 .. Len(db.events) : db'.events[i] = db.events[i]
<1>1. kind.sev \in Sev /\ kind.still \in BOOLEAN
  BY InputsAssumption DEF Sev
<1>2. db \in Db /\ db.events \in Seq(EventType) /\ db.frames \in Seq(FrameType) /\ db.now \in Nat
  BY DbIs DEF TypeOK
<1> DEFINE shot == IF FramesOf(emp) = <<>> THEN 0 ELSE Last(FramesOf(emp)).id
           e == Event(emp, kind)
<1>3. shot \in Nat
  BY FramesOfAre, FrameIs
<1>4. Len(db.events) \in Nat
  BY <1>2, LenProperties
<1>5. e = [id |-> Len(db.events) + 1, emp |-> emp, sev |-> kind.sev, status |-> "open", still |-> kind.still,
           from |-> db.now, until |-> Open, shot |-> shot]
  BY DEF Event
<1>6. e \in EventType /\ e.id = Len(db.events) + 1
  <2> HIDE DEF shot, e
  <2>1. Open \in Nat /\ "open" \in Statuses
    BY DEF Open, Statuses
  <2> QED
    BY <1>1, <1>2, <1>3, <1>4, <1>5, <2>1 DEF EventType
<1>7. db' = [db EXCEPT !.events = Append(@, e)]
  BY DEF RaiseEvent
<1> HIDE DEF e
<1> DEFINE events == Append(db.events, e)
<1>8. /\ events \in Seq(EventType) /\ Len(events) = Len(db.events) + 1
      /\ \A i \in 1 .. Len(db.events) : events[i] = db.events[i]
      /\ events[Len(db.events) + 1] = e
  BY <1>2, <1>6, AppendProperties
<1>9. DOMAIN events = 1 .. Len(db.events) + 1 /\ DOMAIN db.events = 1 .. Len(db.events)
  BY <1>2, <1>8, LenProperties
<1>10. \A i \in DOMAIN events : events[i].id = i
  <2> HIDE DEF events
  <2> SUFFICES ASSUME NEW i \in 1 .. Len(db.events) + 1 PROVE events[i].id = i
    BY <1>9
  <2>1. CASE i = Len(db.events) + 1
    BY <1>6, <1>8, <2>1
  <2>2. CASE i # Len(db.events) + 1
    <3>1. i \in 1 .. Len(db.events)
      BY <1>4, <2>2
    <3> QED
      BY <1>2, <1>8, <1>9, <3>1, DbIs
  <2> QED
    BY <2>1, <2>2
<1> HIDE DEF events
<1>11. db' = [db EXCEPT !.events = events]
  BY <1>7 DEF events
<1>12. db' \in Db /\ db'.events = events
  BY <1>2, <1>8, <1>10, <1>11 DEF Db
<1> QED
  BY <1>8, <1>12

LEMMA ReviewedEvent ==
  ASSUME TypeOK, NEW i \in 1 .. MaxEvents, NEW status \in Verdicts, ReviewEvent(i, status)
  PROVE  /\ db' \in Db
         /\ Len(db'.events) = Len(db.events)
         /\ \A k \in 1 .. Len(db.events) : db'.events[k].status = "open" => db.events[k].status = "open"
<1>1. db \in Db /\ db.events \in Seq(EventType) /\ i \in DOMAIN db.events
  BY DbIs DEF TypeOK, ReviewEvent
<1>2. Len(db.events) \in Nat /\ DOMAIN db.events = 1 .. Len(db.events)
  BY <1>1, LenProperties
<1> DEFINE e == [db.events[i] EXCEPT !.status = status]
           events == [db.events EXCEPT ![i] = e]
<1>3. db' = [db EXCEPT !.events = events]
  BY DEF ReviewEvent
<1>4. status \in Statuses /\ status # "open"
  BY InputsAssumption, StatusesMap DEF Statuses
<1>5. db.events[i] \in EventType
  BY <1>1, <1>2, ElementOfSeq
<1>6. e \in EventType /\ e.status = status /\ e.id = i
  <2>1. db.events[i].id = i
    BY <1>1, DbIs
  <2> QED
    BY <1>4, <1>5, <2>1 DEF EventType
<1> HIDE DEF e
<1>7. /\ events \in Seq(EventType) /\ Len(events) = Len(db.events)
      /\ \A k \in 1 .. Len(db.events) : events[k] = IF k = i THEN e ELSE db.events[k]
  BY <1>1, <1>2, <1>6, ExceptSeq
<1> HIDE DEF events
<1>8. DOMAIN events = 1 .. Len(db.events)
  BY <1>7, LenProperties
<1>9. \A k \in DOMAIN events : events[k].id = k
  BY <1>1, <1>2, <1>6, <1>7, <1>8, DbIs
<1>10. db' \in Db /\ db'.events = events
  BY <1>1, <1>3, <1>7, <1>9 DEF Db
<1> QED
  BY <1>4, <1>6, <1>7, <1>10

LEMMA EndedEvent ==
  ASSUME TypeOK, NEW i \in 1 .. MaxEvents, EndEvent(i)
  PROVE  /\ db' \in Db
         /\ Len(db'.events) = Len(db.events)
         /\ \A k \in 1 .. Len(db.events) : db'.events[k].status = "open" => db.events[k].status = "open"
<1>1. db \in Db /\ db.events \in Seq(EventType) /\ i \in DOMAIN db.events /\ db.now \in Nat
  BY DbIs DEF TypeOK, EndEvent
<1>2. Len(db.events) \in Nat /\ DOMAIN db.events = 1 .. Len(db.events)
  BY <1>1, LenProperties
<1> DEFINE e == [db.events[i] EXCEPT !.until = db.now]
           events == [db.events EXCEPT ![i] = e]
<1>3. db' = [db EXCEPT !.events = events]
  BY DEF EndEvent
<1>4. db.events[i] \in EventType
  BY <1>1, <1>2, ElementOfSeq
<1>5. e \in EventType /\ e.status = db.events[i].status /\ e.id = i
  <2>1. db.events[i].id = i
    BY <1>1, DbIs
  <2> QED
    BY <1>1, <1>4, <2>1 DEF EventType
<1> HIDE DEF e
<1>6. /\ events \in Seq(EventType) /\ Len(events) = Len(db.events)
      /\ \A k \in 1 .. Len(db.events) : events[k] = IF k = i THEN e ELSE db.events[k]
  BY <1>1, <1>2, <1>5, ExceptSeq
<1> HIDE DEF events
<1>7. DOMAIN events = 1 .. Len(db.events)
  BY <1>6, LenProperties
<1>8. \A k \in DOMAIN events : events[k].id = k
  BY <1>1, <1>2, <1>5, <1>6, <1>7, DbIs
<1>9. db' \in Db /\ db'.events = events
  BY <1>1, <1>3, <1>6, <1>8 DEF Db
<1> QED
  BY <1>5, <1>6, <1>9

LEMMA DeviceChanged ==
  ASSUME TypeOK, NEW emp \in Employee, NEW state \in States, DeviceBecomes(emp, state)
  PROVE  db' \in Db /\ db'.events = db.events
<1>1. db \in Db /\ db.device \in [Employee -> DOMAIN DevicePoints]
  BY DbIs DEF TypeOK
<1>2. state \in DOMAIN DevicePoints
  BY InputsAssumption
<1> DEFINE device == [db.device EXCEPT ![emp] = state]
<1>3. device \in [Employee -> DOMAIN DevicePoints]
  BY <1>1, <1>2
<1>4. db' = [db EXCEPT !.device = device]
  BY DEF DeviceBecomes
<1> HIDE DEF device
<1> QED
  BY <1>1, <1>3, <1>4 DEF Db

LEMMA Captured ==
  ASSUME TypeOK, NEW emp \in Employee, NEW diff \in Diffs, NEW activity \in Activities,
         NEW abnormal \in BOOLEAN, Capture(emp, diff, activity, abnormal)
  PROVE  db' \in Db /\ db'.events = db.events
<1>1. db \in Db /\ db.frames \in Seq(FrameType) /\ db.now \in Nat
  BY DbIs DEF TypeOK
<1> DEFINE frame(screen) ==
             [id |-> Len(db.frames) + screen, emp |-> emp, at |-> db.now + 1, screen |-> screen,
              diff |-> IF screen = 1 THEN diff ELSE {}, activity |-> activity, abnormal |-> abnormal /\ screen = 1,
              keys |-> 2, analysis |-> IF abnormal THEN "completed" ELSE "skipped"]
           frames == db.frames \o <<frame(1), frame(2)>>
<1>2. db' = [db EXCEPT !.frames = frames, !.now = db.now + 1]
  BY DEF Capture
<1>3. Len(db.frames) \in Nat /\ {} \in Diffs
  BY <1>1, LenProperties DEF Diffs
<1>4. frame(1) \in FrameType
  BY <1>1, <1>3 DEF FrameType
<1>5. frame(2) \in FrameType
  BY <1>1, <1>3 DEF FrameType
<1> HIDE DEF frame
<1>6. <<frame(1), frame(2)>> \in Seq(FrameType)
  BY <1>4, <1>5
<1>7. frames \in Seq(FrameType)
  BY <1>1, <1>6, ConcatProperties
<1> HIDE DEF frames
<1>8. db' = [[db EXCEPT !.frames = frames] EXCEPT !.now = db.now + 1]
  BY <1>1, <1>2 DEF Db
<1>9. [db EXCEPT !.frames = frames] \in Db /\ [db EXCEPT !.frames = frames].events = db.events
  BY <1>1, <1>7 DEF Db
<1> DEFINE more == [db EXCEPT !.frames = frames]
<1>10. more \in Db /\ more.events = db.events /\ db' = [more EXCEPT !.now = db.now + 1]
  BY <1>8, <1>9
<1> HIDE DEF more
<1>11. db.now + 1 \in Nat
  BY <1>1
<1>12. /\ db' \in [events : Seq(EventType), device : [Employee -> DOMAIN DevicePoints],
                   frames : Seq(FrameType), now : Nat]
       /\ db'.events = more.events
  BY <1>10, <1>11 DEF Db
<1> QED
  BY <1>10, <1>12 DEF Db

\* An action of the backend keeps the events in order and opens none again.
Earlier(at, then) ==
  /\ Len(at.events) <= Len(then.events)
  /\ \A i \in 1 .. Len(at.events) : then.events[i].status = "open" => at.events[i].status = "open"

LEMMA EarlierIsTransitive ==
  ASSUME NEW a \in Db, NEW b \in Db, NEW c \in Db, Earlier(a, b), Earlier(b, c)
  PROVE  Earlier(a, c)
<1>1. Len(a.events) \in Nat /\ Len(b.events) \in Nat /\ Len(c.events) \in Nat
  BY DbIs, LenProperties
<1>2. \A i \in 1 .. Len(a.events) : i \in 1 .. Len(b.events)
  BY <1>1 DEF Earlier
<1> QED
  BY <1>1, <1>2 DEF Earlier

LEMMA EarlierIsReflexive ==
  ASSUME NEW a \in Db
  PROVE  Earlier(a, a)
<1>1. Len(a.events) \in Nat
  BY DbIs, LenProperties
<1> QED
  BY <1>1 DEF Earlier

\* What any action does: it changes the backend, or lets a request settle, or
\* asks elsewhere, or opens the page.
BackendMoves ==
  /\ db' \in Db /\ Earlier(db, db')
  /\ changes' = IF stage = 0 THEN changes ELSE changes + 1
  /\ UNCHANGED <<page, stage, try, answers>>
RequestSettles ==
  \E r \in Request, answer \in {{}, {db}} : r \in Waited /\ Settle(r, answer)
AsksElsewhere ==
  /\ \E r \in Request : try[r] < Addresses(r) /\ try' = [try EXCEPT ![r] = @ + 1]
  /\ UNCHANGED <<db, page, stage, answers, changes>>

LEMMA NextIs ==
  ASSUME TypeOK, Next
  PROVE  OpenPage \/ RequestSettles \/ AsksElsewhere \/ BackendMoves
<1>1. db \in Db /\ Len(db.events) \in Nat /\ Earlier(db, db)
  BY DbIs, LenProperties, EarlierIsReflexive DEF TypeOK
<1>2. Waited \subseteq Request
  BY StagesType, ElementOfSeq DEF TypeOK, Waited, Loading
<1>3. ASSUME NEW r \in Waited, Answered(r) PROVE RequestSettles
  BY <1>2, <1>3 DEF Answered, RequestSettles
<1>4. ASSUME NEW r \in Waited, NEW denied \in BOOLEAN, Failed(r, denied)
      PROVE  RequestSettles \/ AsksElsewhere
  BY <1>4, <1>2 DEF Failed, RequestSettles, AsksElsewhere
<1>5. ASSUME NEW emp \in Employee, NEW kind \in Kinds, RaiseEvent(emp, kind)
      PROVE  BackendMoves
  <2>1. db' \in Db /\ Earlier(db, db')
    BY <1>1, <1>5, RaisedEvent DEF Earlier
  <2> QED
    BY <1>5, <2>1 DEF RaiseEvent, Changes, BackendMoves
<1>6. ASSUME NEW i \in 1 .. MaxEvents, NEW status \in Verdicts, ReviewEvent(i, status)
      PROVE  BackendMoves
  <2>1. db' \in Db /\ Earlier(db, db')
    BY <1>1, <1>6, ReviewedEvent DEF Earlier
  <2> QED
    BY <1>6, <2>1 DEF ReviewEvent, Changes, BackendMoves
<1>7. ASSUME NEW i \in 1 .. MaxEvents, EndEvent(i)
      PROVE  BackendMoves
  <2>1. db' \in Db /\ Earlier(db, db')
    BY <1>1, <1>7, EndedEvent DEF Earlier
  <2> QED
    BY <1>7, <2>1 DEF EndEvent, Changes, BackendMoves
<1>8. ASSUME NEW emp \in Employee, NEW state \in States, DeviceBecomes(emp, state)
      PROVE  BackendMoves
  <2>1. db' \in Db /\ Earlier(db, db')
    BY <1>1, <1>8, DeviceChanged DEF Earlier
  <2> QED
    BY <1>8, <2>1 DEF DeviceBecomes, Changes, BackendMoves
<1>9. ASSUME NEW emp \in Employee, NEW diff \in Diffs, NEW activity \in Activities,
             NEW abnormal \in BOOLEAN, Capture(emp, diff, activity, abnormal)
      PROVE  BackendMoves
  <2>1. db' \in Db /\ Earlier(db, db')
    BY <1>1, <1>9, Captured DEF Earlier
  <2> QED
    BY <1>9, <2>1 DEF Capture, Changes, BackendMoves
<1> QED
  BY <1>3, <1>4, <1>5, <1>6, <1>7, <1>8, <1>9 DEF Next, Settles, Diffs

\* The answers are snapshots, those of the later requests not older than those
\* they wait for, and all of the present when nothing has changed.
Snapshots ==
  /\ \A r \in DOMAIN answers : \A at \in answers[r] : Earlier(at, db)
  /\ page = "dashboard" /\ "queue" \in DOMAIN answers =>
       \A e \in answers["events"], q \in answers["queue"] : Earlier(e, q)
  /\ changes = 0 => \A r \in DOMAIN answers : answers[r] \subseteq {db}
  /\ stage = 0 => DOMAIN answers = {}
  /\ DOMAIN answers \subseteq UNION {Stages(page)[n] : n \in {n \in DOMAIN Stages(page) : n <= stage}}
  /\ \A n \in DOMAIN Stages(page) : n < stage => Stages(page)[n] \subseteq DOMAIN answers

Inv == TypeOK /\ Snapshots

LEMMA InitInv == Init => Inv
<1> SUFFICES ASSUME Init PROVE Inv
  OBVIOUS
<1>1. db \in Db
  <2>1. [emp \in Employee |-> "online"] \in [Employee -> DOMAIN DevicePoints]
    BY DevicePointsAre
  <2>2. <<>> \in Seq(EventType) /\ <<>> \in Seq(FrameType) /\ DOMAIN <<>> = {}
    OBVIOUS
  <2> QED
    BY <2>1, <2>2 DEF Init, Db
<1>2. Len(Stages(page)) \in Nat /\ DOMAIN Stages(page) = 1 .. Len(Stages(page))
  BY StagesType DEF Init
<1>3. DOMAIN answers = {}
  BY DEF Init
<1>4. TypeOK
  BY <1>1, <1>2, <1>3 DEF Init, TypeOK
<1>5. Snapshots
  <2>1. stage = 0
    BY DEF Init
  <2> QED
    BY <1>2, <1>3, <2>1 DEF Snapshots
<1> QED
  BY <1>4, <1>5 DEF Inv

LEMMA OpenPageInv ==
  ASSUME Inv, OpenPage
  PROVE  Inv'
<1>1. Len(Stages(page)) \in Nat /\ DOMAIN Stages(page) = 1 .. Len(Stages(page))
  BY StagesType DEF Inv, TypeOK
<1>2. stage = 0 /\ stage' = 1 /\ DOMAIN answers = {} /\ UNCHANGED <<db, page, try, answers, changes>>
  BY DEF OpenPage, Inv, Snapshots
<1>3. TypeOK'
  BY <1>1, <1>2 DEF Inv, TypeOK
<1>4. Snapshots'
  BY <1>1, <1>2 DEF Inv, Snapshots
<1> QED
  BY <1>3, <1>4 DEF Inv

LEMMA AsksElsewhereInv ==
  ASSUME Inv, AsksElsewhere
  PROVE  Inv'
<1>1. PICK r \in Request : try[r] < Addresses(r) /\ try' = [try EXCEPT ![r] = @ + 1]
  BY DEF AsksElsewhere
<1>2. try' \in [Request -> 1 .. 2]
  BY <1>1 DEF Inv, TypeOK, Addresses
<1>3. UNCHANGED <<db, page, stage, answers, changes>>
  BY DEF AsksElsewhere
<1>4. TypeOK'
  BY <1>2, <1>3 DEF Inv, TypeOK
<1>5. Snapshots'
  BY <1>3 DEF Inv, Snapshots
<1> QED
  BY <1>4, <1>5 DEF Inv

LEMMA BackendMovesInv ==
  ASSUME Inv, BackendMoves
  PROVE  Inv'
<1>1. /\ db' \in Db /\ Earlier(db, db') /\ db \in Db
      /\ UNCHANGED <<page, stage, try, answers>>
      /\ changes' = IF stage = 0 THEN changes ELSE changes + 1
  BY DEF Inv, TypeOK, BackendMoves
<1>2. TypeOK'
  BY <1>1 DEF Inv, TypeOK
<1>3. \A r \in DOMAIN answers : \A at \in answers[r] : Earlier(at, db')
  BY <1>1, EarlierIsTransitive DEF Inv, TypeOK, Snapshots
<1>4. changes' = 0 => DOMAIN answers = {}
  BY <1>1 DEF Inv, TypeOK, Snapshots
<1>5. Snapshots'
  BY <1>1, <1>3, <1>4 DEF Inv, Snapshots
<1> QED
  BY <1>2, <1>5 DEF Inv

LEMMA RequestSettlesInv ==
  ASSUME Inv, RequestSettles
  PROVE  Inv'
<1>1. PICK r \in Request, answer \in {{}, {db}} : r \in Waited /\ Settle(r, answer)
  BY DEF RequestSettles
<1>2. Len(Stages(page)) \in Nat /\ DOMAIN Stages(page) = 1 .. Len(Stages(page)) /\ page \in Page /\ db \in Db
  BY StagesType DEF Inv, TypeOK
<1>3. stage \in DOMAIN Stages(page) /\ r \in Stages(page)[stage] /\ r \notin DOMAIN answers
  BY <1>1 DEF Waited, Loading
<1>4. /\ DOMAIN answers' = DOMAIN answers \cup {r}
      /\ \A q \in DOMAIN answers' : answers'[q] = IF q = r THEN answer ELSE answers[q]
      /\ stage' = IF Waited = {r} THEN stage + 1 ELSE stage
      /\ UNCHANGED <<db, page, try, changes>>
  BY <1>1 DEF Settle
<1>5. TypeOK'
  <2>1. stage' \in 0 .. Len(Stages(page)) + 1
    BY <1>2, <1>3, <1>4
  <2>2. \A q \in DOMAIN answers' : \A at \in answers'[q] : at \in Db
    BY <1>1, <1>2, <1>4 DEF Inv, TypeOK
  <2>3. \A q \in DOMAIN answers' : \A at, too \in answers'[q] : at = too
    BY <1>1, <1>4 DEF Inv, TypeOK
  <2> QED
    BY <1>4, <2>1, <2>2, <2>3 DEF Inv, TypeOK
<1>6. \A q \in DOMAIN answers' : \A at \in answers'[q] : Earlier(at, db)
  BY <1>1, <1>2, <1>4, EarlierIsReflexive DEF Inv, Snapshots
<1>7. ASSUME page = "dashboard", "queue" \in DOMAIN answers'
      PROVE  \A e \in answers'["events"], q \in answers'["queue"] : Earlier(e, q)
  <2>1. CASE r = "queue"
    <3>1. stage = 3
      BY <1>2, <1>3, <1>7, <2>1, StagesAre
    <3>2. "events" \in DOMAIN answers
      <4>1. 1 \in DOMAIN Stages(page) /\ 1 < stage /\ Stages(page)[1] = {"events"}
        BY <1>2, <1>3, <1>7, <3>1, StagesAre
      <4> QED
        BY <4>1 DEF Inv, Snapshots
    <3>3. answers'["events"] = answers["events"] /\ answers'["queue"] = answer
      BY <1>4, <2>1, <3>2
    <3> QED
      BY <1>1, <3>2, <3>3 DEF Inv, Snapshots
  <2>2. CASE r # "queue"
    <3>1. "queue" \in DOMAIN answers
      BY <1>4, <1>7, <2>2
    <3>2. "events" \in DOMAIN answers
      <4>1. PICK n \in DOMAIN Stages(page) : n <= stage /\ "queue" \in Stages(page)[n]
        BY <3>1 DEF Inv, Snapshots
      <4>2. n = 3 /\ 1 \in DOMAIN Stages(page) /\ Stages(page)[1] = {"events"}
        BY <1>2, <1>7, <4>1, StagesAre
      <4>3. 1 < stage
        BY <1>2, <1>3, <4>1, <4>2
      <4> QED
        BY <4>2, <4>3 DEF Inv, Snapshots
    <3>3. answers'["events"] = answers["events"] /\ answers'["queue"] = answers["queue"]
      BY <1>3, <1>4, <2>2, <3>1, <3>2
    <3> QED
      BY <1>7, <3>1, <3>3 DEF Inv, Snapshots
  <2> QED
    BY <2>1, <2>2
<1>8. changes = 0 => \A q \in DOMAIN answers' : answers'[q] \subseteq {db}
  BY <1>1, <1>4 DEF Inv, Snapshots
<1>9. DOMAIN answers' \subseteq UNION {Stages(page)[n] : n \in {n \in DOMAIN Stages(page) : n <= stage'}}
  <2>1. \A q \in DOMAIN answers' : \E n \in DOMAIN Stages(page) : n <= stage /\ q \in Stages(page)[n]
    <3>1. stage <= stage
      BY <1>2, <1>3
    <3> QED
      BY <1>3, <1>4, <3>1 DEF Inv, Snapshots
  <2>2. \A n \in DOMAIN Stages(page) : n <= stage => n <= stage'
    BY <1>2, <1>3, <1>4
  <2> QED
    BY <2>1, <2>2
<1>10. \A n \in DOMAIN Stages(page) : n < stage' => Stages(page)[n] \subseteq DOMAIN answers'
  <2> SUFFICES ASSUME NEW n \in DOMAIN Stages(page), n < stage'
               PROVE  Stages(page)[n] \subseteq DOMAIN answers'
    OBVIOUS
  <2>1. CASE n < stage
    BY <1>4, <2>1 DEF Inv, Snapshots
  <2>2. CASE ~ (n < stage)
    <3>1. Waited = {r} /\ n = stage
      BY <1>2, <1>3, <1>4, <2>2
    <3> QED
      BY <1>3, <1>4, <3>1 DEF Waited, Loading
  <2> QED
    BY <2>1, <2>2
<1>11. stage' # 0
  BY <1>2, <1>3, <1>4
<1>12. Snapshots'
  BY <1>4, <1>6, <1>7, <1>8, <1>9, <1>10, <1>11 DEF Snapshots
<1> QED
  BY <1>5, <1>12 DEF Inv

LEMMA StepInv == Inv /\ [Next]_vars => Inv'
<1> SUFFICES ASSUME Inv, [Next]_vars PROVE Inv'
  OBVIOUS
<1>1. CASE Next
  BY <1>1, NextIs, OpenPageInv, AsksElsewhereInv, BackendMovesInv, RequestSettlesInv DEF Inv
<1>2. CASE UNCHANGED vars
  <2>1. UNCHANGED <<db, page, stage, try, answers, changes>>
    BY <1>2 DEF vars
  <2>2. TypeOK'
    BY <2>1 DEF Inv, TypeOK
  <2>3. Snapshots'
    BY <2>1 DEF Inv, Snapshots
  <2> QED
    BY <2>2, <2>3 DEF Inv
<1> QED
  BY <1>1, <1>2

\* Every state has the types declared above: the events carry their place as
\* their number, and every answer is one state of the backend or nothing.
THEOREM TypeCorrect == Spec => []TypeOK
<1>1. Spec => []Inv
  BY InitInv, StepInv, PTL DEF Spec
<1>2. Inv => TypeOK
  BY DEF Inv
<1> QED
  BY <1>1, <1>2, PTL

-----------------------------------------------------------------------------
(* What the pages make of a snapshot *)

LEMMA EmployeesAre ==
  /\ Len(Employees) \in Nat /\ DOMAIN Employees = 1 .. Len(Employees)
  /\ \A i \in 1 .. Len(Employees) : Employees[i] \in Employee
BY PeopleAssumption, LenProperties, ElementOfSeq

\* The rows of a list that shows each event once, under its number.
ListOf(rows, events) ==
  /\ DOMAIN rows = 1 .. Len(events)
  /\ \A k \in 1 .. Len(events) : rows[k].id \in 1 .. Len(events) /\ rows[k] = EventRow(events[rows[k].id])
  /\ \A k, l \in 1 .. Len(events) : rows[k].id = rows[l].id => k = l
  /\ \A i \in 1 .. Len(events) : \E k \in 1 .. Len(events) : rows[k].id = i

LEMMA EventRowsAre ==
  ASSUME NEW events \in Seq(EventType), \A i \in DOMAIN events : events[i].id = i,
         NEW rows, rows = EventRows(events)
  PROVE  ListOf(rows, events)
<1> DEFINE n == Len(events)
           s == Each(Reverse(events), EventRow)
           p == [i \in 1 .. n |-> EventPriority(s[i])]
           none == [i \in 1 .. n |-> 0]
           ahead == [i \in DOMAIN s |-> {k \in DOMAIN s :
             EventPriority(s[k]) > EventPriority(s[i])
             \/ (~ (EventPriority(s[i]) > EventPriority(s[k])) /\ k < i)}]
<1>1. n \in Nat /\ DOMAIN events = 1 .. n /\ \A i \in 1 .. n : events[i] \in EventType /\ events[i].id = i
  BY LenProperties, ElementOfSeq
<1>2. DOMAIN Reverse(events) = 1 .. n /\ \A i \in 1 .. n : Reverse(events)[i] = events[n + 1 - i]
  BY Reversed, LenProperties
<1>3. DOMAIN s = 1 .. n /\ \A i \in 1 .. n : s[i] = EventRow(events[n + 1 - i])
  BY <1>2 DEF Each
<1>4. rows = Arranged(s, DOMAIN s, ahead)
  BY DEF EventRows, Sorted
<1> HIDE DEF s
<1>5. \A i \in 1 .. n : n + 1 - i \in 1 .. n
  BY <1>1
<1>6. \A i \in 1 .. n : EventPriority(s[i]) \in Int
  <2> SUFFICES ASSUME NEW i \in 1 .. n PROVE EventPriority(s[i]) \in Int
    OBVIOUS
  <2>1. events[n + 1 - i].sev \in Sev
    BY <1>1, <1>5, EventIs
  <2>2. s[i].sev = events[n + 1 - i].sev
    BY <1>3 DEF EventRow
  <2>3. SeverityWeight[s[i].sev] \in Nat
    BY <2>1, <2>2, WeightsAgree
  <2> QED
    BY <2>3 DEF EventPriority
<1>7. p \in [1 .. n -> Int] /\ none \in [1 .. n -> Int]
  BY <1>6
<1>8. AheadByKeys(ahead, n, p, none, none)
  <2>1. \A i, k \in 1 .. n : Higher(p, none, none, k, i) <=> EventPriority(s[k]) > EventPriority(s[i])
    BY DEF Higher
  <2> HIDE DEF p, none
  <2> QED
    BY <1>3, <2>1 DEF AheadByKeys
<1> HIDE DEF p, none, ahead
<1>9. PICK at : OrderedBy(at, n, p, none, none) /\ rows = Listed(s, at, n)
  <2>1. n \in Nat /\ DOMAIN s = 1 .. n
    BY <1>1, <1>3
  <2> HIDE DEF n
  <2>2. InOrder(Arranged(s, DOMAIN s, ahead), s, n, p, none, none)
    BY <1>7, <1>8, <2>1, SortedByKeys
  <2> QED
    BY <1>4, <2>2 DEF InOrder
<1>10. /\ at \in [1 .. n -> 1 .. n] /\ \A i \in 1 .. n : \E m \in 1 .. n : at[m] = i
       /\ \A l, m \in 1 .. n : at[l] = at[m] => l = m
  BY <1>9 DEF OrderedBy
<1>11. DOMAIN rows = 1 .. n /\ \A k \in 1 .. n : rows[k] = EventRow(events[n + 1 - at[k]])
  BY <1>3, <1>9, <1>10 DEF Listed
<1>12. \A k \in 1 .. n : rows[k].id = n + 1 - at[k]
  <2> SUFFICES ASSUME NEW k \in 1 .. n PROVE rows[k].id = n + 1 - at[k]
    OBVIOUS
  <2>1. at[k] \in 1 .. n
    BY <1>10
  <2>2. n + 1 - at[k] \in 1 .. n
    BY <1>5, <2>1
  <2>3. events[n + 1 - at[k]].id = n + 1 - at[k]
    BY <1>1, <2>2
  <2> QED
    BY <1>11, <2>3 DEF EventRow
<1>13. \A k \in 1 .. n : rows[k].id \in 1 .. n /\ rows[k] = EventRow(events[rows[k].id])
  <2> SUFFICES ASSUME NEW k \in 1 .. n PROVE rows[k].id \in 1 .. n /\ rows[k] = EventRow(events[rows[k].id])
    OBVIOUS
  <2>1. at[k] \in 1 .. n
    BY <1>10
  <2>2. n + 1 - at[k] \in 1 .. n
    BY <1>5, <2>1
  <2> QED
    BY <1>11, <1>12, <2>2
<1>14. ASSUME NEW k \in 1 .. n, NEW l \in 1 .. n, rows[k].id = rows[l].id PROVE k = l
  <2>1. at[k] \in 1 .. n /\ at[l] \in 1 .. n /\ n + 1 - at[k] = n + 1 - at[l]
    BY <1>10, <1>12, <1>14
  <2>2. at[k] = at[l]
    BY <1>1, <2>1
  <2> QED
    BY <1>10, <2>2
<1>15. ASSUME NEW i \in 1 .. n PROVE \E k \in 1 .. n : rows[k].id = i
  <2>1. PICK m \in 1 .. n : at[m] = n + 1 - i
    BY <1>5, <1>10
  <2>2. n + 1 - (n + 1 - i) = i
    BY <1>1
  <2> QED
    BY <1>12, <2>1, <2>2
<1> QED
  BY <1>11, <1>13, <1>14, <1>15 DEF ListOf

\* The statuses of a queue, in the words of the backend and in the console's.
Words == [x \in Statuses |-> x]
QueueWords == [x \in Statuses |-> QueueStatus(x)]

\* The rows of a queue with N rows: those that can be acted on stand for the
\* events under review, one for each.
QueueOf(Q, N, events, words) ==
  /\ N \in Nat /\ DOMAIN Q = 1 .. N
  /\ \A k \in 1 .. N :
       /\ Q[k] = [of |-> Q[k].of, sev |-> Q[k].sev, status |-> Q[k].status, age |-> Q[k].age,
                  actionable |-> Q[k].actionable]
       /\ Q[k].sev \in Sev /\ Q[k].age \in Int /\ Q[k].actionable \in BOOLEAN
       /\ Q[k].actionable =>
            /\ Q[k].of \in 1 .. Len(events) /\ events[Q[k].of].status \in Reviewable
            /\ Q[k].sev = events[Q[k].of].sev /\ Q[k].status = words[events[Q[k].of].status]
  /\ \A k, l \in 1 .. N : Q[k].actionable /\ Q[l].actionable /\ Q[k].of = Q[l].of => k = l
  /\ \A i \in 1 .. Len(events) : events[i].status \in Reviewable =>
       \E k \in 1 .. N : Q[k].actionable /\ Q[k].of = i

LEMMA QueueSorted ==
  ASSUME NEW s, NEW N, NEW events, NEW words, QueueOf(s, N, events, words),
         NEW L, NEW p, NEW q, NEW r, InOrder(L, s, N, p, q, r)
  PROVE  QueueOf(L, N, events, words)
<1>1. PICK at : OrderedBy(at, N, p, q, r) /\ L = Listed(s, at, N)
  BY DEF InOrder
<1>2. /\ at \in [1 .. N -> 1 .. N] /\ \A i \in 1 .. N : \E m \in 1 .. N : at[m] = i
      /\ \A l, m \in 1 .. N : at[l] = at[m] => l = m
  BY <1>1 DEF OrderedBy
<1>3. DOMAIN L = 1 .. N /\ \A k \in 1 .. N : L[k] = s[at[k]] /\ at[k] \in 1 .. N
  BY <1>1, <1>2 DEF Listed
<1>4. N \in Nat
  BY DEF QueueOf
<1>5. ASSUME NEW k \in 1 .. N
      PROVE  /\ L[k] = [of |-> L[k].of, sev |-> L[k].sev, status |-> L[k].status, age |-> L[k].age,
                        actionable |-> L[k].actionable]
             /\ L[k].sev \in Sev /\ L[k].age \in Int /\ L[k].actionable \in BOOLEAN
             /\ L[k].actionable =>
                  /\ L[k].of \in 1 .. Len(events) /\ events[L[k].of].status \in Reviewable
                  /\ L[k].sev = events[L[k].of].sev /\ L[k].status = words[events[L[k].of].status]
  <2> DEFINE i == at[k]
  <2>1. i \in 1 .. N /\ L[k] = s[i]
    BY <1>3
  <2> HIDE DEF i
  <2> QED
    BY <2>1 DEF QueueOf
<1>6. ASSUME NEW k \in 1 .. N, NEW l \in 1 .. N, L[k].actionable, L[l].actionable, L[k].of = L[l].of
      PROVE  k = l
  <2>1. at[k] = at[l]
    BY <1>3, <1>6 DEF QueueOf
  <2> QED
    BY <1>2, <2>1
<1>7. ASSUME NEW i \in 1 .. Len(events), events[i].status \in Reviewable
      PROVE  \E k \in 1 .. N : L[k].actionable /\ L[k].of = i
  <2>1. PICK m \in 1 .. N : s[m].actionable /\ s[m].of = i
    BY <1>7 DEF QueueOf
  <2>2. PICK k \in 1 .. N : at[k] = m
    BY <1>2
  <2> QED
    BY <1>3, <2>1, <2>2
<1> QED
  BY <1>3, <1>4, <1>5, <1>6, <1>7 DEF QueueOf

LEMMA QueueReworded ==
  ASSUME NEW s, NEW N, NEW events \in Seq(EventType), QueueOf(s, N, events, Words)
  PROVE  QueueOf(Each(s, QueueRow), N, events, QueueWords)
<1> DEFINE L == Each(s, QueueRow)
<1>1. N \in Nat /\ DOMAIN s = 1 .. N
  BY DEF QueueOf
<1>2. DOMAIN L = 1 .. N /\ \A k \in 1 .. N : L[k] = QueueRow(s[k])
  BY <1>1 DEF Each
<1> HIDE DEF L
<1>3. \A k \in 1 .. N : L[k] = [of |-> s[k].of, sev |-> s[k].sev, status |-> QueueStatus(s[k].status),
                               age |-> s[k].age, actionable |-> s[k].actionable]
  BY <1>2 DEF QueueRow, QueueOf
<1>4. \A i \in 1 .. Len(events) : events[i].status \in Statuses
  BY LenProperties, ElementOfSeq, EventIs
<1>5. \A x \in Statuses : Words[x] = x /\ QueueWords[x] = QueueStatus(x)
  BY DEF Words, QueueWords
<1>6. ASSUME NEW k \in 1 .. N
      PROVE  /\ L[k] = [of |-> L[k].of, sev |-> L[k].sev, status |-> L[k].status, age |-> L[k].age,
                        actionable |-> L[k].actionable]
             /\ L[k].of = s[k].of /\ L[k].sev = s[k].sev /\ L[k].age = s[k].age
             /\ L[k].status = QueueStatus(s[k].status) /\ L[k].actionable = s[k].actionable
  <2> DEFINE act == s[k].actionable
  <2>1. L[k] = [of |-> s[k].of, sev |-> s[k].sev, status |-> QueueStatus(s[k].status),
                age |-> s[k].age, actionable |-> act]
    BY <1>3
  <2>2. act \in BOOLEAN
    BY DEF QueueOf
  <2> HIDE DEF act
  <2>3. L[k].of = s[k].of /\ L[k].sev = s[k].sev /\ L[k].age = s[k].age /\ L[k].status = QueueStatus(s[k].status)
    BY <2>1
  <2>4. L[k].actionable = act
    BY <2>1
  <2>5. L[k] = [of |-> L[k].of, sev |-> L[k].sev, status |-> L[k].status, age |-> L[k].age,
                actionable |-> L[k].actionable]
    BY <2>1, <2>3, <2>4, Zenon
  <2> QED
    BY <2>2, <2>3, <2>4, <2>5, Zenon DEF act
<1>7. ASSUME NEW k \in 1 .. N, s[k].actionable
      PROVE  /\ L[k].of \in 1 .. Len(events) /\ events[L[k].of].status \in Reviewable
             /\ L[k].sev = events[L[k].of].sev /\ L[k].status = QueueWords[events[L[k].of].status]
  <2>1. /\ s[k].of \in 1 .. Len(events) /\ events[s[k].of].status \in Reviewable
        /\ s[k].sev = events[s[k].of].sev /\ s[k].status = Words[events[s[k].of].status]
    BY <1>7 DEF QueueOf
  <2>2. events[s[k].of].status \in Statuses
    BY <1>4, <2>1
  <2>3. L[k].of = s[k].of /\ L[k].sev = s[k].sev
    BY <1>6
  <2>4. L[k].status = QueueStatus(s[k].status)
    BY <1>6
  <2> QED
    BY <1>5, <2>1, <2>2, <2>3, <2>4
<1>8. \A k \in 1 .. N : L[k].sev \in Sev /\ L[k].age \in Int /\ L[k].actionable \in BOOLEAN
  BY <1>6 DEF QueueOf
<1>9. /\ \A k, l \in 1 .. N : L[k].actionable /\ L[l].actionable /\ L[k].of = L[l].of => k = l
      /\ \A i \in 1 .. Len(events) : events[i].status \in Reviewable =>
           \E k \in 1 .. N : L[k].actionable /\ L[k].of = i
  <2>1. \A k \in 1 .. N : (L[k].actionable <=> s[k].actionable) /\ L[k].of = s[k].of
    BY <1>6, Zenon
  <2> QED
    BY <2>1 DEF QueueOf
<1>10. QueueOf(L, N, events, QueueWords)
  BY <1>1, <1>2, <1>6, <1>7, <1>8, <1>9 DEF QueueOf
<1> QED
  BY <1>10 DEF L

\* L lists the a events under review, each once.
UnderReview(L, a, events) ==
  /\ a \in Nat /\ DOMAIN L = 1 .. a
  /\ \A k \in 1 .. a : /\ L[k].id \in 1 .. Len(events) /\ L[k] = events[L[k].id]
                       /\ L[k].status \in Reviewable
  /\ \A k, l \in 1 .. a : L[k].id = L[l].id => k = l
  /\ \A i \in 1 .. Len(events) : events[i].status \in Reviewable => \E k \in 1 .. a : L[k].id = i

LEMMA ReviewableAre ==
  ASSUME NEW events \in Seq(EventType), \A i \in DOMAIN events : events[i].id = i,
         NEW s, s = Reverse(events), NEW kept \in SUBSET DOMAIN s,
         \A i \in DOMAIN s : i \in kept <=> s[i].status \in Reviewable,
         NEW L, InPlace(L, s, kept)
  PROVE  UnderReview(L, Cardinality(kept), events)
<1> DEFINE n == Len(events)
           a == Cardinality(kept)
<1>1. n \in Nat /\ \A i \in 1 .. n : events[i].id = i /\ n + 1 - i \in 1 .. n /\ n + 1 - (n + 1 - i) = i
  BY LenProperties
<1>2. DOMAIN s = 1 .. n /\ \A i \in 1 .. n : s[i] = events[n + 1 - i]
  BY Reversed, LenProperties
<1>3. kept \in SUBSET (1 .. n) /\ \A i \in 1 .. n : i \in kept <=> s[i].status \in Reviewable
  BY <1>2
<1>4. a \in Nat
  BY DEF InPlace
<1>5. PICK at \in [1 .. a -> kept] :
        /\ \A i \in kept : \E m \in 1 .. a : at[m] = i
        /\ \A l, m \in 1 .. a : l < m => at[l] < at[m]
        /\ L = Listed(s, at, a)
  BY DEF InPlace
<1>6. \A k \in 1 .. a : at[k] \in 1 .. n /\ at[k] \in kept
  BY <1>3, <1>5
<1>7. DOMAIN L = 1 .. a /\ \A k \in 1 .. a : L[k] = s[at[k]]
  BY <1>5 DEF Listed
<1>8. \A k \in 1 .. a : L[k] = events[n + 1 - at[k]] /\ L[k].id = n + 1 - at[k]
  <2> SUFFICES ASSUME NEW k \in 1 .. a PROVE L[k] = events[n + 1 - at[k]] /\ L[k].id = n + 1 - at[k]
    OBVIOUS
  <2>1. at[k] \in 1 .. n /\ n + 1 - at[k] \in 1 .. n
    BY <1>1, <1>6
  <2>2. s[at[k]] = events[n + 1 - at[k]]
    BY <1>2, <2>1
  <2>3. events[n + 1 - at[k]].id = n + 1 - at[k]
    BY <1>1, <2>1
  <2> QED
    BY <1>7, <2>2, <2>3
<1>9. \A k \in 1 .. a : /\ L[k].id \in 1 .. n /\ L[k] = events[L[k].id]
                         /\ L[k].status \in Reviewable
  <2> SUFFICES ASSUME NEW k \in 1 .. a
               PROVE  L[k].id \in 1 .. n /\ L[k] = events[L[k].id] /\ L[k].status \in Reviewable
    OBVIOUS
  <2>1. at[k] \in 1 .. n /\ s[at[k]].status \in Reviewable
    BY <1>3, <1>6
  <2> QED
    BY <1>1, <1>7, <1>8, <2>1
<1>10. ASSUME NEW k \in 1 .. a, NEW l \in 1 .. a, L[k].id = L[l].id PROVE k = l
  <2>1. at[k] \in 1 .. n /\ at[l] \in 1 .. n /\ n + 1 - at[k] = n + 1 - at[l]
    BY <1>6, <1>8, <1>10
  <2>2. at[k] = at[l]
    BY <1>1, <2>1
  <2>3. ~ (k < l) /\ ~ (l < k)
    BY <1>5, <2>1, <2>2
  <2> QED
    BY <1>4, <2>3
<1>11. ASSUME NEW i \in 1 .. n, events[i].status \in Reviewable PROVE \E k \in 1 .. a : L[k].id = i
  <2>1. n + 1 - i \in kept
    <3> DEFINE j == n + 1 - i
    <3>1. j \in 1 .. n /\ n + 1 - j = i
      BY <1>1
    <3> HIDE DEF j
    <3>2. s[j] = events[i]
      BY <1>2, <3>1
    <3>3. j \in kept
      BY <1>3, <1>11, <3>1, <3>2
    <3> QED
      BY <3>3 DEF j
  <2>2. PICK k \in 1 .. a : at[k] = n + 1 - i
    BY <1>5, <2>1
  <2> QED
    BY <1>1, <1>8, <2>2
<1> QED
  BY <1>4, <1>7, <1>9, <1>10, <1>11 DEF UnderReview

\* The queue that the backend sends.
LEMMA ReviewQueueIs ==
  ASSUME NEW events \in Seq(EventType), \A i \in DOMAIN events : events[i].id = i, NEW device
  PROVE  \E N : QueueOf(ReviewQueue(events, device), N, events, Words)
<1> DEFINE n == Len(events)
           s == Reverse(events)
           kept == {i \in DOMAIN s : s[i].status \in Reviewable}
           earlier == [i \in kept |-> {k \in kept : k < i}]
           reviewable == Arranged(s, kept, earlier)
           quiet == {i \in DOMAIN Employees : device[Employees[i]] # "online"}
           before == [i \in quiet |-> {k \in quiet : k < i}]
           silent == Arranged(Employees, quiet, before)
           first == [k \in DOMAIN reviewable |->
             [of |-> reviewable[k].id, sev |-> reviewable[k].sev, status |-> reviewable[k].status,
              age |-> Len(events) - reviewable[k].id, actionable |-> TRUE]]
           second == [k \in DOMAIN silent |->
             [of |-> silent[k], sev |-> IF device[silent[k]] = "stale" THEN "medium" ELSE "high",
              status |-> IF device[silent[k]] = "offline" THEN "offline" ELSE "online",
              age |-> DeviceAge, actionable |-> FALSE]]
           items == first \o second
           ahead == [i \in DOMAIN items |-> {k \in DOMAIN items :
             \/ \/ Weight[items[k].sev] > Weight[items[i].sev]
                \/ items[k].sev = items[i].sev /\ items[k].actionable /\ ~ items[i].actionable
                \/ items[k].sev = items[i].sev /\ items[k].actionable = items[i].actionable
                   /\ items[k].age < items[i].age
             \/ ~ (\/ Weight[items[i].sev] > Weight[items[k].sev]
                   \/ items[i].sev = items[k].sev /\ items[i].actionable /\ ~ items[k].actionable
                   \/ items[i].sev = items[k].sev /\ items[i].actionable = items[k].actionable
                      /\ items[i].age < items[k].age)
                /\ k < i}]
<1>1. ReviewQueue(events, device) = Arranged(items, DOMAIN items, ahead)
  BY DEF ReviewQueue, Sorted, Kept, Each
<1>2. n \in Nat /\ \A i \in 1 .. n : events[i] \in EventType /\ events[i].id = i
  BY LenProperties, ElementOfSeq
<1> HIDE DEF ahead, items, first, second
<1>3. \E a : UnderReview(reviewable, a, events)
  <2>1. kept \in SUBSET (1 .. n)
    BY Reversed, LenProperties
  <2> HIDE DEF kept, n
  <2>2. InPlace(reviewable, s, kept)
    BY <1>2, <2>1, KeptBy
  <2>3. kept \in SUBSET DOMAIN s /\ \A i \in DOMAIN s : i \in kept <=> s[i].status \in Reviewable
    BY DEF kept
  <2>4. s = Reverse(events)
    OBVIOUS
  <2> HIDE DEF reviewable, s
  <2> QED
    BY <2>2, <2>3, <2>4, ReviewableAre
<1>4. \E b \in Nat : DOMAIN silent = 1 .. b
  <2>1. Len(Employees) \in Nat /\ quiet \in SUBSET (1 .. Len(Employees))
    BY EmployeesAre
  <2> HIDE DEF quiet
  <2>2. InPlace(silent, Employees, quiet)
    BY <2>1, KeptBy
  <2> HIDE DEF silent
  <2> QED
    BY <2>2 DEF InPlace, Listed
<1> HIDE DEF reviewable, silent
<1>5. PICK a \in Nat, b \in Nat :
        /\ DOMAIN reviewable = 1 .. a /\ DOMAIN silent = 1 .. b
        /\ \A k \in 1 .. a : /\ reviewable[k].id \in 1 .. n /\ reviewable[k] = events[reviewable[k].id]
                             /\ reviewable[k].status \in Reviewable
        /\ \A k, l \in 1 .. a : reviewable[k].id = reviewable[l].id => k = l
        /\ \A i \in 1 .. n : events[i].status \in Reviewable => \E k \in 1 .. a : reviewable[k].id = i
  BY <1>3, <1>4 DEF UnderReview
<1>6. a \in Nat /\ b \in Nat /\ a + b \in Nat
  BY <1>5
<1>7. first = [k \in 1 .. a |-> [of |-> reviewable[k].id, sev |-> reviewable[k].sev, status |-> reviewable[k].status,
                                 age |-> Len(events) - reviewable[k].id, actionable |-> TRUE]]
  BY <1>5 DEF first
<1>8. second = [k \in 1 .. b |->
        [of |-> silent[k], sev |-> IF device[silent[k]] = "stale" THEN "medium" ELSE "high",
         status |-> IF device[silent[k]] = "offline" THEN "offline" ELSE "online",
         age |-> DeviceAge, actionable |-> FALSE]]
  BY <1>5 DEF second
<1> DEFINE S == {first[k] : k \in 1 .. a} \cup {second[k] : k \in 1 .. b}
<1>9. first \in Seq(S) /\ Len(first) = a
  <2>1. first \in [1 .. a -> S]
    BY <1>7
  <2> QED
    BY <1>6, <2>1, SeqDef, LenProperties
<1>10. second \in Seq(S) /\ Len(second) = b
  <2>1. second \in [1 .. b -> S]
    BY <1>8
  <2> QED
    BY <1>6, <2>1, SeqDef, LenProperties
<1> HIDE DEF S
<1>11. /\ DOMAIN items = 1 .. a + b
      /\ \A k \in 1 .. a + b : items[k] = IF k <= a THEN first[k] ELSE second[k - a]
  <2>1. /\ items \in Seq(S) /\ Len(items) = Len(first) + Len(second)
        /\ \A k \in 1 .. Len(first) + Len(second) :
             items[k] = IF k <= Len(first) THEN first[k] ELSE second[k - Len(first)]
    BY <1>9, <1>10, ConcatProperties DEF items
  <2>2. DOMAIN items = 1 .. Len(items)
    BY <2>1, LenProperties
  <2> QED
    BY <1>9, <1>10, <2>1, <2>2
<1>12. ASSUME NEW k \in 1 .. a + b, k <= a
       PROVE  items[k] = [of |-> reviewable[k].id, sev |-> reviewable[k].sev, status |-> reviewable[k].status,
                          age |-> n - reviewable[k].id, actionable |-> TRUE]
  <2>1. k \in 1 .. a /\ items[k] = first[k]
    BY <1>11, <1>12, <1>6
  <2> QED
    BY <1>7, <2>1
<1>13. ASSUME NEW k \in 1 .. a + b, ~ (k <= a)
       PROVE  items[k] = [of |-> silent[k - a], sev |-> IF device[silent[k - a]] = "stale" THEN "medium" ELSE "high",
                          status |-> IF device[silent[k - a]] = "offline" THEN "offline" ELSE "online",
                          age |-> DeviceAge, actionable |-> FALSE]
  <2>1. k - a \in 1 .. b
    BY <1>13, <1>6
  <2> QED
    BY <1>8, <1>11, <1>13, <2>1
<1>14. ASSUME NEW k \in 1 .. a + b, k <= a
       PROVE  /\ items[k].actionable /\ items[k].actionable \in BOOLEAN /\ items[k].of = reviewable[k].id
              /\ items[k].of \in 1 .. n /\ events[items[k].of].status \in Reviewable
              /\ items[k].sev = events[items[k].of].sev /\ items[k].status = Words[events[items[k].of].status]
              /\ items[k].sev \in Sev /\ items[k].age \in Int
              /\ items[k] = [of |-> items[k].of, sev |-> items[k].sev, status |-> items[k].status,
                             age |-> items[k].age, actionable |-> items[k].actionable]
  <2> DEFINE i == reviewable[k].id
  <2>1. k \in 1 .. a
    BY <1>14, <1>6
  <2>2. i \in 1 .. n /\ reviewable[k] = events[i] /\ reviewable[k].status \in Reviewable
    BY <1>5, <2>1
  <2>3. events[i] \in EventType
    BY <1>2, <2>2
  <2>4. events[i].sev \in Sev /\ Words[events[i].status] = events[i].status
    BY <2>3, EventIs DEF Words
  <2>5. items[k] = [of |-> i, sev |-> events[i].sev, status |-> events[i].status, age |-> n - i, actionable |-> TRUE]
    BY <1>12, <1>14, <2>2
  <2> HIDE DEF i
  <2> QED
    BY <1>2, <2>2, <2>4, <2>5 DEF i
<1>15. ASSUME NEW k \in 1 .. a + b, ~ (k <= a)
       PROVE  /\ ~ items[k].actionable /\ items[k].actionable \in BOOLEAN
              /\ items[k].sev \in Sev /\ items[k].age \in Int
              /\ items[k] = [of |-> items[k].of, sev |-> items[k].sev, status |-> items[k].status,
                             age |-> items[k].age, actionable |-> items[k].actionable]
  <2>1. (IF device[silent[k - a]] = "stale" THEN "medium" ELSE "high") \in Sev
    BY SevIs
  <2>2. DeviceAge \in Int
    BY PeopleAssumption
  <2> DEFINE sev == IF device[silent[k - a]] = "stale" THEN "medium" ELSE "high"
             status == IF device[silent[k - a]] = "offline" THEN "offline" ELSE "online"
  <2>3. items[k] = [of |-> silent[k - a], sev |-> sev, status |-> status, age |-> DeviceAge, actionable |-> FALSE]
    BY <1>13, <1>15
  <2>4. sev \in Sev
    BY <2>1
  <2> HIDE DEF sev, status
  <2> QED
    BY <2>2, <2>3, <2>4
<1>16. QueueOf(items, a + b, events, Words)
  <2>1. \A k \in 1 .. a + b :
          /\ items[k] = [of |-> items[k].of, sev |-> items[k].sev, status |-> items[k].status, age |-> items[k].age,
                         actionable |-> items[k].actionable]
          /\ items[k].sev \in Sev /\ items[k].age \in Int /\ items[k].actionable \in BOOLEAN
    BY <1>14, <1>15
  <2>2. \A k \in 1 .. a + b : items[k].actionable =>
          /\ items[k].of \in 1 .. n /\ events[items[k].of].status \in Reviewable
          /\ items[k].sev = events[items[k].of].sev /\ items[k].status = Words[events[items[k].of].status]
    BY <1>14, <1>15
  <2>3. \A k, l \in 1 .. a + b : items[k].actionable /\ items[l].actionable /\ items[k].of = items[l].of => k = l
    <3> SUFFICES ASSUME NEW k \in 1 .. a + b, NEW l \in 1 .. a + b,
                        items[k].actionable, items[l].actionable, items[k].of = items[l].of
                 PROVE  k = l
      OBVIOUS
    <3>1. k <= a /\ l <= a
      BY <1>15
    <3>2. items[k].of = reviewable[k].id /\ items[l].of = reviewable[l].id
      BY <1>14, <3>1
    <3>3. k \in 1 .. a /\ l \in 1 .. a
      BY <1>6, <3>1
    <3> QED
      BY <1>5, <3>2, <3>3
  <2>4. \A i \in 1 .. n : events[i].status \in Reviewable => \E k \in 1 .. a + b : items[k].actionable /\ items[k].of = i
    <3> SUFFICES ASSUME NEW i \in 1 .. n, events[i].status \in Reviewable
                 PROVE  \E k \in 1 .. a + b : items[k].actionable /\ items[k].of = i
      OBVIOUS
    <3>1. PICK k \in 1 .. a : reviewable[k].id = i
      BY <1>5
    <3>2. k \in 1 .. a + b /\ k <= a
      BY <1>6
    <3> QED
      BY <1>14, <3>1, <3>2
  <2> QED
    BY <1>11, <1>6, <2>1, <2>2, <2>3, <2>4 DEF QueueOf
<1> DEFINE N == a + b
           p == [i \in 1 .. N |-> Weight[items[i].sev]]
           q == [i \in 1 .. N |-> IF items[i].actionable THEN 1 ELSE 0]
           r == [i \in 1 .. N |-> - items[i].age]
<1>17. DOMAIN items = 1 .. N /\ N \in Nat
  BY <1>11, <1>6
<1> HIDE DEF N
<1>18. \A i \in 1 .. N : items[i].sev \in Sev /\ items[i].age \in Int /\ items[i].actionable \in BOOLEAN
  BY <1>16 DEF QueueOf, N
<1>19. p \in [1 .. N -> Int] /\ q \in [1 .. N -> Int] /\ r \in [1 .. N -> Int]
  BY <1>18, WeightsAgree
<1>20. AheadByKeys(ahead, N, p, q, r)
  <2>1. ASSUME NEW i \in 1 .. N, NEW k \in 1 .. N
        PROVE  Higher(p, q, r, k, i) <=>
                 \/ Weight[items[k].sev] > Weight[items[i].sev]
                 \/ items[k].sev = items[i].sev /\ items[k].actionable /\ ~ items[i].actionable
                 \/ items[k].sev = items[i].sev /\ items[k].actionable = items[i].actionable
                    /\ items[k].age < items[i].age
    <3>1. /\ p[i] = Weight[items[i].sev] /\ p[k] = Weight[items[k].sev]
          /\ q[i] = (IF items[i].actionable THEN 1 ELSE 0) /\ q[k] = (IF items[k].actionable THEN 1 ELSE 0)
          /\ r[i] = - items[i].age /\ r[k] = - items[k].age
      OBVIOUS
    <3> HIDE DEF p, q, r
    <3>2. p[i] = p[k] <=> items[i].sev = items[k].sev
      BY <1>18, <3>1, WeightsAgree
    <3>3. q[k] > q[i] <=> items[k].actionable /\ ~ items[i].actionable
      BY <3>1
    <3>4. q[k] = q[i] <=> items[k].actionable = items[i].actionable
      <4>1. items[k].actionable = items[i].actionable <=> (items[k].actionable <=> items[i].actionable)
        BY <1>18, Zenon
      <4>2. q[k] = q[i] <=> (items[k].actionable <=> items[i].actionable)
        BY <3>1
      <4> QED
        BY <4>1, <4>2, Zenon
    <3>5. r[k] > r[i] <=> items[k].age < items[i].age
      BY <1>18, <3>1
    <3>6. p[k] > p[i] <=> Weight[items[k].sev] > Weight[items[i].sev]
      BY <3>1
    <3> QED
      BY <3>2, <3>3, <3>4, <3>5, <3>6, Zenon DEF Higher
  <2> HIDE DEF p, q, r
  <2>2. \A i \in 1 .. N : ahead[i] \subseteq 1 .. N
    BY <1>17 DEF ahead
  <2>3. ASSUME NEW i \in 1 .. N, NEW k \in 1 .. N
        PROVE  k \in ahead[i] <=> Higher(p, q, r, k, i) \/ (~ Higher(p, q, r, i, k) /\ k < i)
    BY <1>17, <2>1 DEF ahead
  <2> QED
    BY <2>2, <2>3 DEF AheadByKeys
<1> HIDE DEF p, q, r
<1>21. InOrder(Arranged(items, DOMAIN items, ahead), items, N, p, q, r)
  BY <1>17, <1>19, <1>20, SortedByKeys
<1>22. QueueOf(Arranged(items, DOMAIN items, ahead), N, events, Words)
  BY <1>16, <1>21, QueueSorted DEF N
<1> QED
  BY <1>1, <1>22

\* The queue as the console shows it.
LEMMA QueueRowsAre ==
  ASSUME NEW events \in Seq(EventType), \A i \in DOMAIN events : events[i].id = i, NEW device,
         NEW Q, Q = QueueRows(ReviewQueue(events, device))
  PROVE  \E N : /\ QueueOf(Q, N, events, QueueWords)
                /\ \A l, m \in 1 .. N : l < m => ~ QueueBefore(Q[m], Q[l])
<1> DEFINE s == Each(ReviewQueue(events, device), QueueRow)
           ahead == [i \in DOMAIN s |-> {k \in DOMAIN s :
             QueueBefore(s[k], s[i]) \/ (~ QueueBefore(s[i], s[k]) /\ k < i)}]
           priority(row) == SeverityWeight[row.sev] + StatusWeight(row.status)
<1>1. Q = Arranged(s, DOMAIN s, ahead)
  BY DEF QueueRows, Sorted
<1>2. PICK N : QueueOf(s, N, events, QueueWords)
  BY ReviewQueueIs, QueueReworded
<1> HIDE DEF s
<1>3. N \in Nat /\ DOMAIN s = 1 .. N /\ \A i \in 1 .. N : s[i].sev \in Sev /\ s[i].age \in Int
  BY <1>2 DEF QueueOf
<1> DEFINE p == [i \in 1 .. N |-> priority(s[i])]
           q == [i \in 1 .. N |-> s[i].age]
           none == [i \in 1 .. N |-> 0]
<1>4. \A i \in 1 .. N : priority(s[i]) \in Int
  BY <1>3, WeightsAgree DEF StatusWeight
<1>5. p \in [1 .. N -> Int] /\ q \in [1 .. N -> Int] /\ none \in [1 .. N -> Int]
  BY <1>3, <1>4
<1>6. \A i, k \in 1 .. N : Higher(p, q, none, k, i) <=> QueueBefore(s[k], s[i])
  <2> SUFFICES ASSUME NEW i \in 1 .. N, NEW k \in 1 .. N
               PROVE  Higher(p, q, none, k, i) <=> QueueBefore(s[k], s[i])
    OBVIOUS
  <2>1. /\ p[i] = priority(s[i]) /\ p[k] = priority(s[k]) /\ q[i] = s[i].age /\ q[k] = s[k].age
        /\ none[i] = 0 /\ none[k] = 0
    OBVIOUS
  <2> HIDE DEF p, q, none
  <2> QED
    BY <2>1 DEF Higher, QueueBefore
<1> HIDE DEF p, q, none
<1>7. AheadByKeys(ahead, N, p, q, none)
  BY <1>3, <1>6 DEF AheadByKeys
<1> HIDE DEF ahead
<1>8. InOrder(Arranged(s, DOMAIN s, ahead), s, N, p, q, none)
  BY <1>3, <1>5, <1>7, SortedByKeys
<1>9. QueueOf(Q, N, events, QueueWords)
  BY <1>1, <1>2, <1>8, QueueSorted
<1>10. PICK at : OrderedBy(at, N, p, q, none) /\ Q = Listed(s, at, N)
  BY <1>1, <1>8 DEF InOrder
<1>11. ASSUME NEW l \in 1 .. N, NEW m \in 1 .. N, l < m PROVE ~ QueueBefore(Q[m], Q[l])
  <2>1. at[l] \in 1 .. N /\ at[m] \in 1 .. N /\ ~ Higher(p, q, none, at[m], at[l])
    BY <1>10, <1>11 DEF OrderedBy
  <2>2. Q[l] = s[at[l]] /\ Q[m] = s[at[m]]
    BY <1>10 DEF Listed
  <2> QED
    BY <1>6, <2>1, <2>2
<1> QED
  BY <1>9, <1>11

-----------------------------------------------------------------------------
(* The dashboard *)

\* A page is filled out of the answers to all of its requests.
LEMMA AllAnswered ==
  ASSUME Inv, NEW p \in Page, Opened(p), NEW n \in DOMAIN Stages(p), NEW r \in Stages(p)[n]
  PROVE  r \in DOMAIN answers
<1>1. page = p /\ stage > Len(Stages(p))
  BY DEF Opened, Filled
<1>2. n \in 1 .. Len(Stages(p)) /\ Len(Stages(p)) \in Nat /\ stage \in Nat
  BY <1>1, StagesType DEF Inv, TypeOK
<1>3. n < stage
  BY <1>1, <1>2
<1> QED
  BY <1>1, <1>3 DEF Inv, Snapshots

LEMMA DashboardAnswered ==
  ASSUME Inv, Opened("dashboard")
  PROVE  {"events", "summary", "risk", "access", "queue"} \subseteq DOMAIN answers
<1>1. DOMAIN Stages("dashboard") = {1, 2, 3}
  BY StagesAre
<1>2. /\ "events" \in Stages("dashboard")[1] /\ "queue" \in Stages("dashboard")[3]
      /\ "summary" \in Stages("dashboard")[2] /\ "risk" \in Stages("dashboard")[2] /\ "access" \in Stages("dashboard")[2]
  BY StagesAre
<1>3. "dashboard" \in Page
  BY DEF Page
<1> QED
  BY <1>1, <1>2, <1>3, AllAnswered

\* A live answer is what the console makes of one snapshot.
LEMMA AnswerIs ==
  ASSUME Inv, NEW r \in DOMAIN answers, Live(r)
  PROVE  \E at \in answers[r] : at \in Db /\ Earlier(at, db) /\ RowsOf(r) = LiveData(r, at)
<1> DEFINE at == CHOOSE at \in answers[r] : TRUE
<1>1. at \in answers[r]
  BY DEF Live
<1> QED
  BY <1>1 DEF Inv, TypeOK, Snapshots, RowsOf

LEMMA NoAnswerIs == \A r : ~ Live(r) => RowsOf(r) = <<>>
BY DEF RowsOf

\* The requests and what is made of them.
LEMMA LiveDataIs ==
  ASSUME NEW at
  PROVE  /\ LiveData("events", at) = EventRows(at.events)
         /\ LiveData("summary", at) = Kpis(Summary(at.events, at.device))
         /\ LiveData("risk", at) = RiskRows(RiskScores(at.events, at.device))
         /\ LiveData("access", at) = AccessRows(AccessMatrix)
         /\ LiveData("queue", at) = QueueRows(ReviewQueue(at.events, at.device))
         /\ LiveData("employees", at) = Employees
         /\ LiveData("timeline", at) = Rows(at.frames, at.events)
         /\ LiveData("anomalies", at) = Rows(Kept(at.frames, LAMBDA f : f.abnormal), at.events)
BY DEF LiveData

LEMMA DashboardIs ==
  /\ Dashboard.rows = RowsOf("events") /\ Dashboard.queue = RowsOf("queue") /\ Dashboard.kpis = Figures
  /\ Dashboard.scores = RowsOf("risk") /\ Dashboard.heatmap = Heatmap(RowsOf("risk"))
BY DEF Dashboard

\* The event of a row of the queue, as the list shows it.
LEMMA SameEvent ==
  ASSUME Inv, Opened("dashboard"), NEW e \in answers["events"], NEW q \in answers["queue"],
         NEW j \in 1 .. Len(e.events)
  PROVE  /\ e \in Db /\ q \in Db /\ j \in 1 .. Len(q.events)
         /\ e.events[j] \in EventType /\ q.events[j] \in EventType
         /\ q.events[j].status = "open" => e.events[j].status = "open"
         /\ changes = 0 => e = q
<1>1. "events" \in DOMAIN answers /\ "queue" \in DOMAIN answers
  BY DashboardAnswered
<1>2. page = "dashboard"
  BY DEF Opened
<1>3. e \in Db /\ q \in Db /\ Earlier(e, q)
  BY <1>1, <1>2 DEF Inv, TypeOK, Snapshots
<1>4. Len(e.events) \in Nat /\ Len(q.events) \in Nat
  BY <1>3, DbIs, LenProperties
<1>5. j \in 1 .. Len(q.events)
  BY <1>3, <1>4 DEF Earlier
<1>6. e.events[j] \in EventType /\ q.events[j] \in EventType
  BY <1>3, <1>5, DbIs, ElementOfSeq
<1>7. q.events[j].status = "open" => e.events[j].status = "open"
  BY <1>3 DEF Earlier
<1>8. changes = 0 => e = q
  BY <1>1 DEF Inv, Snapshots
<1> QED
  BY <1>3, <1>5, <1>6, <1>7, <1>8

LEMMA InvReviewedStaysOut == Inv => ReviewedStaysOut
<1> SUFFICES ASSUME Inv, Opened("dashboard"),
                    NEW i \in DOMAIN Dashboard.queue, NEW k \in DOMAIN Dashboard.rows,
                    Dashboard.queue[i].actionable, Dashboard.queue[i].of = Dashboard.rows[k].id
             PROVE  InReview(Dashboard.rows[k]) \/ (Dashboard.queue[i].status = "reviewing" /\ changes > 0)
  BY DEF ReviewedStaysOut
<1> DEFINE Q == RowsOf("queue")
           rows == RowsOf("events")
<1>1. Dashboard.queue = Q /\ Dashboard.rows = rows
  BY DashboardIs
<1>2. Live("queue") /\ Live("events")
  BY <1>1, NoAnswerIs
<1>3. "events" \in DOMAIN answers /\ "queue" \in DOMAIN answers
  BY DashboardAnswered
<1>4. PICK e \in answers["events"] : e \in Db /\ rows = EventRows(e.events)
  BY <1>2, <1>3, AnswerIs, LiveDataIs
<1>5. PICK q \in answers["queue"] : q \in Db /\ Q = QueueRows(ReviewQueue(q.events, q.device))
  BY <1>2, <1>3, AnswerIs, LiveDataIs
<1> HIDE DEF Q, rows
<1>6. /\ DOMAIN rows = 1 .. Len(e.events)
      /\ \A m \in 1 .. Len(e.events) : rows[m].id \in 1 .. Len(e.events) /\ rows[m] = EventRow(e.events[rows[m].id])
  <2>1. ListOf(rows, e.events)
    BY <1>4, DbIs, EventRowsAre
  <2> QED
    BY <2>1 DEF ListOf
<1>7. PICK N : QueueOf(Q, N, q.events, QueueWords)
  BY <1>5, DbIs, QueueRowsAre
<1> DEFINE j == rows[k].id
<1>8. j \in 1 .. Len(e.events) /\ rows[k] = EventRow(e.events[j])
  BY <1>1, <1>6
<1>9. Q[i].of = j /\ q.events[j].status \in Reviewable /\ Q[i].status = QueueWords[q.events[j].status]
  BY <1>1, <1>7 DEF QueueOf
<1> HIDE DEF j
<1>10. /\ q.events[j] \in EventType
       /\ q.events[j].status = "open" => e.events[j].status = "open"
       /\ changes = 0 => e = q
  BY <1>8, SameEvent
<1>11. q.events[j].status \in {"open", "reviewing"}
  BY <1>9, <1>10, EventIs, StatusesMap
<1>12. rows[k].status = EventStatus(e.events[j].status)
  BY <1>8 DEF EventRow
<1>13. changes \in Nat
  BY DEF Inv, TypeOK
<1>14. "reviewing" \in ReviewActions /\ "reviewing" \in Statuses
  BY DEF ReviewActions, Statuses
<1>15. CASE q.events[j].status = "open"
  <2>1. rows[k].status = "reviewing"
    BY <1>10, <1>12, <1>15, StatusesMap
  <2> QED
    BY <1>1, <2>1 DEF InReview
<1>16. CASE q.events[j].status = "reviewing"
  <2>1. Q[i].status = "reviewing"
    BY <1>9, <1>14, <1>16, StatusesMap DEF QueueWords
  <2>2. CASE changes = 0
    <3>1. rows[k].status = "reviewing"
      BY <1>10, <1>12, <1>14, <1>16, <2>2, StatusesMap
    <3> QED
      BY <1>1, <3>1 DEF InReview
  <2>3. CASE changes # 0
    BY <1>1, <1>13, <2>1, <2>3
  <2> QED
    BY <2>2, <2>3
<1> QED
  BY <1>11, <1>15, <1>16

\* An event that the list of the dashboard shows as dealt with waits in its
\* queue only when it was put back to reviewing between the two requests,
\* whatever the backend does and whichever requests fail: an answer of a later
\* stage is never older than the one it waits for, and no event is opened again.
THEOREM ReviewedCorrect == Spec => []ReviewedStaysOut
<1>1. Spec => []Inv
  BY InitInv, StepInv, PTL DEF Spec
<1> QED
  BY <1>1, InvReviewedStaysOut, PTL

\* Events are counted in the list and in the queue alike.
LEMMA ListCount ==
  ASSUME NEW rows, NEW events \in Seq(EventType), ListOf(rows, events), NEW P \in SUBSET (1 .. Len(events)),
         NEW A, \A k : k \in A <=> k \in 1 .. Len(events) /\ rows[k].id \in P
  PROVE  Cardinality(A) = Cardinality(P)
<1> DEFINE f == [k \in A |-> rows[k].id]
<1>1. Len(events) \in Nat
  BY LenProperties
<1>2. IsFiniteSet(P)
  <2>1. IsFiniteSet(1 .. Len(events))
    BY <1>1, FS_Interval
  <2> QED
    BY <2>1, FS_Subset
<1>3. f \in [A -> P] /\ \A k \in A : f[k] = rows[k].id
  OBVIOUS
<1> HIDE DEF f
<1>4. \A k, l \in A : f[k] = f[l] => k = l
  BY <1>3 DEF ListOf
<1>5. \A i \in P : \E k \in A : f[k] = i
  <2> SUFFICES ASSUME NEW i \in P PROVE \E k \in A : f[k] = i
    OBVIOUS
  <2>1. PICK k \in 1 .. Len(events) : rows[k].id = i
    BY DEF ListOf
  <2> QED
    BY <1>3, <2>1
<1> QED
  BY <1>2, <1>3, <1>4, <1>5, AsMany

LEMMA QueueCount ==
  ASSUME NEW Q, NEW N, NEW events \in Seq(EventType), NEW words, QueueOf(Q, N, events, words),
         NEW P \in SUBSET (1 .. Len(events)), \A i \in P : events[i].status \in Reviewable,
         NEW A, \A k : k \in A <=> k \in 1 .. N /\ Q[k].actionable /\ Q[k].of \in P
  PROVE  Cardinality(A) = Cardinality(P)
<1> DEFINE f == [k \in A |-> Q[k].of]
<1>1. Len(events) \in Nat
  BY LenProperties
<1>2. IsFiniteSet(P)
  <2>1. IsFiniteSet(1 .. Len(events))
    BY <1>1, FS_Interval
  <2> QED
    BY <2>1, FS_Subset
<1>3. f \in [A -> P] /\ \A k \in A : f[k] = Q[k].of
  OBVIOUS
<1> HIDE DEF f
<1>4. \A k, l \in A : f[k] = f[l] => k = l
  BY <1>3 DEF QueueOf
<1>5. \A i \in P : \E k \in A : f[k] = i
  <2> SUFFICES ASSUME NEW i \in P PROVE \E k \in A : f[k] = i
    OBVIOUS
  <2>1. PICK k \in 1 .. N : Q[k].actionable /\ Q[k].of = i
    BY DEF QueueOf
  <2> QED
    BY <1>3, <2>1
<1>6. f \in [A -> P]
  BY <1>3
<1> QED
  BY <1>2, <1>6, <1>4, <1>5, AsMany

\* A filter over a list that has places 1 .. N.
LEMMA PendingIs ==
  ASSUME NEW Q, NEW N \in Nat, DOMAIN Q = 1 .. N
  PROVE  \E kept \in SUBSET (1 .. N) :
           /\ \A k : k \in kept <=> k \in 1 .. N /\ Q[k].actionable
           /\ InPlace(Pending(Q), Q, kept)
<1> DEFINE kept == {k \in DOMAIN Q : Q[k].actionable}
           ahead == [i \in kept |-> {k \in kept : k < i}]
<1>1. Pending(Q) = Arranged(Q, kept, ahead)
  BY DEF Pending, Kept
<1>2. kept \in SUBSET (1 .. N) /\ \A k : k \in kept <=> k \in 1 .. N /\ Q[k].actionable
  OBVIOUS
<1> HIDE DEF kept
<1>3. InPlace(Arranged(Q, kept, ahead), Q, kept)
  BY <1>2, KeptBy
<1> QED
  BY <1>1, <1>2, <1>3

LEMMA InvSettledDashboardAgrees == Inv => SettledDashboardAgrees
<1> SUFFICES ASSUME Inv, Opened("dashboard"), changes = 0, Live("events"), Live("summary"), Live("queue")
             PROVE  /\ Number(Dashboard.rows, InReview) = Len(Pending(Dashboard.queue))
                    /\ Dashboard.kpis.risk.note = Number(Dashboard.queue, LAMBDA row : row.actionable /\ row.status = "new")
                    /\ Dashboard.kpis.risk.value = Number(Dashboard.rows, LAMBDA row : row.sev \in Urgent)
  BY DEF SettledDashboardAgrees
<1> DEFINE Q == RowsOf("queue")
           rows == RowsOf("events")
           figures == RowsOf("summary")
           events == db.events
           n == Len(events)
<1>1. Dashboard.queue = Q /\ Dashboard.rows = rows /\ Dashboard.kpis = figures
  BY DashboardIs DEF Figures
<1>2. \A r \in DOMAIN answers : answers[r] \subseteq {db}
  BY DEF Inv, Snapshots
<1>3. \A r \in {"events", "summary", "queue"} : Live(r) => RowsOf(r) = LiveData(r, db)
  BY <1>2, DashboardAnswered, AnswerIs
<1>4. rows = EventRows(events) /\ Q = QueueRows(ReviewQueue(events, db.device)) /\ figures = Kpis(Summary(events, db.device))
  BY <1>3, LiveDataIs
<1>5. /\ events \in Seq(EventType) /\ \A i \in DOMAIN events : events[i].id = i
      /\ n \in Nat /\ DOMAIN events = 1 .. n
      /\ \A i \in 1 .. n : events[i].status \in Statuses
  BY DbIs, LenProperties, ElementOfSeq, EventIs DEF Inv, TypeOK
<1> HIDE DEF Q, rows, figures, events
<1>6. ListOf(rows, events)
  BY <1>4, <1>5, EventRowsAre
<1>7. PICK N : QueueOf(Q, N, events, QueueWords)
  BY <1>4, <1>5, QueueRowsAre
<1>8. N \in Nat /\ DOMAIN Q = 1 .. N /\ DOMAIN rows = 1 .. n
  BY <1>6, <1>7 DEF QueueOf, ListOf
<1>9. \A k \in 1 .. n : rows[k].id \in 1 .. n /\ rows[k] = EventRow(events[rows[k].id])
  BY <1>6 DEF ListOf
<1>10. Number(rows, InReview) = Len(Pending(Q))
  <2> DEFINE P == {i \in 1 .. n : events[i].status \in Reviewable}
             A == {k \in DOMAIN rows : InReview(rows[k])}
  <2>1. \A x \in Statuses : EventStatus(x) \in {"new", "reviewing"} <=> x \in Reviewable
    BY DEF EventStatus, Reviewable, Statuses, ReviewActions
  <2>2. \A k : k \in A <=> k \in 1 .. n /\ rows[k].id \in P
    <3> SUFFICES ASSUME NEW k \in 1 .. n PROVE InReview(rows[k]) <=> rows[k].id \in P
      BY <1>8
    <3> DEFINE i == rows[k].id
    <3>1. i \in 1 .. n /\ rows[k] = EventRow(events[i])
      BY <1>9
    <3> HIDE DEF i
    <3>2. rows[k].status = EventStatus(events[i].status)
      BY <3>1 DEF EventRow
    <3>3. InReview(rows[k]) <=> i \in P
      BY <1>5, <2>1, <3>1, <3>2 DEF InReview
    <3> QED
      BY <3>3 DEF i
  <2>3. PICK kept \in SUBSET (1 .. N) :
          /\ \A k : k \in kept <=> k \in 1 .. N /\ Q[k].actionable
          /\ InPlace(Pending(Q), Q, kept)
    BY <1>8, PendingIs
  <2>4. \A k : k \in kept <=> k \in 1 .. N /\ Q[k].actionable /\ Q[k].of \in P
    BY <1>7, <2>3 DEF QueueOf
  <2>5. P \in SUBSET (1 .. n) /\ \A i \in P : events[i].status \in Reviewable
    OBVIOUS
  <2>6. Number(rows, InReview) = Cardinality(A)
    BY DEF Number
  <2> HIDE DEF A, P
  <2>7. Cardinality(A) = Cardinality(P)
    BY <1>5, <1>6, <2>2, <2>5, ListCount
  <2>8. Cardinality(kept) = Cardinality(P)
    BY <1>5, <1>7, <2>4, <2>5, QueueCount
  <2>9. Len(Pending(Q)) = Cardinality(kept)
    <3>1. Cardinality(kept) \in Nat /\ \E at : Pending(Q) = [m \in 1 .. Cardinality(kept) |-> Q[at[m]]]
      BY <2>3 DEF InPlace, Listed
    <3> QED
      BY <3>1
  <2> QED
    BY <2>6, <2>7, <2>8, <2>9
<1>11. figures.risk.note = Number(Q, LAMBDA row : row.actionable /\ row.status = "new")
  <2> DEFINE P == {i \in 1 .. n : events[i].status = "open"}
             A == {k \in DOMAIN Q : Q[k].actionable /\ Q[k].status = "new"}
  <2>1. figures.risk.note = Cardinality(P)
    BY <1>4, <1>5 DEF Kpis, Figure, Summary, Number
  <2>2. \A x \in Statuses : x \in Reviewable => (QueueWords[x] = "new" <=> x = "open")
    BY DEF QueueWords, QueueStatus, EventStatus, Reviewable, Statuses, ReviewActions
  <2>3. \A k : k \in A <=> k \in 1 .. N /\ Q[k].actionable /\ Q[k].of \in P
    <3> SUFFICES ASSUME NEW k \in 1 .. N, Q[k].actionable
                 PROVE  Q[k].status = "new" <=> Q[k].of \in P
      BY <1>8
    <3>1. /\ Q[k].of \in 1 .. n /\ events[Q[k].of].status \in Reviewable
          /\ Q[k].status = QueueWords[events[Q[k].of].status]
      BY <1>7 DEF QueueOf
    <3> QED
      BY <1>5, <2>2, <3>1
  <2>4. P \in SUBSET (1 .. n) /\ \A i \in P : events[i].status \in Reviewable
    BY DEF Reviewable
  <2>5. Number(Q, LAMBDA row : row.actionable /\ row.status = "new") = Cardinality(A)
    BY DEF Number
  <2> HIDE DEF A, P
  <2>6. Cardinality(A) = Cardinality(P)
    <3>1. events \in Seq(EventType)
      BY <1>5
    <3>2. P \in SUBSET (1 .. Len(events))
      BY <2>4
    <3>3. \A i \in P : events[i].status \in Reviewable
      BY <2>4
    <3> HIDE DEF n
    <3> QED
      BY ONLY <1>7, <2>3, <3>1, <3>2, <3>3, QueueCount
  <2> QED
    BY <2>1, <2>5, <2>6
<1>12. figures.risk.value = Number(rows, LAMBDA row : row.sev \in Urgent)
  <2> DEFINE P == {i \in 1 .. n : events[i].sev \in Urgent}
             A == {k \in DOMAIN rows : rows[k].sev \in Urgent}
  <2>1. \A i \in 1 .. n : Unresolved(events[i])
    BY <1>5, StatusesMap DEF Unresolved
  <2>2. figures.risk.value = Cardinality(P)
    <3> DEFINE R == {i \in DOMAIN events : events[i].sev \in Urgent /\ Unresolved(events[i])}
    <3>1. figures.risk.value = Cardinality(R)
      BY <1>4 DEF Kpis, Figure, Summary, Number
    <3>2. R = P
      BY <1>5, <2>1
    <3> QED
      BY <3>1, <3>2
  <2>3. \A k : k \in A <=> k \in 1 .. n /\ rows[k].id \in P
    <3> SUFFICES ASSUME NEW k \in 1 .. n PROVE rows[k].sev \in Urgent <=> rows[k].id \in P
      BY <1>8
    <3> DEFINE i == rows[k].id
    <3>1. i \in 1 .. n /\ rows[k] = EventRow(events[i])
      BY <1>9
    <3> HIDE DEF i
    <3>2. rows[k].sev = events[i].sev
      BY <3>1 DEF EventRow
    <3>3. rows[k].sev \in Urgent <=> i \in P
      BY <3>1, <3>2
    <3> QED
      BY <3>3 DEF i
  <2>4. P \in SUBSET (1 .. n)
    OBVIOUS
  <2>5. Number(rows, LAMBDA row : row.sev \in Urgent) = Cardinality(A)
    BY DEF Number
  <2> HIDE DEF A, P
  <2>6. Cardinality(A) = Cardinality(P)
    BY <1>5, <1>6, <2>3, <2>4, ListCount
  <2> QED
    BY <2>2, <2>5, <2>6
<1> QED
  BY <1>1, <1>10, <1>11, <1>12

\* When nothing has happened while the dashboard was loaded, list, queue and
\* figures agree on how many events are in review, new and high-risk, for any
\* number of events, any statuses the console and the rules give them, and any
\* devices in the queue.
THEOREM SettledCorrect == Spec => []SettledDashboardAgrees
<1>1. Spec => []Inv
  BY InitInv, StepInv, PTL DEF Spec
<1> QED
  BY <1>1, InvSettledDashboardAgrees, PTL

-----------------------------------------------------------------------------
(* The worst first *)

LEMMA PointsAre == \A e \in EventType : Points(e) \in Nat
<1> SUFFICES ASSUME NEW e \in EventType PROVE Points(e) \in Nat
  OBVIOUS
<1> DEFINE w == Weight[e.sev]
           p == Percent(e.status)
<1>1. w \in Nat /\ p \in Nat
  BY EventIs, WeightsAgree, PercentIs
<1>2. Points(e) = (w * p + 50) \div 100
  BY DEF Points
<1> HIDE DEF w, p
<1>3. w * p \in Nat
  BY <1>1
<1> DEFINE x == w * p
<1>4. x \in Nat /\ Points(e) = (x + 50) \div 100
  BY <1>2, <1>3
<1> HIDE DEF x
<1> QED
  BY <1>4

LEMMA RiskScoreIs ==
  ASSUME NEW at \in Db, NEW emp \in Employee
  PROVE  RiskScore(emp, at.events, at.device) \in Int
<1> DEFINE events == at.events
           own == EventsOf(events, emp)
           f == [i \in own |-> Points(events[i])]
           points == Total(f)
           stalled == \E i \in own : events[i].still /\ Unresolved(events[i])
           still == IF stalled THEN Least(20, 8 + Streak) ELSE 0
           dev == DevicePoints[at.device[emp]]
<1>1. events \in Seq(EventType) /\ at.device[emp] \in DOMAIN DevicePoints
  BY DbIs
<1>2. Len(events) \in Nat /\ DOMAIN events = 1 .. Len(events) /\ \A i \in 1 .. Len(events) : events[i] \in EventType
  BY <1>1, LenProperties, ElementOfSeq
<1>3. RiskScore(emp, at.events, at.device) = Least(100, Least(55, points) + still + dev + OtherPoints[emp])
  BY DEF RiskScore
<1>4. own \in SUBSET (1 .. Len(events))
  BY <1>2 DEF EventsOf
<1>5. IsFiniteSet(own)
  <2>1. IsFiniteSet(1 .. Len(events))
    BY <1>2, FS_Interval
  <2> QED
    BY <1>4, <2>1, FS_Subset
<1> HIDE DEF own
<1>6. DOMAIN f = own /\ \A i \in DOMAIN f : f[i] \in Nat
  BY <1>2, <1>4, PointsAre
<1> HIDE DEF f
<1>7. points \in Nat
  BY <1>5, <1>6, TotalIsNat
<1>8. dev \in Nat /\ OtherPoints[emp] \in Nat /\ Streak \in Nat
  BY <1>1, DevicePointsAre, PeopleAssumption
<1> HIDE DEF stalled
<1>9. still \in Nat
  BY <1>8 DEF Least
<1> HIDE DEF points, still, dev
<1>10. Least(55, points) + still + dev + OtherPoints[emp] \in Int
  BY <1>7, <1>8, <1>9 DEF Least
<1> QED
  BY <1>3, <1>10 DEF Least

\* L has as many rows as s, and each of them is one of s.
LEMMA InOrderIs ==
  ASSUME NEW L, NEW s, NEW n, NEW p, NEW q, NEW r, InOrder(L, s, n, p, q, r)
  PROVE  DOMAIN L = 1 .. n /\ \A k \in 1 .. n : \E i \in 1 .. n : L[k] = s[i]
<1>1. PICK at : OrderedBy(at, n, p, q, r) /\ L = Listed(s, at, n)
  BY DEF InOrder
<1> QED
  BY <1>1 DEF OrderedBy, Listed

\* The scores that the backend sends.
LEMMA RiskScoresAre ==
  ASSUME NEW at \in Db, NEW L, L = RiskScores(at.events, at.device)
  PROVE  /\ Len(Employees) \in Nat /\ DOMAIN L = 1 .. Len(Employees)
         /\ \A k \in 1 .. Len(Employees) : L[k].score \in Int /\ L[k].emp \in Employee
<1> DEFINE n == Len(Employees)
           s == [i \in DOMAIN Employees |->
                   [emp |-> Employees[i], score |-> RiskScore(Employees[i], at.events, at.device)]]
           ahead == [i \in DOMAIN s |-> {k \in DOMAIN s :
             s[k].score > s[i].score \/ (~ (s[i].score > s[k].score) /\ k < i)}]
           p == [i \in 1 .. n |-> s[i].score]
           none == [i \in 1 .. n |-> 0]
<1>1. L = Arranged(s, DOMAIN s, ahead)
  BY DEF RiskScores, Sorted, Each
<1>2. n \in Nat /\ DOMAIN s = 1 .. n /\ \A i \in 1 .. n : s[i].score \in Int /\ s[i].emp \in Employee
  BY EmployeesAre, RiskScoreIs
<1> HIDE DEF s, n
<1>3. p \in [1 .. n -> Int] /\ none \in [1 .. n -> Int]
  BY <1>2
<1>4. \A i, k \in 1 .. n : Higher(p, none, none, k, i) <=> s[k].score > s[i].score
  BY DEF Higher
<1> HIDE DEF p, none
<1>5. AheadByKeys(ahead, n, p, none, none)
  BY <1>2, <1>4 DEF AheadByKeys
<1> HIDE DEF ahead
<1>6. InOrder(Arranged(s, DOMAIN s, ahead), s, n, p, none, none)
  BY <1>2, <1>3, <1>5, SortedByKeys
<1>7. DOMAIN L = 1 .. n /\ \A k \in 1 .. n : \E i \in 1 .. n : L[k] = s[i]
  BY <1>1, <1>6, InOrderIs
<1> QED
  BY <1>2, <1>7 DEF n

\* The rows of the console have levels.
LEMMA RiskRowsAre ==
  ASSUME NEW at \in Db, NEW rows, rows = RiskRows(RiskScores(at.events, at.device))
  PROVE  \E n \in Nat : DOMAIN rows = 1 .. n /\ \A k \in 1 .. n : rows[k].level \in Nat
<1> DEFINE n == Len(Employees)
           items == RiskScores(at.events, at.device)
           s == [i \in DOMAIN items |-> RiskRow(items[i])]
           ahead == [i \in DOMAIN s |-> {k \in DOMAIN s :
             \/ \/ s[k].level > s[i].level
                \/ s[k].level = s[i].level /\ s[k].score > s[i].score
                \/ s[k].level = s[i].level /\ s[k].score = s[i].score /\ s[k].name < s[i].name
             \/ ~ (\/ s[i].level > s[k].level
                   \/ s[i].level = s[k].level /\ s[i].score > s[k].score
                   \/ s[i].level = s[k].level /\ s[i].score = s[k].score /\ s[i].name < s[k].name)
                /\ k < i}]
           p == [i \in 1 .. n |-> s[i].level]
           q == [i \in 1 .. n |-> s[i].score]
           r == [i \in 1 .. n |-> - s[i].name]
<1>1. rows = Arranged(s, DOMAIN s, ahead)
  BY DEF RiskRows, Sorted, Each
<1>2. n \in Nat /\ DOMAIN items = 1 .. n /\ \A k \in 1 .. n : items[k].score \in Int /\ items[k].emp \in Employee
  BY RiskScoresAre
<1> HIDE DEF items, n
<1>3. DOMAIN s = 1 .. n /\ \A i \in 1 .. n : s[i].level \in Nat /\ s[i].score \in Int /\ s[i].name \in Int
  <2>1. \A i \in 1 .. n : s[i].level = RiskLevel(items[i].score) /\ s[i].score = items[i].score /\ s[i].name = NameOf[items[i].emp]
    BY <1>2 DEF RiskRow
  <2>2. DOMAIN s = 1 .. n
    BY <1>2
  <2> HIDE DEF s
  <2>3. ASSUME NEW i \in 1 .. n PROVE s[i].level \in Nat /\ s[i].score \in Int /\ s[i].name \in Int
    <3>1. items[i].score \in Int /\ items[i].emp \in Employee
      BY <1>2
    <3>2. RiskLevel(items[i].score) \in Nat
      BY LevelsAreNumbers
    <3>3. NameOf[items[i].emp] \in Int
      BY <3>1, PeopleAssumption
    <3> QED
      BY <2>1, <3>1, <3>2, <3>3
  <2> QED
    BY <2>2, <2>3
<1> HIDE DEF s
<1>4. p \in [1 .. n -> Int] /\ q \in [1 .. n -> Int] /\ r \in [1 .. n -> Int]
  BY <1>3
<1>5. ASSUME NEW i \in 1 .. n, NEW k \in 1 .. n
      PROVE  Higher(p, q, r, k, i) <=>
               \/ s[k].level > s[i].level
               \/ s[k].level = s[i].level /\ s[k].score > s[i].score
               \/ s[k].level = s[i].level /\ s[k].score = s[i].score /\ s[k].name < s[i].name
  <2>1. r[k] > r[i] <=> s[k].name < s[i].name
    BY <1>3
  <2> HIDE DEF r
  <2> QED
    BY <2>1 DEF Higher
<1> HIDE DEF p, q, r
<1>6. AheadByKeys(ahead, n, p, q, r)
  <2>1. \A i \in 1 .. n : ahead[i] \subseteq 1 .. n
    BY <1>3
  <2>2. ASSUME NEW i \in 1 .. n, NEW k \in 1 .. n
        PROVE  k \in ahead[i] <=> Higher(p, q, r, k, i) \/ (~ Higher(p, q, r, i, k) /\ k < i)
    BY <1>3, <1>5
  <2> QED
    BY <2>1, <2>2 DEF AheadByKeys
<1> HIDE DEF ahead
<1>7. InOrder(Arranged(s, DOMAIN s, ahead), s, n, p, q, r)
  <2>1. n \in Nat /\ DOMAIN s = 1 .. n
    BY <1>2, <1>3
  <2> QED
    BY <1>4, <1>6, <2>1, SortedByKeys
<1>8. DOMAIN rows = 1 .. n /\ \A k \in 1 .. n : \E i \in 1 .. n : rows[k] = s[i]
  BY <1>1, <1>7, InOrderIs
<1> QED
  BY <1>2, <1>3, <1>8

\* A cell of the heatmap has the highest level of the rows with its name.
LEMMA HeatmapIs ==
  ASSUME NEW rows, NEW n \in Nat, DOMAIN rows = 1 .. n, \A k \in 1 .. n : rows[k].level \in Nat,
         NEW m \in DOMAIN rows
  PROVE  rows[m].level <= Heatmap(rows)[rows[m].name].level
<1> DEFINE name == rows[m].name
           S == {k \in 1 .. n : rows[k].name = name}
           p == [k \in 1 .. n |-> rows[k].level]
           q == [k \in 1 .. n |-> k]
           stays(i) == /\ rows[i].name = name
                       /\ \A k \in DOMAIN rows : rows[k].name = name =>
                            rows[k].level < rows[i].level \/ (rows[k].level = rows[i].level /\ k <= i)
           i == CHOOSE i \in DOMAIN rows : stays(i)
<1>1. \E o \in DOMAIN rows : stays(o)
  <2>1. S \in SUBSET (1 .. n) /\ S # {} /\ p \in [1 .. n -> Int] /\ q \in [1 .. n -> Int]
    OBVIOUS
  <2>2. \A k \in 1 .. n : p[k] = rows[k].level /\ q[k] = k
    OBVIOUS
  <2>3. \A k \in DOMAIN rows : k \in S <=> rows[k].name = name
    OBVIOUS
  <2> HIDE DEF S, p, q, name
  <2>4. PICK o : Highest(o, S, p, q)
    BY <2>1, OneIsHighest
  <2>5. o \in S /\ o \in DOMAIN rows /\ \A k \in S : p[k] < p[o] \/ (p[k] = p[o] /\ q[k] <= q[o])
    BY <2>1, <2>4 DEF Highest
  <2>6. ASSUME NEW k \in DOMAIN rows, rows[k].name = name
        PROVE  rows[k].level < rows[o].level \/ (rows[k].level = rows[o].level /\ k <= o)
    BY <2>2, <2>3, <2>5, <2>6
  <2> QED
    BY <2>3, <2>5, <2>6
<1>2. i \in DOMAIN rows /\ stays(i)
  BY <1>1
<1>3. Heatmap(rows)[name] = rows[i]
  BY DEF Heatmap
<1> HIDE DEF i
<1>4. rows[m].level < rows[i].level \/ rows[m].level = rows[i].level
  BY <1>2
<1>5. rows[m].level \in Nat /\ rows[i].level \in Nat
  BY <1>2
<1> QED
  BY <1>3, <1>4, <1>5

\* The employees of the access page: those without access come first.
LEMMA EmployeeAccessIs ==
  ASSUME NEW emps \in Seq(Employee), NEW access, NEW people, people = EmployeeAccess(emps, access),
         NEW i \in DOMAIN people, NEW k \in DOMAIN people, i < k, people[i].mapped
  PROVE  people[k].mapped
<1> DEFINE profiles(emp) == Kept(access, LAMBDA row : Matches(emp, row))
           person(emp) == [emp |-> emp, name |-> NameOf[emp], mapped |-> profiles(emp) # <<>>,
                           modules |-> UNION {profiles(emp)[j].modules : j \in DOMAIN profiles(emp)},
                           actions |-> UNION {profiles(emp)[j].actions : j \in DOMAIN profiles(emp)}]
           n == Len(emps)
           s == Each(emps, person)
           ahead == [j \in DOMAIN s |-> {l \in DOMAIN s :
             \/ \/ ~ s[l].mapped /\ s[j].mapped
                \/ s[l].mapped = s[j].mapped /\ s[l].name < s[j].name
             \/ ~ (\/ ~ s[j].mapped /\ s[l].mapped
                   \/ s[j].mapped = s[l].mapped /\ s[j].name < s[l].name)
                /\ l < j}]
           p == [j \in 1 .. n |-> IF s[j].mapped THEN 0 ELSE 1]
           q == [j \in 1 .. n |-> - s[j].name]
           none == [j \in 1 .. n |-> 0]
<1>1. people = Arranged(s, DOMAIN s, ahead)
  BY DEF EmployeeAccess, Sorted
<1>2. n \in Nat /\ DOMAIN emps = 1 .. n /\ \A j \in 1 .. n : emps[j] \in Employee
  BY LenProperties, ElementOfSeq
<1>3. DOMAIN s = 1 .. n /\ \A j \in 1 .. n : s[j] = person(emps[j])
  BY <1>2 DEF Each
<1> HIDE DEF s, n
<1>4. ASSUME NEW j \in 1 .. n PROVE s[j].name \in Int /\ s[j].mapped \in BOOLEAN
  <2>1. NameOf[emps[j]] \in Int
    BY <1>2, PeopleAssumption
  <2> DEFINE some == profiles(emps[j]) # <<>>
             modules == UNION {profiles(emps[j])[l].modules : l \in DOMAIN profiles(emps[j])}
             actions == UNION {profiles(emps[j])[l].actions : l \in DOMAIN profiles(emps[j])}
  <2>2. s[j] = [emp |-> emps[j], name |-> NameOf[emps[j]], mapped |-> some, modules |-> modules, actions |-> actions]
    BY <1>3
  <2>3. some \in BOOLEAN
    OBVIOUS
  <2> HIDE DEF some, modules, actions
  <2>4. s[j].name = NameOf[emps[j]] /\ s[j].mapped = some
    BY <2>2
  <2> QED
    BY <2>1, <2>3, <2>4, Zenon
<1> HIDE DEF profiles, person
<1>5. p \in [1 .. n -> Int] /\ q \in [1 .. n -> Int] /\ none \in [1 .. n -> Int]
  BY <1>4
<1>6. ASSUME NEW j \in 1 .. n, NEW l \in 1 .. n
      PROVE  Higher(p, q, none, l, j) <=>
               \/ ~ s[l].mapped /\ s[j].mapped
               \/ s[l].mapped = s[j].mapped /\ s[l].name < s[j].name
  <2>1. /\ p[j] = (IF s[j].mapped THEN 0 ELSE 1) /\ p[l] = (IF s[l].mapped THEN 0 ELSE 1)
        /\ q[j] = - s[j].name /\ q[l] = - s[l].name /\ none[j] = 0 /\ none[l] = 0
    OBVIOUS
  <2> HIDE DEF p, q, none
  <2>2. p[l] > p[j] <=> ~ s[l].mapped /\ s[j].mapped
    BY <2>1
  <2>3. p[l] = p[j] <=> s[l].mapped = s[j].mapped
    <3>1. s[l].mapped = s[j].mapped <=> (s[l].mapped <=> s[j].mapped)
      BY <1>4, Zenon
    <3>2. p[l] = p[j] <=> (s[l].mapped <=> s[j].mapped)
      BY <2>1
    <3> QED
      BY <3>1, <3>2, Zenon
  <2>4. q[l] > q[j] <=> s[l].name < s[j].name
    BY <1>4, <2>1
  <2>5. ~ (none[l] > none[j])
    BY <2>1
  <2> QED
    BY <2>2, <2>3, <2>4, <2>5, Zenon DEF Higher
<1>7. \A j \in 1 .. n : p[j] = IF s[j].mapped THEN 0 ELSE 1
  OBVIOUS
<1> HIDE DEF p, q, none
<1>8. AheadByKeys(ahead, n, p, q, none)
  <2>1. \A j \in 1 .. n : ahead[j] \subseteq 1 .. n
    BY <1>3
  <2>2. ASSUME NEW j \in 1 .. n, NEW l \in 1 .. n
        PROVE  l \in ahead[j] <=> Higher(p, q, none, l, j) \/ (~ Higher(p, q, none, j, l) /\ l < j)
    BY <1>3, <1>6
  <2> QED
    BY <2>1, <2>2 DEF AheadByKeys
<1> HIDE DEF ahead
<1>9. InOrder(Arranged(s, DOMAIN s, ahead), s, n, p, q, none)
  <2>1. n \in Nat /\ DOMAIN s = 1 .. n
    BY <1>2, <1>3
  <2> QED
    BY <1>5, <1>8, <2>1, SortedByKeys
<1>10. PICK at : OrderedBy(at, n, p, q, none) /\ people = Listed(s, at, n)
  BY <1>1, <1>9 DEF InOrder
<1>11. /\ i \in 1 .. n /\ k \in 1 .. n /\ people[i] = s[at[i]] /\ people[k] = s[at[k]]
       /\ at[i] \in 1 .. n /\ at[k] \in 1 .. n
  BY <1>10 DEF OrderedBy, Listed
<1>12. ~ Higher(p, q, none, at[k], at[i])
  BY <1>10, <1>11 DEF OrderedBy
<1>13. ~ (~ s[at[k]].mapped /\ s[at[i]].mapped)
  BY <1>6, <1>11, <1>12
<1> QED
  BY <1>11, <1>13

LEMMA InvWorstShownFirst == Inv => WorstShownFirst
<1> SUFFICES ASSUME Inv PROVE WorstShownFirst
  OBVIOUS
<1> DEFINE Q == RowsOf("queue")
           scores == RowsOf("risk")
<1>1. ASSUME Opened("dashboard"), NEW i \in DOMAIN Pending(Q), NEW k \in DOMAIN Pending(Q), i < k
      PROVE  SeverityWeight[Pending(Q)[i].sev] >= SeverityWeight[Pending(Q)[k].sev]
  <2>1. \E N \in Nat : DOMAIN Q = 1 .. N /\
          \A l, m \in 1 .. N : Q[l].actionable /\ Q[m].actionable /\ l < m =>
            SeverityWeight[Q[l].sev] >= SeverityWeight[Q[m].sev]
    <3>1. CASE ~ Live("queue")
      <4>1. Q = <<>> /\ DOMAIN <<>> = 1 .. 0 /\ \A x : x \notin 1 .. 0
        BY <3>1, NoAnswerIs
      <4> HIDE DEF Q
      <4> QED
        BY <4>1
    <3>2. CASE Live("queue")
      <4>1. "queue" \in DOMAIN answers
        BY <1>1, DashboardAnswered
      <4>2. PICK q \in answers["queue"] : q \in Db /\ Q = QueueRows(ReviewQueue(q.events, q.device))
        BY <3>2, <4>1, AnswerIs, LiveDataIs
      <4> HIDE DEF Q
      <4>3. PICK N : /\ QueueOf(Q, N, q.events, QueueWords)
                     /\ \A l, m \in 1 .. N : l < m => ~ QueueBefore(Q[m], Q[l])
        BY <4>2, DbIs, QueueRowsAre
      <4>4. ASSUME NEW l \in 1 .. N, Q[l].actionable
            PROVE  /\ Q[l].sev \in Sev /\ Q[l].age \in Int
                   /\ StatusWeight(Q[l].status) \in {15, 20}
        <5> DEFINE x == q.events[Q[l].of].status
        <5>1. /\ Q[l].sev \in Sev /\ Q[l].age \in Int
              /\ Q[l].of \in 1 .. Len(q.events) /\ x \in Reviewable /\ Q[l].status = QueueWords[x]
          BY <4>3, <4>4 DEF QueueOf
        <5>2. x \in Statuses
          BY <4>2, <5>1, DbIs, LenProperties, ElementOfSeq, EventIs
        <5> HIDE DEF x
        <5>3. x \in {"open", "reviewing"} /\ "reviewing" \in ReviewActions
          BY <5>1, <5>2, StatusesMap DEF ReviewActions
        <5>4. Q[l].status \in {"new", "reviewing"}
          BY <5>1, <5>2, <5>3, StatusesMap DEF QueueWords
        <5> QED
          BY <5>1, <5>4 DEF StatusWeight
      <4>5. ASSUME NEW l \in 1 .. N, NEW m \in 1 .. N, Q[l].actionable, Q[m].actionable, l < m
            PROVE  SeverityWeight[Q[l].sev] >= SeverityWeight[Q[m].sev]
        <5> DEFINE u == SeverityWeight[Q[l].sev]
                   v == SeverityWeight[Q[m].sev]
                   y == StatusWeight(Q[l].status)
                   z == StatusWeight(Q[m].status)
        <5>1. u \in Nat /\ v \in Nat /\ (u < v => u + 10 <= v)
          BY <4>4, <4>5, WeightsAgree
        <5>2. y \in {15, 20} /\ z \in {15, 20}
          BY <4>4, <4>5
        <5>3. ~ (v + z > u + y)
          BY <4>3, <4>5 DEF QueueBefore
        <5> HIDE DEF u, v, y, z
        <5>4. u >= v
          BY <5>1, <5>2, <5>3
        <5> QED
          BY <5>4 DEF u, v
      <4> QED
        BY <4>3, <4>5 DEF QueueOf
    <3> QED
      BY <3>1, <3>2
  <2> HIDE DEF Q
  <2>2. PICK N \in Nat : DOMAIN Q = 1 .. N /\
          \A l, m \in 1 .. N : Q[l].actionable /\ Q[m].actionable /\ l < m =>
            SeverityWeight[Q[l].sev] >= SeverityWeight[Q[m].sev]
    BY <2>1
  <2>3. PICK kept \in SUBSET (1 .. N) :
          /\ \A l : l \in kept <=> l \in 1 .. N /\ Q[l].actionable
          /\ InPlace(Pending(Q), Q, kept)
    BY <2>2, PendingIs
  <2>4. PICK at \in [1 .. Cardinality(kept) -> kept] :
          /\ \A l, m \in 1 .. Cardinality(kept) : l < m => at[l] < at[m]
          /\ Pending(Q) = Listed(Q, at, Cardinality(kept))
    BY <2>3 DEF InPlace
  <2>5. i \in 1 .. Cardinality(kept) /\ k \in 1 .. Cardinality(kept) /\ Pending(Q)[i] = Q[at[i]] /\ Pending(Q)[k] = Q[at[k]]
    BY <1>1, <2>4 DEF Listed
  <2>6. at[i] \in kept /\ at[k] \in kept /\ at[i] < at[k]
    BY <1>1, <2>4, <2>5
  <2> QED
    BY <2>2, <2>3, <2>5, <2>6
<1>2. ASSUME Opened("dashboard"), NEW i \in DOMAIN scores
      PROVE  scores[i].level <= Heatmap(scores)[scores[i].name].level
  <2>1. Live("risk")
    BY <1>2, NoAnswerIs
  <2>2. "risk" \in DOMAIN answers
    BY <1>2, DashboardAnswered
  <2>3. PICK at \in answers["risk"] : at \in Db /\ scores = RiskRows(RiskScores(at.events, at.device))
    BY <2>1, <2>2, AnswerIs, LiveDataIs
  <2> HIDE DEF scores
  <2>4. PICK n \in Nat : DOMAIN scores = 1 .. n /\ \A k \in 1 .. n : scores[k].level \in Nat
    BY <2>3, RiskRowsAre
  <2> QED
    BY <1>2, <2>4, HeatmapIs
<1>3. ASSUME Opened("access"), NEW i \in DOMAIN AccessPage.people, NEW k \in DOMAIN AccessPage.people,
             i < k, AccessPage.people[i].mapped
      PROVE  AccessPage.people[k].mapped
  <2> DEFINE emps == RowsOf("employees")
             access == RowsOf("access")
             people == EmployeeAccess(emps, access)
  <2>1. AccessPage.people = people
    BY DEF AccessPage
  <2>2. emps \in Seq(Employee)
    <3>1. CASE Live("employees")
      <4>1. emps = Employees
        BY <3>1, LiveDataIs DEF RowsOf
      <4> QED
        BY <4>1, PeopleAssumption
    <3>2. CASE ~ Live("employees")
      <4>1. emps = <<>>
        BY <3>2, NoAnswerIs
      <4>2. <<>> \in Seq(Employee)
        OBVIOUS
      <4> QED
        BY <4>1, <4>2, Zenon
    <3> QED
      BY <3>1, <3>2
  <2> HIDE DEF emps, access
  <2>3. people = EmployeeAccess(emps, access)
    OBVIOUS
  <2> HIDE DEF people
  <2> QED
    BY <1>3, <2>1, <2>2, <2>3, EmployeeAccessIs
<1> QED
  BY <1>1, <1>2, <1>3, DashboardIs DEF WorstShownFirst

\* Nothing that is graver is put behind on the dashboard and on the access page,
\* for any number of events and employees, whatever their ages, scores and
\* names: the weights of the severities are further apart than those of the
\* statuses under review.
THEOREM WorstCorrect == Spec => []WorstShownFirst
<1>1. Spec => []Inv
  BY InitInv, StepInv, PTL DEF Spec
<1> QED
  BY <1>1, InvWorstShownFirst, PTL

-----------------------------------------------------------------------------
(* Frames *)

\* What is known of a row of the timeline.
FrameShown(row, f) ==
  /\ row.at = f.at /\ row.keys = f.keys /\ row.abnormal = f.abnormal
  /\ row.count \in Nat /\ DOMAIN row.risks = 1 .. row.count
  /\ \A k \in 1 .. row.count : row.risks[k].sev \in Sev
  /\ row.still <=> \E k \in 1 .. row.count : row.risks[k].still
  /\ row.effective => row.level \in {"minor", "major"}
  /\ row.level = "major" => row.effective

\* The level and the verdict on a comparison do not contradict each other.
LEMMA ComparisonIs ==
  ASSUME NEW f \in FrameType, NEW events
  PROVE  LET item == TimelineItem(f, events) IN
           /\ item.effective => item.level \in {"minor", "major"}
           /\ item.level = "major" => item.effective
<1> DEFINE item == TimelineItem(f, events)
           level == IF f.diff = {} THEN "unknown" ELSE CHOOSE l \in {Level(d.h, d.s, d.b) : d \in f.diff} : TRUE
           effective == \E d \in f.diff : IsEffective(d.h, d.s, d.b)
<1>1. item.level = level
  BY DEF TimelineItem
<1>2. item.effective = effective
  BY DEF TimelineItem
<1>3. f.diff \in Diffs
  BY FrameIs
<1>4. CASE f.diff = {}
  <2>1. level = "unknown" /\ ~ effective
    BY <1>4
  <2> QED
    BY <1>1, <1>2, <2>1
<1>5. ASSUME NEW d \in Signals, f.diff = {d}
      PROVE  /\ item.effective => item.level \in {"minor", "major"}
             /\ item.level = "major" => item.effective
  <2>1. d.h \in Int /\ d.s \in Int /\ d.b \in Int
    BY InputsAssumption
  <2>2. level = Level(d.h, d.s, d.b) /\ (effective <=> IsEffective(d.h, d.s, d.b))
    <3>1. {Level(e.h, e.s, e.b) : e \in f.diff} = {Level(d.h, d.s, d.b)}
      BY <1>5
    <3>2. (CHOOSE l \in {Level(d.h, d.s, d.b)} : TRUE) = Level(d.h, d.s, d.b)
      OBVIOUS
    <3> QED
      BY <1>5, <3>1, <3>2
  <2>3. Level(d.h, d.s, d.b) \in {"unknown", "none", "minor", "major"}
    BY DEF Level
  <2>4. Level(d.h, d.s, d.b) = "major" => IsEffective(d.h, d.s, d.b)
    BY DEF IsEffective
  <2>5. IsEffective(d.h, d.s, d.b) => Level(d.h, d.s, d.b) # "unknown"
    BY DEF IsEffective
  <2>6. IsEffective(d.h, d.s, d.b) => Level(d.h, d.s, d.b) # "none"
    BY <2>1, QuietIsIneffective
  <2> QED
    BY <1>1, <1>2, <2>2, <2>3, <2>4, <2>5, <2>6
<1> QED
  BY <1>3, <1>4, <1>5 DEF Diffs

LEMMA FrameRowIs ==
  ASSUME NEW f \in FrameType, NEW events \in Seq(EventType)
  PROVE  FrameShown(FrameRow(TimelineItem(f, events)), f)
<1> DEFINE item == TimelineItem(f, events)
           row == FrameRow(item)
           risks == Kept(events, LAMBDA e : Concerns(e, f))
           linked == Each(risks, LinkedRisk)
<1>1. /\ item.at = f.at /\ item.keys = f.keys /\ item.abnormal = f.abnormal /\ item.risks = risks
  BY DEF TimelineItem
<1>2. /\ item.effective => item.level \in {"minor", "major"}
      /\ item.level = "major" => item.effective
  BY ComparisonIs
<1>3. /\ Len(risks) \in Nat /\ DOMAIN risks = 1 .. Len(risks)
      /\ \A k \in 1 .. Len(risks) : risks[k] \in EventType
  <2> DEFINE kept == {i \in DOMAIN events : Concerns(events[i], f)}
             ahead == [i \in kept |-> {k \in kept : k < i}]
             list == Arranged(events, kept, ahead)
  <2>1. risks = list
    BY DEF Kept
  <2>2. kept \in SUBSET DOMAIN events
    OBVIOUS
  <2> HIDE DEF kept
  <2>3. list \in Seq(EventType)
    BY <2>2, KeptIsList
  <2> HIDE DEF list
  <2>4. Len(list) \in Nat /\ DOMAIN list = 1 .. Len(list) /\ \A k \in 1 .. Len(list) : list[k] \in EventType
    BY <2>3, LenProperties, ElementOfSeq
  <2> QED
    BY <2>1, <2>4
<1> HIDE DEF item, risks
<1>4. DOMAIN linked = 1 .. Len(risks) /\ Len(linked) = Len(risks)
  BY <1>3 DEF Each
<1>5. \A k \in 1 .. Len(risks) : linked[k].sev \in Sev
  <2> SUFFICES ASSUME NEW k \in 1 .. Len(risks) PROVE linked[k].sev \in Sev
    OBVIOUS
  <2>1. linked[k].sev = risks[k].sev
    BY <1>3 DEF Each, LinkedRisk
  <2> QED
    BY <1>3, <2>1, EventIs
<1> HIDE DEF linked
<1>6. row = [id |-> item.id, emp |-> item.emp, at |-> item.at, activity |-> item.activity,
             abnormal |-> item.abnormal, keys |-> item.keys, analysis |-> item.analysis,
             level |-> item.level, effective |-> item.effective,
             risks |-> linked, count |-> Len(linked),
             still |-> \E i \in DOMAIN linked : linked[i].still]
  BY <1>1 DEF FrameRow, linked
<1>7. row.at = f.at /\ row.keys = f.keys /\ row.abnormal = f.abnormal
  BY <1>1, <1>6
<1>8. row.risks = linked /\ row.count = Len(risks) /\ row.level = item.level
  BY <1>4, <1>6
<1>9. row.still <=> \E k \in 1 .. Len(risks) : linked[k].still
  BY <1>4, <1>6
<1>10. row.effective <=> item.effective
  BY <1>6
<1> HIDE DEF row
<1>11. FrameShown(row, f)
  BY <1>2, <1>3, <1>4, <1>5, <1>7, <1>8, <1>9, <1>10 DEF FrameShown
<1> QED
  BY <1>11 DEF row, item

\* The severity of a frame is that of its gravest risk.
LEMMA SeverityIs ==
  ASSUME NEW row, NEW f, FrameShown(row, f)
  PROVE  /\ row.count = 0 => HighestSeverity(row) = "none"
         /\ row.count # 0 => HighestSeverity(row) \in Sev
         /\ \A k \in DOMAIN row.risks : Grade(row.risks[k].sev) <= Grade(HighestSeverity(row))
<1> DEFINE n == row.count
           s == row.risks
<1>1. n \in Nat /\ DOMAIN s = 1 .. n /\ \A k \in 1 .. n : s[k].sev \in Sev
  BY DEF FrameShown
<1>2. \A x \in Sev : Grade(x) \in Int
  BY GradesAre, SevIs
<1>3. CASE n = 0
  <2>1. ~ row.still /\ DOMAIN s = {}
    BY <1>1, <1>3 DEF FrameShown
  <2> QED
    BY <1>3, <2>1 DEF HighestSeverity
<1>4. CASE n # 0
  <2> DEFINE ahead == [i \in DOMAIN s |-> {k \in DOMAIN s :
               Grade(s[k].sev) > Grade(s[i].sev) \/ (~ (Grade(s[i].sev) > Grade(s[k].sev)) /\ k < i)}]
             sorted == Arranged(s, DOMAIN s, ahead)
             p == [i \in 1 .. n |-> Grade(s[i].sev)]
             none == [i \in 1 .. n |-> 0]
  <2>1. HighestSeverity(row) = sorted[1].sev
    BY <1>4 DEF HighestSeverity, Sorted
  <2>2. p \in [1 .. n -> Int] /\ none \in [1 .. n -> Int] /\ \A i \in 1 .. n : p[i] = Grade(s[i].sev) /\ p[i] \in Int
    BY <1>1, <1>2
  <2>3. \A i, k \in 1 .. n : Higher(p, none, none, k, i) <=> Grade(s[k].sev) > Grade(s[i].sev)
    BY DEF Higher
  <2> HIDE DEF p, none, n, s
  <2>4. AheadByKeys(ahead, n, p, none, none)
    BY <1>1, <2>3 DEF AheadByKeys
  <2> HIDE DEF ahead
  <2>5. InOrder(sorted, s, n, p, none, none)
    BY <1>1, <2>2, <2>4, SortedByKeys
  <2> HIDE DEF sorted
  <2>6. PICK at : OrderedBy(at, n, p, none, none) /\ sorted = Listed(s, at, n)
    BY <2>5 DEF InOrder
  <2>7. 1 \in 1 .. n
    BY <1>1, <1>4
  <2>8. at[1] \in 1 .. n /\ sorted[1] = s[at[1]]
    BY <2>6, <2>7 DEF OrderedBy, Listed
  <2>9. ASSUME NEW k \in 1 .. n PROVE Grade(s[k].sev) <= Grade(s[at[1]].sev)
    <3>1. PICK m \in 1 .. n : at[m] = k
      BY <2>6 DEF OrderedBy
    <3>2. CASE m = 1
      <4>1. k = at[1] /\ p[k] \in Int /\ p[k] = Grade(s[k].sev)
        BY <2>2, <3>1, <3>2
      <4> QED
        BY <4>1
    <3>3. CASE m # 1
      <4>1. 1 < m
        BY <3>3
      <4>2. ~ Higher(p, none, none, at[m], at[1])
        BY <2>6, <2>7, <4>1 DEF OrderedBy
      <4>3. ~ (Grade(s[k].sev) > Grade(s[at[1]].sev))
        BY <2>3, <2>8, <3>1, <4>2
      <4>4. Grade(s[k].sev) \in Int /\ Grade(s[at[1]].sev) \in Int
        BY <2>2, <2>8
      <4> QED
        BY <4>3, <4>4
    <3> QED
      BY <3>2, <3>3
  <2> QED
    BY <1>1, <1>4, <2>1, <2>8, <2>9 DEF n, s
<1> QED
  BY <1>3, <1>4

\* A list of frames, the latest first.
FrameList(rows, n) ==
  n \in Nat /\ DOMAIN rows = 1 .. n /\ \A i \in 1 .. n : \E f \in FrameType : FrameShown(rows[i], f)

LEMMA RowsAre ==
  ASSUME NEW frames \in Seq(FrameType), NEW events, NEW rows, rows = Rows(frames, events)
  PROVE  /\ Len(frames) \in Nat /\ DOMAIN rows = 1 .. Len(frames)
         /\ rows = [i \in 1 .. Len(frames) |-> FrameRow(TimelineItem(frames[Len(frames) + 1 - i], events))]
         /\ \A i \in 1 .. Len(frames) : Len(frames) + 1 - i \in 1 .. Len(frames) /\ frames[i] \in FrameType
<1> DEFINE n == Len(frames)
<1>1. n \in Nat /\ \A i \in 1 .. n : n + 1 - i \in 1 .. n /\ frames[i] \in FrameType
  BY LenProperties, ElementOfSeq
<1>2. DOMAIN Reverse(frames) = 1 .. n /\ \A i \in 1 .. n : Reverse(frames)[i] = frames[n + 1 - i]
  BY Reversed, LenProperties
<1>3. rows = [i \in DOMAIN Reverse(frames) |-> FrameRow(TimelineItem(Reverse(frames)[i], events))]
  BY DEF Rows, Each
<1>4. rows = [i \in 1 .. n |-> FrameRow(TimelineItem(frames[n + 1 - i], events))]
  BY <1>2, <1>3
<1> QED
  BY <1>1, <1>4

\* What the pages say of one frame.
LEMMA OneFrame ==
  ASSUME NEW row, NEW f, FrameShown(row, f)
  PROVE  /\ \A k \in DOMAIN row.risks : Grade(row.risks[k].sev) <= Grade(GalleryCard(row).severity)
         /\ row.effective => LevelWord(row.level) >= 1
         /\ row.level = "major" => Entry(row).tags[2] = "effective"
         /\ SegmentStatus(row) = "risk" <=> HighestSeverity(row) # "none"
         /\ row.still => Entry(row).summary # {}
         /\ HighestSeverity(row) \in Urgent => Abnormal(row)
<1>1. row.count \in Nat /\ DOMAIN row.risks = 1 .. row.count
  BY DEF FrameShown
<1>2. GalleryCard(row).severity = HighestSeverity(row)
  BY DEF GalleryCard
<1>3. row.count = 0 <=> HighestSeverity(row) = "none"
  BY SeverityIs, SevIs
<1>4. row.effective => LevelWord(row.level) >= 1
  BY DEF FrameShown, LevelWord
<1>5. ASSUME row.level = "major" PROVE Entry(row).tags[2] = "effective"
  <2>1. row.effective
    BY <1>5 DEF FrameShown
  <2> QED
    BY <2>1 DEF Entry, ChangeTags
<1>6. SegmentStatus(row) = "risk" <=> row.count > 0
  BY DEF SegmentStatus
<1>7. ASSUME row.still PROVE Entry(row).summary # {}
  <2>1. \E k \in DOMAIN row.risks : TRUE
    BY <1>1, <1>7 DEF FrameShown
  <2> QED
    BY <2>1 DEF Entry, RiskSummary
<1>8. HighestSeverity(row) \in Urgent => Abnormal(row)
  <2>1. HighestSeverity(row) \in Urgent => row.count # 0
    BY <1>3 DEF Urgent
  <2> QED
    BY <1>1, <2>1 DEF Abnormal
<1> QED
  BY <1>1, <1>2, <1>3, <1>4, <1>5, <1>6, <1>7, <1>8, SeverityIs

\* Captures are not more than screens.
LEMMA FiguresAgree ==
  ASSUME NEW rows, NEW n, FrameList(rows, n)
  PROVE  /\ GallerySummary(rows).high <= GallerySummary(rows).abnormal
         /\ TimelineKpis(rows).input <= TimelineSummary(rows).input
         /\ TimelineKpis(rows).effective <= TimelineSummary(rows).effective
<1>1. n \in Nat /\ DOMAIN rows = 1 .. n
  BY DEF FrameList
<1>2. IsFiniteSet(1 .. n)
  BY <1>1, FS_Interval
<1>3. ASSUME NEW i \in 1 .. n PROVE rows[i].keys \in Nat
  BY FrameIs DEF FrameList, FrameShown
<1>4. GallerySummary(rows).high <= GallerySummary(rows).abnormal
  <2> DEFINE high == {i \in DOMAIN rows : HighestSeverity(rows[i]) \in Urgent}
             abnormal == {i \in DOMAIN rows : Abnormal(rows[i])}
  <2>1. GallerySummary(rows).high = Cardinality(high) /\ GallerySummary(rows).abnormal = Cardinality(abnormal)
    BY DEF GallerySummary, Number
  <2>2. high \subseteq abnormal
    BY <1>1, OneFrame DEF FrameList
  <2>3. abnormal \in SUBSET (1 .. n)
    BY <1>1
  <2> HIDE DEF high, abnormal
  <2>4. IsFiniteSet(abnormal)
    BY <1>2, <2>3, FS_Subset
  <2>5. Cardinality(high) <= Cardinality(abnormal)
    BY <2>2, <2>4, FS_Subset
  <2> QED
    BY <2>1, <2>5
<1> DEFINE captures == {rows[i].at : i \in DOMAIN rows}
           of(at) == {i \in DOMAIN rows : rows[i].at = at}
<1>5. TimelineKpis(rows).effective <= TimelineSummary(rows).effective
  <2> DEFINE A == {at \in captures : \E i \in of(at) : rows[i].effective}
             B == {i \in DOMAIN rows : rows[i].effective}
             f == [at \in A |-> CHOOSE i \in of(at) : rows[i].effective]
  <2>1. TimelineKpis(rows).effective = Cardinality(A) /\ TimelineSummary(rows).effective = Cardinality(B)
    BY DEF TimelineKpis, TimelineSummary, Number
  <2>2. ASSUME NEW at \in A PROVE f[at] \in of(at) /\ rows[f[at]].effective
    OBVIOUS
  <2>3. f \in [A -> B] /\ \A at \in A : rows[f[at]].at = at
    BY <2>2
  <2>4. IsFiniteSet(B)
    <3>1. B \in SUBSET (1 .. n)
      BY <1>1
    <3> HIDE DEF B
    <3> QED
      BY <1>2, <3>1, FS_Subset
  <2> HIDE DEF A, B, f
  <2>5. Cardinality(A) <= Cardinality(B)
    BY <2>3, <2>4, AtMostAsMany
  <2> QED
    BY <2>1, <2>5
<1>6. TimelineKpis(rows).input <= TimelineSummary(rows).input
  <2> DEFINE to == [at \in captures |-> CHOOSE i \in of(at) : \A k \in of(at) : rows[k].keys <= rows[i].keys]
             f == [at \in captures |->
                     rows[CHOOSE i \in of(at) : \A k \in of(at) : rows[k].keys <= rows[i].keys].keys]
             g == [i \in DOMAIN rows |-> rows[i].keys]
  <2>1. TimelineKpis(rows).input = Total(f) /\ TimelineSummary(rows).input = Total(g)
    BY DEF TimelineKpis, TimelineSummary
  <2>2. ASSUME NEW at \in captures PROVE \E i \in of(at) : \A k \in of(at) : rows[k].keys <= rows[i].keys
    <3> DEFINE S == of(at)
               p == [i \in 1 .. n |-> rows[i].keys]
    <3>1. S \in SUBSET (1 .. n) /\ S # {} /\ p \in [1 .. n -> Int] /\ \A i \in 1 .. n : p[i] = rows[i].keys
      BY <1>1, <1>3
    <3> HIDE DEF S, p
    <3>2. PICK i : Highest(i, S, p, p)
      BY <1>1, <3>1, OneIsHighest
    <3>3. i \in S /\ \A k \in S : rows[k].keys <= rows[i].keys
      BY <1>3, <3>1, <3>2 DEF Highest
    <3> QED
      BY <3>3 DEF S
  <2>3. ASSUME NEW at \in captures PROVE to[at] \in of(at) /\ f[at] = rows[to[at]].keys
    <3> DEFINE i == CHOOSE i \in of(at) : \A k \in of(at) : rows[k].keys <= rows[i].keys
    <3>1. i \in of(at)
      BY <2>2
    <3>2. to[at] = i /\ f[at] = rows[i].keys
      OBVIOUS
    <3> HIDE DEF i
    <3> QED
      BY <3>1, <3>2
  <2>4. to \in [captures -> 1 .. n] /\ \A at \in captures : rows[to[at]].at = at /\ f[at] = rows[to[at]].keys
    BY <1>1, <2>3
  <2>5. DOMAIN f = captures /\ DOMAIN g = 1 .. n /\ \A i \in 1 .. n : g[i] = rows[i].keys
    BY <1>1
  <2> HIDE DEF captures, to, f, g
  <2>6. \A at, too \in captures : to[at] = to[too] => at = too
    BY <2>4
  <2>7. IsFiniteSet(captures)
    BY <1>2, <2>4, <2>6, AtMostAsMany
  <2>8. \A at \in captures : f[at] \in Nat /\ f[at] <= g[to[at]]
    BY <1>3, <2>4, <2>5
  <2>9. \A i \in DOMAIN g : g[i] \in Nat
    BY <1>3, <2>5
  <2>10. IsFiniteSet(DOMAIN f) /\ (\A at \in DOMAIN f : f[at] \in Nat) /\ IsFiniteSet(DOMAIN g) /\ to \in [DOMAIN f -> DOMAIN g]
    BY <1>2, <2>4, <2>5, <2>7, <2>8
  <2>11. (\A at, too \in DOMAIN f : to[at] = to[too] => at = too) /\ \A at \in DOMAIN f : f[at] <= g[to[at]]
    BY <2>5, <2>6, <2>8
  <2>12. Total(f) <= Total(g)
    BY <2>9, <2>10, <2>11, SmallerTotal
  <2> QED
    BY <2>1, <2>12
<1> QED
  BY <1>4, <1>5, <1>6

LEMMA TimelineAnswered ==
  ASSUME Inv, Opened("timeline")
  PROVE  "timeline" \in DOMAIN answers /\ "anomalies" \in DOMAIN answers
<1>1. 1 \in DOMAIN Stages("timeline") /\ Stages("timeline")[1] = {"timeline", "anomalies"}
  BY StagesAre
<1>2. "timeline" \in Page
  BY DEF Page
<1> QED
  BY <1>1, <1>2, AllAnswered

\* Filtering the frames and showing them, or the other way round: the two lists
\* are the same, as the answer and the filter keep the order.
LEMMA AnomaliesAre ==
  ASSUME NEW frames \in Seq(FrameType), NEW events \in Seq(EventType),
         NEW rows, rows = Rows(frames, events),
         NEW anomalies, anomalies = Rows(Kept(frames, LAMBDA f : f.abnormal), events)
  PROVE  anomalies = Kept(rows, LAMBDA row : row.abnormal)
<1> DEFINE n == Len(frames)
           row(f) == FrameRow(TimelineItem(f, events))
           kept == {i \in DOMAIN frames : frames[i].abnormal}
           ahead == [i \in kept |-> {k \in kept : k < i}]
           list == Arranged(frames, kept, ahead)
           c == Cardinality(kept)
           shown == {i \in DOMAIN rows : rows[i].abnormal}
           before == [i \in shown |-> {k \in shown : k < i}]
<1>1. /\ n \in Nat /\ DOMAIN frames = 1 .. n /\ DOMAIN rows = 1 .. n
      /\ \A i \in 1 .. n : n + 1 - i \in 1 .. n /\ frames[i] \in FrameType /\ rows[i] = row(frames[n + 1 - i])
  <2>1. DOMAIN frames = 1 .. n
    BY LenProperties
  <2> QED
    BY <2>1, RowsAre
<1>2. anomalies = Rows(list, events)
  BY DEF Kept
<1>3. Kept(rows, LAMBDA r : r.abnormal) = Arranged(rows, shown, before)
  BY DEF Kept
<1>4. kept \in SUBSET (1 .. n) /\ \A i \in 1 .. n : i \in kept <=> frames[i].abnormal
  BY <1>1
<1>5. \A i \in 1 .. n : i \in shown <=> n + 1 - i \in kept
  <2> SUFFICES ASSUME NEW i \in 1 .. n PROVE i \in shown <=> n + 1 - i \in kept
    OBVIOUS
  <2> DEFINE f == frames[n + 1 - i]
  <2>1. n + 1 - i \in 1 .. n /\ f \in FrameType /\ rows[i] = row(f)
    BY <1>1
  <2> HIDE DEF f, kept
  <2>2. rows[i].abnormal = f.abnormal
    BY <2>1, FrameRowIs DEF FrameShown
  <2> QED
    BY <1>1, <1>4, <2>1, <2>2 DEF f
<1>6. shown \in SUBSET (1 .. n)
  BY <1>1
<1>7. list \in Seq(FrameType)
  <2>1. kept \in SUBSET DOMAIN frames
    OBVIOUS
  <2> HIDE DEF kept
  <2> QED
    BY <2>1, KeptIsList
<1> HIDE DEF kept
<1>8. InPlace(list, frames, kept)
  BY <1>1, <1>4, KeptBy
<1> HIDE DEF list, shown, row, n
<1>9. c \in Nat
  BY <1>8 DEF InPlace
<1>10. PICK at \in [1 .. c -> kept] :
         /\ \A i \in kept : \E m \in 1 .. c : at[m] = i
         /\ \A l, m \in 1 .. c : l < m => at[l] < at[m]
         /\ list = Listed(frames, at, c)
  BY <1>8 DEF InPlace
<1> HIDE DEF c
<1>11. DOMAIN list = 1 .. c /\ Len(list) = c /\ \A m \in 1 .. c : list[m] = frames[at[m]]
  <2>1. DOMAIN list = 1 .. c /\ \A m \in 1 .. c : list[m] = frames[at[m]]
    BY <1>10 DEF Listed
  <2> QED
    BY <1>7, <1>9, <2>1, LenProperties
<1> DEFINE to == [m \in 1 .. c |-> n + 1 - at[c + 1 - m]]
<1>12. \A m \in 1 .. c : c + 1 - m \in 1 .. c /\ c + 1 - (c + 1 - m) = m
  BY <1>9
<1>13. \A m \in 1 .. c : at[m] \in kept /\ at[m] \in 1 .. n
  BY <1>4, <1>10
<1>14. ASSUME NEW m \in 1 .. c PROVE to[m] \in shown /\ n + 1 - to[m] = at[c + 1 - m]
  <2> DEFINE j == at[c + 1 - m]
  <2>1. j \in kept /\ j \in 1 .. n
    BY <1>12, <1>13
  <2>2. to[m] = n + 1 - j
    OBVIOUS
  <2> HIDE DEF j, to
  <2>3. n + 1 - j \in 1 .. n /\ n + 1 - (n + 1 - j) = j
    BY <1>1, <2>1
  <2>4. to[m] \in 1 .. n /\ n + 1 - to[m] = j
    BY <2>2, <2>3
  <2> QED
    BY <1>5, <2>1, <2>4 DEF j
<1>15. to \in [1 .. c -> shown] /\ \A m \in 1 .. c : to[m] = n + 1 - at[c + 1 - m]
  BY <1>14
<1> HIDE DEF to
<1>16. ASSUME NEW i \in shown PROVE \E m \in 1 .. c : to[m] = i
  <2>1. i \in 1 .. n /\ n + 1 - i \in kept /\ n + 1 - (n + 1 - i) = i
    BY <1>1, <1>5, <1>6
  <2>2. PICK l \in 1 .. c : at[l] = n + 1 - i
    BY <1>10, <2>1
  <2>3. c + 1 - l \in 1 .. c /\ c + 1 - (c + 1 - l) = l
    BY <1>12
  <2>4. to[c + 1 - l] = n + 1 - at[l]
    BY <1>15, <2>3
  <2> QED
    BY <2>1, <2>2, <2>3, <2>4
<1>17. ASSUME NEW l \in 1 .. c, NEW m \in 1 .. c, l < m PROVE to[l] < to[m]
  <2> DEFINE a == c + 1 - l
             b == c + 1 - m
  <2>1. a \in 1 .. c /\ b \in 1 .. c /\ b < a
    BY <1>9, <1>17
  <2>2. to[l] = n + 1 - at[a] /\ to[m] = n + 1 - at[b]
    BY <1>15
  <2> HIDE DEF a, b
  <2>3. at[b] < at[a] /\ at[b] \in 1 .. n /\ at[a] \in 1 .. n
    BY <1>10, <1>13, <2>1
  <2>4. \A x, y \in 1 .. n : y < x => n + 1 - x < n + 1 - y
    BY <1>1
  <2> QED
    BY <2>2, <2>3, <2>4
<1>18. Arranged(rows, shown, before) = Listed(rows, to, c)
  <2>1. before = [i \in shown |-> {k \in shown : k < i}]
    OBVIOUS
  <2> HIDE DEF before
  <2> QED
    BY <1>1, <1>6, <1>9, <1>15, <1>16, <1>17, <2>1, OneOrder
<1>19. anomalies = [m \in 1 .. c |-> row(list[c + 1 - m])]
  <2>1. anomalies = [m \in 1 .. Len(list) |-> FrameRow(TimelineItem(list[Len(list) + 1 - m], events))]
    BY <1>2, <1>7, RowsAre
  <2> QED
    BY <1>11, <2>1 DEF row
<1>20. ASSUME NEW m \in 1 .. c PROVE row(list[c + 1 - m]) = rows[to[m]]
  <2>1. list[c + 1 - m] = frames[at[c + 1 - m]]
    BY <1>11, <1>12
  <2>2. to[m] \in 1 .. n /\ n + 1 - to[m] = at[c + 1 - m]
    BY <1>6, <1>14
  <2>3. rows[to[m]] = row(frames[n + 1 - to[m]])
    BY <1>1, <2>2
  <2> QED
    BY <2>1, <2>2, <2>3
<1>21. anomalies = Listed(rows, to, c)
  BY <1>19, <1>20 DEF Listed
<1> QED
  BY <1>3, <1>18, <1>21

LEMMA InvFramesAgree == Inv => FramesAgree
<1> SUFFICES ASSUME Inv, Opened("timeline") PROVE FramesAgree
  BY DEF FramesAgree
<1> DEFINE rows == RowsOf("timeline")
           anomalies == RowsOf("anomalies")
<1>1. "timeline" \in DOMAIN answers /\ "anomalies" \in DOMAIN answers
  BY TimelineAnswered
<1>2. \E n : FrameList(rows, n)
  <2>1. CASE ~ Live("timeline")
    <3>1. rows = <<>> /\ DOMAIN <<>> = 1 .. 0 /\ \A x : x \notin 1 .. 0
      BY <2>1, NoAnswerIs
    <3> HIDE DEF rows
    <3>2. FrameList(rows, 0)
      BY <3>1 DEF FrameList
    <3> QED
      BY <3>2
  <2>2. CASE Live("timeline")
    <3>1. PICK at \in answers["timeline"] : at \in Db /\ rows = Rows(at.frames, at.events)
      BY <1>1, <2>2, AnswerIs, LiveDataIs
    <3> HIDE DEF rows
    <3> DEFINE n == Len(at.frames)
    <3>2. at.frames \in Seq(FrameType) /\ at.events \in Seq(EventType)
      BY <3>1, DbIs
    <3>3. /\ n \in Nat /\ DOMAIN rows = 1 .. n
          /\ rows = [i \in 1 .. n |-> FrameRow(TimelineItem(at.frames[n + 1 - i], at.events))]
          /\ \A i \in 1 .. n : n + 1 - i \in 1 .. n /\ at.frames[i] \in FrameType
      BY <3>1, <3>2, RowsAre
    <3>4. ASSUME NEW i \in 1 .. n PROVE \E f \in FrameType : FrameShown(rows[i], f)
      <4>1. at.frames[n + 1 - i] \in FrameType
        BY <3>3
      <4>2. rows[i] = FrameRow(TimelineItem(at.frames[n + 1 - i], at.events))
        BY <3>3
      <4> QED
        BY <3>2, <4>1, <4>2, FrameRowIs
    <3>5. FrameList(rows, n)
      BY <3>3, <3>4 DEF FrameList
    <3> QED
      BY <3>5
  <2> QED
    BY <2>1, <2>2
<1>3. ASSUME changes = 0, Live("timeline"), Live("anomalies")
      PROVE  anomalies = Kept(rows, LAMBDA row : row.abnormal)
  <2>1. answers["timeline"] \subseteq {db} /\ answers["anomalies"] \subseteq {db}
    BY <1>1, <1>3 DEF Inv, Snapshots
  <2>2. db \in Db /\ rows = LiveData("timeline", db) /\ anomalies = LiveData("anomalies", db)
    BY <1>1, <1>3, <2>1, AnswerIs
  <2>3. rows = Rows(db.frames, db.events) /\ anomalies = Rows(Kept(db.frames, LAMBDA f : f.abnormal), db.events)
    BY <2>2, LiveDataIs
  <2>4. db.frames \in Seq(FrameType) /\ db.events \in Seq(EventType)
    BY <2>2, DbIs
  <2> HIDE DEF rows, anomalies
  <2> QED
    BY <2>3, <2>4, AnomaliesAre
<1>4. TimelinePage.rows = rows /\ TimelinePage.anomalies = anomalies /\ TimelinePage.summary = TimelineSummary(rows)
  BY DEF TimelinePage
<1> HIDE DEF rows, anomalies
<1>5. PICK n : FrameList(rows, n)
  BY <1>2
<1>6. ASSUME NEW i \in DOMAIN rows
      PROVE  /\ \A k \in DOMAIN rows[i].risks : Grade(rows[i].risks[k].sev) <= Grade(GalleryCard(rows[i]).severity)
             /\ rows[i].effective => LevelWord(rows[i].level) >= 1
             /\ rows[i].level = "major" => Entry(rows[i]).tags[2] = "effective"
             /\ SegmentStatus(rows[i]) = "risk" <=> HighestSeverity(rows[i]) # "none"
             /\ rows[i].still => Entry(rows[i]).summary # {}
  <2>1. PICK f \in FrameType : FrameShown(rows[i], f)
    BY <1>5, <1>6 DEF FrameList
  <2> QED
    BY <2>1, OneFrame
<1>7. /\ GallerySummary(rows).high <= GallerySummary(rows).abnormal
      /\ TimelineKpis(rows).input <= TimelineSummary(rows).input
      /\ TimelineKpis(rows).effective <= TimelineSummary(rows).effective
  BY <1>5, FiguresAgree
<1> QED
  BY <1>3, <1>4, <1>6, <1>7 DEF FramesAgree

\* What timeline, gallery and detail say of a frame is what the backend has
\* found and hangs together, for any frames, signals and events: in particular
\* no change without a level is called effective, and no figure over captures
\* exceeds the one over screens.
THEOREM FramesCorrect == Spec => []FramesAgree
<1>1. Spec => []Inv
  BY InitInv, StepInv, PTL DEF Spec
<1> QED
  BY <1>1, InvFramesAgree, PTL
==============================================================================
