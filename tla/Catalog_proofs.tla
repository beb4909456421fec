---------------------------- MODULE Catalog_proofs ----------------------------
(* Lemmas about what the pages are built from: arrays that are filtered and  *)
(* sorted (Js), and what the build derives from the collection (Catalog).    *)
EXTENDS Catalog, FiniteSetTheorems, FunctionTheorems, SequenceTheorems,
        WellFoundedInduction, TLAPS

-----------------------------------------------------------------------------
(* Sequences and orders.                                                     *)

LEMMA SeqShape ==
    ASSUME NEW s, IsSeq(s)
    PROVE  Len(s) \in Nat /\ DOMAIN s = 1 .. Len(s) /\ IsFiniteSet(DOMAIN s)
  <1>1. Len(s) \in Nat /\ DOMAIN s = 1 .. Len(s)
    BY LenProperties DEF IsSeq
  <1> QED
    BY <1>1, FS_Interval

LEMMA FunctionIsSeq ==
    ASSUME NEW n \in Nat, NEW s, s = [k \in 1 .. n |-> s[k]]
    PROVE  IsSeq(s) /\ Len(s) = n /\ DOMAIN s = 1 .. n
  <1>1. DOMAIN s = 1 .. n
    OBVIOUS
  <1>2. s \in [1 .. n -> Range(s)]
    BY DEF Range
  <1>3. s \in Seq(Range(s))
    BY <1>2, SeqDef
  <1>4. Len(s) \in Nat /\ DOMAIN s = 1 .. Len(s)
    BY <1>3, LenProperties
  <1>5. Len(s) = n
    BY <1>1, <1>4
  <1> QED
    BY <1>1, <1>3, <1>5 DEF IsSeq

\* Two arrays, one behind the other, and an array without its first item.
LEMMA Concatenated ==
    ASSUME NEW s, NEW t, IsSeq(s), IsSeq(t)
    PROVE  IsSeq(s \o t) /\ Range(s \o t) = Range(s) \cup Range(t)
  <1> DEFINE T == Range(s) \cup Range(t)
             u == s \o t
  <1>1. s \in Seq(T) /\ t \in Seq(T)
    <2>1. \A A, B : A \subseteq B => Seq(A) \subseteq Seq(B)
      BY SeqDef
    <2> QED
      BY <2>1 DEF IsSeq
  <1>2. /\ Len(s) \in Nat /\ DOMAIN s = 1 .. Len(s) /\ Len(t) \in Nat /\ DOMAIN t = 1 .. Len(t)
    BY SeqShape
  <1>3. /\ u \in Seq(T) /\ Len(u) = Len(s) + Len(t)
        /\ \A i \in 1 .. Len(s) + Len(t) : u[i] = IF i <= Len(s) THEN s[i] ELSE t[i - Len(s)]
    BY <1>1, ConcatProperties
  <1>4. DOMAIN u = 1 .. Len(s) + Len(t) /\ u = [i \in 1 .. Len(s) + Len(t) |-> u[i]]
    BY <1>3, LenProperties
  <1> HIDE DEF u
  <1>5. IsSeq(u)
    BY <1>2, <1>4, FunctionIsSeq
  <1>6. \A i \in DOMAIN s : i \in DOMAIN u /\ u[i] = s[i]
    BY <1>2, <1>3, <1>4
  <1>7. \A i \in DOMAIN t : Len(s) + i \in DOMAIN u /\ u[Len(s) + i] = t[i]
    BY <1>2, <1>3, <1>4
  <1>8. \A i \in DOMAIN u : u[i] \in T
    BY <1>2, <1>3, <1>4 DEF Range
  <1>9. Range(u) = T
    BY <1>6, <1>7, <1>8 DEF Range
  <1> QED
    BY <1>5, <1>9 DEF u

LEMMA HeadAndTail ==
    ASSUME NEW s, IsSeq(s), s # << >>
    PROVE  IsSeq(Tail(s)) /\ Range(s) = {Head(s)} \cup Range(Tail(s))
  <1>1. /\ Len(s) \in Nat /\ DOMAIN s = 1 .. Len(s) /\ Len(s) # 0 /\ s \in Seq(Range(s))
    BY SeqShape, EmptySeq DEF IsSeq
  <1>2. /\ Tail(s) \in Seq(Range(s)) /\ Len(Tail(s)) = Len(s) - 1 /\ Head(s) = s[1]
        /\ \A i \in 1 .. Len(Tail(s)) : Tail(s)[i] = s[i + 1]
    BY <1>1, HeadTailProperties
  <1>3. DOMAIN Tail(s) = 1 .. Len(s) - 1 /\ Tail(s) = [i \in 1 .. Len(s) - 1 |-> Tail(s)[i]]
    BY <1>1, <1>2, LenProperties
  <1>4. IsSeq(Tail(s))
    <2>1. Len(s) - 1 \in Nat
      BY <1>1
    <2> QED
      BY <1>3, <2>1, FunctionIsSeq
  <1>5. \A i \in DOMAIN s : i = 1 \/ (i - 1 \in DOMAIN Tail(s) /\ Tail(s)[i - 1] = s[i])
    BY <1>1, <1>2, <1>3
  <1>6. \A i \in DOMAIN Tail(s) : i + 1 \in DOMAIN s /\ Tail(s)[i] = s[i + 1]
    BY <1>1, <1>2, <1>3
  <1>7. 1 \in DOMAIN s
    BY <1>1
  <1>8. Range(s) \subseteq {Head(s)} \cup Range(Tail(s))
    BY <1>2, <1>5 DEF Range
  <1>9. {Head(s)} \cup Range(Tail(s)) \subseteq Range(s)
    BY <1>2, <1>6, <1>7 DEF Range
  <1> QED
    BY <1>4, <1>8, <1>9

\* before[x] is what comes before x in a strict order of all of S.
StrictOrder(S, before) ==
    /\ \A x \in S : before[x] \subseteq S /\ x \notin before[x]
    /\ \A x, y \in S : x # y => x \in before[y] \/ y \in before[x]
    /\ \A x, y, z \in S : x \in before[y] /\ y \in before[z] => x \in before[z]

\* A list of all of S, each once, in that order.
Lists(r, S, before) ==
    /\ r \in [1 .. Cardinality(S) -> S] /\ Cardinality(S) \in Nat
    /\ \A x \in S : \E k \in 1 .. Cardinality(S) : r[k] = x
    /\ \A j, k \in 1 .. Cardinality(S) : j < k <=> r[j] \in before[r[k]]
    /\ \A j, k \in 1 .. Cardinality(S) : r[j] = r[k] => j = k

\* By the number of those that come before, a finite set is listed.
LEMMA RankedLists ==
    ASSUME NEW S, IsFiniteSet(S), NEW before, StrictOrder(S, before)
    PROVE  Lists(Ranked(S, before), S, before)
  <1> DEFINE n == Cardinality(S)
             rank == [x \in S |-> Cardinality(before[x])]
             r == Ranked(S, before)
  <1>1. n \in Nat
    BY FS_CardinalityType
  <1>2. \A x \in S : before[x] \subseteq S /\ x \notin before[x] /\ IsFiniteSet(before[x])
    BY FS_Subset DEF StrictOrder
  <1>3. \A x, y \in S : x \in before[y] => before[x] \subseteq before[y]
    BY DEF StrictOrder
  <1>4. \A x \in S : rank[x] \in 0 .. n - 1
    <2> TAKE x \in S
    <2>1. before[x] \subseteq S \ {x}
      BY <1>2
    <2>2. IsFiniteSet(S \ {x}) /\ Cardinality(S \ {x}) = n - 1
      BY FS_RemoveElement
    <2>3. Cardinality(before[x]) \in Nat /\ Cardinality(before[x]) <= n - 1
      BY <1>2, <2>1, <2>2, FS_Subset, FS_CardinalityType
    <2> QED
      BY <1>1, <2>3
  <1>5. \A x, y \in S : x \in before[y] => rank[x] < rank[y]
    <2> SUFFICES ASSUME NEW x \in S, NEW y \in S, x \in before[y] PROVE rank[x] < rank[y]
      OBVIOUS
    <2>1. before[x] \cup {x} \subseteq before[y]
      BY <1>3
    <2>2. IsFiniteSet(before[x] \cup {x}) /\ Cardinality(before[x] \cup {x}) = Cardinality(before[x]) + 1
      BY <1>2, FS_AddElement
    <2>3. Cardinality(before[x] \cup {x}) <= Cardinality(before[y])
      BY <1>2, <2>1, FS_Subset
    <2>4. rank[x] \in Nat /\ rank[y] \in Nat
      BY <1>1, <1>4
    <2> QED
      BY <2>2, <2>3, <2>4
  <1>6. \A x, y \in S : rank[x] = rank[y] => x = y
    <2> SUFFICES ASSUME NEW x \in S, NEW y \in S, x # y PROVE rank[x] # rank[y]
      OBVIOUS
    <2>1. x \in before[y] \/ y \in before[x]
      BY DEF StrictOrder
    <2>2. rank[x] < rank[y] \/ rank[y] < rank[x]
      BY <1>5, <2>1
    <2>3. rank[x] \in Int /\ rank[y] \in Int
      BY <1>1, <1>4
    <2> HIDE DEF rank
    <2> QED
      BY <2>2, <2>3
  <1>7. IsFiniteSet(0 .. n - 1) /\ Cardinality(0 .. n - 1) = n
    BY <1>1, FS_Interval
  <1>8. rank \in Injection(S, 0 .. n - 1)
    BY <1>4, <1>6 DEF Injection, IsInjective
  <1>9. rank \in Surjection(S, 0 .. n - 1)
    BY <1>7, <1>8, FS_Injection
  <1>10. \A k \in 1 .. n : k - 1 \in 0 .. n - 1
    BY <1>1
  <1>11. \A k \in 1 .. n : \E x \in S : rank[x] = k - 1
    BY <1>9, <1>10 DEF Surjection
  <1>12. r = [k \in 1 .. n |-> CHOOSE x \in S : rank[x] = k - 1]
    BY DEF Ranked
  <1> HIDE DEF r, rank
  <1>13. \A k \in 1 .. n : r[k] \in S /\ rank[r[k]] = k - 1
    BY <1>11, <1>12
  <1>14. r \in [1 .. n -> S]
    BY <1>12, <1>13
  <1>15. \A x \in S : \E k \in 1 .. n : r[k] = x
    <2> TAKE x \in S
    <2>1. rank[x] \in Int /\ rank[x] + 1 \in 1 .. n /\ (rank[x] + 1) - 1 = rank[x]
      BY <1>1, <1>4
    <2>2. r[rank[x] + 1] = x
      BY <1>6, <1>13, <2>1
    <2> QED
      BY <2>1, <2>2
  <1>16. \A j, k \in 1 .. n : r[j] = r[k] => j = k
    <2> SUFFICES ASSUME NEW j \in 1 .. n, NEW k \in 1 .. n, r[j] = r[k] PROVE j = k
      OBVIOUS
    <2>1. j - 1 = k - 1
      BY <1>13
    <2> QED
      BY <1>1, <2>1
  <1>17. \A j, k \in 1 .. n : j < k <=> r[j] \in before[r[k]]
    <2> SUFFICES ASSUME NEW j \in 1 .. n, NEW k \in 1 .. n PROVE j < k <=> r[j] \in before[r[k]]
      OBVIOUS
    <2>1. r[j] \in S /\ r[k] \in S /\ rank[r[j]] = j - 1 /\ rank[r[k]] = k - 1 /\ j \in Int /\ k \in Int
      BY <1>1, <1>13
    <2>2. r[j] \in before[r[k]] => j < k
      BY <1>5, <2>1
    <2>3. r[k] \in before[r[j]] => k < j
      BY <1>5, <2>1
    <2>4. j < k => r[j] # r[k]
      BY <1>16, <2>1
    <2>5. r[j] # r[k] => r[j] \in before[r[k]] \/ r[k] \in before[r[j]]
      BY <2>1 DEF StrictOrder
    <2> QED
      BY <2>1, <2>2, <2>3, <2>4, <2>5
  <1> QED
    BY <1>1, <1>14, <1>15, <1>16, <1>17 DEF Lists, r

\* A set of numbers has a least member.
LEMMA LeastIn ==
    ASSUME NEW S, S \subseteq Nat, S # {}
    PROVE  \E x \in S : \A y \in S : x <= y
  <1>1. PICK x \in S : \A y \in S : ~ (<<y, x>> \in OpToRel(<, Nat))
    BY WFMin, NatLessThanWellFounded
  <1>2. \A y \in S : ~ (y < x)
    BY <1>1, Zenon DEF OpToRel
  <1> QED
    BY <1>2

\* There is one list of a set in an order.
LEMMA OneList ==
    ASSUME NEW S, NEW before, NEW r, NEW q, Lists(r, S, before), Lists(q, S, before)
    PROVE  r = q
  <1> DEFINE n == Cardinality(S)
             differ == {k \in 1 .. n : r[k] # q[k]}
  <1>1. n \in Nat /\ r \in [1 .. n -> S] /\ q \in [1 .. n -> S]
    BY DEF Lists
  <1>2. ASSUME differ # {} PROVE FALSE
    <2>0. differ \subseteq Nat
      BY <1>1
    <2>1. PICK k \in differ : \A j \in differ : k <= j
      BY <1>2, <2>0, LeastIn
    <2>2. \A j \in 1 .. n : j < k => r[j] = q[j]
      BY <1>1, <2>1
    <2>3. PICK m \in 1 .. n : q[m] = r[k]
      BY <1>1, <2>1 DEF Lists
    <2>4. PICK i \in 1 .. n : r[i] = q[k]
      BY <1>1, <2>1 DEF Lists
    <2>5. k < m
      <3>1. m # k
        BY <2>1, <2>3
      <3>2. m < k => r[m] = r[k]
        BY <2>2, <2>3
      <3>3. m < k => m = k
        BY <2>1, <3>2 DEF Lists
      <3> QED
        BY <1>1, <2>1, <3>1, <3>3
    <2>6. q[k] \in before[r[k]]
      BY <1>1, <2>1, <2>3, <2>5 DEF Lists
    <2>7. i < k
      BY <2>1, <2>4, <2>6 DEF Lists
    <2>8. q[i] = q[k]
      BY <2>2, <2>4, <2>7
    <2>9. i = k
      BY <2>1, <2>8 DEF Lists
    <2> QED
      BY <1>1, <2>7, <2>9
  <1>3. \A k \in 1 .. n : r[k] = q[k]
    BY <1>2
  <1> QED
    BY <1>1, <1>3

-----------------------------------------------------------------------------
(* Array.filter and Array.sort.                                              *)

\* t has the items of s at the indices at[1], at[2] and so on.
Picks(t, s, at) ==
    /\ IsSeq(t) /\ Len(t) \in Nat /\ DOMAIN t = 1 .. Len(t)
    /\ at \in [1 .. Len(t) -> DOMAIN s]
    /\ \A k \in 1 .. Len(t) : t[k] = s[at[k]]
    /\ \A j, k \in 1 .. Len(t) : at[j] = at[k] => j = k

\* t has the items of s at the indices in I, each once, in their order.
Filtered(t, s, I, at) ==
    /\ Picks(t, s, at) /\ Len(t) = Cardinality(I)
    /\ \A k \in 1 .. Len(t) : at[k] \in I
    /\ \A i \in I : \E k \in 1 .. Len(t) : at[k] = i
    /\ \A j, k \in 1 .. Len(t) : j < k <=> at[j] < at[k]

LEMMA FilterShape ==
    ASSUME NEW s, IsSeq(s), NEW I \in SUBSET (DOMAIN s)
    PROVE  \E at : Filtered(ItemsAt(s, I), s, I, at)
  <1> DEFINE n == Cardinality(I)
             at == Ranked(I, Ascending(I))
             t == ItemsAt(s, I)
  <1>1. Len(s) \in Nat /\ DOMAIN s = 1 .. Len(s) /\ IsFiniteSet(I)
    BY SeqShape, FS_Subset
  <1>2. \A i \in I : i \in Nat
    BY <1>1
  <1>3. StrictOrder(I, Ascending(I))
    BY <1>2 DEF StrictOrder, Ascending
  <1>4. Lists(at, I, Ascending(I))
    BY <1>1, <1>3, RankedLists
  <1> HIDE DEF at
  <1>5. at \in [1 .. n -> I] /\ n \in Nat
    BY <1>4 DEF Lists
  <1>6. t = [k \in 1 .. n |-> s[at[k]]]
    BY <1>5 DEF ItemsAt, at
  <1> HIDE DEF t
  <1>7. IsSeq(t) /\ Len(t) = n /\ DOMAIN t = 1 .. n
    BY <1>5, <1>6, FunctionIsSeq
  <1>8. \A j, k \in 1 .. n : at[j] \in Ascending(I)[at[k]] <=> at[j] < at[k]
    BY <1>5 DEF Ascending
  <1>9. \A j, k \in 1 .. n : j < k <=> at[j] < at[k]
    BY <1>4, <1>8 DEF Lists
  <1>10. Picks(t, s, at)
    BY <1>4, <1>5, <1>6, <1>7 DEF Picks, Lists
  <1>11. \A i \in I : \E k \in 1 .. n : at[k] = i
    BY <1>4 DEF Lists
  <1>12. Filtered(t, s, I, at)
    BY <1>5, <1>7, <1>9, <1>10, <1>11 DEF Filtered
  <1> QED
    BY <1>12 DEF t

\* less is a comparison as Array.sort wants it: what is not less either way is a tie.
Comparison(D, less) ==
    /\ \A i, j \in D : <<i, j>> \in less => <<j, i>> \notin less
    /\ \A i, j, k \in D : <<i, k>> \in less => <<i, j>> \in less \/ <<j, k>> \in less

\* Two numbers, the one before the other, compare.
LEMMA KeysCompare ==
    ASSUME NEW D, NEW Y, NEW N, NEW less, \A k \in D : Y[k] \in Int /\ N[k] \in Int,
           \A i, j \in D : <<i, j>> \in less <=> Y[i] < Y[j] \/ (Y[i] = Y[j] /\ N[i] < N[j])
    PROVE  Comparison(D, less)
  <1>1. ASSUME NEW i \in D, NEW j \in D, <<i, j>> \in less
        PROVE  <<j, i>> \notin less
    BY <1>1
  <1>2. ASSUME NEW i \in D, NEW j \in D, NEW k \in D, <<i, k>> \in less
        PROVE  <<i, j>> \in less \/ <<j, k>> \in less
    BY <1>2
  <1> QED
    BY <1>1, <1>2 DEF Comparison

\* t has all items of s, each once, none behind a greater one, ties in order.
Arranged(t, s, less, at) ==
    /\ Picks(t, s, at) /\ Len(t) = Len(s)
    /\ \A i \in DOMAIN s : \E k \in 1 .. Len(s) : at[k] = i
    /\ \A j, k \in 1 .. Len(s) : j < k =>
         /\ <<at[k], at[j]>> \notin less
         /\ <<at[j], at[k]>> \in less \/ at[j] < at[k]

LEMMA SortShape ==
    ASSUME NEW s, IsSeq(s), NEW less, Comparison(DOMAIN s, less)
    PROVE  \E at : Arranged(SortedBy(s, less), s, less, at)
  <1> DEFINE D == DOMAIN s
             n == Len(s)
             at == Ranked(D, Stably(D, less))
             t == SortedBy(s, less)
  <1>1. n \in Nat /\ D = 1 .. n /\ IsFiniteSet(D) /\ Cardinality(D) = n
    <2>1. n \in Nat /\ D = 1 .. n
      BY SeqShape
    <2> HIDE DEF D, n
    <2> QED
      BY <2>1, FS_Interval
  <1> HIDE DEF D
  <1>2. \A i, j \in D : i \in Stably(D, less)[j] <=> <<i, j>> \in less \/ (<<j, i>> \notin less /\ i < j)
    BY DEF Stably
  <1>3. /\ \A i \in D : ~ (i < i)
        /\ \A i, j \in D : i # j => i < j \/ j < i
        /\ \A i, j, k \in D : i < j /\ j < k => i < k
    <2>1. \A i \in D : i \in Int
      BY <1>1
    <2> QED
      BY <2>1
  <1>4. Comparison(D, less)
    BY DEF D
  <1>5. StrictOrder(D, Stably(D, less))
    <2>1. \A i \in D : Stably(D, less)[i] \subseteq D
      BY DEF Stably
    <2>2. \A i \in D : i \notin Stably(D, less)[i]
      BY <1>2, <1>3, <1>4 DEF Comparison
    <2>3. \A i, j \in D : i # j => i \in Stably(D, less)[j] \/ j \in Stably(D, less)[i]
      BY <1>2, <1>3
    <2>4. ASSUME NEW i \in D, NEW j \in D, NEW k \in D,
                 i \in Stably(D, less)[j], j \in Stably(D, less)[k]
          PROVE  i \in Stably(D, less)[k]
      <3>1. <<j, i>> \notin less /\ <<k, j>> \notin less
        BY <1>2, <1>4, <2>4 DEF Comparison
      <3>2. <<k, i>> \notin less
        BY <1>4, <3>1 DEF Comparison
      <3>3. CASE <<i, j>> \in less
        BY <1>2, <1>4, <3>1, <3>3 DEF Comparison
      <3>4. CASE <<j, k>> \in less
        BY <1>2, <1>4, <3>1, <3>4 DEF Comparison
      <3>5. CASE <<i, j>> \notin less /\ <<j, k>> \notin less
        BY <1>2, <1>3, <2>4, <3>2, <3>5
      <3> QED
        BY <3>3, <3>4, <3>5
    <2> QED
      BY <2>1, <2>2, <2>3, <2>4 DEF StrictOrder
  <1>6. Lists(at, D, Stably(D, less))
    BY <1>1, <1>5, RankedLists
  <1> HIDE DEF at
  <1>7. at \in [1 .. n -> D]
    BY <1>1, <1>6 DEF Lists
  <1>8. t = [k \in 1 .. n |-> s[at[k]]]
    BY <1>7 DEF SortedBy, at, D
  <1> HIDE DEF t
  <1>9. IsSeq(t) /\ Len(t) = n /\ DOMAIN t = 1 .. n
    BY <1>1, <1>8, FunctionIsSeq
  <1>10. Picks(t, s, at)
    BY <1>1, <1>6, <1>7, <1>8, <1>9 DEF Picks, Lists, D
  <1>11. \A i \in D : \E k \in 1 .. n : at[k] = i
    BY <1>1, <1>6 DEF Lists
  <1>12. ASSUME NEW j \in 1 .. n, NEW k \in 1 .. n, j < k
         PROVE  <<at[k], at[j]>> \notin less /\ (<<at[j], at[k]>> \in less \/ at[j] < at[k])
    <2>1. at[j] \in Stably(D, less)[at[k]] /\ at[j] \in D /\ at[k] \in D
      BY <1>1, <1>6, <1>7, <1>12 DEF Lists
    <2> QED
      BY <1>2, <1>4, <2>1 DEF Comparison
  <1>13. Arranged(t, s, less, at)
    BY <1>9, <1>10, <1>11, <1>12 DEF Arranged, D
  <1> QED
    BY <1>13 DEF t

\* A slice from the start.
LEMMA TakeShape ==
    ASSUME NEW s, IsSeq(s), NEW n \in Nat
    PROVE  /\ IsSeq(Take(s, n)) /\ Len(Take(s, n)) = IF Len(s) <= n THEN Len(s) ELSE n
           /\ DOMAIN Take(s, n) = 1 .. Len(Take(s, n))
           /\ \A k \in 1 .. Len(Take(s, n)) : Take(s, n)[k] = s[k]
  <1> DEFINE m == IF Len(s) <= n THEN Len(s) ELSE n
             t == SubSeq(s, 1, m)
  <1>1. Len(s) \in Nat /\ DOMAIN s = 1 .. Len(s)
    BY SeqShape
  <1>2. m \in Nat /\ m <= Len(s)
    BY <1>1
  <1>3. \A i \in 1 .. m : s[i] \in Range(s)
    BY <1>1, <1>2 DEF Range
  <1> HIDE DEF m
  <1>4. t \in Seq(Range(s)) /\ Len(t) = (IF 1 <= m THEN m - 1 + 1 ELSE 0) /\ \A i \in 1 .. m - 1 + 1 : t[i] = s[1 + i - 1]
    BY <1>2, <1>3, SubSeqProperties
  <1>5. Len(t) = m /\ \A i \in 1 .. m : t[i] = s[i]
    BY <1>2, <1>4
  <1>6. DOMAIN t = 1 .. m /\ t = [i \in 1 .. m |-> t[i]]
    BY <1>4, <1>5, LenProperties
  <1>7. IsSeq(t)
    BY <1>2, <1>6, FunctionIsSeq
  <1> QED
    BY <1>5, <1>6, <1>7 DEF Take, m

\* What is left of a list when some of its members go is the list of the others.
LEMMA FilterLists ==
    ASSUME NEW S, NEW before, NEW r, Lists(r, S, before), NEW T \in SUBSET S,
           NEW I, I = {k \in 1 .. Cardinality(S) : r[k] \in T}
    PROVE  /\ Lists(ItemsAt(r, I), T, before) /\ IsSeq(ItemsAt(r, I)) /\ Len(ItemsAt(r, I)) = Cardinality(T)
           /\ IsFiniteSet(T) /\ Cardinality(I) = Cardinality(T)
  <1> DEFINE n == Cardinality(S)
             t == ItemsAt(r, I)
             f == [k \in I |-> r[k]]
  <1>1. n \in Nat /\ r \in [1 .. n -> S] /\ IsSeq(r) /\ DOMAIN r = 1 .. n
    <2>1. n \in Nat /\ r \in [1 .. n -> S]
      BY DEF Lists
    <2>2. r = [k \in 1 .. n |-> r[k]]
      BY <2>1
    <2> HIDE DEF n
    <2> QED
      BY <2>1, <2>2, FunctionIsSeq
  <1>2. IsFiniteSet(I) /\ I \in SUBSET (DOMAIN r)
    <2>1. I \subseteq 1 .. n
      OBVIOUS
    <2>2. IsFiniteSet(1 .. n)
      <3> HIDE DEF n
      <3> QED
        BY <1>1, FS_Interval
    <2> QED
      BY <1>1, <2>1, <2>2, FS_Subset
  <1>3. f \in Surjection(I, T) /\ f \in Injection(I, T)
    <2>1. f \in [I -> T]
      OBVIOUS
    <2>2. \A x \in T : \E k \in I : f[k] = x
      BY DEF Lists
    <2>3. \A j, k \in I : f[j] = f[k] => j = k
      BY DEF Lists
    <2> QED
      BY <2>1, <2>2, <2>3 DEF Surjection, Injection, IsInjective
  <1>4. IsFiniteSet(T) /\ Cardinality(I) = Cardinality(T) /\ Cardinality(T) \in Nat
    <2> HIDE DEF f
    <2> QED
      BY <1>2, <1>3, FS_Surjection, FS_CardinalityType
  <1>5. PICK at : Filtered(t, r, I, at)
    BY <1>1, <1>2, FilterShape
  <1> HIDE DEF t
  <1> DEFINE m == Cardinality(T)
  <1>6. Len(t) = m /\ DOMAIN t = 1 .. m /\ IsSeq(t) /\ \A k \in 1 .. m : t[k] = r[at[k]] /\ at[k] \in I
    BY <1>4, <1>5 DEF Picks, Filtered
  <1>7. t \in [1 .. m -> T]
    <2>1. t = [k \in DOMAIN t |-> t[k]]
      <3>1. t \in [1 .. Len(t) -> Range(t)]
        BY <1>6, LenProperties DEF IsSeq
      <3> QED
        BY <3>1
    <2>2. \A k \in 1 .. m : t[k] \in T
      BY <1>6
    <2> QED
      BY <1>6, <2>1, <2>2
  <1>8. \A x \in T : \E k \in 1 .. m : t[k] = x
    <2> TAKE x \in T
    <2>1. PICK i \in I : r[i] = x
      BY DEF Lists
    <2>2. PICK k \in 1 .. m : at[k] = i
      BY <1>5, <1>6 DEF Filtered
    <2> QED
      BY <1>6, <2>1, <2>2
  <1>9. \A j, k \in 1 .. m : j < k <=> t[j] \in before[t[k]]
    <2> TAKE j, k \in 1 .. m
    <2>1. j < k <=> at[j] < at[k]
      BY <1>5, <1>6 DEF Filtered
    <2>2. at[j] < at[k] <=> r[at[j]] \in before[r[at[k]]]
      BY <1>6 DEF Lists
    <2> QED
      BY <1>6, <2>1, <2>2
  <1>10. \A j, k \in 1 .. m : t[j] = t[k] => j = k
    <2> TAKE j, k \in 1 .. m
    <2>1. t[j] = t[k] => at[j] = at[k]
      BY <1>6 DEF Lists
    <2>2. at[j] = at[k] => j = k
      BY <1>5, <1>6 DEF Picks, Filtered
    <2> QED
      BY <2>1, <2>2
  <1> QED
    BY <1>4, <1>6, <1>7, <1>8, <1>9, <1>10 DEF Lists, t

\* The order may be given on the listed alone.
LEMMA OrderWithin ==
    ASSUME NEW S, NEW r, NEW before, NEW within, Lists(r, S, within),
           \A x, y \in S : x \in within[y] <=> x \in before[y]
    PROVE  Lists(r, S, before)
  <1> DEFINE n == Cardinality(S)
  <1>1. r \in [1 .. n -> S]
    BY DEF Lists
  <1>2. \A j, k \in 1 .. n : j < k <=> r[j] \in before[r[k]]
    BY <1>1 DEF Lists
  <1> QED
    BY <1>2 DEF Lists

-----------------------------------------------------------------------------
(* The colors of all systems.                                                *)

LEMMA FilesOrdered ==
    ASSUME NEW es, IsCollection(es)
    PROVE  /\ IsFiniteSet(Places(es)) /\ StrictOrder(Places(es), InFileOrder(Places(es)))
           /\ \A p \in Places(es) : /\ p = <<p[1], p[2]>> /\ p[1] \in DOMAIN es /\ p[2] \in DOMAIN es[p[1]].colors
                                    /\ p[1] \in Nat /\ p[2] \in Nat
           /\ \A i \in DOMAIN es : \A k \in DOMAIN es[i].colors : <<i, k>> \in Places(es)
  <1> DEFINE row(i) == {i} \X DOMAIN es[i].colors
             P == Places(es)
  <1>1. IsSeq(es) /\ IsFiniteSet(DOMAIN es) /\ DOMAIN es = 1 .. Len(es) /\ Len(es) \in Nat
    BY SeqShape DEF IsCollection
  <1>2. ASSUME NEW i \in DOMAIN es
        PROVE  (\A k \in DOMAIN es[i].colors : k \in Nat) /\ IsFiniteSet(row(i))
    <2>1. IsFiniteSet(DOMAIN es[i].colors) /\ DOMAIN es[i].colors = 1 .. Len(es[i].colors)
      BY SeqShape DEF IsCollection
    <2>2. IsFiniteSet({i})
      BY FS_Singleton
    <2> QED
      BY <2>1, <2>2, FS_Product
  <1>3. P = UNION {row(i) : i \in DOMAIN es}
    BY DEF Places
  <1>4. IsFiniteSet(P)
    <2>1. IsFiniteSet({row(i) : i \in DOMAIN es})
      <3> DEFINE T == {row(i) : i \in DOMAIN es}
                 f == [i \in DOMAIN es |-> row(i)]
      <3>1. f \in Surjection(DOMAIN es, T)
        BY DEF Surjection
      <3> HIDE DEF T, f
      <3>2. IsFiniteSet(T)
        BY <1>1, <3>1, FS_Surjection
      <3> QED
        BY <3>2 DEF T
    <2>2. \A T \in {row(i) : i \in DOMAIN es} : IsFiniteSet(T)
      BY <1>2
    <2> QED
      BY <1>3, <2>1, <2>2, FS_UNION
  <1>5. \A p \in P : /\ p = <<p[1], p[2]>> /\ p[1] \in DOMAIN es /\ p[2] \in DOMAIN es[p[1]].colors
    BY <1>3
  <1>6. \A p \in P : p[1] \in Nat /\ p[2] \in Nat
    <2> TAKE p \in P
    <2>1. p[1] \in DOMAIN es /\ p[2] \in DOMAIN es[p[1]].colors
      BY <1>5
    <2>2. p[2] \in Nat
      BY <1>2, <2>1
    <2> QED
      BY <1>1, <2>1, <2>2
  <1>7. \A i \in DOMAIN es : \A k \in DOMAIN es[i].colors : <<i, k>> \in P
    BY <1>3
  <1> HIDE DEF P
  <1>8. StrictOrder(P, InFileOrder(P))
    <2>1. \A p, q \in P : p \in InFileOrder(P)[q] <=> p[1] < q[1] \/ (p[1] = q[1] /\ p[2] < q[2])
      BY DEF InFileOrder
    <2>2. \A q \in P : InFileOrder(P)[q] \subseteq P
      BY DEF InFileOrder
    <2>3. \A q \in P : q \notin InFileOrder(P)[q]
      BY <1>6, <2>1
    <2>4. ASSUME NEW p \in P, NEW q \in P, p # q
          PROVE  p \in InFileOrder(P)[q] \/ q \in InFileOrder(P)[p]
      <3>1. p[1] # q[1] \/ p[2] # q[2]
        BY <1>5, <2>4
      <3> QED
        BY <1>6, <2>1, <3>1
    <2>5. \A p, q, r \in P : p \in InFileOrder(P)[q] /\ q \in InFileOrder(P)[r] => p \in InFileOrder(P)[r]
      BY <1>6, <2>1
    <2> QED
      BY <2>2, <2>3, <2>4, <2>5 DEF StrictOrder
  <1> QED
    BY <1>4, <1>5, <1>6, <1>7, <1>8 DEF P

ColorOf(es, p) == swatch(es[p[1]], es[p[1]].colors[p[2]])

FileOrder(es) == Ranked(Places(es), InFileOrder(Places(es)))

\* The list of all colors goes through the places in the order of the files.
LEMMA SwatchShape ==
    ASSUME NEW es, IsCollection(es)
    PROVE  /\ Lists(FileOrder(es), Places(es), InFileOrder(Places(es)))
           /\ IsSeq(Swatches(es)) /\ Len(Swatches(es)) = Cardinality(Places(es))
           /\ DOMAIN Swatches(es) = 1 .. Cardinality(Places(es))
           /\ \A k \in 1 .. Cardinality(Places(es)) : Swatches(es)[k] = ColorOf(es, FileOrder(es)[k])
  <1> DEFINE P == Places(es)
             at == FileOrder(es)
             t == Swatches(es)
  <1>1. Lists(at, P, InFileOrder(P))
    BY FilesOrdered, RankedLists DEF FileOrder
  <1> HIDE DEF at
  <1>2. Cardinality(P) \in Nat /\ DOMAIN at = 1 .. Cardinality(P)
    BY <1>1 DEF Lists
  <1>3. t = [k \in 1 .. Cardinality(P) |-> ColorOf(es, at[k])]
    BY <1>2 DEF Swatches, ColorOf, at, FileOrder
  <1> HIDE DEF t
  <1>4. IsSeq(t) /\ Len(t) = Cardinality(P) /\ DOMAIN t = 1 .. Cardinality(P)
    BY <1>2, <1>3, FunctionIsSeq
  <1> QED
    BY <1>1, <1>3, <1>4 DEF t, at

\* A selection of all colors goes through the places selected.
LEMMA SwatchesAt ==
    ASSUME NEW es, IsCollection(es), NEW T \in SUBSET Places(es),
           NEW I, I = {k \in DOMAIN Swatches(es) : FileOrder(es)[k] \in T}
    PROVE  \E q : LET t == ItemsAt(Swatches(es), I)
                  IN  /\ Lists(q, T, InFileOrder(Places(es)))
                      /\ IsSeq(t) /\ Len(t) = Cardinality(T) /\ DOMAIN t = 1 .. Cardinality(T)
                      /\ \A k \in 1 .. Cardinality(T) : t[k] = ColorOf(es, q[k])
                      /\ IsFiniteSet(T) /\ Cardinality(T) \in Nat
  <1> DEFINE P == Places(es)
             r == FileOrder(es)
             q == ItemsAt(r, I)
             at == Ranked(I, Ascending(I))
             t == ItemsAt(Swatches(es), I)
  <1>1. /\ Lists(r, P, InFileOrder(P)) /\ DOMAIN Swatches(es) = 1 .. Cardinality(P)
        /\ \A k \in 1 .. Cardinality(P) : Swatches(es)[k] = ColorOf(es, r[k])
    BY SwatchShape
  <1>2. /\ Lists(q, T, InFileOrder(P)) /\ IsFiniteSet(T) /\ Cardinality(I) = Cardinality(T)
    BY <1>1, FilterLists
  <1>3. Cardinality(T) \in Nat
    BY <1>2 DEF Lists
  <1>4. at \in [1 .. Cardinality(T) -> I]
    <2>1. \A i \in I : i \in Nat
      BY <1>1
    <2>2. IsFiniteSet(I)
      <3>1. IsFiniteSet(1 .. Cardinality(P))
        BY <1>1, FS_Interval DEF Lists
      <3> QED
        BY <1>1, <3>1, FS_Subset
    <2>3. StrictOrder(I, Ascending(I))
      BY <2>1 DEF StrictOrder, Ascending
    <2>4. Lists(at, I, Ascending(I))
      BY <2>2, <2>3, RankedLists
    <2> QED
      BY <1>2, <2>4 DEF Lists
  <1>5. t = [k \in 1 .. Cardinality(T) |-> Swatches(es)[at[k]]] /\ q = [k \in 1 .. Cardinality(T) |-> r[at[k]]]
    <2>1. DOMAIN at = 1 .. Cardinality(T)
      BY <1>4
    <2> QED
      BY <2>1 DEF ItemsAt
  <1> HIDE DEF at, q, t, r
  <1>6. \A k \in 1 .. Cardinality(T) : t[k] = ColorOf(es, q[k])
    BY <1>1, <1>4, <1>5 DEF r
  <1>7. IsSeq(t) /\ Len(t) = Cardinality(T) /\ DOMAIN t = 1 .. Cardinality(T)
    BY <1>3, <1>5, FunctionIsSeq
  <1> QED
    BY <1>2, <1>3, <1>6, <1>7 DEF t

\* What platformsByHex says of the system that has the color at p.
PlatformAt(es, p) ==
    [slug |-> es[p[1]].slug, name |-> es[p[1]].name, year |-> es[p[1]].year,
     family |-> es[p[1]].family, isDefault |-> es[p[1]].colors[p[2]].default]

PlacesOf(es, h) == {p \in Places(es) : es[p[1]].colors[p[2]].hex = h}

\* Those who shipped a color are the systems at its places.
LEMMA PlatformShape ==
    ASSUME NEW es, IsCollection(es), NEW h
    PROVE  LET t == platformsByHex(es, h)
           IN  /\ IsSeq(t)
               /\ \A k \in DOMAIN t : \E p \in PlacesOf(es, h) : t[k] = PlatformAt(es, p)
               /\ \A p \in PlacesOf(es, h) : \E k \in DOMAIN t : t[k] = PlatformAt(es, p)
  <1> DEFINE W == Swatches(es)
             T == PlacesOf(es, h)
             I == {k \in DOMAIN W : W[k].hex = h}
             F == ItemsAt(W, I)
             item(c) == [slug |-> c.os.slug, name |-> c.os.name, year |-> c.os.year,
                         family |-> c.os.family, isDefault |-> c.isDefault]
             M == [k \in DOMAIN F |-> item(F[k])]
             before(a, b) == a.year < b.year \/ (a.year = b.year /\ a.name < b.name)
             less == {p \in (DOMAIN M) \X (DOMAIN M) : before(M[p[1]], M[p[2]])}
             t == SortedBy(M, less)
  <1>1. platformsByHex(es, h) = t
    BY DEF platformsByHex, StableSort, MapSeq, Filter
  <1>2. T \in SUBSET Places(es) /\ I = {k \in DOMAIN W : FileOrder(es)[k] \in T}
    <2>1. ASSUME NEW k \in DOMAIN W PROVE W[k].hex = h <=> FileOrder(es)[k] \in T
      <3>1. W[k] = ColorOf(es, FileOrder(es)[k])
        BY SwatchShape
      <3>2. FileOrder(es)[k] \in Places(es)
        BY SwatchShape DEF Lists
      <3> QED
        BY <3>1, <3>2 DEF ColorOf, swatch, PlacesOf
    <2> HIDE DEF W
    <2> QED
      BY <2>1 DEF PlacesOf
  <1> HIDE DEF T, I, W
  <1>3. PICK q : /\ Lists(q, T, InFileOrder(Places(es)))
                 /\ IsSeq(F) /\ Len(F) = Cardinality(T) /\ DOMAIN F = 1 .. Cardinality(T)
                 /\ \A k \in 1 .. Cardinality(T) : F[k] = ColorOf(es, q[k])
                 /\ Cardinality(T) \in Nat
    BY <1>2, SwatchesAt DEF W
  <1> HIDE DEF F
  <1> DEFINE n == Cardinality(T)
  <1>4. /\ \A k \in 1 .. n : q[k] \in T /\ M[k] = PlatformAt(es, q[k])
        /\ \A p \in T : \E k \in 1 .. n : M[k] = PlatformAt(es, p)
    <2>1. \A k \in 1 .. n : q[k] \in T /\ M[k] = PlatformAt(es, q[k])
      BY <1>3 DEF Lists, ColorOf, swatch, PlatformAt
    <2>2. \A p \in T : \E k \in 1 .. n : q[k] = p
      BY <1>3 DEF Lists
    <2> HIDE DEF M
    <2> QED
      BY <2>1, <2>2
  <1>5. M = [k \in 1 .. n |-> M[k]]
    BY <1>3
  <1>6. \A k \in 1 .. n : M[k].year \in Int /\ M[k].name \in Int
    <2>1. \A p \in T : es[p[1]].year \in Int /\ es[p[1]].name \in Int
      BY FilesOrdered DEF IsCollection, T, PlacesOf
    <2> HIDE DEF M, T, n
    <2>2. TAKE k \in 1 .. n
    <2>3. q[k] \in T /\ M[k] = PlatformAt(es, q[k])
      BY <1>4
    <2> QED
      BY <2>1, <2>3 DEF PlatformAt
  <1> HIDE DEF M
  <1>7. IsSeq(M) /\ Len(M) = n /\ DOMAIN M = 1 .. n
    BY <1>3, <1>5, FunctionIsSeq
  <1>8. Comparison(DOMAIN M, less)
    <2> DEFINE Y == [k \in DOMAIN M |-> M[k].year]
               N == [k \in DOMAIN M |-> M[k].name]
    <2>1. \A k \in DOMAIN M : Y[k] \in Int /\ N[k] \in Int
      BY <1>6, <1>7
    <2>2. \A i, j \in DOMAIN M : <<i, j>> \in less <=> Y[i] < Y[j] \/ (Y[i] = Y[j] /\ N[i] < N[j])
      OBVIOUS
    <2> HIDE DEF Y, N, less
    <2> QED
      BY <2>1, <2>2, KeysCompare
  <1> HIDE DEF less
  <1>9. PICK at : Arranged(t, M, less, at)
    BY <1>7, <1>8, SortShape
  <1> HIDE DEF t
  <1>10. /\ IsSeq(t) /\ DOMAIN t = 1 .. n
         /\ \A k \in 1 .. n : at[k] \in 1 .. n /\ t[k] = M[at[k]]
         /\ \A i \in 1 .. n : \E k \in 1 .. n : at[k] = i
    BY <1>7, <1>9 DEF Arranged, Picks
  <1> HIDE DEF n
  <1>11. \A k \in DOMAIN t : \E p \in T : t[k] = PlatformAt(es, p)
    <2> TAKE k \in DOMAIN t
    <2>1. at[k] \in 1 .. n /\ t[k] = M[at[k]]
      BY <1>10
    <2> QED
      BY <1>4, <2>1
  <1>12. \A p \in T : \E k \in DOMAIN t : t[k] = PlatformAt(es, p)
    <2> TAKE p \in T
    <2>1. PICK i \in 1 .. n : M[i] = PlatformAt(es, p)
      BY <1>4
    <2>2. PICK k \in 1 .. n : at[k] = i
      BY <1>10
    <2> QED
      BY <1>10, <2>1, <2>2
  <1> QED
    BY <1>1, <1>10, <1>11, <1>12 DEF T

\* Of the items with one hex the first stays.
LEMMA FirstsShape ==
    ASSUME NEW t, IsSeq(t)
    PROVE  \E u : LET f == FirstOfHex(t)
                  IN  /\ IsSeq(f) /\ Len(f) \in Nat /\ DOMAIN f = 1 .. Len(f)
                      /\ u \in [1 .. Len(f) -> 1 .. Len(t)]
                      /\ \A k \in 1 .. Len(f) : f[k] = t[u[k]]
                      /\ \A j, k \in 1 .. Len(f) : j < k <=> u[j] < u[k]
                      /\ \A j, k \in 1 .. Len(f) : f[j].hex = f[k].hex => j = k
                      /\ \A i \in 1 .. Len(t) : \E k \in 1 .. Len(f) : u[k] <= i /\ f[k].hex = t[i].hex
  <1> DEFINE f == FirstOfHex(t)
             I == {i \in DOMAIN t : \A j \in 1 .. i - 1 : t[j].hex # t[i].hex}
  <1>1. Len(t) \in Nat /\ DOMAIN t = 1 .. Len(t)
    BY SeqShape
  <1>2. f = ItemsAt(t, I)
    BY DEF FirstOfHex
  <1>3. I \in SUBSET DOMAIN t
    OBVIOUS
  <1>4. \A i \in I : \A j \in I : j < i => t[j].hex # t[i].hex
    BY <1>1
  <1>5. ASSUME NEW i \in 1 .. Len(t) PROVE \E j \in I : j <= i /\ t[j].hex = t[i].hex
    <2> DEFINE J == {j \in 1 .. Len(t) : t[j].hex = t[i].hex}
    <2>1. J \subseteq Nat /\ J # {}
      BY <1>1
    <2>2. PICK j \in J : \A k \in J : j <= k
      BY <2>1, LeastIn
    <2>3. j \in 1 .. Len(t) /\ t[j].hex = t[i].hex /\ j <= i
      BY <2>2
    <2>4. ASSUME NEW k \in 1 .. j - 1 PROVE t[k].hex # t[j].hex
      <3>1. k \in 1 .. Len(t) /\ ~ (j <= k)
        BY <1>1, <2>3
      <3> QED
        BY <2>2, <2>3, <3>1
    <2> QED
      BY <1>1, <2>3, <2>4
  <1> HIDE DEF I, f
  <1>6. PICK u : Filtered(f, t, I, u)
    BY <1>2, <1>3, FilterShape
  <1>7. /\ IsSeq(f) /\ Len(f) \in Nat /\ DOMAIN f = 1 .. Len(f)
        /\ u \in [1 .. Len(f) -> 1 .. Len(t)]
        /\ \A k \in 1 .. Len(f) : f[k] = t[u[k]] /\ u[k] \in I
        /\ \A j, k \in 1 .. Len(f) : j < k <=> u[j] < u[k]
    BY <1>1, <1>6 DEF Filtered, Picks
  <1>8. ASSUME NEW j \in 1 .. Len(f), NEW k \in 1 .. Len(f), f[j].hex = f[k].hex
        PROVE  j = k
    <2>1. ~ (u[j] < u[k]) /\ ~ (u[k] < u[j])
      BY <1>4, <1>7, <1>8
    <2> QED
      BY <1>7, <2>1
  <1>9. ASSUME NEW i \in 1 .. Len(t)
        PROVE  \E k \in 1 .. Len(f) : u[k] <= i /\ f[k].hex = t[i].hex
    <2>1. PICK j \in I : j <= i /\ t[j].hex = t[i].hex
      BY <1>5
    <2>2. PICK k \in 1 .. Len(f) : u[k] = j
      BY <1>6 DEF Filtered
    <2> QED
      BY <1>7, <2>1, <2>2
  <1> QED
    BY <1>7, <1>8, <1>9 DEF f

\* The places of the other systems, and what could be shown of them.
Others(es, slug) == {p \in Places(es) : es[p[1]].slug # slug}
HexAt(es, p) == es[p[1]].colors[p[2]].hex
Elsewhere(h, es, slug) ==
    {x \in {HexAt(es, p) : p \in Others(es, slug)} : x # h /\ match(Distance[h][x]) < 100}

WellHexed(es) == \A p \in Places(es) : HexAt(es, p) \in WellFormedHexes

\* The colors of the others, nearest first.
Near(h, es, slug) ==
    StableSort(Filter(Swatches(es), LAMBDA c : c.os.slug # slug),
               LAMBDA a, b : Distance[h][a.hex] < Distance[h][b.hex])

LEMMA NearestShape ==
    ASSUME NEW es, IsCollection(es), WellHexed(es), NEW h \in WellFormedHexes, NEW slug
    PROVE  LET near == Near(h, es, slug)
           IN  /\ IsSeq(near) /\ Len(near) = Cardinality(Others(es, slug))
               /\ \A k \in 1 .. Len(near) : \E p \in Others(es, slug) : near[k].hex = HexAt(es, p)
               /\ \A p \in Others(es, slug) : \E k \in 1 .. Len(near) : near[k].hex = HexAt(es, p)
               /\ \A j, k \in 1 .. Len(near) : j < k => ~ (Distance[h][near[k].hex] < Distance[h][near[j].hex])
  <1> DEFINE W == Swatches(es)
             T == Others(es, slug)
             I == {k \in DOMAIN W : W[k].os.slug # slug}
             F == ItemsAt(W, I)
             less == {p \in (DOMAIN F) \X (DOMAIN F) : Distance[h][F[p[1]].hex] < Distance[h][F[p[2]].hex]}
             t == SortedBy(F, less)
             n == Cardinality(T)
             d == [k \in 1 .. n |-> Distance[h][F[k].hex]]
  <1>1. T \in SUBSET Places(es) /\ I = {k \in DOMAIN W : FileOrder(es)[k] \in T}
    <2>1. ASSUME NEW k \in DOMAIN W PROVE W[k].os.slug # slug <=> FileOrder(es)[k] \in T
      <3>1. W[k] = ColorOf(es, FileOrder(es)[k])
        BY SwatchShape
      <3>2. FileOrder(es)[k] \in Places(es)
        BY SwatchShape DEF Lists
      <3> QED
        BY <3>1, <3>2 DEF ColorOf, swatch, Others
    <2> HIDE DEF W
    <2> QED
      BY <2>1 DEF Others
  <1>2. Near(h, es, slug) = t
    BY DEF Near, StableSort, Filter
  <1> HIDE DEF T, I, W
  <1>3. PICK q : /\ Lists(q, T, InFileOrder(Places(es)))
                 /\ IsSeq(F) /\ Len(F) = Cardinality(T) /\ DOMAIN F = 1 .. Cardinality(T)
                 /\ \A k \in 1 .. Cardinality(T) : F[k] = ColorOf(es, q[k])
                 /\ Cardinality(T) \in Nat
    BY <1>1, SwatchesAt DEF W
  <1> HIDE DEF F
  <1>4. /\ \A k \in 1 .. n : q[k] \in T /\ F[k].hex = HexAt(es, q[k])
        /\ \A p \in T : \E k \in 1 .. n : F[k].hex = HexAt(es, p)
    <2>1. \A k \in 1 .. n : q[k] \in T /\ F[k].hex = HexAt(es, q[k])
      BY <1>3 DEF Lists, ColorOf, swatch, HexAt
    <2>2. \A p \in T : \E k \in 1 .. n : q[k] = p
      BY <1>3 DEF Lists
    <2> QED
      BY <2>1, <2>2
  <1>5. \A k \in 1 .. n : d[k] \in Int
    <2> TAKE k \in 1 .. n
    <2>1. F[k].hex \in WellFormedHexes
      BY <1>1, <1>4 DEF WellHexed
    <2> QED
      BY <2>1, DistanceAssumption
  <1>6. \A i, j \in 1 .. n : <<i, j>> \in less <=> d[i] < d[j]
    BY <1>3
  <1> HIDE DEF d, less
  <1>7. Comparison(DOMAIN F, less)
    <2> HIDE DEF n
    <2>1. \A i, j \in 1 .. n : <<i, j>> \in less <=> d[i] < d[j] \/ (d[i] = d[j] /\ d[i] < d[j])
      BY <1>5, <1>6
    <2>2. Comparison(1 .. n, less)
      BY <1>5, <2>1, KeysCompare
    <2> QED
      BY <1>3, <2>2 DEF n
  <1>8. PICK at : Arranged(t, F, less, at)
    BY <1>3, <1>7, SortShape
  <1> HIDE DEF t
  <1>9. /\ IsSeq(t) /\ Len(t) = n
        /\ \A k \in 1 .. n : at[k] \in 1 .. n /\ t[k] = F[at[k]]
        /\ \A i \in 1 .. n : \E k \in 1 .. n : at[k] = i
        /\ \A j, k \in 1 .. n : j < k => <<at[k], at[j]>> \notin less
    BY <1>3, <1>8 DEF Arranged, Picks
  <1> HIDE DEF n
  <1>10. \A k \in 1 .. n : \E p \in T : t[k].hex = HexAt(es, p)
    <2> TAKE k \in 1 .. n
    <2>1. at[k] \in 1 .. n /\ t[k] = F[at[k]]
      BY <1>9
    <2> QED
      BY <1>4, <2>1
  <1>11. \A p \in T : \E k \in 1 .. n : t[k].hex = HexAt(es, p)
    <2> TAKE p \in T
    <2>1. PICK i \in 1 .. n : F[i].hex = HexAt(es, p)
      BY <1>4
    <2>2. PICK k \in 1 .. n : at[k] = i
      BY <1>9
    <2> QED
      BY <1>9, <2>1, <2>2
  <1>12. ASSUME NEW j \in 1 .. n, NEW k \in 1 .. n, j < k
         PROVE  ~ (Distance[h][t[k].hex] < Distance[h][t[j].hex])
    <2>1. at[j] \in 1 .. n /\ at[k] \in 1 .. n /\ t[j] = F[at[j]] /\ t[k] = F[at[k]]
      BY <1>9
    <2>2. ~ (d[at[k]] < d[at[j]])
      BY <1>6, <1>9, <1>12, <2>1
    <2> QED
      BY <2>1, <2>2 DEF d
  <1> QED
    BY <1>2, <1>9, <1>10, <1>11, <1>12 DEF T, W, n

\* What is shown of the nearest: cut, one of each hex, without the color itself
\* and what looks like it, cut again.
NearestOf(s, h, es, slug) ==
    /\ IsSeq(s) /\ Len(s) \in 0 .. MaxSimilar /\ DOMAIN s = 1 .. Len(s)
    /\ \A k \in 1 .. Len(s) : /\ s[k] = [hex |-> s[k].hex, platforms |-> platformsByHex(es, s[k].hex)]
                              /\ s[k].hex \in Elsewhere(h, es, slug)
    /\ \A j, k \in 1 .. Len(s) : s[j].hex = s[k].hex => j = k
    /\ \A k \in 1 .. Len(s) : \A x \in Elsewhere(h, es, slug) :
         Distance[h][x] < Distance[h][s[k].hex] => \E l \in 1 .. k - 1 : s[l].hex = x
    /\ Cardinality(Others(es, slug)) <= Limit /\ Len(s) < MaxSimilar =>
         \A x \in Elsewhere(h, es, slug) : \E k \in 1 .. Len(s) : s[k].hex = x

LEMMA SimilarShape ==
    ASSUME NEW es, IsCollection(es), WellHexed(es), NEW h \in WellFormedHexes, NEW slug
    PROVE  NearestOf(similarOf(h, es, slug), h, es, slug)
  <1> DEFINE near == Near(h, es, slug)
             N == Len(near)
             t == Take(near, Limit)
             f == FirstOfHex(t)
             good(x) == match(Distance[h][x]) < 100 /\ x # h
             I == {k \in DOMAIN f : good(f[k].hex)}
             g == ItemsAt(f, I)
             x == Take(g, MaxSimilar)
             s == [k \in DOMAIN x |-> [hex |-> x[k].hex, platforms |-> platformsByHex(es, x[k].hex)]]
             E == Elsewhere(h, es, slug)
             D(a) == Distance[h][a]
  <1>1. similarOf(h, es, slug) = s
    <2>1. similarColors(h, es, slug, Limit) = t
      BY DEF similarColors, Near
    <2> HIDE DEF t
    <2> QED
      BY <2>1 DEF similarOf, dedupeSimilarByHex, MapSeq, Filter
  <1>2. /\ IsSeq(near) /\ N = Cardinality(Others(es, slug))
        /\ \A k \in 1 .. N : \E p \in Others(es, slug) : near[k].hex = HexAt(es, p)
        /\ \A p \in Others(es, slug) : \E k \in 1 .. N : near[k].hex = HexAt(es, p)
        /\ \A j, k \in 1 .. N : j < k => ~ (D(near[k].hex) < D(near[j].hex))
    BY NearestShape
  <1> HIDE DEF near
  <1>3. N \in Nat
    BY <1>2, SeqShape
  <1>4. /\ IsSeq(t) /\ Len(t) = (IF N <= Limit THEN N ELSE Limit)
        /\ \A k \in 1 .. Len(t) : t[k] = near[k]
    BY <1>2, TakeShape, LimitsAssumption
  <1> HIDE DEF t
  <1>5. PICK u : /\ IsSeq(f) /\ Len(f) \in Nat /\ DOMAIN f = 1 .. Len(f)
                 /\ u \in [1 .. Len(f) -> 1 .. Len(t)]
                 /\ \A k \in 1 .. Len(f) : f[k] = t[u[k]]
                 /\ \A j, k \in 1 .. Len(f) : j < k <=> u[j] < u[k]
                 /\ \A j, k \in 1 .. Len(f) : f[j].hex = f[k].hex => j = k
                 /\ \A i \in 1 .. Len(t) : \E k \in 1 .. Len(f) : u[k] <= i /\ f[k].hex = t[i].hex
    BY <1>4, FirstsShape
  <1> HIDE DEF f
  <1>6. I \in SUBSET (DOMAIN f) /\ \A k \in DOMAIN f : k \in I <=> good(f[k].hex)
    OBVIOUS
  <1> HIDE DEF I
  <1>7. PICK v : Filtered(g, f, I, v)
    BY <1>5, <1>6, FilterShape
  <1> HIDE DEF g
  <1> DEFINE G == Len(g)
  <1>8. /\ IsSeq(g) /\ G \in Nat
        /\ \A k \in 1 .. G : v[k] \in 1 .. Len(f) /\ v[k] \in I /\ g[k] = f[v[k]]
        /\ \A i \in I : \E k \in 1 .. G : v[k] = i
        /\ \A j, k \in 1 .. G : j < k <=> v[j] < v[k]
        /\ \A j, k \in 1 .. G : v[j] = v[k] => j = k
    BY <1>5, <1>7 DEF Filtered, Picks
  <1>9. /\ IsSeq(x) /\ Len(x) = (IF G <= MaxSimilar THEN G ELSE MaxSimilar) /\ DOMAIN x = 1 .. Len(x)
        /\ \A k \in 1 .. Len(x) : x[k] = g[k]
    <2>1. IsSeq(g)
      BY <1>8
    <2> QED
      BY <2>1, TakeShape, LimitsAssumption
  <1> HIDE DEF x
  <1>10. Len(x) \in Nat /\ Len(x) <= G /\ Len(x) <= MaxSimilar
    BY <1>8, <1>9, LimitsAssumption
  <1>11. IsSeq(s) /\ Len(s) = Len(x) /\ DOMAIN s = 1 .. Len(x)
    <2>1. s = [k \in 1 .. Len(x) |-> s[k]]
      BY <1>9
    <2> HIDE DEF s
    <2> QED
      BY <1>10, <2>1, FunctionIsSeq
  <1>12. \A k \in 1 .. Len(x) : /\ s[k] = [hex |-> s[k].hex, platforms |-> platformsByHex(es, s[k].hex)]
                                /\ s[k].hex = g[k].hex
    BY <1>9
  <1> HIDE DEF s
  <1> DEFINE c == [k \in 1 .. G |-> u[v[k]]]
  <1>13. /\ \A k \in 1 .. G : c[k] \in 1 .. Len(t) /\ c[k] \in 1 .. N /\ g[k].hex = near[c[k]].hex /\ good(g[k].hex)
         /\ \A j, k \in 1 .. G : j < k <=> c[j] < c[k]
         /\ \A j, k \in 1 .. G : g[j].hex = g[k].hex => j = k
    <2> HIDE DEF good, G, N
    <2>1. ASSUME NEW k \in 1 .. G
          PROVE  c[k] \in 1 .. Len(t) /\ c[k] \in 1 .. N /\ g[k].hex = near[c[k]].hex /\ good(g[k].hex)
      <3>1. c[k] = u[v[k]] /\ u[v[k]] \in 1 .. Len(t) /\ g[k] = f[v[k]] /\ f[v[k]] = t[u[v[k]]]
        BY <1>5, <1>8
      <3>2. t[c[k]] = near[c[k]] /\ c[k] \in 1 .. N
        BY <1>3, <1>4, <3>1, LimitsAssumption DEF N
      <3>3. good(f[v[k]].hex)
        BY <1>5, <1>6, <1>8
      <3> QED
        BY <3>1, <3>2, <3>3
    <2>2. \A j, k \in 1 .. G : j < k <=> c[j] < c[k]
      <3> TAKE j, k \in 1 .. G
      <3>1. v[j] \in 1 .. Len(f) /\ v[k] \in 1 .. Len(f) /\ (j < k <=> v[j] < v[k])
        BY <1>8
      <3>2. v[j] < v[k] <=> u[v[j]] < u[v[k]]
        BY <1>5, <3>1
      <3> QED
        BY <3>1, <3>2
    <2>3. ASSUME NEW j \in 1 .. G, NEW k \in 1 .. G, g[j].hex = g[k].hex PROVE j = k
      <3>1. v[j] \in 1 .. Len(f) /\ v[k] \in 1 .. Len(f) /\ g[j] = f[v[j]] /\ g[k] = f[v[k]]
        BY <1>8
      <3>2. v[j] = v[k]
        BY <1>5, <2>3, <3>1
      <3> QED
        BY <1>8, <3>2
    <2> QED
      BY <2>1, <2>2, <2>3
  <1>14. ASSUME NEW i \in 1 .. Len(t), good(near[i].hex)
         PROVE  \E l \in 1 .. G : c[l] <= i /\ g[l].hex = near[i].hex
    <2>1. PICK k \in 1 .. Len(f) : u[k] <= i /\ f[k].hex = near[i].hex
      BY <1>4, <1>5
    <2>2. k \in I
      BY <1>5, <1>6, <1>14, <2>1
    <2>3. PICK l \in 1 .. G : v[l] = k
      BY <1>8, <2>2
    <2> QED
      BY <1>8, <2>1, <2>3
  <1> HIDE DEF c
  <1>15. \A a : a \in E <=> good(a) /\ \E i \in 1 .. N : near[i].hex = a
    <2> HIDE DEF N
    <2>1. \A a : a \in E <=> good(a) /\ \E p \in Others(es, slug) : HexAt(es, p) = a
      BY DEF Elsewhere
    <2> HIDE DEF E, good
    <2> QED
      BY <1>2, <2>1
  <1> HIDE DEF E, good
  <1>16. ASSUME NEW k \in 1 .. Len(x)
         PROVE  s[k].hex \in E
    <2>1. k \in 1 .. G
      BY <1>8, <1>10
    <2> QED
      BY <1>12, <1>13, <1>15, <2>1
  <1>17. ASSUME NEW j \in 1 .. Len(x), NEW k \in 1 .. Len(x), s[j].hex = s[k].hex
         PROVE  j = k
    <2>1. j \in 1 .. G /\ k \in 1 .. G
      BY <1>8, <1>10
    <2>2. g[j].hex = g[k].hex
      BY <1>12, <1>17
    <2> QED
      BY <1>13, <2>1, <2>2
  <1>18. ASSUME NEW k \in 1 .. Len(x), NEW a \in E, D(a) < D(s[k].hex)
         PROVE  \E l \in 1 .. k - 1 : s[l].hex = a
    <2>0. k \in 1 .. G
      BY <1>8, <1>10
    <2>1. k \in 1 .. G /\ s[k].hex = near[c[k]].hex /\ c[k] \in 1 .. N /\ c[k] \in 1 .. Len(t)
      BY <1>12, <1>13, <2>0
    <2>2. PICK i \in 1 .. N : near[i].hex = a /\ good(a)
      BY <1>15
    <2>3. D(near[i].hex) < D(near[c[k]].hex)
      BY <1>18, <2>1, <2>2
    <2>4. ~ (c[k] < i) /\ c[k] # i
      <3>1. ~ (c[k] < i)
        BY <1>2, <2>1, <2>3
      <3>2. a \in WellFormedHexes
        BY <1>2, <2>2 DEF WellHexed, Others
      <3>3. ~ (D(a) < D(a))
        BY <3>2, DistanceAssumption
      <3>4. c[k] # i
        BY <2>2, <2>3, <3>3
      <3> QED
        BY <3>1, <3>4
    <2>5. i < c[k] /\ i \in 1 .. Len(t)
      BY <1>3, <1>4, <2>1, <2>4, LimitsAssumption
    <2>6. PICK l \in 1 .. G : c[l] <= i /\ g[l].hex = a
      BY <1>14, <2>2, <2>5
    <2>7. c[l] < c[k]
      BY <1>3, <1>13, <2>1, <2>5, <2>6
    <2>8. l < k
      BY <1>13, <2>1, <2>7
    <2>9. l \in 1 .. k - 1 /\ l \in 1 .. Len(x)
      BY <1>8, <1>10, <2>8
    <2> QED
      BY <1>12, <2>6, <2>9
  <1>19. ASSUME N <= Limit, Len(x) < MaxSimilar, NEW a \in E
         PROVE  \E k \in 1 .. Len(x) : s[k].hex = a
    <2>1. Len(t) = N /\ Len(x) = G
      BY <1>3, <1>4, <1>8, <1>9, <1>19, LimitsAssumption
    <2>2. PICK i \in 1 .. N : near[i].hex = a /\ good(a)
      BY <1>15
    <2>3. PICK l \in 1 .. G : g[l].hex = a
      BY <1>14, <2>1, <2>2
    <2> QED
      BY <1>12, <2>1, <2>3
  <1>20. Len(x) \in 0 .. MaxSimilar
    BY <1>10, LimitsAssumption
  <1> HIDE DEF N, G
  <1> QED
    BY <1>1, <1>2, <1>11, <1>12, <1>16, <1>17, <1>18, <1>19, <1>20 DEF E, NearestOf

\* A finite set of numbers has a least and a greatest member.
LEMMA Extremes ==
    ASSUME NEW S, IsFiniteSet(S), S # {}, \A x \in S : x \in Int
    PROVE  /\ Min(S) \in S /\ Max(S) \in S
           /\ \A x \in S : Min(S) <= x /\ x <= Max(S)
  <1> DEFINE before == [x \in S |-> {y \in S : y < x}]
             r == Ranked(S, before)
             n == Cardinality(S)
  <1>1. StrictOrder(S, before)
    BY DEF StrictOrder
  <1>2. \A x, y \in S : y \in before[x] <=> y < x
    OBVIOUS
  <1> HIDE DEF before
  <1>3. Lists(r, S, before)
    BY <1>1, RankedLists
  <1> HIDE DEF r
  <1>4. /\ n \in Nat /\ \A k \in 1 .. n : r[k] \in S
        /\ \A x \in S : \E k \in 1 .. n : r[k] = x
        /\ \A j, k \in 1 .. n : j < k => r[j] < r[k]
    <2>1. /\ n \in Nat /\ \A k \in 1 .. n : r[k] \in S
          /\ \A x \in S : \E k \in 1 .. n : r[k] = x
          /\ \A j, k \in 1 .. n : j < k => r[j] \in before[r[k]]
      BY <1>3 DEF Lists
    <2> HIDE DEF n
    <2> QED
      BY <1>2, <2>1
  <1>5. 1 \in 1 .. n /\ n \in 1 .. n
    <2>1. PICK x \in S : TRUE
      OBVIOUS
    <2>2. PICK k \in 1 .. n : r[k] = x
      BY <1>4
    <2> HIDE DEF n
    <2> QED
      BY <1>4, <2>2
  <1>6. ASSUME NEW x \in S PROVE r[1] <= x /\ x <= r[n]
    <2>1. PICK k \in 1 .. n : r[k] = x
      BY <1>4
    <2> HIDE DEF n
    <2>2. 1 < k => r[1] < r[k]
      BY <1>4, <1>5
    <2>3. k < n => r[k] < r[n]
      BY <1>4, <1>5
    <2>4. 1 = k \/ 1 < k
      BY <1>4
    <2>5. k = n \/ k < n
      BY <1>4
    <2>6. r[1] \in Int /\ r[n] \in Int /\ x \in Int
      BY <1>4, <1>5
    <2> QED
      BY <2>1, <2>2, <2>3, <2>4, <2>5, <2>6
  <1>7. r[1] \in S /\ r[n] \in S
    BY <1>4, <1>5
  <1>8. \E x \in S : \A y \in S : x <= y
    BY <1>6, <1>7
  <1>9. \E x \in S : \A y \in S : x >= y
    <2>1. \A y \in S : r[n] >= y
      BY <1>6, <1>7
    <2> QED
      BY <1>7, <2>1
  <1>10. Min(S) \in S /\ \A y \in S : Min(S) <= y
    BY <1>8 DEF Min
  <1>11. Max(S) \in S /\ \A y \in S : Max(S) >= y
    BY <1>9 DEF Max
  <1> QED
    BY <1>10, <1>11

\* How often a name is given.
Times(names, a) == Cardinality({i \in DOMAIN names : names[i] = a})

\* The name chosen is given at least as often as any other.
LEMMA MostUsedShape ==
    ASSUME NEW names, NEW n \in Nat \ {0}, DOMAIN names = 1 .. n
    PROVE  /\ \E k \in 1 .. n : mostUsed(names) = names[k]
           /\ \A i \in 1 .. n : Times(names, names[i]) <= Times(names, mostUsed(names))
  <1> DEFINE count(a) == Cardinality({i \in DOMAIN names : names[i] = a})
             c == [i \in 1 .. n |-> count(names[i])]
             best(i) == \A j \in DOMAIN names : \/ count(names[j]) < count(names[i])
                                                \/ count(names[j]) = count(names[i]) /\ i <= j
  <1>1. \A i \in 1 .. n : c[i] \in Nat
    <2> TAKE i \in 1 .. n
    <2>1. IsFiniteSet(1 .. n) /\ {j \in DOMAIN names : names[j] = names[i]} \subseteq 1 .. n
      BY FS_Interval
    <2>2. IsFiniteSet({j \in DOMAIN names : names[j] = names[i]})
      BY <2>1, FS_Subset
    <2> QED
      BY <2>2, FS_CardinalityType
  <1>2. mostUsed(names) = names[CHOOSE i \in DOMAIN names : best(i)]
    BY DEF mostUsed
  <1>3. \A i \in 1 .. n : c[i] = count(names[i])
    OBVIOUS
  <1> HIDE DEF c
  <1> DEFINE C == {c[i] : i \in 1 .. n}
  <1>4. PICK k \in 1 .. n : \A i \in 1 .. n : c[i] <= c[k]
    <2>1. [i \in 1 .. n |-> c[i]] \in Surjection(1 .. n, C)
      BY DEF Surjection
    <2>2. IsFiniteSet(C)
      BY <2>1, FS_Surjection, FS_Interval
    <2>3. C # {} /\ \A x \in C : x \in Int
      BY <1>1
    <2> HIDE DEF C
    <2>4. Max(C) \in C /\ \A x \in C : x <= Max(C)
      BY <2>2, <2>3, Extremes
    <2> QED
      BY <2>4 DEF C
  <1> DEFINE K == {i \in 1 .. n : c[i] = c[k]}
  <1>5. PICK l \in K : \A i \in K : l <= i
    <2>1. K \subseteq Nat /\ K # {}
      OBVIOUS
    <2> HIDE DEF K
    <2> QED
      BY <2>1, LeastIn
  <1>6. best(l)
    <2> SUFFICES ASSUME NEW j \in 1 .. n PROVE c[j] < c[l] \/ (c[j] = c[l] /\ l <= j)
      BY <1>3, <1>5
    <2>1. c[j] <= c[k] /\ c[l] = c[k]
      BY <1>4, <1>5
    <2>2. c[j] = c[k] => l <= j
      BY <1>5
    <2> QED
      BY <1>1, <2>1, <2>2
  <1>7. l \in 1 .. n
    BY <1>5
  <1> DEFINE m == CHOOSE i \in DOMAIN names : best(i)
  <1>8. m \in DOMAIN names /\ best(m)
    BY <1>6, <1>7
  <1> HIDE DEF m
  <1>9. \A i \in 1 .. n : c[i] <= c[m]
    <2> TAKE i \in 1 .. n
    <2>1. c[i] < c[m] \/ c[i] = c[m]
      BY <1>3, <1>8
    <2> QED
      BY <1>1, <1>8, <2>1
  <1>10. \A i \in 1 .. n : count(names[i]) <= count(names[m])
    BY <1>3, <1>8, <1>9
  <1>11. mostUsed(names) = names[m]
    BY <1>2 DEF m
  <1>12. \A a : count(a) = Times(names, a)
    BY DEF Times
  <1>13. m \in 1 .. n
    BY <1>8
  <1> HIDE DEF count
  <1>14. \A i \in 1 .. n : Times(names, names[i]) <= Times(names, names[m])
    BY <1>10, <1>12
  <1> QED
    BY <1>11, <1>13, <1>14


-----------------------------------------------------------------------------
(* The colors of all systems, each once.                                     *)

NameAt(es, p)    == es[p[1]].colors[p[2]].name
DefaultAt(es, p) == es[p[1]].colors[p[2]].default

\* How many of the places of h give it the name a.
NamedAt(es, h, a) == Cardinality({p \in PlacesOf(es, h) : NameAt(es, p) = a})

\* m tells of the places of its hex, which q lists.
MergedFrom(m, es, q) ==
    /\ Lists(q, PlacesOf(es, m.hex), InFileOrder(Places(es)))
    /\ IsSeq(m.platforms) /\ Len(m.platforms) = Cardinality(PlacesOf(es, m.hex))
    /\ \A k \in 1 .. Cardinality(PlacesOf(es, m.hex)) : m.platforms[k] = es[q[k][1]].slug
    /\ \/ \E p \in PlacesOf(es, m.hex) : DefaultAt(es, p) /\ m.name = NameAt(es, p)
       \/ /\ \A p \in PlacesOf(es, m.hex) : ~DefaultAt(es, p)
          /\ \A p \in PlacesOf(es, m.hex) : NamedAt(es, m.hex, NameAt(es, p)) <= NamedAt(es, m.hex, m.name)
    /\ m.years = <<Min({es[p[1]].year : p \in PlacesOf(es, m.hex)}),
                   Max({es[p[1]].year : p \in PlacesOf(es, m.hex)})>>

\* A color has the name of a place where it is the default, or one than which
\* none is more common, the systems in the order of the files, and their years.
LEMMA OneMerged ==
    ASSUME NEW es, IsCollection(es), NEW h, PlacesOf(es, h) # {}
    PROVE  mergedColor(es, h).hex = h /\ \E q : MergedFrom(mergedColor(es, h), es, q)
  <1> DEFINE W == Swatches(es)
             T == PlacesOf(es, h)
             n == Cardinality(T)
             I == {k \in DOMAIN W : FileOrder(es)[k] \in T}
             uses == ItemsAt(W, I)
             J == {k \in DOMAIN uses : uses[k].isDefault}
             defaults == ItemsAt(uses, J)
             names == [k \in DOMAIN uses |-> uses[k].name]
             slugs == [k \in DOMAIN uses |-> uses[k].os.slug]
             years == {uses[k].os.year : k \in DOMAIN uses}
             m == mergedColor(es, h)
  <1>1. Filter(W, LAMBDA c : c.hex = h) = uses
    <2>1. /\ \A k \in DOMAIN W : FileOrder(es)[k] \in Places(es)
          /\ \A k \in DOMAIN W : W[k].hex = HexAt(es, FileOrder(es)[k])
      <3>1. /\ \A k \in 1 .. Cardinality(Places(es)) : W[k] = ColorOf(es, FileOrder(es)[k])
            /\ DOMAIN W = 1 .. Cardinality(Places(es)) /\ Lists(FileOrder(es), Places(es), InFileOrder(Places(es)))
        BY SwatchShape
      <3> HIDE DEF W
      <3> QED
        BY <3>1 DEF ColorOf, swatch, HexAt, Lists
    <2>2. {k \in DOMAIN W : W[k].hex = h} = I
      BY <2>1 DEF PlacesOf, HexAt
    <2> QED
      BY <2>2 DEF Filter
  <1>2. m = [hex |-> h, name |-> IF defaults # << >> THEN Last(defaults).name ELSE mostUsed(names),
             platforms |-> slugs, years |-> <<Min(years), Max(years)>>]
    BY <1>1 DEF mergedColor, Filter, MapSeq
  <1>3. T \in SUBSET Places(es)
    BY DEF PlacesOf
  <1>4. I = {k \in DOMAIN W : FileOrder(es)[k] \in T}
    OBVIOUS
  <1> HIDE DEF T, m, I, W
  <1>5. PICK q : /\ Lists(q, T, InFileOrder(Places(es)))
                 /\ IsSeq(uses) /\ Len(uses) = Cardinality(T) /\ DOMAIN uses = 1 .. Cardinality(T)
                 /\ \A k \in 1 .. Cardinality(T) : uses[k] = ColorOf(es, q[k])
                 /\ Cardinality(T) \in Nat
    BY <1>3, <1>4, SwatchesAt DEF W
  <1> HIDE DEF uses
  <1>6. IsSeq(uses) /\ DOMAIN uses = 1 .. n /\ \A k \in 1 .. n : uses[k] = ColorOf(es, q[k])
    BY <1>5
  <1>7. \A k \in 1 .. n : /\ uses[k].os.slug = es[q[k][1]].slug /\ uses[k].os.year = es[q[k][1]].year
                          /\ uses[k].name = NameAt(es, q[k]) /\ uses[k].isDefault = DefaultAt(es, q[k])
    BY <1>6 DEF ColorOf, swatch, NameAt, DefaultAt
  <1>8. /\ n \in Nat /\ q \in [1 .. n -> T] /\ \A p \in T : \E k \in 1 .. n : q[k] = p
    BY <1>5 DEF Lists
  <1>9. n \in Nat \ {0}
    BY <1>8 DEF T
  <1> HIDE DEF n
  <1>10. years = {es[p[1]].year : p \in T}
    BY <1>6, <1>7, <1>8
  <1>11. /\ IsSeq(slugs) /\ Len(slugs) = n /\ \A k \in 1 .. n : slugs[k] = es[q[k][1]].slug
    <2>1. slugs = [k \in 1 .. n |-> slugs[k]]
      BY <1>6
    <2>2. \A k \in 1 .. n : slugs[k] = es[q[k][1]].slug
      BY <1>6, <1>7
    <2> HIDE DEF slugs
    <2> QED
      BY <1>9, <2>1, <2>2, FunctionIsSeq
  <1>12. /\ m.hex = h /\ IsSeq(m.platforms) /\ Len(m.platforms) = n
         /\ \A k \in 1 .. n : m.platforms[k] = es[q[k][1]].slug
         /\ m.years = <<Min({es[p[1]].year : p \in T}), Max({es[p[1]].year : p \in T})>>
    <2> HIDE DEF slugs, years, names, defaults
    <2> QED
      BY <1>2, <1>10, <1>11
  <1>13. ASSUME \/ \E p \in T : DefaultAt(es, p) /\ m.name = NameAt(es, p)
                \/ /\ \A p \in T : ~DefaultAt(es, p)
                   /\ \A p \in T : NamedAt(es, h, NameAt(es, p)) <= NamedAt(es, h, m.name)
         PROVE  MergedFrom(m, es, q)
    BY <1>5, <1>12, <1>13 DEF MergedFrom, T, n
  <1>14. CASE defaults # << >>
    <2>1. J \in SUBSET (DOMAIN uses)
      OBVIOUS
    <2>2. PICK at : Filtered(defaults, uses, J, at)
      BY <1>6, <2>1, FilterShape
    <2> HIDE DEF defaults
    <2> DEFINE l == Len(defaults)
    <2>3. IsSeq(defaults) /\ l \in Nat /\ \A k \in 1 .. l : at[k] \in J /\ defaults[k] = uses[at[k]]
      BY <2>2 DEF Filtered, Picks
    <2>4. l # 0
      BY <1>14, <2>3, EmptySeq DEF IsSeq
    <2>5. l \in 1 .. l
      BY <2>3, <2>4
    <2>6. at[l] \in J /\ Last(defaults) = uses[at[l]]
      BY <2>3, <2>5 DEF Last
    <2>7. at[l] \in 1 .. n /\ uses[at[l]].isDefault
      BY <1>6, <2>6
    <2>8. m.name = NameAt(es, q[at[l]]) /\ DefaultAt(es, q[at[l]]) /\ q[at[l]] \in T
      BY <1>2, <1>7, <1>8, <1>14, <2>6, <2>7
    <2> QED
      BY <1>12, <1>13, <2>8 DEF m
  <1>15. CASE defaults = << >>
    <2>1. J = {}
      <3>1. J \in SUBSET (DOMAIN uses)
        OBVIOUS
      <3>2. PICK at : Filtered(defaults, uses, J, at)
        BY <1>6, <3>1, FilterShape
      <3> HIDE DEF defaults
      <3>3. Len(defaults) = 0
        BY <1>15
      <3> QED
        BY <3>2, <3>3 DEF Filtered
    <2>2. \A p \in T : ~DefaultAt(es, p)
      BY <1>6, <1>7, <1>8, <2>1
    <2>3. DOMAIN names = 1 .. n /\ \A k \in 1 .. n : names[k] = NameAt(es, q[k])
      BY <1>6, <1>7
    <2> HIDE DEF names
    <2>4. ASSUME NEW a PROVE Times(names, a) = NamedAt(es, h, a)
      <3> DEFINE U == {p \in T : NameAt(es, p) = a}
                 K == {k \in 1 .. Cardinality(T) : q[k] \in U}
      <3>1. U \in SUBSET T
        OBVIOUS
      <3>2. Cardinality(K) = Cardinality(U)
        <4> HIDE DEF U
        <4> QED
          BY <1>5, <3>1, FilterLists
      <3>3. {k \in DOMAIN names : names[k] = a} = K
        BY <1>8, <2>3 DEF n
      <3> QED
        BY <3>2, <3>3 DEF Times, NamedAt, T
    <2>5. /\ \E k \in 1 .. n : mostUsed(names) = names[k]
          /\ \A i \in 1 .. n : Times(names, names[i]) <= Times(names, mostUsed(names))
      BY <1>9, <2>3, MostUsedShape
    <2>6. m.name = mostUsed(names)
      BY <1>2, <1>15
    <2>7. \A p \in T : NamedAt(es, h, NameAt(es, p)) <= NamedAt(es, h, m.name)
      <3> TAKE p \in T
      <3>1. PICK i \in 1 .. n : q[i] = p
        BY <1>8
      <3> QED
        BY <2>3, <2>4, <2>5, <2>6, <3>1
    <2> QED
      BY <1>12, <1>13, <2>2, <2>7 DEF m
  <1> QED
    BY <1>2, <1>14, <1>15 DEF m


\* Every color is there once, and nothing else is.
LEMMA MergeShape ==
    ASSUME NEW es, IsCollection(es)
    PROVE  LET M == mergeColorsByHex(es)
           IN  /\ Len(M) \in Nat /\ DOMAIN M = 1 .. Len(M)
               /\ \A k \in DOMAIN M : PlacesOf(es, M[k].hex) # {} /\ \E q : MergedFrom(M[k], es, q)
               /\ \A p \in Places(es) : \E k \in DOMAIN M : M[k].hex = HexAt(es, p)
               /\ \A j, k \in DOMAIN M : M[j].hex = M[k].hex => j = k
  <1> DEFINE W == Swatches(es)
             F == FirstOfHex(W)
             M == [k \in DOMAIN F |-> mergedColor(es, F[k].hex)]
             o == FileOrder(es)
  <1>1. mergeColorsByHex(es) = M
    BY DEF mergeColorsByHex, MapSeq
  <1>2. /\ IsSeq(W) /\ DOMAIN W = 1 .. Len(W) /\ \A k \in DOMAIN W : W[k].hex = HexAt(es, o[k])
        /\ \A k \in DOMAIN W : o[k] \in Places(es)
        /\ \A p \in Places(es) : \E k \in DOMAIN W : o[k] = p
    <2>1. /\ IsSeq(W) /\ Len(W) = Cardinality(Places(es)) /\ DOMAIN W = 1 .. Cardinality(Places(es))
          /\ \A k \in 1 .. Cardinality(Places(es)) : W[k] = ColorOf(es, o[k])
          /\ Lists(o, Places(es), InFileOrder(Places(es)))
      BY SwatchShape
    <2> HIDE DEF W, o
    <2> QED
      BY <2>1 DEF Lists, ColorOf, swatch, HexAt
  <1> HIDE DEF W, o
  <1>3. PICK u : /\ IsSeq(F) /\ Len(F) \in Nat /\ DOMAIN F = 1 .. Len(F)
                 /\ u \in [1 .. Len(F) -> 1 .. Len(W)]
                 /\ \A k \in 1 .. Len(F) : F[k] = W[u[k]]
                 /\ \A j, k \in 1 .. Len(F) : F[j].hex = F[k].hex => j = k
                 /\ \A i \in 1 .. Len(W) : \E k \in 1 .. Len(F) : u[k] <= i /\ F[k].hex = W[i].hex
    BY <1>2, FirstsShape
  <1> HIDE DEF F
  <1>4. \A k \in DOMAIN F : PlacesOf(es, F[k].hex) # {}
    <2> TAKE k \in DOMAIN F
    <2>1. u[k] \in DOMAIN W /\ F[k].hex = HexAt(es, o[u[k]]) /\ o[u[k]] \in Places(es)
      BY <1>2, <1>3
    <2> QED
      BY <2>1 DEF PlacesOf, HexAt
  <1>5. \A k \in DOMAIN F : M[k].hex = F[k].hex /\ \E q : MergedFrom(M[k], es, q)
    BY <1>4, OneMerged
  <1>6. \A p \in Places(es) : \E k \in DOMAIN F : F[k].hex = HexAt(es, p)
    <2> TAKE p \in Places(es)
    <2>1. PICK i \in 1 .. Len(W) : o[i] = p
      BY <1>2
    <2>2. PICK k \in 1 .. Len(F) : F[k].hex = W[i].hex
      BY <1>3
    <2> QED
      BY <1>2, <1>3, <2>1, <2>2
  <1>7. Len(M) = Len(F) /\ DOMAIN M = 1 .. Len(F)
    <2>1. M = [k \in 1 .. Len(F) |-> M[k]]
      BY <1>3
    <2> HIDE DEF M
    <2> QED
      BY <1>3, <2>1, FunctionIsSeq
  <1> HIDE DEF M
  <1>8. \A k \in DOMAIN M : PlacesOf(es, M[k].hex) # {} /\ \E q : MergedFrom(M[k], es, q)
    BY <1>3, <1>4, <1>5, <1>7
  <1>9. \A p \in Places(es) : \E k \in DOMAIN M : M[k].hex = HexAt(es, p)
    BY <1>3, <1>5, <1>6, <1>7
  <1>10. \A j, k \in DOMAIN M : M[j].hex = M[k].hex => j = k
    BY <1>3, <1>5, <1>7
  <1>11. Len(M) \in Nat /\ DOMAIN M = 1 .. Len(M)
    BY <1>3, <1>7
  <1> QED
    BY <1>1, <1>8, <1>9, <1>10, <1>11


-----------------------------------------------------------------------------
(* The systems.                                                              *)

LEMMA MaxIn ==
    ASSUME NEW n \in Nat, NEW S, S \subseteq 1 .. n, S # {}
    PROVE  Max(S) \in S
  <1>1. IsFiniteSet(1 .. n)
    BY FS_Interval
  <1>2. IsFiniteSet(S)
    BY <1>1, FS_Subset
  <1>3. \A x \in S : x \in Int
    OBVIOUS
  <1> QED
    BY <1>2, <1>3, Extremes

\* The peers of a system are systems.
LEMMA PeersShape ==
    ASSUME NEW es, IsCollection(es), NEW e, NEW w
    PROVE  \A k \in DOMAIN eraPeers(e, es, w) :
              \E i \in DOMAIN es : eraPeers(e, es, w)[k].slug = es[i].slug
  <1> DEFINE I == {i \in DOMAIN es : es[i].slug # e.slug /\ es[i].year - e.year \in -w .. w}
             F == ItemsAt(es, I)
             M == [k \in DOMAIN F |-> [slug |-> F[k].slug, year |-> F[k].year, hex |-> defaultColor(F[k]).hex]]
             less == {p \in (DOMAIN M) \X (DOMAIN M) : M[p[1]].year < M[p[2]].year}
             t == SortedBy(M, less)
  <1>1. eraPeers(e, es, w) = t
    BY DEF eraPeers, StableSort, MapSeq, Filter
  <1>2. IsSeq(es) /\ I \in SUBSET (DOMAIN es) /\ \A i \in DOMAIN es : es[i].year \in Int
    BY DEF IsCollection
  <1> HIDE DEF I
  <1>3. PICK at : Filtered(F, es, I, at)
    BY <1>2, FilterShape
  <1> HIDE DEF F
  <1> DEFINE n == Len(F)
  <1>4. n \in Nat /\ DOMAIN F = 1 .. n /\ \A k \in 1 .. n : at[k] \in DOMAIN es /\ F[k] = es[at[k]]
    BY <1>2, <1>3 DEF Filtered, Picks
  <1>5. \A k \in 1 .. n : M[k].slug = es[at[k]].slug /\ M[k].year \in Int
    BY <1>2, <1>4
  <1>6. IsSeq(M) /\ DOMAIN M = 1 .. n
    <2>1. M = [k \in 1 .. n |-> M[k]]
      BY <1>4
    <2> HIDE DEF M
    <2> QED
      BY <1>4, <2>1, FunctionIsSeq
  <1> HIDE DEF M
  <1>7. Comparison(DOMAIN M, less)
    <2> DEFINE Y == [k \in DOMAIN M |-> M[k].year]
    <2>1. \A k \in DOMAIN M : Y[k] \in Int
      BY <1>5, <1>6
    <2>2. \A i, j \in DOMAIN M : <<i, j>> \in less <=> Y[i] < Y[j]
      OBVIOUS
    <2> HIDE DEF Y, less
    <2>3. \A i, j \in DOMAIN M : <<i, j>> \in less <=> Y[i] < Y[j] \/ (Y[i] = Y[j] /\ Y[i] < Y[j])
      BY <2>1, <2>2
    <2> QED
      BY <2>1, <2>3, KeysCompare
  <1> HIDE DEF less
  <1>8. PICK b : Arranged(t, M, less, b)
    BY <1>6, <1>7, SortShape
  <1> HIDE DEF t
  <1>9. \A k \in DOMAIN t : b[k] \in 1 .. n /\ t[k] = M[b[k]]
    BY <1>6, <1>8 DEF Arranged, Picks
  <1>10. \A k \in DOMAIN t : at[b[k]] \in DOMAIN es /\ t[k].slug = es[at[b[k]]].slug
    BY <1>4, <1>5, <1>9
  <1> QED
    BY <1>1, <1>10
=============================================================================
