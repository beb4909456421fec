---------------------------------- MODULE Js ----------------------------------
(* What the language of the islands does with numbers and arrays.  A test of *)
(* an array is the set of the indices that pass, an order says of each item  *)
(* what comes before it: the proofs speak of those.                          *)
EXTENDS Integers, SequencesExt

\* The % of JavaScript: the result has the sign of the dividend, so a step to
\* the left of the first item is negative unless the length is added first.
JsRem(a, n) == IF a >= 0 THEN a % n ELSE -((-a) % n)

IsSeq(s) == s \in Seq(Range(s))

\* The members of the finite set S in the order in which before[x] are those
\* that come before x.
Ranked(S, before) ==
    LET rank == [x \in S |-> Cardinality(before[x])]
    IN  [k \in 1 .. Cardinality(S) |-> CHOOSE x \in S : rank[x] = k - 1]

\* The items of s at the indices I, in the order in which s has them.
Ascending(I) == [j \in I |-> {i \in I : i < j}]
ItemsAt(s, I) ==
    LET at == Ranked(I, Ascending(I))
    IN  [k \in DOMAIN at |-> s[at[k]]]

\* Array.filter and Array.map.
Filter(s, Test(_)) == ItemsAt(s, {i \in DOMAIN s : Test(s[i])})
MapSeq(s, Op(_))   == [i \in DOMAIN s |-> Op(s[i])]

\* Array.slice from the start.
Take(s, n) == SubSeq(s, 1, IF Len(s) <= n THEN Len(s) ELSE n)

\* The items of s that no earlier item has the field `hex` of.
FirstOfHex(s) == ItemsAt(s, {i \in DOMAIN s : \A j \in 1 .. i - 1 : s[j].hex # s[i].hex})

\* Array.sort is stable: of two indices neither of which is less than the
\* other, the one that came first still does.
Stably(D, less) ==
    [j \in D |-> {i \in D : <<i, j>> \in less \/ (<<j, i>> \notin less /\ i < j)}]
SortedBy(s, less) ==
    LET at == Ranked(DOMAIN s, Stably(DOMAIN s, less))
    IN  [k \in DOMAIN at |-> s[at[k]]]
StableSort(s, Precedes(_, _)) ==
    SortedBy(s, {p \in (DOMAIN s) \X (DOMAIN s) : Precedes(s[p[1]], s[p[2]])})
=============================================================================
