----------------------------- MODULE Colors_proofs -----------------------------
(* Proofs about the page of all colors, for every catalog, every set of      *)
(* systems and every search: the panel of systems, the two readings of the   *)
(* list, the counts on the pills and the preview.                            *)
EXTENDS Colors, Catalog_proofs

\* What an option needs of a color: with the picks in mode "all", by itself in
\* mode "any"; every default is a shipment.
LEMMA Needed ==
    ASSUME NEW c \in Colors, NEW sel, NEW o
    PROVE  /\ DefaultOn(c) \subseteq Platforms(c)
           /\ osMatch(c, sel \cup {o}, "all") <=> sel \cup {o} \subseteq Platforms(c)
           /\ osMatch(c, sel \cup {o}, "any") <=> (sel \cup {o}) \cap Platforms(c) # {}
           /\ defaultMatch(c, sel \cup {o}, "all") <=> sel \cup {o} \subseteq DefaultOn(c)
           /\ defaultMatch(c, sel \cup {o}, "any") <=> (sel \cup {o}) \cap DefaultOn(c) # {}
  <1>1. sel \cup {o} # {}
    OBVIOUS
  <1>2. DefaultOn(c) \subseteq Platforms(c)
    BY CatalogAssumption DEF DefaultOn, Platforms
  <1>3. /\ Picked(sel \cup {o}, "all", Platforms(c)) <=> sel \cup {o} \subseteq Platforms(c)
        /\ Picked(sel \cup {o}, "any", Platforms(c)) <=> (sel \cup {o}) \cap Platforms(c) # {}
        /\ Picked(sel \cup {o}, "all", DefaultOn(c)) <=> sel \cup {o} \subseteq DefaultOn(c)
        /\ Picked(sel \cup {o}, "any", DefaultOn(c)) <=> (sel \cup {o}) \cap DefaultOn(c) # {}
    BY DEF Picked
  <1> QED
    BY <1>1, <1>2, <1>3 DEF osMatch, defaultMatch

\* The two modes are the only ones the panel sets.
ModeInv == osMode \in {"any", "all"}

LEMMA ModeInductive == Spec => []ModeInv
  <1>1. Init => ModeInv
    BY DEF Init, ModeInv
  <1>2. ModeInv /\ [Next]_vars => ModeInv'
    BY DEF ModeInv, Next, vars, osPick, SetView, Search, ToggleFamily, ToggleType, ToggleDefaults,
           ToggleOsPanel, PickOs, ToggleOsSlug, ToggleOsFam, ToggleExp, OpenPv, StepPv,
           OpenSheet, Close
  <1> QED
    BY <1>1, <1>2, PTL DEF Spec

LEMMA HonestInMode == ModeInv => OptionsHonest
  <1> SUFFICES ASSUME ModeInv, NEW o \in Systems \ osSel
      PROVE osDisabled(o, osSel) <=>
                ~ \E c \in osUniverseColors :
                    /\ o \in Platforms(c)
                    /\ osMatch(c, osSel \cup {o}, osMode)
                    /\ defaultsOnly => o \in DefaultOn(c) /\ defaultMatch(c, osSel \cup {o}, osMode)
    BY DEF OptionsHonest
  <1>1. osUniverseColors \subseteq Colors
    BY DEF osUniverseColors
  <1>2. osDisabled(o, osSel) <=>
            ~ \E c \in osUniverseColors :
                (IF osMode = "all" THEN osSel \cup {o} ELSE {o})
                    \subseteq (IF defaultsOnly THEN DefaultOn(c) ELSE Platforms(c))
    BY DEF osDisabled, osOptionDisabled
  <1>3. ASSUME NEW c \in osUniverseColors
        PROVE  (IF osMode = "all" THEN osSel \cup {o} ELSE {o})
                   \subseteq (IF defaultsOnly THEN DefaultOn(c) ELSE Platforms(c))
               <=> /\ o \in Platforms(c)
                   /\ osMatch(c, osSel \cup {o}, osMode)
                   /\ defaultsOnly => o \in DefaultOn(c) /\ defaultMatch(c, osSel \cup {o}, osMode)
    <2>1. CASE osMode = "all"
      BY <1>1, <2>1, Needed
    <2>2. CASE osMode = "any"
      BY <1>1, <2>2, Needed
    <2> QED
      BY <2>1, <2>2 DEF ModeInv
  <1> QED
    BY <1>2, <1>3

\* An option of the panel is dead exactly if picking it would add none of its
\* colors to the grid, for every set of picks (colorCatalog.ts:208-223).
THEOREM NoDeadEnds == Spec => []OptionsHonest
  BY ModeInductive, HonestInMode, PTL

\* A pick that is added never brings a dead option back.
LEMMA DeadStaysDead ==
    ASSUME NEW sel, NEW more, NEW o, o \notin more, osDisabled(o, sel)
    PROVE  osDisabled(o, sel \cup more)
  <1>1. o \notin sel \cup more
    BY DEF osDisabled, osOptionDisabled
  <1>2. ASSUME NEW c \in osUniverseColors,
               (IF osMode = "all" THEN (sel \cup more) \cup {o} ELSE {o})
                   \subseteq (IF defaultsOnly THEN DefaultOn(c) ELSE Platforms(c))
        PROVE  FALSE
    <2>1. (IF osMode = "all" THEN sel \cup {o} ELSE {o})
              \subseteq (IF defaultsOnly THEN DefaultOn(c) ELSE Platforms(c))
      BY <1>2
    <2> QED
      BY <2>1 DEF osDisabled, osOptionDisabled
  <1> QED
    BY <1>1, <1>2 DEF osDisabled, osOptionDisabled

LEMMA TwoClicks ==
    ASSUME NEW n, OsesOf(n) \cap osSel = {}
    PROVE  FamToggled(n, FamToggled(n, osSel)) = osSel
  <1> DEFINE live(sel) == {o \in OsesOf(n) : ~osDisabled(o, sel)}
  <1>1. \A sel : FamToggled(n, sel) = IF live(sel) # {} /\ live(sel) \subseteq sel
                                      THEN sel \ live(sel) ELSE sel \cup live(sel)
    BY DEF FamToggled
  <1>2. live(osSel) \cap osSel = {} /\ live(osSel) \subseteq OsesOf(n)
    OBVIOUS
  <1>3. CASE live(osSel) = {}
    <2>1. FamToggled(n, osSel) = osSel
      BY <1>1, <1>3
    <2> QED
      BY <2>1
  <1>4. CASE live(osSel) # {}
    <2>1. FamToggled(n, osSel) = osSel \cup live(osSel)
      BY <1>1, <1>2, <1>4
    <2>2. ASSUME NEW o \in OsesOf(n)
          PROVE  osDisabled(o, osSel \cup live(osSel)) <=> o \notin live(osSel)
      <3>1. CASE o \in live(osSel)
        BY <3>1 DEF osDisabled, osOptionDisabled
      <3>2. CASE o \notin live(osSel)
        BY <3>2, DeadStaysDead
      <3> QED
        BY <3>1, <3>2
    <2>3. live(osSel \cup live(osSel)) = live(osSel)
      BY <2>2
    <2> HIDE DEF live
    <2>4. FamToggled(n, osSel \cup live(osSel)) = (osSel \cup live(osSel)) \ live(osSel)
      BY <1>1, <1>4, <2>3
    <2> QED
      BY <1>2, <2>1, <2>4
  <1> QED
    BY <1>3, <1>4

\* Two clicks on the box of a family with no pick in it leave the picks as they
\* were, whatever the second click finds dead (Colors.tsx:119-127).
THEOREM FamilyBoxUndoes == Spec => []FamToggleUndoes
  <1>1. FamToggleUndoes
    BY TwoClicks DEF FamToggleUndoes
  <1> QED
    BY <1>1, PTL


-----------------------------------------------------------------------------
(* The lists.                                                                *)

\* What comes before a color in a sorted list of the colors cs.
Before(cs, s) ==
    [b \in cs |-> {a \in cs : IF s = "pop" THEN popCmp(a, b) ELSE spectrumCmp(a, b)}]

\* Ties of both comparisons are broken by the catalog, so each is an order of
\* all colors.
LEMMA ComparisonsOrder ==
    ASSUME NEW cs \in SUBSET Colors, NEW s
    PROVE  StrictOrder(cs, Before(cs, s))
  <1> DEFINE after(a, b) == IF s = "pop" THEN popCmp(a, b) ELSE spectrumCmp(a, b)
  <1>1. \A c \in cs : c \in Int /\ Hue[c] \in Int /\ Light[c] \in Int /\ Score[c] \in Int
    <2>1. Hue \in [Colors -> Int] /\ Light \in [Colors -> Int] /\ Score \in [Colors -> Int]
      BY CatalogAssumption
    <2>2. \A c \in cs : c \in Colors /\ c \in Nat
      BY CatalogAssumption
    <2> QED
      BY <2>1, <2>2
  <1>2. \A a \in cs : ~popCmp(a, a) /\ ~spectrumCmp(a, a)
    BY <1>1 DEF popCmp, spectrumCmp
  <1>3. \A a, b \in cs : a # b => /\ popCmp(a, b) \/ popCmp(b, a)
                                  /\ spectrumCmp(a, b) \/ spectrumCmp(b, a)
    BY <1>1 DEF popCmp, spectrumCmp
  <1>4. \A a, b, c \in cs : popCmp(a, b) /\ popCmp(b, c) => popCmp(a, c)
    BY <1>1 DEF popCmp
  <1>5. \A a, b, c \in cs : spectrumCmp(a, b) /\ spectrumCmp(b, c) => spectrumCmp(a, c)
    BY <1>1 DEF spectrumCmp
  <1>6. \A b \in cs : Before(cs, s)[b] = {a \in cs : after(a, b)}
    BY DEF Before
  <1>7. CASE s = "pop"
    BY <1>2, <1>3, <1>4, <1>6, <1>7 DEF StrictOrder
  <1>8. CASE s # "pop"
    BY <1>2, <1>3, <1>5, <1>6, <1>8 DEF StrictOrder
  <1> QED
    BY <1>7, <1>8

\* A sorted list has every color once.
LEMMA SortedLists ==
    ASSUME NEW cs \in SUBSET Colors, NEW s
    PROVE  /\ Lists(Sorted(cs, s), cs, Before(cs, s)) /\ IsFiniteSet(cs)
           /\ IsSeq(Sorted(cs, s)) /\ Len(Sorted(cs, s)) = Cardinality(cs)
           /\ ToSet(Sorted(cs, s)) = cs
  <1> DEFINE r == Sorted(cs, s)
             n == Cardinality(cs)
  <1>1. IsFiniteSet(cs)
    BY CatalogAssumption, FS_Subset
  <1>2. r = Ranked(cs, Before(cs, s))
    BY DEF Sorted, Before
  <1>3. Lists(r, cs, Before(cs, s))
    BY <1>1, <1>2, ComparisonsOrder, RankedLists
  <1> HIDE DEF r
  <1>4. n \in Nat /\ r \in [1 .. n -> cs] /\ \A c \in cs : \E k \in 1 .. n : r[k] = c
    BY <1>3 DEF Lists
  <1>5. r = [k \in 1 .. n |-> r[k]]
    BY <1>4
  <1> HIDE DEF n
  <1>6. IsSeq(r) /\ Len(r) = n /\ DOMAIN r = 1 .. n
    BY <1>4, <1>5, FunctionIsSeq
  <1>7. ToSet(r) = cs
    BY <1>4, <1>6 DEF ToSet
  <1> QED
    BY <1>1, <1>3, <1>6, <1>7 DEF r, n


\* The colors of the bands, for any facets and any set of colors.
Within(cs, f, t) == {c \in cs : PassesFacets(c, f, t)}
OfFamily(cs, d)  == {c \in cs : Fam[c] = d}

\* A band of a family has its colors among those that pass the facets; all
\* bands have all of these.
LEMMA BandsShow ==
    ASSUME NEW cs \in SUBSET Colors, NEW f, NEW t, NEW s
    PROVE  /\ \A b \in ToSet(groupIntoBands(cs, f, t, s)) :
                \E d \in ToSet(FamilyDefs) : /\ OfFamily(Within(cs, f, t), d) # {}
                                             /\ b = Sorted(OfFamily(Within(cs, f, t), d), s)
           /\ UNION {ToSet(b) : b \in ToSet(groupIntoBands(cs, f, t, s))} = Within(cs, f, t)
  <1> DEFINE T(d) == OfFamily(Within(cs, f, t), d)
             band == [d \in ToSet(FamilyDefs) |->
                         Sorted({c \in cs : Fam[c] = d /\ PassesFacets(c, f, t)}, s)]
             I == {i \in DOMAIN FamilyDefs : band[FamilyDefs[i]] # << >>}
             defs == ItemsAt(FamilyDefs, I)
             bs == groupIntoBands(cs, f, t, s)
  <1>1. \A d \in ToSet(FamilyDefs) : band[d] = Sorted(T(d), s)
    <2> TAKE d \in ToSet(FamilyDefs)
    <2>1. {c \in cs : Fam[c] = d /\ PassesFacets(c, f, t)} = T(d)
      BY DEF Within, OfFamily
    <2> QED
      BY <2>1
  <1>2. bs = [i \in DOMAIN defs |-> band[defs[i]]]
    BY DEF groupIntoBands, Filter
  <1>3. \A d \in ToSet(FamilyDefs) : /\ ToSet(Sorted(T(d), s)) = T(d)
                                     /\ Sorted(T(d), s) # << >> <=> T(d) # {}
    <2> TAKE d \in ToSet(FamilyDefs)
    <2>1. T(d) \in SUBSET Colors
      BY DEF Within, OfFamily
    <2>2. /\ ToSet(Sorted(T(d), s)) = T(d) /\ Len(Sorted(T(d), s)) = Cardinality(T(d))
          /\ IsFiniteSet(T(d)) /\ IsSeq(Sorted(T(d), s))
      BY <2>1, SortedLists
    <2>3. Cardinality(T(d)) = 0 <=> T(d) = {}
      BY <2>2, FS_EmptySet
    <2>4. Sorted(T(d), s) = << >> <=> Len(Sorted(T(d), s)) = 0
      BY <2>2, EmptySeq, LenProperties DEF IsSeq
    <2> QED
      BY <2>2, <2>3, <2>4
  <1> HIDE DEF band, bs
  <1>4. PICK at : Filtered(defs, FamilyDefs, I, at)
    BY CatalogAssumption, FilterShape
  <1>5. /\ \A k \in DOMAIN defs : defs[k] = FamilyDefs[at[k]] /\ at[k] \in I
        /\ \A i \in I : \E k \in DOMAIN defs : at[k] = i
    BY <1>4 DEF Filtered, Picks
  <1> HIDE DEF defs
  <1>6. \A i \in DOMAIN FamilyDefs : FamilyDefs[i] \in ToSet(FamilyDefs)
    BY DEF ToSet
  <1>7. \A k \in DOMAIN defs : /\ defs[k] \in ToSet(FamilyDefs) /\ T(defs[k]) # {}
                               /\ bs[k] = Sorted(T(defs[k]), s)
    <2> TAKE k \in DOMAIN defs
    <2>1. at[k] \in DOMAIN FamilyDefs /\ defs[k] = FamilyDefs[at[k]] /\ band[FamilyDefs[at[k]]] # << >>
      BY <1>5
    <2>2. defs[k] \in ToSet(FamilyDefs) /\ band[defs[k]] # << >>
      BY <1>6, <2>1
    <2>3. bs[k] = band[defs[k]]
      BY <1>2
    <2> HIDE DEF T
    <2> QED
      BY <1>1, <1>3, <2>2, <2>3
  <1>8. \A b \in ToSet(bs) : \E k \in DOMAIN defs : b = bs[k]
    BY <1>2 DEF ToSet
  <1>9. ASSUME NEW c \in Within(cs, f, t) PROVE \E k \in DOMAIN defs : c \in T(defs[k])
    <2>1. Fam[c] \in ToSet(FamilyDefs) /\ c \in T(Fam[c])
      BY CatalogAssumption DEF Within, OfFamily
    <2>2. PICK i \in DOMAIN FamilyDefs : FamilyDefs[i] = Fam[c]
      BY <2>1 DEF ToSet
    <2>3. i \in I
      BY <1>1, <1>3, <2>1, <2>2
    <2>4. PICK k \in DOMAIN defs : at[k] = i
      BY <1>5, <2>3
    <2> QED
      BY <1>5, <2>1, <2>2, <2>4
  <1>10. \A k \in DOMAIN defs : bs[k] \in ToSet(bs)
    BY <1>2 DEF ToSet
  <1>11. \A k \in DOMAIN defs : ToSet(bs[k]) = T(defs[k]) /\ T(defs[k]) \subseteq Within(cs, f, t)
    <2> TAKE k \in DOMAIN defs
    <2>1. T(defs[k]) \subseteq Within(cs, f, t)
      BY DEF OfFamily
    <2> HIDE DEF T
    <2> QED
      BY <1>3, <1>7, <2>1
  <1> HIDE DEF T
  <1>12. UNION {ToSet(b) : b \in ToSet(bs)} \subseteq Within(cs, f, t)
    BY <1>11, <1>8
  <1>13. Within(cs, f, t) \subseteq UNION {ToSet(b) : b \in ToSet(bs)}
    BY <1>11, <1>9, <1>10
  <1>14. \A b \in ToSet(bs) : \E d \in ToSet(FamilyDefs) : T(d) # {} /\ b = Sorted(T(d), s)
    BY <1>7, <1>8
  <1> QED
    BY <1>12, <1>13, <1>14 DEF bs, T


LEMMA OneReading == BandsAreRanking
  <1> DEFINE M == {c \in matched : osMatches(c)}
             R == Within(M, family, type)
             T(d) == OfFamily(R, d)
  <1>1. M \in SUBSET Colors /\ R \in SUBSET Colors
    BY DEF matched, Within
  <1>2. bands = groupIntoBands(M, family, type, sort)
    BY DEF bands
  <1>3. ranking = Sorted(R, sort)
    <2>1. \A c \in M : /\ PassesFacets(c, None, type) <=> type \in Types[c] \cup {None}
                       /\ PassesFacets(c, family, type) <=> family \in {None, Fam[c]} /\ type \in Types[c] \cup {None}
      BY DEF PassesFacets
    <2>2. {c \in {c \in matched : osMatches(c) /\ PassesFacets(c, None, type)} : family \in {None, Fam[c]}} = R
      BY <2>1 DEF Within
    <2> HIDE DEF R
    <2>3. ranking = Sorted({c \in {c \in matched : osMatches(c) /\ PassesFacets(c, None, type)} :
                              family \in {None, Fam[c]}}, sort)
      BY DEF ranking, rankColors
    <2> QED
      BY <2>2, <2>3
  <1> HIDE DEF M, R
  <1>4. UNION {ToSet(b) : b \in ToSet(bands)} = R
    BY <1>1, <1>2, BandsShow DEF R
  <1>5. /\ Lists(ranking, R, Before(R, sort)) /\ IsSeq(ranking) /\ ToSet(ranking) = R
        /\ Len(ranking) = Cardinality(R)
    BY <1>1, <1>3, SortedLists
  <1>6. DOMAIN ranking = 1 .. Cardinality(R)
    BY <1>5, SeqShape
  <1>7. ASSUME NEW b \in ToSet(bands) PROVE b = Filter(ranking, LAMBDA c : Fam[c] = Fam[b[1]])
    <2>1. PICK d \in ToSet(FamilyDefs) : T(d) # {} /\ b = Sorted(T(d), sort)
      BY <1>1, <1>2, BandsShow DEF R
    <2>2. T(d) \in SUBSET R /\ T(d) \in SUBSET Colors
      BY <1>1 DEF OfFamily
    <2>3. \A c \in T(d) : Fam[c] = d
      BY DEF OfFamily
    <2> DEFINE I == {k \in 1 .. Cardinality(R) : ranking[k] \in T(d)}
    <2>4. \A k \in 1 .. Cardinality(R) : ranking[k] \in T(d) <=> Fam[ranking[k]] = d
      BY <1>5 DEF Lists, OfFamily
    <2> HIDE DEF T
    <2>5. Lists(b, T(d), Before(T(d), sort)) /\ IsSeq(b) /\ Len(b) = Cardinality(T(d)) /\ IsFiniteSet(T(d))
      BY <2>1, <2>2, SortedLists
    <2>6. Fam[b[1]] = d
      <3>1. Cardinality(T(d)) \in Nat /\ b \in [1 .. Cardinality(T(d)) -> T(d)]
        BY <2>5 DEF Lists
      <3>2. PICK x \in T(d) : TRUE
        BY <2>1
      <3>3. PICK k \in 1 .. Cardinality(T(d)) : b[k] = x
        BY <2>5 DEF Lists
      <3>4. 1 \in 1 .. Cardinality(T(d))
        BY <3>1, <3>3
      <3> QED
        BY <2>3, <3>1, <3>4
    <2>7. Filter(ranking, LAMBDA c : Fam[c] = Fam[b[1]]) = ItemsAt(ranking, I)
      BY <1>6, <2>4, <2>6 DEF Filter
    <2>8. Lists(ItemsAt(ranking, I), T(d), Before(R, sort))
      BY <1>5, <2>2, FilterLists
    <2>9. \A x, y \in T(d) : x \in Before(R, sort)[y] <=> x \in Before(T(d), sort)[y]
      BY <2>2 DEF Before
    <2>10. Lists(ItemsAt(ranking, I), T(d), Before(T(d), sort))
      BY <2>8, <2>9, OrderWithin
    <2> QED
      BY <2>5, <2>7, <2>10, OneList
  <1> QED
    BY <1>4, <1>5, <1>7 DEF BandsAreRanking

\* Grouped and ungrouped show the same colors in the same order, for every
\* catalog, search, facet and pick: the two paths of Colors.tsx:73-83 agree.
THEOREM TwoReadings == Spec => []BandsAreRanking
  BY OneReading, PTL

LEMMA PillsTrue == CountsTrue
  <1> DEFINE left(f, t) == Cardinality(UNION {ToSet(b) : b \in ToSet(groupIntoBands(matched, f, t, sort))})
  <1>1. matched \in SUBSET Colors
    BY DEF matched
  <1>2. \A f, t : left(f, t) = Cardinality(Within(matched, f, t))
    BY <1>1, BandsShow
  <1>3. ASSUME NEW f \in DOMAIN counts PROVE counts[f] = left(f, type)
    <2>1. f \in ToSet(FamilyDefs) /\ f # None
      BY CatalogAssumption DEF counts, familyCounts
    <2>2. counts[f] = Cardinality({c \in {c \in matched : PassesFacets(c, None, type)} : Fam[c] = f})
      BY <2>1 DEF counts, familyCounts
    <2>3. {c \in {c \in matched : PassesFacets(c, None, type)} : Fam[c] = f} = Within(matched, f, type)
      BY <2>1 DEF Within, PassesFacets
    <2> QED
      BY <1>2, <2>2, <2>3
  <1>4. ASSUME NEW t \in DOMAIN tCounts PROVE tCounts[t] = left(family, t)
    <2>1. t \in TypeDefs /\ t # None
      BY CatalogAssumption DEF tCounts, typeCounts
    <2>2. tCounts[t] = Cardinality({c \in {c \in matched : PassesFacets(c, family, None)} : t \in Types[c]})
      BY <2>1 DEF tCounts, typeCounts
    <2>3. {c \in {c \in matched : PassesFacets(c, family, None)} : t \in Types[c]} = Within(matched, family, t)
      BY <2>1 DEF Within, PassesFacets
    <2> QED
      BY <1>2, <2>2, <2>3
  <1> QED
    BY <1>3, <1>4 DEF CountsTrue

\* The number on a pill is what a click on it leaves, whatever the search and
\* the other facet (colorCatalog.ts:51-63 against 102-119).
THEOREM PillsCount == Spec => []CountsTrue
  BY PillsTrue, PTL

-----------------------------------------------------------------------------
(* The preview.                                                              *)

(* It has a copy of a list that was on screen when it was opened; what is on  *)
(* screen meanwhile may be any other.                                        *)

Orders == {"spectrum", "pop"}

\* The lists a page can show: some colors, each once, in one of the orders.
Whole(l) == \E cs \in SUBSET Colors, s \in Orders : l = Sorted(cs, s)

LEMMA WholeShape ==
    ASSUME NEW l, Whole(l)
    PROVE  /\ Len(l) \in Nat /\ DOMAIN l = 1 .. Len(l)
           /\ \E s \in Orders : l = Sorted(ToSet(l), s)
  <1>1. PICK cs \in SUBSET Colors, s \in Orders : l = Sorted(cs, s)
    BY DEF Whole
  <1>2. IsSeq(l) /\ ToSet(l) = cs
    BY <1>1, SortedLists
  <1>3. l = Sorted(ToSet(l), s)
    BY <1>1, <1>2
  <1> QED
    BY <1>2, <1>3, SeqShape

\* Whatever is on screen is such a list.
LEMMA GridsAreWhole == sort \in Orders => \A l \in Grids : Whole(l)
  <1> SUFFICES ASSUME sort \in Orders, NEW l \in Grids PROVE Whole(l)
    OBVIOUS
  <1> DEFINE M == {c \in matched : osMatches(c)}
             R == {c \in {c \in matched : osMatches(c) /\ PassesFacets(c, None, type)} : family \in {None, Fam[c]}}
  <1>1. M \in SUBSET Colors /\ R \in SUBSET Colors
    BY DEF matched
  <1>2. ranking = Sorted(R, sort) /\ bands = groupIntoBands(M, family, type, sort)
    BY DEF ranking, rankColors, bands
  <1> HIDE DEF M, R
  <1>3. CASE l = ranking
    BY <1>1, <1>2, <1>3 DEF Whole
  <1>4. CASE l \in ToSet(bands)
    <2> DEFINE T(d) == OfFamily(Within(M, family, type), d)
    <2>0. \A b \in ToSet(groupIntoBands(M, family, type, sort)) :
            \E d \in ToSet(FamilyDefs) : T(d) # {} /\ b = Sorted(T(d), sort)
      BY <1>1, BandsShow
    <2>1. PICK d \in ToSet(FamilyDefs) : l = Sorted(T(d), sort)
      BY <1>2, <1>4, <2>0
    <2>2. T(d) \in SUBSET Colors
      BY <1>1 DEF Within, OfFamily
    <2> QED
      BY <2>1, <2>2 DEF Whole
  <1> QED
    BY <1>3, <1>4 DEF Grids

\* An open preview is a place in one of these lists.
PreviewInv ==
    /\ sort \in Orders
    /\ pv # None => /\ pv = [list |-> pv.list, idx |-> pv.idx] /\ Whole(pv.list)
                    /\ pv.idx \in 0 .. Len(pv.list) - 1

LEMMA PreviewStep == PreviewInv /\ [Next]_vars => PreviewInv'
  <1> SUFFICES ASSUME PreviewInv, [Next]_vars PROVE PreviewInv'
    OBVIOUS
  <1>1. sort' \in Orders
    BY DEF PreviewInv, Orders, Next, vars, view, SetView, Search, ToggleFamily, ToggleType,
           ToggleDefaults, ToggleOsPanel, PickOs, ToggleExp, OpenPv, StepPv, OpenSheet, Close
  <1>2. CASE pv' = pv
    BY <1>1, <1>2 DEF PreviewInv, Whole
  <1>3. CASE pv' = None
    BY <1>1, <1>3 DEF PreviewInv
  <1>4. CASE OpenPv
    <2>1. PICK l \in Grids : \E i \in DOMAIN l : pv' = [list |-> l, idx |-> i - 1]
      BY <1>4 DEF OpenPv
    <2>2. PICK i \in DOMAIN l : pv' = [list |-> l, idx |-> i - 1]
      BY <2>1
    <2>3. Whole(l)
      BY GridsAreWhole DEF PreviewInv
    <2>4. i - 1 \in 0 .. Len(l) - 1
      BY <2>3, WholeShape
    <2> QED
      BY <1>1, <2>2, <2>3, <2>4 DEF PreviewInv, Whole
  <1>5. CASE StepPv
    <2>1. PICK d \in {-1, 1} : pv' = [pv EXCEPT !.idx = JsRem(@ + d + Len(pv.list), Len(pv.list))]
      BY <1>5 DEF StepPv
    <2>2. pv = [list |-> pv.list, idx |-> pv.idx] /\ Whole(pv.list) /\ pv.idx \in 0 .. Len(pv.list) - 1
      BY <1>5 DEF StepPv, PreviewInv
    <2> DEFINE n == Len(pv.list)
               j == JsRem(pv.idx + d + n, n)
    <2>3. n \in Nat /\ n > 0
      BY <2>2, WholeShape
    <2>4. j \in 0 .. n - 1
      <3> HIDE DEF n
      <3>1. pv.idx + d + n \in Nat
        BY <2>2, <2>3 DEF n
      <3> QED
        BY <2>3, <3>1 DEF JsRem
    <2>5. pv' = [list |-> pv.list, idx |-> j]
      BY <2>1, <2>2
    <2> HIDE DEF j
    <2> QED
      BY <1>1, <2>2, <2>4, <2>5 DEF PreviewInv, Whole
  <1> QED
    BY <1>2, <1>3, <1>4, <1>5
    DEF Next, vars, SetView, Search, ToggleFamily, ToggleType, ToggleDefaults, ToggleOsPanel,
        PickOs, ToggleExp, OpenSheet, Close

\* Whatever is searched, sorted or picked under an open preview, it goes round
\* the list it was opened with, whole and in one order, and shows a color of it
\* (Colors.tsx:101-103), for every catalog and in both directions.
THEOREM PreviewStays == Spec => []PreviewWhole
  <1>1. Init => PreviewInv
    BY DEF Init, PreviewInv, Orders
  <1>2. PreviewInv => PreviewWhole
    BY WholeShape DEF PreviewInv, PreviewWhole, Orders
  <1> QED
    BY <1>1, <1>2, PreviewStep, PTL DEF Spec
=============================================================================
