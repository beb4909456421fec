---------------------------- MODULE OsDetail_proofs ----------------------------
(* Proofs about the page of a system, with its copied rows, for every        *)
(* content of the releases: the selection, the address bar and the similar   *)
(* color that is expanded stay together, in every order of clicks, renders,  *)
(* late effects, timers and the answer of the fetch.                         *)
EXTENDS CopyLabels, Catalog_proofs

-----------------------------------------------------------------------------
(* Lists, and what is found in them                                          *)

LEMMA MinIn ==
    ASSUME NEW S, S \subseteq Nat, S # {}
    PROVE  Min(S) \in S
  <1>1. PICK x \in S : \A y \in S : x <= y
    BY LeastIn
  <1> QED
    BY <1>1 DEF Min

\* A color is found where it is; without it the page falls back on a place of
\* its list (OsDetail.tsx:60-70).
LEMMA FindsHex ==
    ASSUME NEW v, IsSeq(v), v # << >>, NEW h
    PROVE  /\ idxOfHex(v, h) \in DOMAIN v
           /\ h \in Hexes(v) => v[idxOfHex(v, h)].hex = h
  <1> DEFINE I == {i \in 1 .. Len(v) : v[i].hex = h}
             D == {i \in 1 .. Len(v) : v[i].isDefault}
             i0 == IF I # {} THEN Min(I) ELSE 0
             d0 == IF D # {} THEN Min(D) ELSE 0
  <1>1. Len(v) \in Nat /\ DOMAIN v = 1 .. Len(v) /\ Len(v) # 0
    <2>1. Len(v) \in Nat /\ DOMAIN v = 1 .. Len(v)
      BY SeqShape
    <2>2. Len(v) # 0
      BY EmptySeq DEF IsSeq
    <2> QED
      BY <2>1, <2>2
  <1>2. I # {} => Min(I) \in I
    <2>1. I \subseteq Nat
      BY <1>1
    <2> QED
      BY <2>1, MinIn
  <1>3. D # {} => Min(D) \in D
    <2>1. D \subseteq Nat
      BY <1>1
    <2> QED
      BY <2>1, MinIn
  <1>4. defaultIdx(v) = IF d0 > 0 THEN d0 ELSE 1
    BY DEF defaultIdx, findIndex, SelectInSeq
  <1>5. idxOfHex(v, h) = IF i0 > 0 THEN i0 ELSE defaultIdx(v)
    BY DEF idxOfHex, findIndex, SelectInSeq
  <1>6. defaultIdx(v) \in DOMAIN v
    BY <1>1, <1>3, <1>4
  <1>7. h \in Hexes(v) => I # {}
    BY <1>1 DEF Hexes
  <1> HIDE DEF I, D
  <1>8. I \subseteq DOMAIN v /\ \A i \in I : v[i].hex = h
    BY <1>1 DEF I
  <1>9. CASE I # {}
    <2>1. i0 \in I /\ i0 > 0
      BY <1>1, <1>2, <1>8, <1>9
    <2> QED
      BY <1>5, <1>8, <2>1
  <1>10. CASE I = {}
    BY <1>5, <1>6, <1>7, <1>10
  <1> QED
    BY <1>9, <1>10

\* From any place the next one in either direction is a place of the list, at
\* both ends (OsDetail.tsx:169).
LEMMA AroundStays ==
    ASSUME NEW n \in Nat \ {0}, NEW i \in 1 .. n, NEW d \in {-1, 1}
    PROVE  Around(i, d, n) \in 1 .. n
  <1>1. i - 1 + d + n \in Nat
    OBVIOUS
  <1>2. (i - 1 + d + n) % n \in 0 .. n - 1
    BY <1>1
  <1>3. Around(i, d, n) = ((i - 1 + d + n) % n) + 1
    BY <1>1 DEF Around, JsRem
  <1> QED
    BY <1>2, <1>3

\* What a release shows of the system is a list of colors, with who shipped each
\* and the colors similar to it.
LEMMA ViewShape ==
    ASSUME NEW r \in Releases
    PROVE  LET v == Views[r]
           IN  /\ IsSeq(v) /\ v # << >>
               /\ \A i \in DOMAIN v :
                    /\ v[i] = [hex |-> v[i].hex, isDefault |-> v[i].isDefault,
                               uses |-> platformsByHex(Contents[r], v[i].hex),
                               similar |-> similarOf(v[i].hex, Contents[r], Slug)]
                    /\ v[i].hex \in WellFormedHexes
  <1> DEFINE es == Contents[r]
             v == Views[r]
             I == {i \in 1 .. Len(es) : es[i].slug = Slug}
             at == SelectLastInSeq(es, LAMBDA x : x.slug = Slug)
             cs == es[at].colors
  <1>1. /\ IsCollection(es) /\ IsSeq(es) /\ Len(es) \in Nat /\ DOMAIN es = 1 .. Len(es)
        /\ \A p \in Places(es) : es[p[1]].colors[p[2]].hex \in WellFormedHexes
        /\ I # {} /\ \A i \in DOMAIN es : es[i].colors # << >>
    <2>1. /\ IsCollection(es) /\ \E i \in DOMAIN es : es[i].slug = Slug
          /\ \A p \in Places(es) : es[p[1]].colors[p[2]].hex \in WellFormedHexes
          /\ \A i \in DOMAIN es : es[i].colors # << >>
      BY ContentsAssumption
    <2>2. IsSeq(es)
      BY <2>1 DEF IsCollection
    <2>3. Len(es) \in Nat /\ DOMAIN es = 1 .. Len(es)
      BY <2>2, SeqShape
    <2> QED
      BY <2>1, <2>2, <2>3
  <1>2. at \in DOMAIN es
    <2>1. at = Max(I)
      BY <1>1 DEF SelectLastInSeq
    <2>2. Max(I) \in I
      <3>1. I \subseteq 1 .. Len(es)
        OBVIOUS
      <3> HIDE DEF I
      <3> QED
        BY <1>1, <3>1, MaxIn
    <2> QED
      BY <1>1, <2>1, <2>2
  <1>3. v = [i \in DOMAIN cs |-> [hex |-> cs[i].hex, isDefault |-> cs[i].default,
                                  uses |-> platformsByHex(es, cs[i].hex),
                                  similar |-> similarOf(cs[i].hex, es, Slug)]]
    BY DEF Views, buildOsDetail, MapSeq
  <1> HIDE DEF es, v, at
  <1>4. IsSeq(cs) /\ cs # << >>
    BY <1>1, <1>2 DEF IsCollection
  <1>5. \A i \in DOMAIN cs : cs[i].hex \in WellFormedHexes
    <2> TAKE i \in DOMAIN cs
    <2>1. <<at, i>> \in Places(es)
      BY <1>1, <1>2, FilesOrdered
    <2> QED
      BY <1>1, <2>1
  <1> HIDE DEF cs
  <1>6. Len(cs) \in Nat /\ DOMAIN cs = 1 .. Len(cs) /\ Len(cs) # 0
    <2>1. Len(cs) \in Nat /\ DOMAIN cs = 1 .. Len(cs)
      BY <1>4, SeqShape
    <2> QED
      BY <1>4, <2>1, EmptySeq DEF IsSeq
  <1>7. IsSeq(v) /\ Len(v) = Len(cs) /\ DOMAIN v = DOMAIN cs
    <2>1. v = [i \in 1 .. Len(cs) |-> v[i]]
      BY <1>3, <1>6
    <2> QED
      BY <1>6, <2>1, FunctionIsSeq
  <1>8. v # << >>
    BY <1>6, <1>7, EmptySeq
  <1>9. ASSUME NEW i \in DOMAIN v
        PROVE  /\ v[i] = [hex |-> v[i].hex, isDefault |-> v[i].isDefault,
                          uses |-> platformsByHex(es, v[i].hex), similar |-> similarOf(v[i].hex, es, Slug)]
               /\ v[i].hex \in WellFormedHexes
    BY <1>3, <1>5, <1>7
  <1> QED
    BY <1>7, <1>8, <1>9 DEF es, v

LEMMA ViewsAreLists ==
    \A r \in Releases :
        /\ IsSeq(Views[r]) /\ Views[r] # << >>
        /\ \A i \in DOMAIN Views[r] :
              IsSeq(Views[r][i].similar) /\ pickColorDetail(Views[r][i]) # None
  <1> SUFFICES ASSUME NEW r \in Releases
               PROVE  /\ IsSeq(Views[r]) /\ Views[r] # << >>
                      /\ \A i \in DOMAIN Views[r] :
                            IsSeq(Views[r][i].similar) /\ pickColorDetail(Views[r][i]) # None
    OBVIOUS
  <1>1. IsSeq(Views[r]) /\ Views[r] # << >>
    BY ViewShape
  <1>2. ASSUME NEW i \in DOMAIN Views[r] PROVE IsSeq(Views[r][i].similar)
    <2>1. Views[r][i].similar = similarOf(Views[r][i].hex, Contents[r], Slug) /\ Views[r][i].hex \in WellFormedHexes
      <3>1. /\ Views[r][i] = [hex |-> Views[r][i].hex, isDefault |-> Views[r][i].isDefault,
                               uses |-> platformsByHex(Contents[r], Views[r][i].hex),
                               similar |-> similarOf(Views[r][i].hex, Contents[r], Slug)]
            /\ Views[r][i].hex \in WellFormedHexes
        BY ViewShape
      <3> QED
        BY <3>1
    <2>2. IsCollection(Contents[r]) /\ WellHexed(Contents[r])
      BY ContentsAssumption DEF WellHexed, HexAt
    <2> QED
      BY <2>1, <2>2, SimilarShape DEF NearestOf
  <1> QED
    BY <1>1, <1>2, NoneAssumption

\* What is fetched is a list as long as the one it was made of, and so are its
\* lists of similar colors, through both conversions of the wire format.
LEMMA WireKeepsLists ==
    ASSUME NEW r \in Releases
    PROVE  LET dn == denormalizeDetails(normalizeDetails(Views[r]))
           IN  /\ IsSeq(dn) /\ DOMAIN dn = DOMAIN Views[r]
               /\ \A i \in DOMAIN dn : IsSeq(dn[i].similar)
  <1> DEFINE v    == Views[r]
             json == normalizeDetails(v)
             wire == json.details
             dn   == denormalizeDetails(json)
  <1>1. IsSeq(v) /\ \A i \in DOMAIN v : IsSeq(v[i].similar)
    BY ViewsAreLists
  <1>2. DOMAIN wire = DOMAIN v /\ \A i \in DOMAIN v : DOMAIN wire[i].similar = DOMAIN v[i].similar
    BY DEF normalizeDetails, MapSeq
  <1>3. /\ DOMAIN dn = DOMAIN wire
        /\ dn = [i \in DOMAIN dn |-> dn[i]]
        /\ \A i \in DOMAIN wire : /\ DOMAIN dn[i].similar = DOMAIN wire[i].similar
                                  /\ dn[i].similar = [j \in DOMAIN dn[i].similar |-> dn[i].similar[j]]
    BY DEF denormalizeDetails, MapSeq
  <1> HIDE DEF dn, wire
  <1>4. IsSeq(dn)
    <2>1. Len(v) \in Nat /\ DOMAIN dn = 1 .. Len(v)
      BY <1>1, <1>2, <1>3, SeqShape
    <2> QED
      BY <1>3, <2>1, FunctionIsSeq
  <1>5. ASSUME NEW i \in DOMAIN dn PROVE IsSeq(dn[i].similar)
    <2>1. Len(v[i].similar) \in Nat /\ DOMAIN v[i].similar = 1 .. Len(v[i].similar)
      BY <1>1, <1>2, <1>3, SeqShape
    <2>2. DOMAIN dn[i].similar = 1 .. Len(v[i].similar)
      BY <1>2, <1>3, <2>1
    <2> QED
      BY <1>3, <2>1, <2>2, FunctionIsSeq
  <1> QED
    BY <1>2, <1>3, <1>4, <1>5 DEF dn

\* The place at which a color of the page is looked up in what was fetched is a
\* place of it, whichever of the two is longer.
LEMMA LookedUpInRange ==
    ASSUME NEW v, IsSeq(v), NEW n \in Nat, NEW h
    PROVE  SelectLastInSeq(Take(v, n), LAMBDA c : c.hex = h) \in 0 .. n
  <1> DEFINE m == IF Len(v) <= n THEN Len(v) ELSE n
             I == {i \in 1 .. Len(Take(v, n)) : Take(v, n)[i].hex = h}
  <1>1. Len(v) \in Nat /\ DOMAIN v = 1 .. Len(v)
    BY SeqShape
  <1>2. m \in 0 .. n
    BY <1>1
  <1>3. Len(Take(v, n)) = m
    <2>1. \A i \in 1 .. m : v[i] \in Range(v)
      BY <1>1 DEF Range
    <2>2. Len(SubSeq(v, 1, m)) = IF 1 <= m THEN m - 1 + 1 ELSE 0
      BY <1>2, <2>1, SubSeqProperties
    <2> QED
      BY <1>2, <2>2 DEF Take
  <1>4. I # {} => Max(I) \in I
    BY <1>2, <1>3, MaxIn
  <1>5. SelectLastInSeq(Take(v, n), LAMBDA c : c.hex = h) = IF I # {} THEN Max(I) ELSE 0
    BY DEF SelectLastInSeq
  <1>6. I \subseteq 1 .. n
    BY <1>2, <1>3
  <1> HIDE DEF I
  <1> QED
    BY <1>4, <1>5, <1>6

-----------------------------------------------------------------------------
(* The invariant                                                             *)

TypeInv ==
    /\ page \in Releases
    /\ sel \in DOMAIN colors
    /\ mounted \in BOOLEAN /\ pending \in BOOLEAN
    /\ DOMAIN details = UNION {Hexes(Views[r]) : r \in Releases}
    /\ \A h \in DOMAIN details : details[h] # None => IsSeq(details[h].similar)

\* Until the first effects have run the page shows what its address says.
FirstInv == ~mounted => pending /\ url = entry /\ sel = idxOfHex(colors, entry)

IInv == TypeInv /\ FirstInv /\ SeedIsSelected /\ SimPanelOfSelected /\ ReloadKeepsSelection

LEMMA SummaryKnown ==
    TypeInv => /\ IsSeq(colors) /\ colors # << >> /\ DOMAIN colors = 1 .. Len(colors) /\ Len(colors) \in Nat \ {0}
               /\ summary.hex \in DOMAIN details /\ summary.hex \in Hexes(colors)
  <1> SUFFICES ASSUME TypeInv
               PROVE  /\ IsSeq(colors) /\ colors # << >> /\ DOMAIN colors = 1 .. Len(colors) /\ Len(colors) \in Nat \ {0}
                      /\ summary.hex \in DOMAIN details /\ summary.hex \in Hexes(colors)
    OBVIOUS
  <1>1. IsSeq(colors) /\ colors # << >>
    BY ViewsAreLists DEF TypeInv, colors
  <1>2. DOMAIN colors = 1 .. Len(colors) /\ Len(colors) \in Nat
    BY <1>1, SeqShape
  <1>3. summary.hex \in Hexes(colors)
    BY DEF TypeInv, summary, Hexes
  <1>4. summary.hex \in DOMAIN details
    BY <1>3 DEF TypeInv, colors
  <1> QED
    BY <1>1, <1>2, <1>3, <1>4 DEF TypeInv

\* The server and the client choose the same color.
LEMMA SameChoice ==
    ASSUME NEW v, IsSeq(v), v # << >>, NEW h
    PROVE  chosen(v, h) = v[idxOfHex(v, h)]
  BY DEF chosen, idxOfHex, defaultIdx

LEMMA InitInv == Init => IInv
  <1> SUFFICES ASSUME Init PROVE IInv
    OBVIOUS
  <1>1. page \in Releases /\ IsSeq(colors) /\ colors # << >>
    BY ViewsAreLists DEF Init, colors
  <1>2. sel = idxOfHex(colors, entry) /\ sel \in DOMAIN colors
    <2>1. sel = idxOfHex(colors, entry)
      BY DEF Init, colors
    <2> QED
      BY <1>1, <2>1, FindsHex
  <1>3. chosen(Views[page], entry) = colors[sel]
    <2>1. chosen(colors, entry) = colors[idxOfHex(colors, entry)]
      BY <1>1, SameChoice
    <2> QED
      BY <1>2, <2>1 DEF colors
  <1>4. details = [h \in UNION {Hexes(Views[r]) : r \in Releases} |->
                      IF h = summary.hex THEN pickColorDetail(colors[sel]) ELSE None]
    BY <1>3 DEF Init, summary
  <1>5. pickColorDetail(colors[sel]) # None /\ IsSeq(colors[sel].similar)
    BY <1>1, <1>2, ViewsAreLists DEF colors
  <1>6. TypeInv
    <2>1. \A h \in DOMAIN details : details[h] # None => IsSeq(details[h].similar)
      BY <1>4, <1>5 DEF pickColorDetail
    <2>2. DOMAIN details = UNION {Hexes(Views[r]) : r \in Releases}
      BY <1>4
    <2> QED
      BY <1>1, <1>2, <2>1, <2>2 DEF TypeInv, Init
  <1>7. detail # None
    BY <1>4, <1>5, <1>6, SummaryKnown DEF detail
  <1>8. FirstInv /\ pending
    BY <1>2 DEF Init, FirstInv
  <1> QED
    BY <1>6, <1>7, <1>8 DEF IInv, SeedIsSelected, SimPanelOfSelected, ReloadKeepsSelection

-----------------------------------------------------------------------------
(* Every step but the answer of the fetch leaves what the invariant is about *)
(* alone or renders with the details as they were.                           *)

Quiet == UNCHANGED <<page, entry, sel, details, mounted, pending, url, simExp>>

Drawn(s, x) ==
    /\ Render(s, x) /\ details' = details
    /\ s \in DOMAIN colors
    /\ s = sel /\ ~pending => x \in SimHexes \cup {None}

\* With the selection as it is, what is expanded may stay expanded.
LEMMA StaysDrawn ==
    ASSUME IInv, Render(sel, simExp), details' = details
    PROVE  Drawn(sel, simExp)
  BY DEF IInv, TypeInv, SimPanelOfSelected, Drawn

LEMMA StepShape ==
    ASSUME IInv, [LNext]_lvars
    PROVE  Quiet \/ (\E s, x : Drawn(s, x)) \/ (\E r \in Releases : Fetched(r))
  <1>1. CASE Next
    <2>1. CASE RunEffects
      BY <2>1, StaysDrawn DEF RunEffects
    <2>2. CASE Select
      BY <2>2 DEF Select, Drawn
    <2>3. CASE step
      <3>1. PICK d \in {-1, 1} : Render(Around(sel, d, Len(colors)), simExp)
        BY <2>3 DEF step
      <3>2. Around(sel, d, Len(colors)) \in DOMAIN colors
        BY SummaryKnown, AroundStays DEF IInv, TypeInv
      <3>3. Drawn(Around(sel, d, Len(colors)), simExp)
        BY <2>3, <3>1, <3>2 DEF step, Drawn, IInv, SimPanelOfSelected
      <3> QED
        BY <3>3
    <2>4. CASE ToggleSim
      <3>1. PICK h \in SimHexes : Render(sel, IF simExp = h THEN None ELSE h)
        BY <2>4 DEF ToggleSim
      <3>2. Drawn(sel, IF simExp = h THEN None ELSE h)
        BY <2>4, <3>1 DEF ToggleSim, Drawn, IInv, TypeInv
      <3> QED
        BY <3>2
    <2>5. CASE stepSim
      <3> DEFINE I == {i \in 1 .. Len(sim) : sim[i].hex = simExp}
                 i0 == SelectInSeq(sim, LAMBDA c : c.hex = simExp)
      <3>1. PICK d \in {-1, 1} : Render(sel, sim[Around(i0, d, Len(sim))].hex)
        BY <2>5 DEF stepSim
      <3>2. IsSeq(sim)
        <4>1. CASE detail = None
          BY <4>1, EmptySeq DEF sim, IsSeq
        <4>2. CASE detail # None
          BY <4>2, SummaryKnown DEF IInv, TypeInv, sim, detail
        <4> QED
          BY <4>1, <4>2
      <3>3. Len(sim) \in Nat /\ DOMAIN sim = 1 .. Len(sim)
        BY <3>2, SeqShape
      <3>4. I # {} /\ I \subseteq 1 .. Len(sim)
        BY <2>5, <3>3 DEF stepSim, SimHexes
      <3>5. i0 \in 1 .. Len(sim)
        <4>1. i0 = Min(I)
          BY <3>4 DEF SelectInSeq
        <4> HIDE DEF I, i0
        <4>2. I \subseteq Nat
          BY <3>3, <3>4
        <4>3. Min(I) \in I
          BY <3>4, <4>2, MinIn
        <4> QED
          BY <3>4, <4>1, <4>3
      <3> HIDE DEF I, i0
      <3>6. Around(i0, d, Len(sim)) \in DOMAIN sim
        <4>1. Len(sim) \in Nat \ {0}
          BY <3>3, <3>5
        <4> QED
          BY <3>3, <3>5, <4>1, AroundStays
      <3>7. sim[Around(i0, d, Len(sim))].hex \in SimHexes
        BY <3>6 DEF SimHexes
      <3>8. Drawn(sel, sim[Around(i0, d, Len(sim))].hex)
        BY <2>5, <3>1, <3>7 DEF stepSim, Drawn, IInv, TypeInv
      <3> QED
        BY <3>8
    <2>6. CASE Overlay
      BY <2>6, StaysDrawn DEF Overlay
    <2>7. CASE FetchFails
      BY <2>7 DEF FetchFails, Quiet
    <2>8. CASE \E r \in Releases : Fetched(r)
      BY <2>8
    <2> QED
      BY <1>1, <2>1, <2>2, <2>3, <2>4, <2>5, <2>6, <2>7, <2>8 DEF Next
  <1>2. CASE copy
    BY <1>2, StaysDrawn DEF copy
  <1>3. CASE copyInfo \/ FireInfo \/ UNCHANGED lvars
    BY <1>3 DEF copyInfo, FireInfo, Quiet, vars, lvars
  <1>4. CASE FirePage
    <2>1. CASE copied = None
      BY <1>4, <2>1 DEF FirePage, Quiet
    <2>2. CASE copied # None
      BY <1>4, <2>2, StaysDrawn DEF FirePage
    <2> QED
      BY <2>1, <2>2
  <1> QED
    BY <1>1, <1>2, <1>3, <1>4 DEF LNext, Browse

-----------------------------------------------------------------------------
(* The invariant is kept                                                     *)

LEMMA QuietKeeps == IInv /\ Quiet => IInv'
  <1> SUFFICES ASSUME IInv, Quiet PROVE IInv'
    OBVIOUS
  <1>1. colors' = colors /\ summary' = summary /\ detail' = detail /\ SimHexes' = SimHexes
    BY DEF Quiet, colors, summary, detail, sim, SimHexes
  <1> QED
    BY <1>1 DEF IInv, Quiet, TypeInv, FirstInv, SeedIsSelected, SimPanelOfSelected, ReloadKeepsSelection

\* What a render does to the address bar and to the first selection, whatever
\* happens to the details.
LEMMA RenderKeepsAddress ==
    ASSUME TypeInv, FirstInv, ReloadKeepsSelection, NEW s \in DOMAIN colors, NEW x, Render(s, x)
    PROVE  /\ colors' = colors /\ mounted' \in BOOLEAN /\ pending' \in BOOLEAN /\ sel' = s
           /\ mounted' /\ ReloadKeepsSelection'
  <1>1. page' = page /\ entry' = entry /\ sel' = s /\ pending' = (s # sel)
    BY DEF Render
  <1>2. colors' = colors /\ summary' = colors[s]
    BY <1>1 DEF colors, summary
  <1>3. mounted'
    BY DEF Render, Flush, FirstInv, TypeInv
  <1>4. ASSUME s = sel PROVE colors[idxOfHex(colors, url')].hex = summary.hex
    <2>1. CASE ~pending
      BY <2>1 DEF Render, ReloadKeepsSelection
    <2>2. CASE pending /\ mounted
      <3>1. url' = summary.hex
        BY <2>2 DEF Render, Flush
      <3>2. colors[idxOfHex(colors, summary.hex)].hex = summary.hex
        BY SummaryKnown, FindsHex
      <3> QED
        BY <3>1, <3>2
    <2>3. CASE pending /\ ~mounted
      <3>1. url' = entry /\ sel = idxOfHex(colors, entry)
        BY <2>3 DEF Render, Flush, FirstInv
      <3> QED
        BY <3>1 DEF summary
    <2> QED
      BY <2>1, <2>2, <2>3 DEF TypeInv
  <1>5. ReloadKeepsSelection'
    BY <1>1, <1>2, <1>4 DEF ReloadKeepsSelection, summary
  <1> QED
    BY <1>1, <1>2, <1>3, <1>5

LEMMA DrawnKeeps ==
    ASSUME IInv, NEW s, NEW x, Drawn(s, x)
    PROVE  IInv'
  <1>1. s \in DOMAIN colors /\ Render(s, x) /\ details' = details
    BY DEF Drawn
  <1>2. /\ colors' = colors /\ mounted' \in BOOLEAN /\ pending' \in BOOLEAN /\ sel' = s
        /\ mounted' /\ ReloadKeepsSelection'
    BY <1>1, RenderKeepsAddress DEF IInv
  <1>3. page' = page /\ pending' = (s # sel) /\ simExp' = (IF pending THEN None ELSE x)
    BY <1>1 DEF Render
  <1>4. TypeInv'
    BY <1>1, <1>2, <1>3 DEF IInv, TypeInv, colors
  <1>5. SimPanelOfSelected'
    <2>1. SUFFICES ASSUME s = sel PROVE simExp' \in SimHexes' \cup {None}
      BY <1>3 DEF SimPanelOfSelected
    <2>2. SimHexes' = SimHexes
      BY <1>1, <1>2, <2>1 DEF SimHexes, sim, detail, summary
    <2> QED
      BY <1>3, <2>1, <2>2 DEF Drawn, IInv, TypeInv
  <1> QED
    BY <1>2, <1>4, <1>5 DEF IInv, FirstInv, SeedIsSelected

\* The answer fills what is empty and leaves what is there.
LEMMA FetchedFills ==
    ASSUME IInv, NEW r \in Releases, Fetched(r)
    PROVE  /\ DOMAIN details' = DOMAIN details
           /\ \A h \in DOMAIN details : /\ details[h] # None => details'[h] = details[h]
                                        /\ details'[h] # None => IsSeq(details'[h].similar)
  <1> DEFINE dn == denormalizeDetails(normalizeDetails(Views[r]))
             at(h) == SelectLastInSeq(Take(colors, Len(dn)), LAMBDA c : c.hex = h)
             map == [h \in DOMAIN details |-> IF at(h) > 0 THEN dn[at(h)] ELSE None]
  <1>1. details' = [h \in DOMAIN details |-> IF details[h] = None THEN map[h] ELSE details[h]]
    BY DEF Fetched, Merge
  <1>2. Len(dn) \in Nat /\ DOMAIN dn = 1 .. Len(dn) /\ \A i \in DOMAIN dn : IsSeq(dn[i].similar)
    BY WireKeepsLists, SeqShape
  <1>3. IsSeq(colors)
    BY SummaryKnown DEF IInv
  <1> HIDE DEF dn
  <1>4. \A h : at(h) \in 0 .. Len(dn)
    BY <1>2, <1>3, LookedUpInRange
  <1> HIDE DEF at
  <1>5. \A h \in DOMAIN details : map[h] # None => IsSeq(map[h].similar)
    BY <1>2, <1>4
  <1> HIDE DEF map
  <1> QED
    BY <1>1, <1>5 DEF IInv, TypeInv

LEMMA FetchedKeeps ==
    ASSUME IInv, NEW r \in Releases, Fetched(r)
    PROVE  IInv'
  <1>1. Render(sel, simExp) /\ sel \in DOMAIN colors /\ mounted
    BY DEF Fetched, IInv, TypeInv
  <1>2. /\ colors' = colors /\ mounted' \in BOOLEAN /\ pending' \in BOOLEAN /\ sel' = sel
        /\ mounted' /\ ReloadKeepsSelection'
    BY <1>1, RenderKeepsAddress DEF IInv
  <1>3. page' = page /\ pending' = FALSE /\ simExp' = (IF pending THEN None ELSE simExp)
    BY <1>1 DEF Render
  <1>4. TypeInv'
    BY <1>2, <1>3, FetchedFills DEF IInv, TypeInv, colors
  <1>5. SimPanelOfSelected'
    <2>1. CASE pending \/ simExp = None
      BY <1>3, <2>1 DEF SimPanelOfSelected
    <2>2. CASE ~pending /\ simExp # None
      <3>1. simExp \in SimHexes /\ simExp' = simExp
        BY <1>3, <2>2 DEF IInv, SimPanelOfSelected
      <3>2. detail # None
        BY <3>1 DEF SimHexes, sim
      <3>3. summary' = summary /\ details'[summary.hex] = details[summary.hex]
        BY <1>2, <3>2, FetchedFills, SummaryKnown DEF summary, detail, IInv
      <3>4. SimHexes' = SimHexes
        BY <3>3 DEF SimHexes, sim, detail
      <3> QED
        BY <3>1, <3>4 DEF SimPanelOfSelected
    <2> QED
      BY <2>1, <2>2 DEF IInv, TypeInv
  <1> QED
    BY <1>2, <1>4, <1>5 DEF IInv, FirstInv, SeedIsSelected

LEMMA Inductive == LSpec => []IInv
  <1>1. LInit => IInv
    BY InitInv DEF LInit
  <1>2. IInv /\ [LNext]_lvars => IInv'
    BY StepShape, QuietKeeps, DrawnKeeps, FetchedKeeps
  <1> QED
    BY <1>1, <1>2, PTL DEF LSpec

-----------------------------------------------------------------------------
(* What the fetch brings                                                     *)

\* Two releases list the same colors of the system in the same order.
SameColors ==
    \A q, r \in Releases :
        Len(Views[q]) = Len(Views[r]) /\ \A i \in DOMAIN Views[q] : Views[q][i].hex = Views[r][i].hex

\* No two files of a release disagree about a system: the wire format sends its
\* name, year and family once.
OneEntryPerSlug ==
    \A r \in Releases : \A i, j \in DOMAIN Contents[r] :
        Contents[r][i].slug = Contents[r][j].slug =>
            /\ Contents[r][i].name = Contents[r][j].name /\ Contents[r][i].year = Contents[r][j].year
            /\ Contents[r][i].family = Contents[r][j].family

PlatformsIn(v) ==
    UNION {ToSet(v[i].uses) \cup UNION {ToSet(v[i].similar[j].platforms) : j \in DOMAIN v[i].similar}
             : i \in DOMAIN v}

\* The platforms that go over the wire are systems of the release.
LEMMA PlatformsKnown ==
    ASSUME NEW r \in Releases, NEW p \in PlatformsIn(Views[r])
    PROVE  \E q \in Places(Contents[r]) : p = PlatformAt(Contents[r], q)
  <1> DEFINE es == Contents[r]
             v == Views[r]
  <1>1. IsCollection(es) /\ WellHexed(es)
    BY ContentsAssumption DEF WellHexed, HexAt
  <1>2. PICK i \in DOMAIN v : p \in ToSet(v[i].uses) \/ \E j \in DOMAIN v[i].similar : p \in ToSet(v[i].similar[j].platforms)
    BY DEF PlatformsIn
  <1>3. v[i] = [hex |-> v[i].hex, isDefault |-> v[i].isDefault,
                uses |-> platformsByHex(es, v[i].hex), similar |-> similarOf(v[i].hex, es, Slug)]
        /\ v[i].hex \in WellFormedHexes
    BY ViewShape
  <1>4. \E h : p \in ToSet(platformsByHex(es, h))
    <2>1. CASE p \in ToSet(v[i].uses)
      <3>1. v[i].uses = platformsByHex(es, v[i].hex)
        BY <1>3
      <3> QED
        BY <2>1, <3>1
    <2>2. ASSUME NEW j \in DOMAIN v[i].similar, p \in ToSet(v[i].similar[j].platforms)
          PROVE  \E h : p \in ToSet(platformsByHex(es, h))
      <3> DEFINE s == similarOf(v[i].hex, es, Slug)
      <3>1. v[i].similar = s
        BY <1>3
      <3>2. DOMAIN s = 1 .. Len(s) /\ \A k \in 1 .. Len(s) : s[k] = [hex |-> s[k].hex, platforms |-> platformsByHex(es, s[k].hex)]
        BY <1>1, <1>3, SimilarShape DEF NearestOf
      <3> HIDE DEF s
      <3>3. s[j].platforms = platformsByHex(es, s[j].hex)
        BY <2>2, <3>1, <3>2
      <3> QED
        BY <2>2, <3>1, <3>3
    <2> QED
      BY <1>2, <2>1, <2>2
  <1>5. PICK h : p \in ToSet(platformsByHex(es, h))
    BY <1>4
  <1>6. PICK k \in DOMAIN platformsByHex(es, h) : p = platformsByHex(es, h)[k]
    BY <1>5 DEF ToSet
  <1>7. \E q \in PlacesOf(es, h) : p = PlatformAt(es, q)
    BY <1>1, <1>6, PlatformShape
  <1> QED
    BY <1>7 DEF PlacesOf

\* What comes out of the wire is what went in, platforms and defaults included.
LEMMA WireExact ==
    ASSUME OneEntryPerSlug, NEW r \in Releases, NEW i \in DOMAIN Views[r]
    PROVE  denormalizeDetails(normalizeDetails(Views[r]))[i] = pickColorDetail(Views[r][i])
  <1> DEFINE es == Contents[r]
             v == Views[r]
             P == PlatformsIn(v)
             json == normalizeDetails(v)
             meta == [s \in {p.slug : p \in P} |->
                         LET p == CHOOSE p \in P : p.slug = s
                         IN  [name |-> p.name, year |-> p.year, family |-> p.family]]
             hydrate(ref) == [slug |-> ref.slug, name |-> meta[ref.slug].name, year |-> meta[ref.slug].year,
                              family |-> meta[ref.slug].family, isDefault |-> ref.isDefault]
             wired(t) == [k \in DOMAIN t |-> hydrate(refOf(t[k]))]
  <1>1. \A p \in P : \E q \in Places(es) : p = PlatformAt(es, q)
    BY PlatformsKnown
  <1>2. \A p, q \in P : p.slug = q.slug => p.name = q.name /\ p.year = q.year /\ p.family = q.family
    <2> SUFFICES ASSUME NEW p \in P, NEW q \in P, p.slug = q.slug
                 PROVE  p.name = q.name /\ p.year = q.year /\ p.family = q.family
      OBVIOUS
    <2>1. PICK a \in Places(es) : p = PlatformAt(es, a)
      BY <1>1
    <2>2. PICK b \in Places(es) : q = PlatformAt(es, b)
      BY <1>1
    <2>3. a[1] \in DOMAIN es /\ b[1] \in DOMAIN es
      BY FilesOrdered, ContentsAssumption
    <2> QED
      BY <2>1, <2>2, <2>3 DEF PlatformAt, OneEntryPerSlug
  <1>3. \A p \in P : hydrate(refOf(p)) = p
    <2> TAKE p \in P
    <2> DEFINE s == p.slug
               q == CHOOSE q \in P : q.slug = s
    <2>1. q \in P /\ q.slug = s
      OBVIOUS
    <2>2. q.name = p.name /\ q.year = p.year /\ q.family = p.family
      BY <1>2, <2>1
    <2>3. meta[s] = [name |-> q.name, year |-> q.year, family |-> q.family]
      OBVIOUS
    <2>4. p = [slug |-> p.slug, name |-> p.name, year |-> p.year, family |-> p.family, isDefault |-> p.isDefault]
      BY <1>1 DEF PlatformAt
    <2> HIDE DEF q, meta, P
    <2>5. hydrate(refOf(p)) = [slug |-> p.slug, name |-> p.name, year |-> p.year, family |-> p.family, isDefault |-> p.isDefault]
      BY <2>2, <2>3 DEF refOf
    <2> QED
      BY <2>4, <2>5
  <1>4. json.osMeta = meta
    BY DEF normalizeDetails, PlatformsIn
  <1>5. /\ json.details[i].uses = [j \in DOMAIN v[i].uses |-> refOf(v[i].uses[j])]
        /\ json.details[i].similar = [j \in DOMAIN v[i].similar |->
                             [v[i].similar[j] EXCEPT !.platforms = [l \in DOMAIN @ |-> refOf(@[l])]]]
    BY DEF normalizeDetails, MapSeq
  <1>6. DOMAIN json.details = DOMAIN v
    BY DEF normalizeDetails, MapSeq
  <1> HIDE DEF meta, json
  <1> DEFINE d == json.details[i]
             dn == denormalizeDetails(json)
  <1>7. dn[i] = [uses    |-> [j \in DOMAIN d.uses |-> hydrate(d.uses[j])],
                 similar |-> [j \in DOMAIN d.similar |->
                                 [d.similar[j] EXCEPT !.platforms = [l \in DOMAIN @ |-> hydrate(@[l])]]]]
    BY <1>4, <1>6 DEF denormalizeDetails, MapSeq
  <1> HIDE DEF dn
  <1> DEFINE uses == v[i].uses
             similar == v[i].similar
  <1>8. v[i] = [hex |-> v[i].hex, isDefault |-> v[i].isDefault,
                uses |-> platformsByHex(es, v[i].hex), similar |-> similarOf(v[i].hex, es, Slug)]
        /\ v[i].hex \in WellFormedHexes
    BY ViewShape
  <1>9. ToSet(uses) \subseteq P /\ \A j \in DOMAIN similar : ToSet(similar[j].platforms) \subseteq P
    BY DEF PlatformsIn
  <1>10. /\ IsSeq(uses)
         /\ IsSeq(similar) /\ \A j \in DOMAIN similar : /\ similar[j] = [hex |-> similar[j].hex, platforms |-> similar[j].platforms]
                                                        /\ IsSeq(similar[j].platforms)
    <2>1. IsCollection(es) /\ WellHexed(es)
      BY ContentsAssumption DEF WellHexed, HexAt
    <2>2. uses = platformsByHex(es, v[i].hex) /\ similar = similarOf(v[i].hex, es, Slug)
      BY <1>8
    <2>3. IsSeq(uses)
      BY <2>1, <2>2, PlatformShape
    <2> HIDE DEF similar, uses, P
    <2>4. /\ IsSeq(similar) /\ DOMAIN similar = 1 .. Len(similar)
          /\ \A j \in 1 .. Len(similar) : similar[j] = [hex |-> similar[j].hex, platforms |-> platformsByHex(es, similar[j].hex)]
      BY <1>8, <2>1, <2>2, SimilarShape DEF NearestOf
    <2>5. ASSUME NEW j \in DOMAIN similar
          PROVE  /\ similar[j] = [hex |-> similar[j].hex, platforms |-> similar[j].platforms]
                 /\ IsSeq(similar[j].platforms)
      <3>1. similar[j] = [hex |-> similar[j].hex, platforms |-> platformsByHex(es, similar[j].hex)]
        BY <2>4, <2>5
      <3>2. similar[j].platforms = platformsByHex(es, similar[j].hex)
        BY <3>1
      <3> QED
        BY <2>1, <3>1, <3>2, PlatformShape
    <2> QED
      BY <2>3, <2>4, <2>5
  <1>11. \A t : IsSeq(t) /\ ToSet(t) \subseteq P => wired(t) = t
    <2> SUFFICES ASSUME NEW t, IsSeq(t), ToSet(t) \subseteq P PROVE wired(t) = t
      OBVIOUS
    <2>1. t = [k \in DOMAIN t |-> t[k]]
      BY LenProperties DEF IsSeq
    <2>2. \A k \in DOMAIN t : t[k] \in P
      BY DEF ToSet
    <2> HIDE DEF P, hydrate
    <2>3. \A k \in DOMAIN t : hydrate(refOf(t[k])) = t[k]
      BY <1>3, <2>2
    <2> QED
      BY <2>1, <2>3
  <1>12. [j \in DOMAIN d.uses |-> hydrate(d.uses[j])] = uses
    <2>1. d.uses = [j \in DOMAIN uses |-> refOf(uses[j])]
      BY <1>5
    <2> HIDE DEF d, uses, P, hydrate
    <2>2. [j \in DOMAIN d.uses |-> hydrate(d.uses[j])] = wired(uses)
      BY <2>1
    <2> QED
      BY <1>9, <1>10, <1>11, <2>2
  <1>13. [j \in DOMAIN d.similar |-> [d.similar[j] EXCEPT !.platforms = [l \in DOMAIN @ |-> hydrate(@[l])]]] = similar
    <2>1. d.similar = [j \in DOMAIN similar |->
                          [similar[j] EXCEPT !.platforms = [l \in DOMAIN @ |-> refOf(@[l])]]]
      BY <1>5
    <2> HIDE DEF d, similar, P, hydrate
    <2>2. ASSUME NEW j \in DOMAIN similar
          PROVE  [d.similar[j] EXCEPT !.platforms = [l \in DOMAIN @ |-> hydrate(@[l])]] = similar[j]
      <3> DEFINE t == similar[j].platforms
                 refs == [l \in DOMAIN t |-> refOf(t[l])]
      <3>1. d.similar[j] = [hex |-> similar[j].hex, platforms |-> refs]
        BY <1>10, <2>1
      <3> HIDE DEF refs
      <3>2. [d.similar[j] EXCEPT !.platforms = [l \in DOMAIN @ |-> hydrate(@[l])]]
              = [hex |-> similar[j].hex, platforms |-> [l \in DOMAIN refs |-> hydrate(refs[l])]]
        BY <3>1
      <3> HIDE DEF t
      <3>3. [l \in DOMAIN refs |-> hydrate(refs[l])] = wired(t)
        BY DEF refs
      <3>4. wired(t) = t
        BY <1>9, <1>10, <1>11 DEF t
      <3> QED
        BY <1>10, <3>2, <3>3, <3>4 DEF t
    <2>3. similar = [j \in DOMAIN similar |-> similar[j]]
      BY <1>10, LenProperties DEF IsSeq
    <2> QED
      BY <2>1, <2>2, <2>3
  <1> QED
    BY <1>7, <1>12, <1>13 DEF pickColorDetail, dn, json

-----------------------------------------------------------------------------

\* The color whose details are baked into the page is the one it opens with,
\* for every palette, with a default color or without, and every address.
THEOREM SeedShown == LSpec => []SeedIsSelected
  <1>1. IInv => SeedIsSelected
    BY DEF IInv
  <1> QED
    BY <1>1, Inductive, PTL

\* However clicks, renders and late effects interleave, the address bar names
\* the selected color once the effects have run (OsDetail.tsx:151-160).
THEOREM AddressFollows == LSpec => []ReloadKeepsSelection
  <1>1. IInv => ReloadKeepsSelection
    BY DEF IInv
  <1> QED
    BY <1>1, Inductive, PTL

\* And the expanded similar color is one of the selected color's own, also when
\* the details arrive meanwhile (OsDetail.tsx:147-149).
THEOREM PanelFollows == LSpec => []SimPanelOfSelected
  <1>1. IInv => SimPanelOfSelected
    BY DEF IInv
  <1> QED
    BY <1>1, Inductive, PTL

\* Details that are there are never replaced, whatever release answers
\* (OsDetail.tsx:90).
THEOREM SeedStays == LSpec => DetailsStable
  <1>1. ASSUME IInv, [LNext]_lvars
        PROVE  [\A h \in DOMAIN details : details[h] # None => details'[h] = details[h]]_vars
    <2>1. CASE Quiet
      BY <2>1 DEF Quiet
    <2>2. CASE \E s, x : Drawn(s, x)
      BY <2>2 DEF Drawn
    <2>3. CASE \E r \in Releases : Fetched(r)
      BY <1>1, <2>3, FetchedFills
    <2> QED
      BY <1>1, <2>1, <2>2, <2>3, StepShape
  <1> QED
    BY <1>1, Inductive, PTL DEF LSpec, DetailsStable

\* A color of the page is looked up where it is.
LastOf(v, n, h) == SelectLastInSeq(Take(v, n), LAMBDA c : c.hex = h)

LEMMA LookedUp ==
    ASSUME NEW v, IsSeq(v), NEW h
    PROVE  LET at == LastOf(v, Len(v), h)
           IN  IF h \in Hexes(v) THEN at \in 1 .. Len(v) /\ v[at].hex = h ELSE at = 0
  <1> DEFINE t == Take(v, Len(v))
             I == {i \in 1 .. Len(t) : t[i].hex = h}
             at == LastOf(v, Len(v), h)
  <1>1. Len(v) \in Nat /\ DOMAIN v = 1 .. Len(v)
    BY SeqShape
  <1>2. Len(t) = Len(v) /\ \A k \in 1 .. Len(v) : t[k] = v[k]
    <2>1. /\ Len(t) = IF Len(v) <= Len(v) THEN Len(v) ELSE Len(v)
          /\ \A k \in 1 .. Len(t) : t[k] = v[k]
      BY <1>1, TakeShape
    <2> QED
      BY <2>1
  <1>3. at = IF I # {} THEN Max(I) ELSE 0
    BY DEF LastOf, SelectLastInSeq
  <1> HIDE DEF t, at
  <1>4. I = {i \in 1 .. Len(v) : v[i].hex = h}
    BY <1>2
  <1> HIDE DEF I
  <1>5. I # {} => Max(I) \in I
    BY <1>1, <1>4, MaxIn
  <1>6. h \in Hexes(v) <=> I # {}
    BY <1>1, <1>4 DEF Hexes
  <1> QED
    BY <1>3, <1>4, <1>5, <1>6 DEF at, t

WholeInv == DetailsBelong /\ (fetch = "done" => \A h \in Hexes(colors) : details[h] # None)

LEMMA AnswerFills ==
    ASSUME SameColors, OneEntryPerSlug, IInv, WholeInv, NEW r \in Releases, Fetched(r)
    PROVE  WholeInv'
  <1> DEFINE v  == Views[r]
             dn == denormalizeDetails(normalizeDetails(v))
             at(h) == LastOf(colors, Len(dn), h)
  <1>1. /\ details' = [h \in DOMAIN details |->
                          IF details[h] = None THEN IF at(h) > 0 THEN dn[at(h)] ELSE None ELSE details[h]]
        /\ page' = page
    BY DEF Fetched, Merge, Render, LastOf
  <1>2. IsSeq(v) /\ IsSeq(colors) /\ DOMAIN v = 1 .. Len(v) /\ Len(v) \in Nat
    <2>1. IsSeq(v) /\ IsSeq(colors)
      BY ViewsAreLists, SummaryKnown DEF IInv
    <2> QED
      BY <2>1, SeqShape
  <1>3. Len(dn) = Len(v)
    <2>1. IsSeq(dn) /\ DOMAIN dn = DOMAIN v
      BY WireKeepsLists
    <2> HIDE DEF dn
    <2>2. DOMAIN dn = 1 .. Len(dn) /\ Len(dn) \in Nat
      BY <2>1, SeqShape
    <2> QED
      BY <1>2, <2>1, <2>2
  <1>4. Len(colors) = Len(v) /\ \A i \in DOMAIN v : colors[i].hex = v[i].hex
    BY DEF SameColors, IInv, TypeInv, colors
  <1>5. \A i \in DOMAIN v : dn[i] = pickColorDetail(v[i]) /\ pickColorDetail(v[i]) # None
    BY WireExact, ViewsAreLists
  <1> HIDE DEF dn
  <1>6. \A h : IF h \in Hexes(colors) THEN at(h) \in DOMAIN v /\ v[at(h)].hex = h ELSE at(h) = 0
    <2> TAKE h
    <2>1. IF h \in Hexes(colors) THEN at(h) \in 1 .. Len(colors) /\ colors[at(h)].hex = h ELSE at(h) = 0
      <3>1. at(h) = LastOf(colors, Len(colors), h)
        BY <1>3, <1>4
      <3> QED
        BY <1>2, <3>1, LookedUp
    <2> HIDE DEF at
    <2> QED
      BY <1>2, <1>4, <2>1
  <1> HIDE DEF at
  <1>7. DetailsBelong'
    <2> SUFFICES ASSUME NEW h \in DOMAIN details, details'[h] # None
                 PROVE  \E q \in Releases : \E i \in DOMAIN Views[q] :
                            Views[q][i].hex = h /\ details'[h] = pickColorDetail(Views[q][i])
      BY <1>1 DEF DetailsBelong
    <2>1. CASE details[h] # None
      BY <1>1, <2>1 DEF WholeInv, DetailsBelong
    <2>2. CASE details[h] = None
      <3>1. at(h) > 0 /\ details'[h] = dn[at(h)]
        BY <1>1, <2>2
      <3>2. at(h) \in DOMAIN v /\ v[at(h)].hex = h
        BY <1>6, <3>1
      <3> QED
        BY <1>5, <3>1, <3>2
    <2> QED
      BY <2>1, <2>2
  <1>8. ASSUME NEW h \in Hexes(colors) PROVE details'[h] # None
    <2>1. h \in DOMAIN details
      BY DEF IInv, TypeInv, colors
    <2>2. at(h) \in DOMAIN v /\ at(h) > 0 /\ dn[at(h)] # None
      BY <1>2, <1>5, <1>6
    <2> QED
      BY <1>1, <2>1, <2>2
  <1>9. colors' = colors
    BY <1>1 DEF colors
  <1> QED
    BY <1>7, <1>8, <1>9 DEF WholeInv

LEMMA DoneByAnswer ==
    ASSUME [LNext]_lvars
    PROVE  page' = page /\ (fetch' = "done" => fetch = "done" \/ \E r \in Releases : Fetched(r))
  <1>1. CASE Next
    BY <1>1 DEF Next, RunEffects, Select, step, ToggleSim, stepSim, Overlay, FetchFails, Fetched, Render
  <1>2. CASE copy
    BY <1>2 DEF copy, Render
  <1>3. CASE copyInfo \/ FireInfo \/ UNCHANGED lvars
    BY <1>3 DEF copyInfo, FireInfo, vars, lvars
  <1>4. CASE FirePage
    BY <1>4 DEF FirePage, Render
  <1> QED
    BY <1>1, <1>2, <1>3, <1>4 DEF LNext, Browse

\* Once the answer is there, of whatever release that lists the same colors, no
\* color of the page has a skeleton left, and what came over the wire is what
\* the build put on it (detail.ts:129-176, OsDetail.tsx:74-95).
THEOREM FetchedWhole ==
    ASSUME SameColors, OneEntryPerSlug
    PROVE  LSpec => []FetchedIsWhole
  <1>1. LInit => WholeInv
    <2> SUFFICES ASSUME Init PROVE WholeInv
      BY DEF LInit
    <2>1. IInv
      BY InitInv
    <2>2. chosen(colors, entry) = summary /\ sel \in DOMAIN colors
      <3>1. IsSeq(colors) /\ colors # << >>
        BY <2>1, SummaryKnown DEF IInv
      <3>2. chosen(colors, entry) = colors[idxOfHex(colors, entry)]
        BY <3>1, SameChoice
      <3> QED
        BY <2>1, <3>2 DEF Init, colors, summary, IInv, TypeInv
    <2>3. \A h \in DOMAIN details : details[h] # None => h = summary.hex /\ details[h] = pickColorDetail(summary)
      BY <2>2 DEF Init, colors
    <2>4. DetailsBelong
      BY <2>1, <2>2, <2>3 DEF DetailsBelong, IInv, TypeInv, colors, summary
    <2> QED
      BY <2>4 DEF WholeInv, Init
  <1>2. IInv /\ WholeInv /\ [LNext]_lvars => WholeInv'
    <2> SUFFICES ASSUME IInv, WholeInv, [LNext]_lvars PROVE WholeInv'
      OBVIOUS
    <2>1. CASE \E r \in Releases : Fetched(r)
      BY <2>1, AnswerFills
    <2>2. CASE ~ \E r \in Releases : Fetched(r)
      <3>1. details' = details
        BY <2>2, StepShape DEF Quiet, Drawn
      <3>2. page' = page /\ (fetch' = "done" => fetch = "done")
        BY <2>2, DoneByAnswer
      <3> QED
        BY <3>1, <3>2 DEF WholeInv, DetailsBelong, colors
    <2> QED
      BY <2>1, <2>2
  <1>3. WholeInv => FetchedIsWhole
    BY DEF WholeInv, FetchedIsWhole
  <1> QED
    BY <1>1, <1>2, <1>3, Inductive, PTL DEF LSpec

-----------------------------------------------------------------------------
(* The labels of the copied rows                                             *)

Timed(who, key) == \E i \in DOMAIN timers : timers[i] = Timer(who, key)

\* A timer is running for every label.
LabelsTimed ==
    /\ copied # None => \E k : Timed("page", k)
    /\ infoCopied # None => InfoShown /\ Timed("info", infoCopied)

TimersKnown == IsSeq(timers) /\ \A i \in DOMAIN timers : timers[i] = Timer(timers[i].who, timers[i].key)

LEMMA AppendShape ==
    ASSUME NEW ts, IsSeq(ts), NEW t
    PROVE  LET us == Append(ts, t)
           IN  /\ IsSeq(us)
               /\ \A i \in DOMAIN ts : i \in DOMAIN us /\ us[i] = ts[i]
               /\ \E i \in DOMAIN us : us[i] = t
               /\ \A i \in DOMAIN us : us[i] = t \/ \E j \in DOMAIN ts : us[i] = ts[j]
  <1> DEFINE us == Append(ts, t)
             T  == Range(ts) \cup {t}
  <1>1. Len(ts) \in Nat /\ DOMAIN ts = 1 .. Len(ts) /\ ts \in Seq(T)
    BY SeqShape DEF IsSeq, Range
  <1>2. /\ us \in Seq(T) /\ Len(us) = Len(ts) + 1 /\ us[Len(us)] = t
        /\ \A i \in 1 .. Len(ts) : us[i] = ts[i]
    BY <1>1, AppendProperties
  <1>3. DOMAIN us = 1 .. Len(ts) + 1 /\ us = [i \in 1 .. Len(ts) + 1 |-> us[i]]
    BY <1>2, LenProperties
  <1> HIDE DEF us
  <1>4. IsSeq(us)
    BY <1>1, <1>3, FunctionIsSeq
  <1>5. Len(ts) + 1 \in DOMAIN us /\ us[Len(ts) + 1] = t
    BY <1>1, <1>2, <1>3
  <1>6. \A i \in DOMAIN us : i = Len(ts) + 1 \/ i \in DOMAIN ts
    BY <1>1, <1>3
  <1>7. \A i \in DOMAIN ts : i \in DOMAIN us /\ us[i] = ts[i]
    BY <1>1, <1>2, <1>3
  <1> QED
    BY <1>4, <1>5, <1>6, <1>7 DEF us

LEMMA TailShape ==
    ASSUME NEW ts, IsSeq(ts), ts # << >>
    PROVE  /\ IsSeq(Tail(ts))
           /\ \A i \in DOMAIN ts : ts[i] = Head(ts) \/ \E j \in DOMAIN Tail(ts) : Tail(ts)[j] = ts[i]
           /\ \A i \in DOMAIN Tail(ts) : \E j \in DOMAIN ts : Tail(ts)[i] = ts[j]
           /\ \E i \in DOMAIN ts : ts[i] = Head(ts)
  <1>1. IsSeq(Tail(ts)) /\ Range(ts) = {Head(ts)} \cup Range(Tail(ts))
    BY HeadAndTail
  <1> QED
    BY <1>1 DEF Range

\* Of the timers those of the page are always alive, and with the infobox all.
LEMMA AliveShape ==
    ASSUME NEW ts, IsSeq(ts)
    PROVE  /\ IsSeq(Alive(ts))
           /\ \A i \in DOMAIN ts :
                 InfoShown' \/ ts[i].who = "page" => \E j \in DOMAIN Alive(ts) : Alive(ts)[j] = ts[i]
           /\ \A i \in DOMAIN Alive(ts) : \E j \in DOMAIN ts : Alive(ts)[i] = ts[j]
  <1>1. CASE InfoShown'
    BY <1>1 DEF Alive
  <1>2. CASE ~InfoShown'
    <2> DEFINE I == {i \in DOMAIN ts : ts[i].who = "page"}
    <2>1. Alive(ts) = ItemsAt(ts, I)
      BY <1>2 DEF Alive, Filter
    <2> HIDE DEF I
    <2> DEFINE us == Alive(ts)
    <2>2. I \in SUBSET (DOMAIN ts) /\ \A i \in DOMAIN ts : i \in I <=> ts[i].who = "page"
      BY DEF I
    <2>3. PICK at : Filtered(us, ts, I, at)
      BY <2>1, <2>2, FilterShape
    <2> HIDE DEF us
    <2>4. /\ IsSeq(us) /\ DOMAIN us = 1 .. Len(us)
          /\ \A k \in DOMAIN us : at[k] \in DOMAIN ts /\ us[k] = ts[at[k]]
          /\ \A i \in I : \E k \in DOMAIN us : at[k] = i
      BY <2>3 DEF Filtered, Picks
    <2>5. \A i \in DOMAIN ts : ts[i].who = "page" => \E j \in DOMAIN us : us[j] = ts[i]
      BY <2>2, <2>4
    <2> QED
      BY <1>2, <2>4, <2>5 DEF us
  <1> QED
    BY <1>1, <1>2

\* What the page's own steps do to the labels and the timers.
Kept(ts) ==
    /\ timers' = Alive(ts)
    /\ infoCopied' = IF InfoShown' THEN infoCopied ELSE None

LEMMA KeptTimed ==
    ASSUME LabelsTimed, NEW ts, IsSeq(ts), Kept(ts),
           \A i \in DOMAIN ts : ts[i] = Timer(ts[i].who, ts[i].key),
           \A i \in DOMAIN timers : timers[i].who = "info" => \E j \in DOMAIN ts : ts[j] = timers[i],
           copied' # None => \E j \in DOMAIN ts : ts[j].who = "page"
    PROVE  LabelsTimed' /\ TimersKnown'
  <1>1. /\ IsSeq(timers')
        /\ \A i \in DOMAIN ts :
              InfoShown' \/ ts[i].who = "page" => \E j \in DOMAIN timers' : timers'[j] = ts[i]
        /\ \A i \in DOMAIN timers' : \E j \in DOMAIN ts : timers'[i] = ts[j]
    BY AliveShape DEF Kept
  <1>2. TimersKnown'
    BY <1>1 DEF TimersKnown
  <1>3. ASSUME copied' # None PROVE \E k : Timed("page", k)'
    <2>1. PICK j \in DOMAIN ts : ts[j].who = "page"
      BY <1>3
    <2>2. \E i \in DOMAIN timers' : timers'[i] = Timer("page", ts[j].key)
      BY <1>1, <2>1
    <2> QED
      BY <2>2 DEF Timed
  <1>4. ASSUME infoCopied' # None PROVE InfoShown' /\ Timed("info", infoCopied)'
    <2>1. InfoShown' /\ infoCopied' = infoCopied
      BY <1>4 DEF Kept
    <2>2. PICK i \in DOMAIN timers : timers[i] = Timer("info", infoCopied)
      BY <1>4, <2>1 DEF LabelsTimed, Timed
    <2>3. PICK j \in DOMAIN ts : ts[j] = timers[i]
      BY <2>2 DEF Timer
    <2> QED
      BY <1>1, <2>1, <2>2, <2>3 DEF Timed
  <1> QED
    BY <1>2, <1>3, <1>4 DEF LabelsTimed

\* The infobox's own steps leave the page as it is.
LEMMA SameInfo == UNCHANGED vars => InfoShown' = InfoShown
  BY DEF vars, InfoShown, SimHexes, sim, detail, summary, colors

LEMMA LabelStep ==
    ASSUME LabelsTimed, TimersKnown, [LNext]_lvars
    PROVE  LabelsTimed' /\ TimersKnown'
  <1>1. CASE Browse
    <2>1. Kept(timers) /\ copied' = copied
      BY <1>1 DEF Browse, Kept
    <2>2. copied' # None => \E j \in DOMAIN timers : timers[j].who = "page"
      BY <2>1 DEF LabelsTimed, Timed, Timer
    <2> QED
      BY <2>1, <2>2, KeptTimed DEF TimersKnown
  <1>2. CASE copy
    <2>1. PICK k \in CopyKeys : copied' = k /\ Kept(Append(timers, Timer("page", k)))
      BY <1>2 DEF copy, Kept
    <2> DEFINE t == Timer("page", k)
               us == Append(timers, t)
    <2>2. /\ IsSeq(us)
          /\ \A i \in DOMAIN timers : i \in DOMAIN us /\ us[i] = timers[i]
          /\ \E i \in DOMAIN us : us[i] = t
          /\ \A i \in DOMAIN us : us[i] = t \/ \E j \in DOMAIN timers : us[i] = timers[j]
      BY AppendShape DEF TimersKnown
    <2>3. t.who = "page" /\ t = Timer(t.who, t.key)
      BY DEF Timer
    <2> HIDE DEF us, t
    <2>4. \A i \in DOMAIN us : us[i] = Timer(us[i].who, us[i].key)
      BY <2>2, <2>3 DEF TimersKnown
    <2>5. Kept(us)
      BY <2>1 DEF us, t
    <2> QED
      BY <2>2, <2>3, <2>4, <2>5, KeptTimed
  <1>3. CASE copyInfo
    <2>1. PICK k \in CopyKeys : infoCopied' = k /\ timers' = Append(timers, Timer("info", k))
      BY <1>3 DEF copyInfo
    <2>2. InfoShown' /\ copied' = copied
      BY <1>3, SameInfo DEF copyInfo
    <2>3. /\ IsSeq(timers')
          /\ \A i \in DOMAIN timers : i \in DOMAIN timers' /\ timers'[i] = timers[i]
          /\ \E i \in DOMAIN timers' : timers'[i] = Timer("info", k)
          /\ \A i \in DOMAIN timers' : timers'[i] = Timer("info", k) \/ \E j \in DOMAIN timers : timers'[i] = timers[j]
      BY <2>1, AppendShape DEF TimersKnown
    <2>4. TimersKnown'
      BY <2>3 DEF TimersKnown, Timer
    <2>5. LabelsTimed'
      BY <2>1, <2>2, <2>3 DEF LabelsTimed, Timed
    <2> QED
      BY <2>4, <2>5
  <1>4. CASE FirePage
    <2>1. /\ Kept(Tail(timers)) /\ copied' = None
          /\ timers # << >> /\ Head(timers).who = "page"
      BY <1>4 DEF FirePage, Kept
    <2> DEFINE us == Tail(timers)
    <2>2. /\ IsSeq(us)
          /\ \A i \in DOMAIN timers : timers[i] = Head(timers) \/ \E j \in DOMAIN us : us[j] = timers[i]
          /\ \A i \in DOMAIN us : \E j \in DOMAIN timers : us[i] = timers[j]
      BY <2>1, TailShape DEF TimersKnown
    <2>3. Kept(us)
      BY <2>1
    <2> HIDE DEF us
    <2>4. \A i \in DOMAIN us : us[i] = Timer(us[i].who, us[i].key)
      BY <2>2 DEF TimersKnown
    <2>5. \A i \in DOMAIN timers : timers[i].who = "info" => \E j \in DOMAIN us : us[j] = timers[i]
      BY <2>1, <2>2
    <2> QED
      BY <2>1, <2>2, <2>3, <2>4, <2>5, KeptTimed
  <1>5. CASE FireInfo
    <2> DEFINE h == Head(timers)
    <2>1. /\ timers # << >> /\ h.who = "info" /\ timers' = Tail(timers) /\ copied' = copied
          /\ infoCopied' = IF infoCopied = h.key THEN None ELSE infoCopied
          /\ InfoShown' = InfoShown
      BY <1>5, SameInfo DEF FireInfo
    <2>2. /\ IsSeq(timers')
          /\ \A i \in DOMAIN timers : timers[i] = h \/ \E j \in DOMAIN timers' : timers'[j] = timers[i]
          /\ \A i \in DOMAIN timers' : \E j \in DOMAIN timers : timers'[i] = timers[j]
      BY <2>1, TailShape DEF TimersKnown
    <2> HIDE DEF h
    <2>3. TimersKnown'
      BY <2>2 DEF TimersKnown
    <2>4. ASSUME copied' # None PROVE \E k : Timed("page", k)'
      <3>1. PICK k : Timed("page", k)
        BY <2>1, <2>4 DEF LabelsTimed
      <3>2. PICK i \in DOMAIN timers : timers[i] = Timer("page", k)
        BY <3>1 DEF Timed
      <3>3. timers[i] # h
        BY <2>1, <3>2 DEF Timer
      <3> QED
        BY <2>2, <3>2, <3>3 DEF Timed
    <2>5. ASSUME infoCopied' # None PROVE InfoShown' /\ Timed("info", infoCopied)'
      <3>1. infoCopied # h.key /\ infoCopied' = infoCopied /\ infoCopied # None
        BY <2>1, <2>5
      <3>2. InfoShown /\ \E i \in DOMAIN timers : timers[i] = Timer("info", infoCopied)
        BY <3>1 DEF LabelsTimed, Timed
      <3>3. PICK i \in DOMAIN timers : timers[i] = Timer("info", infoCopied)
        BY <3>2
      <3>4. timers[i] # h
        BY <3>1, <3>3 DEF Timer
      <3> QED
        BY <2>1, <2>2, <3>1, <3>2, <3>3, <3>4 DEF Timed
    <2> QED
      BY <2>3, <2>4, <2>5 DEF LabelsTimed
  <1>6. CASE UNCHANGED lvars
    <2>1. UNCHANGED <<copied, infoCopied, timers>> /\ UNCHANGED vars
      BY <1>6 DEF lvars, labels, vars
    <2> QED
      BY <2>1, SameInfo DEF LabelsTimed, Timed, TimersKnown
  <1> QED
    BY <1>1, <1>2, <1>3, <1>4, <1>5, <1>6 DEF LNext

\* No label is left without the timer that takes it away, nor the infobox's
\* without the infobox: an earlier timer, another row or another similar color
\* leave one running for the row that says "Copied" (OsDetail.tsx:166,
\* ColorInfobox.tsx:44).
THEOREM LabelsAreTimed == LSpec => []LabelsTimed
  <1>1. LInit => LabelsTimed /\ TimersKnown
    <2>1. IsSeq(<< >>) /\ DOMAIN << >> = {}
      BY EmptySeq DEF IsSeq
    <2> QED
      BY <2>1 DEF LInit, LabelsTimed, TimersKnown
  <1>2. LabelsTimed /\ TimersKnown /\ [LNext]_lvars => LabelsTimed' /\ TimersKnown'
    BY LabelStep
  <1> QED
    BY <1>1, <1>2, PTL DEF LSpec
=============================================================================
