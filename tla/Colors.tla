-------------------------------- MODULE Colors --------------------------------
(* The page of all colors: islands/Colors.tsx with the functions of          *)
(* lib/colorCatalog.ts.  Its state is what the visitor set: the search, the  *)
(* facets, the picked systems and the open overlay.  What the grid shows,    *)
(* the counts on the pills and the options that are greyed out are computed  *)
(* from it at every render, each by a path of its own; the properties say    *)
(* that those paths agree.                                                   *)
(*                                                                           *)
(* A color is its number in the catalog, so < on colors is catalog order.    *)
(* Layout (columns, the caret, the mobile panel) is left out.                *)
EXTENDS Js

CONSTANTS
    Colors,         \* ColorEntry, numbered in catalog order
    Fam, Types,     \* its family and its set of types
    Hue, Light, Score,
    Words, Span,    \* words in its name, hex and year label; first and last year
    FamilyDefs,     \* families in the order of the page
    TypeDefs,       \* types of color
    Systems, OsFam, \* operating systems and the family of each
    Ships, Defaults,\* <<color, system>>: shipped there; shipped as its default
    Queries, YearOf,\* searches the visitor may type; the year one is, or 0
    None

ASSUME CatalogAssumption ==
    /\ Colors \in SUBSET Nat /\ IsFiniteSet(Colors)
    /\ Hue \in [Colors -> Int] /\ Light \in [Colors -> Int] /\ Score \in [Colors -> Int]
    /\ IsSeq(FamilyDefs) /\ None \notin ToSet(FamilyDefs) \cup TypeDefs
    /\ Defaults \subseteq Ships /\ Ships \subseteq Colors \X Systems
    /\ Fam \in [Colors -> ToSet(FamilyDefs)] /\ Types \in [Colors -> SUBSET TypeDefs]
    /\ "" \in Queries

VARIABLES
    group, sort, search, family, type,
    exp,            \* the color whose infobox is expanded
    osOpen, osSel, osMode, defaultsOnly,
    pv,             \* the full-screen preview: a copy of a list, a place in it
    sheet           \* the color of the download sheet

view   == <<group, sort>>
facets == <<family, type>>
osPick == <<osSel, osMode>>
vars   == <<view, search, facets, exp, osOpen, osPick, defaultsOnly, pv, sheet>>

-----------------------------------------------------------------------------
(* lib/colorCatalog.ts *)

Platforms(c) == {o \in Systems : <<c, o>> \in Ships}
DefaultOn(c) == {o \in Systems : <<c, o>> \in Defaults}

matchesColorQuery(c, q) ==
    \/ q = ""
    \/ q \in Words[c] \cup Types[c] \cup {Fam[c]}
    \/ q \in Platforms(c) \cup {OsFam[o] : o \in Platforms(c)}
    \/ YearOf[q] # 0 /\ YearOf[q] \in Span[c][1] .. Span[c][2]

familyCounts(cs) == [f \in ToSet(FamilyDefs) |-> Cardinality({c \in cs : Fam[c] = f})]
typeCounts(cs)   == [t \in TypeDefs |-> Cardinality({c \in cs : t \in Types[c]})]

PassesFacets(c, f, t) == f \in {None, Fam[c]} /\ t \in Types[c] \cup {None}

\* A picked set of systems, in either mode, against the systems of a color.
Picked(sel, mode, on) == IF mode = "all" THEN sel \subseteq on ELSE sel \cap on # {}

osMatch(c, sel, mode) == sel = {} \/ Picked(sel, mode, Platforms(c))

defaultMatch(c, sel, mode) ==
    IF sel = {} THEN DefaultOn(c) # {} ELSE Picked(sel, mode, DefaultOn(c))

\* Mutant of osOptionDisabled: it forgets "defaults only".
osOptionDisabled_AnyShipment(o, universe, sel, mode, dflt) ==
    /\ o \notin sel
    /\ ~ \E c \in universe :
            (IF mode = "all" THEN sel \cup {o} ELSE {o}) \subseteq Platforms(c)
osOptionDisabled(o, universe, sel, mode, dflt) ==
    /\ o \notin sel
    /\ ~ \E c \in universe :
            (IF mode = "all" THEN sel \cup {o} ELSE {o})
                \subseteq (IF dflt THEN DefaultOn(c) ELSE Platforms(c))

\* The comparisons; Array.sort is stable, so ties stay in catalog order.
spectrumCmp(a, b) ==
    \/ Hue[a] < Hue[b]
    \/ Hue[a] = Hue[b] /\ Light[a] < Light[b]
    \/ Hue[a] = Hue[b] /\ Light[a] = Light[b] /\ a < b
popCmp(a, b) ==
    \/ Score[a] > Score[b]
    \/ Score[a] = Score[b] /\ Hue[a] < Hue[b]
    \/ Score[a] = Score[b] /\ Hue[a] = Hue[b] /\ a < b
Sorted(cs, s) ==
    Ranked(cs, [b \in cs |-> {a \in cs : IF s = "pop" THEN popCmp(a, b) ELSE spectrumCmp(a, b)}])

\* Mutant of groupIntoBands: the bands are always in spectrum order.
groupIntoBands_Spectrum(cs, f, t, s) ==
    LET band == [d \in ToSet(FamilyDefs) |->
                    Sorted({c \in cs : Fam[c] = d /\ PassesFacets(c, f, t)}, "spectrum")]
        defs == Filter(FamilyDefs, LAMBDA d : band[d] # << >>)
    IN  [i \in DOMAIN defs |-> band[defs[i]]]
\* The non-empty bands, in the order of the families.
groupIntoBands(cs, f, t, s) ==
    LET band == [d \in ToSet(FamilyDefs) |->
                    Sorted({c \in cs : Fam[c] = d /\ PassesFacets(c, f, t)}, s)]
        defs == Filter(FamilyDefs, LAMBDA d : band[d] # << >>)
    IN  [i \in DOMAIN defs |-> band[defs[i]]]

rankColors(cs, f, s) == Sorted({c \in cs : f \in {None, Fam[c]}}, s)

-----------------------------------------------------------------------------
(* What a render computes *)

matched == {c \in Colors : matchesColorQuery(c, search)}

\* Mutant of counts: the type pill is not looked at.
counts_All == familyCounts(matched)
counts  == familyCounts({c \in matched : PassesFacets(c, None, type)})
tCounts == typeCounts({c \in matched : PassesFacets(c, family, None)})

osMatches(c) ==
    osMatch(c, osSel, osMode) /\ (defaultsOnly => defaultMatch(c, osSel, osMode))

\* Both readings of the list are defined whichever is on screen.
bands   == groupIntoBands({c \in matched : osMatches(c)}, family, type, sort)
ranking == rankColors({c \in matched : osMatches(c) /\ PassesFacets(c, None, type)}, family, sort)

\* The lists on screen; the preview takes a copy of the one it is opened from.
Grids == IF group = "flat" THEN {ranking} ELSE ToSet(bands)
Shown == UNION {ToSet(l) : l \in Grids}
noResults == Shown = {}

osUniverseColors == {c \in Colors : PassesFacets(c, family, type)}
osDisabled(o, sel) == osOptionDisabled(o, osUniverseColors, sel, osMode, defaultsOnly)
OsesOf(n) == {o \in Systems : OsFam[o] = n}

\* Mutant of FamToggled: the whole family has to be on before it goes off.
FamToggled_Whole(n, sel) ==
    LET slugs == {o \in OsesOf(n) : ~osDisabled(o, sel)}
    IN  IF OsesOf(n) \subseteq sel THEN sel \ slugs ELSE sel \cup slugs
\* The picks after a click on the box of family n.
FamToggled(n, sel) ==
    LET slugs == {o \in OsesOf(n) : ~osDisabled(o, sel)}
    IN  IF slugs # {} /\ slugs \subseteq sel THEN sel \ slugs ELSE sel \cup slugs

-----------------------------------------------------------------------------
(* The visitor.  The preview and the sheet lie over the page but take no       *)
(* focus: every control under them stays within reach of the keyboard.        *)

Init ==
    /\ group = "hue" /\ sort = "spectrum" /\ search = ""
    /\ family = None /\ type = None /\ exp = None
    /\ osOpen = FALSE /\ osSel = {} /\ osMode = "any" /\ defaultsOnly = FALSE
    /\ pv = None /\ sheet = None

SetView ==
    /\ \/ group' \in {"hue", "flat"} /\ UNCHANGED sort
       \/ sort' \in {"spectrum", "pop"} /\ UNCHANGED group
    /\ UNCHANGED <<search, facets, exp, osOpen, osPick, defaultsOnly, pv, sheet>>

Search ==
    /\ search' \in Queries
    /\ exp' = None
    /\ UNCHANGED <<view, facets, osOpen, osPick, defaultsOnly, pv, sheet>>

Flip(x, y) == IF x = y THEN None ELSE y

\* A pill is there while the search has colors for it, and dead while its own
\* count is 0, unless it is the active one; "Clear" is there while one is on.
ToggleFamily ==
    /\ \/ \E f \in ToSet(FamilyDefs) :
            /\ familyCounts(matched)[f] > 0
            /\ counts[f] > 0 \/ family = f
            /\ family' = Flip(family, f)
       \/ family # None /\ family' = None
    /\ UNCHANGED <<view, search, type, exp, osOpen, osPick, defaultsOnly, pv, sheet>>

ToggleType ==
    /\ \/ \E t \in TypeDefs :
            /\ typeCounts(matched)[t] > 0
            /\ tCounts[t] > 0 \/ type = t
            /\ type' = Flip(type, t)
       \/ type # None /\ type' = None
    /\ UNCHANGED <<view, search, family, exp, osOpen, osPick, defaultsOnly, pv, sheet>>

ToggleDefaults ==
    /\ defaultsOnly' = ~defaultsOnly
    /\ exp' = None
    /\ UNCHANGED <<view, search, facets, osOpen, osPick, pv, sheet>>

ToggleOsPanel ==
    /\ osOpen' = ~osOpen
    /\ UNCHANGED <<view, search, facets, exp, osPick, defaultsOnly, pv, sheet>>

ToggleOsSlug(o) ==
    /\ ~osDisabled(o, osSel)
    /\ osSel' = IF o \in osSel THEN osSel \ {o} ELSE osSel \cup {o}
    /\ UNCHANGED osMode

ToggleOsFam(n) ==
    /\ \E o \in OsesOf(n) : ~osDisabled(o, osSel)
    /\ osSel' = FamToggled(n, osSel)
    /\ UNCHANGED osMode

\* The panel of systems.
PickOs ==
    /\ osOpen
    /\ \/ \E o \in Systems : ToggleOsSlug(o)
       \/ \E o \in Systems : ToggleOsFam(OsFam[o])
       \/ osMode' \in {"any", "all"} /\ UNCHANGED osSel
       \/ osSel # {} /\ osSel' = {} /\ UNCHANGED osMode
    /\ UNCHANGED <<view, search, facets, exp, osOpen, defaultsOnly, pv, sheet>>

ToggleExp ==
    /\ \E c \in Shown : exp' = Flip(exp, c)
    /\ UNCHANGED <<view, search, facets, osOpen, osPick, defaultsOnly, pv, sheet>>

OpenPv ==
    /\ \E l \in Grids : \E i \in DOMAIN l : l[i] = exp /\ pv' = [list |-> l, idx |-> i - 1]
    /\ UNCHANGED <<view, search, facets, exp, osOpen, osPick, defaultsOnly, sheet>>

\* Mutant of StepPv: it goes round the list that is on screen by now.
StepPv_OnScreen ==
    /\ pv # None
    /\ \E d \in {-1, 1} : \E l \in Grids :
        /\ pv.list[pv.idx + 1] \in ToSet(l)
        /\ pv' = [pv EXCEPT !.idx = JsRem(@ + d + Len(l), Len(l))]
    /\ UNCHANGED <<view, search, facets, exp, osOpen, osPick, defaultsOnly, sheet>>
StepPv ==
    /\ pv # None
    /\ \E d \in {-1, 1} :
        pv' = [pv EXCEPT !.idx = JsRem(@ + d + Len(pv.list), Len(pv.list))]
    /\ UNCHANGED <<view, search, facets, exp, osOpen, osPick, defaultsOnly, sheet>>

OpenSheet ==
    /\ exp \in Shown
    /\ sheet' = exp
    /\ UNCHANGED <<view, search, facets, exp, osOpen, osPick, defaultsOnly, pv>>

\* The preview and the sheet close one by one, each by its own button.
Close ==
    /\ \/ pv # None /\ pv' = None /\ UNCHANGED sheet
       \/ sheet # None /\ sheet' = None /\ UNCHANGED pv
    /\ UNCHANGED <<view, search, facets, exp, osOpen, osPick, defaultsOnly>>

Next ==
    \/ SetView \/ Search \/ ToggleFamily \/ ToggleType \/ ToggleDefaults \/ ToggleOsPanel
    \/ PickOs \/ ToggleExp \/ OpenPv \/ StepPv \/ OpenSheet \/ Close

Spec == Init /\ [][Next]_vars

-----------------------------------------------------------------------------
(* Properties *)

\* Grouped and ungrouped are two readings of one list: a band is the ranking
\* without the other families, so both show the same colors, each once, in
\* the same order, although they filter and sort on separate paths.
BandsAreRanking ==
    /\ UNION {ToSet(b) : b \in ToSet(bands)} = ToSet(ranking)
    /\ \A b \in ToSet(bands) : b = Filter(ranking, LAMBDA c : Fam[c] = Fam[b[1]])

\* The number on a pill is the number of colors a click on it leaves, as long
\* as no system is picked and "Defaults only" is off: the counts ignore those.
\* So a pill that is not dimmed never empties the grid by itself.
CountsTrue ==
    LET left(f, t) == Cardinality(UNION {ToSet(b) : b \in ToSet(groupIntoBands(matched, f, t, sort))})
    IN  /\ \A f \in DOMAIN counts  : counts[f]  = left(f, type)
        /\ \A t \in DOMAIN tCounts : tCounts[t] = left(family, t)

\* An option of the panel is dead exactly if picking it would add none of its
\* colors to the grid; the search is empty here, because the panel ignores it.
OptionsHonest ==
    search = "" =>
        \A o \in Systems \ osSel :
            osDisabled(o, osSel) <=>
                ~ \E c \in osUniverseColors :
                    /\ o \in Platforms(c)
                    /\ osMatch(c, osSel \cup {o}, osMode)
                    /\ defaultsOnly => o \in DefaultOn(c) /\ defaultMatch(c, osSel \cup {o}, osMode)

\* Two clicks on the box of a family with no pick in it leave the picks as they
\* were, although the second click sees other options greyed out.
FamToggleUndoes ==
    \A o \in Systems :
        OsesOf(OsFam[o]) \cap osSel = {} =>
            FamToggled(OsFam[o], FamToggled(OsFam[o], osSel)) = osSel

\* The preview keeps to the list it was opened with, whatever is searched,
\* sorted or picked under it meanwhile: it has each of its colors once, in one
\* of the two orders, and its place never leaves it, however often one goes
\* round (Colors.tsx:101-103; a place beyond the list would leave it open
\* and show nothing).
PreviewWhole ==
    pv # None =>
        /\ pv.idx \in 0 .. Len(pv.list) - 1
        /\ \E s \in {"spectrum", "pop"} : pv.list = Sorted(ToSet(pv.list), s)
=============================================================================
