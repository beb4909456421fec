-------------------------------- MODULE Catalog --------------------------------
(* What the build derives from the content collection, content/os/*.json:    *)
(* lib/derive.ts, lib/scores.ts, and the parts of lib/catalog.ts, detail.ts  *)
(* and colorCatalog.ts that the pages show.                                  *)
(*                                                                           *)
(* An entry is [slug, name, year, added, family, says, colors].  A name is a *)
(* number, in the order of localeCompare, `added` the number of a day, and   *)
(* `says` the searches that occur in the name or the family.  colors is a    *)
(* sequence of [hex, name, default]; the schema wants at least one, and at   *)
(* most one default.  A hex may occur twice under two names.                 *)
EXTENDS Js

CONSTANTS
    Distance,    \* Distance[g][h]: OKLab distance, in thousandths of 0.4
    Limit,       \* how many similar colors are kept before duplicates go (24)
    MaxSimilar   \* and how many are shown (6)

WellFormedHexes == DOMAIN Distance

ASSUME LimitsAssumption == Limit \in Nat /\ MaxSimilar \in Nat
ASSUME DistanceAssumption == \A h \in WellFormedHexes : Distance[h] \in [WellFormedHexes -> Nat]

\* What the build is given: a list of entries.
IsCollection(es) ==
    /\ IsSeq(es)
    /\ \A i \in DOMAIN es : IsSeq(es[i].colors) /\ {es[i].name, es[i].year, es[i].added} \subseteq Int

defaultColor(e) ==
    LET marked == Filter(e.colors, LAMBDA c : c.default)
    IN  IF marked # << >> THEN marked[1] ELSE e.colors[1]

\* Where the colors of all systems are: a file, and a place in it.
Places(es)     == UNION {{i} \X DOMAIN es[i].colors : i \in DOMAIN es}
InFileOrder(P) == [q \in P |-> {p \in P : p[1] < q[1] \/ (p[1] = q[1] /\ p[2] < q[2])}]

\* A color with the system that has it.
swatch(e, c) == [hex |-> c.hex, os |-> e, name |-> c.name, isDefault |-> c.default]

\* All colors of all systems, in the order of the files.
Swatches(es) ==
    LET at == Ranked(Places(es), InFileOrder(Places(es)))
    IN  [k \in DOMAIN at |-> swatch(es[at[k][1]], es[at[k][1]].colors[at[k][2]])]

-----------------------------------------------------------------------------
(* Relations between colors.                                                 *)

\* Math.max(0, Math.round(100 * (1 - distance / 0.4)))
match(d) == IF d >= 1000 THEN 0 ELSE (1005 - d) \div 10

\* Mutant of similarColors: cut to the limit before it is sorted.
similarColors_CutFirst(h, es, excludeSlug, limit) ==
    StableSort(Take(Filter(Swatches(es), LAMBDA c : c.os.slug # excludeSlug), limit),
               LAMBDA a, b : Distance[h][a.hex] < Distance[h][b.hex])
similarColors(h, es, excludeSlug, limit) ==
    Take(StableSort(Filter(Swatches(es), LAMBDA c : c.os.slug # excludeSlug),
                    LAMBDA a, b : Distance[h][a.hex] < Distance[h][b.hex]), limit)

dedupeSimilarByHex(list) == FirstOfHex(list)

\* Who shipped a color, by year and then by name; a system once for every time
\* the color is in its file.
platformsByHex(es, h) ==
    StableSort(MapSeq(Filter(Swatches(es), LAMBDA c : c.hex = h),
                      LAMBDA c : [slug |-> c.os.slug, name |-> c.os.name, year |-> c.os.year,
                                  family |-> c.os.family, isDefault |-> c.isDefault]),
               LAMBDA a, b : a.year < b.year \/ (a.year = b.year /\ a.name < b.name))

\* The similar colors on the page of a system, for one of its colors.
similarOf(h, es, slug) ==
    LET near == Filter(dedupeSimilarByHex(similarColors(h, es, slug, Limit)),
                          LAMBDA s : match(Distance[h][s.hex]) < 100 /\ s.hex # h)
    IN  MapSeq(Take(near, MaxSimilar),
               LAMBDA s : [hex |-> s.hex, platforms |-> platformsByHex(es, s.hex)])

\* The colors of a system with what its page shows of each.
buildOsDetail(es, slug) ==
    LET e == es[SelectLastInSeq(es, LAMBDA x : x.slug = slug)]
    IN  MapSeq(e.colors, LAMBDA c : [hex |-> c.hex, isDefault |-> c.default,
                                     uses |-> platformsByHex(es, c.hex),
                                     similar |-> similarOf(c.hex, es, slug)])

-----------------------------------------------------------------------------
(* Relations between systems, and the colors of all of them.                 *)

\* The systems of the same years, in the order of their years.
eraPeers(e, es, windowYears) ==
    StableSort(MapSeq(Filter(es, LAMBDA p : p.slug # e.slug
                                               /\ p.year - e.year \in -windowYears .. windowYears),
                      LAMBDA p : [slug |-> p.slug, year |-> p.year, hex |-> defaultColor(p).hex]),
               LAMBDA a, b : a.year < b.year)

\* The name given most often, of several the one given first.
mostUsed(names) ==
    LET count(n) == Cardinality({i \in DOMAIN names : names[i] = n})
    IN  names[CHOOSE i \in DOMAIN names :
                \A j \in DOMAIN names : \/ count(names[j]) < count(names[i])
                                        \/ count(names[j]) = count(names[i]) /\ i <= j]

\* Mutant of mergedColor: a default has no say in the name.
mergedColor_MostUsed(es, h) ==
    LET uses  == Filter(Swatches(es), LAMBDA c : c.hex = h)
        years == {uses[i].os.year : i \in DOMAIN uses}
    IN  [hex |-> h, name |-> mostUsed(MapSeq(uses, LAMBDA c : c.name)),
         platforms |-> MapSeq(uses, LAMBDA c : c.os.slug), years |-> <<Min(years), Max(years)>>]
\* A color with the name that the last system to have it for its default gives
\* it, or else the one most used, and who shipped it, in the order of the files.
mergedColor(es, h) ==
    LET uses     == Filter(Swatches(es), LAMBDA c : c.hex = h)
        defaults == Filter(uses, LAMBDA c : c.isDefault)
        years    == {uses[i].os.year : i \in DOMAIN uses}
    IN  [hex  |-> h,
         name |-> IF defaults # << >> THEN Last(defaults).name
                  ELSE mostUsed(MapSeq(uses, LAMBDA c : c.name)),
         platforms |-> MapSeq(uses, LAMBDA c : c.os.slug), years |-> <<Min(years), Max(years)>>]

\* Every color once.
mergeColorsByHex(es) ==
    MapSeq(FirstOfHex(Swatches(es)), LAMBDA first : mergedColor(es, first.hex))

-----------------------------------------------------------------------------
(* Scores, and the list of systems.                                          *)

NotANumber == -1   \* stands for what is not a finite number

\* A bucket of scores.json: what is no number is dropped.
parseBucket(raw) == [k \in {t \in DOMAIN raw : raw[t] # NotANumber} |-> raw[k]]

\* scores.json as it is found: absent, torn by a dump that was cut short, or
\* whole, with what it says of systems and of colors.
loadScores(file) ==
    IF file.state = "whole"
    THEN [os |-> parseBucket(file.os), colors |-> parseBucket(file.colors)]
    ELSE [os |-> [s \in {} |-> 0], colors |-> [h \in {} |-> 0]]

osScore(scores, slug)  == IF slug \in DOMAIN scores.os THEN scores.os[slug] ELSE 0
colorScore(scores, h)  == IF h \in DOMAIN scores.colors THEN scores.colors[h] ELSE 0

\* What buildCatalog's osList and pages/index.astro make of an entry.
itemOf(e, scores) ==
    LET alt == Filter(e.colors, LAMBDA c : ~c.default)
    IN  [slug |-> e.slug, name |-> e.name, year |-> e.year, added |-> e.added,
         says |-> e.says, defaultHex |-> defaultColor(e).hex,
         score |-> osScore(scores, e.slug), colorCount |-> Len(e.colors),
         altColors |-> alt]

\* Mutant of platformItems: the list is left in the order of the files.
platformItems_Unordered(es, scores) == MapSeq(es, LAMBDA e : itemOf(e, scores))
platformItems(es, scores) ==
    StableSort(MapSeq(es, LAMBDA e : itemOf(e, scores)), LAMBDA a, b : a.score > b.score)
=============================================================================
