------------------------------- MODULE OsDetail -------------------------------
(* The page of one operating system: islands/OsDetail.tsx with the data that *)
(* lib/detail.ts bakes into the page (bootstrapFromView) and into view.json  *)
(* (normalizeDetails), which the page fetches once and hydrates.  The data   *)
(* is what Catalog derives from the content of a release.                    *)
(*                                                                           *)
(* A handler and the render it causes are one step: Preact renders in a      *)
(* microtask, before the next event.  Effects run later, after the paint, or *)
(* at the latest when the component renders again; an effect that is due is  *)
(* state (pending) and a step of its own (RunEffects).                       *)
(*                                                                           *)
(* The page and the view.json it gets may come from two releases of the      *)
(* site: each is cached and published on its own.                            *)
(*                                                                           *)
(* Left out: the toggles that touch nothing else (formats, source note),     *)
(* scrolling, and upper and lower case.  CopyLabels adds the copied rows.    *)
EXTENDS Catalog

CONSTANTS
    Contents,   \* the content of every release: a sequence of entries each
    Slug,       \* the system
    None

Releases == DOMAIN Contents
Hexes(v) == {v[i].hex : i \in DOMAIN v}

ASSUME ContentsAssumption ==
    \A r \in Releases :
        /\ IsCollection(Contents[r])
        /\ \A p \in Places(Contents[r]) : Contents[r][p[1]].colors[p[2]].hex \in WellFormedHexes
        /\ \E i \in DOMAIN Contents[r] : Contents[r][i].slug = Slug
        /\ \A i \in DOMAIN Contents[r] : Contents[r][i].colors # << >>

\* What a release shows of the system, color by color.
Views == [r \in Releases |-> buildOsDetail(Contents[r], Slug)]

VARIABLES
    page,       \* the release the page is from
    entry,      \* initialHex: the color in the URL the page was opened at
    sel,        \* the place of the selected color
    details,    \* the details known so far, by color
    fetch,      \* "wait", "done", "failed"
    mounted,    \* didMount.current
    pending,    \* effects of the last render are due
    url,        \* the color in the address bar, None on the page without one
    simExp,     \* the similar color that is expanded
    full, sheet, simFull, simSheet      \* the overlays

overlays == <<full, sheet, simFull, simSheet>>
vars == <<page, entry, sel, details, fetch, mounted, pending, url, simExp, overlays>>

-----------------------------------------------------------------------------
(* lib/detail.ts *)

\* The first index of a color that satisfies P, or 0.
findIndex(v, P(_)) == SelectInSeq(v, P)

defaultIdx(v) == LET d == findIndex(v, LAMBDA c : c.isDefault) IN IF d > 0 THEN d ELSE 1
idxOfHex(v, h) ==
    LET i == findIndex(v, LAMBDA c : c.hex = h) IN IF i > 0 THEN i ELSE defaultIdx(v)

pickColorDetail(c) == [uses |-> c.uses, similar |-> c.similar]

ASSUME NoneAssumption ==
    \A r \in Releases : \A i \in DOMAIN Views[r] : pickColorDetail(Views[r][i]) # None

\* Mutant of chosen: without a color in the URL the first one is baked in.
chosen_First(v, h) == v[IF h = None THEN 1 ELSE idxOfHex(v, h)]
\* The color whose details bootstrapFromView bakes into the page.
chosen(v, h) ==
    LET i == findIndex(v, LAMBDA c : c.hex = h)
        d == findIndex(v, LAMBDA c : c.isDefault)
    IN  IF i > 0 THEN v[i] ELSE IF d > 0 THEN v[d] ELSE v[1]

\* Mutant of refOf: the reference loses whether the color is the default there.
refOf_NoDefault(p) == [slug |-> p.slug, isDefault |-> FALSE]
refOf(p) == [slug |-> p.slug, isDefault |-> p.isDefault]

\* On the wire a platform is a reference; its name is sent once, in osMeta.
normalizeDetails(v) ==
    LET platforms == UNION {ToSet(v[i].uses) \cup
                            UNION {ToSet(v[i].similar[j].platforms) : j \in DOMAIN v[i].similar}
                                : i \in DOMAIN v}
    IN  [osMeta  |-> [s \in {p.slug : p \in platforms} |->
                        LET p == CHOOSE p \in platforms : p.slug = s
                        IN  [name |-> p.name, year |-> p.year, family |-> p.family]],
         details |-> MapSeq(v, LAMBDA c :
            [uses    |-> MapSeq(c.uses, refOf),
             similar |-> MapSeq(c.similar, LAMBDA s :
                            [s EXCEPT !.platforms = MapSeq(@, refOf)])])]

denormalizeDetails(json) ==
    LET hydrate(ref) == LET m == json.osMeta[ref.slug]
                        IN  [slug |-> ref.slug, name |-> m.name, year |-> m.year,
                             family |-> m.family, isDefault |-> ref.isDefault]
    IN  MapSeq(json.details, LAMBDA d :
            [uses    |-> MapSeq(d.uses, hydrate),
             similar |-> MapSeq(d.similar, LAMBDA s :
                            [s EXCEPT !.platforms = MapSeq(@, hydrate)])])

-----------------------------------------------------------------------------
(* What a render reads *)

colors  == Views[page]
summary == colors[sel]
detail  == details[summary.hex]
sim     == IF detail = None THEN << >> ELSE detail.similar
SimHexes == {sim[i].hex : i \in DOMAIN sim}

Init ==
    /\ page \in Releases
    /\ entry \in Hexes(Views[page]) \cup {None}
    /\ sel = idxOfHex(Views[page], entry)
    /\ details = [h \in UNION {Hexes(Views[r]) : r \in Releases} |->
                    IF h = chosen(Views[page], entry).hex
                    THEN pickColorDetail(chosen(Views[page], entry)) ELSE None]
    /\ fetch = "wait" /\ mounted = FALSE /\ pending = TRUE
    /\ url = entry
    /\ simExp = None /\ full = FALSE /\ sheet = FALSE /\ simFull = FALSE /\ simSheet = None

-----------------------------------------------------------------------------
(* Effects and renders *)

\* Mutant of Flush: the first run does not note that it was the first.
Flush_NeverMounted ==
    /\ mounted' = FALSE
    /\ url' = IF mounted THEN summary.hex ELSE url
\* The effects that depend on sel: all but the first run put the color they
\* were rendered for into the address bar.
Flush ==
    /\ mounted' = TRUE
    /\ url' = IF mounted THEN summary.hex ELSE url

\* Mutant of Render: no effect collapses the similar color.
Render_KeepsPanel(s, x) ==
    /\ IF pending THEN Flush ELSE UNCHANGED <<mounted, url>>
    /\ simExp' = x
    /\ sel' = s
    /\ pending' = (s # sel)
    /\ UNCHANGED <<page, entry>>
\* A handler sets sel to s and simExp to x; the render it causes first runs
\* the effects still due, whose setSimExp(null) comes last and wins.
Render(s, x) ==
    /\ IF pending THEN Flush ELSE UNCHANGED <<mounted, url>>
    /\ simExp' = IF pending THEN None ELSE x
    /\ sel' = s
    /\ pending' = (s # sel)
    /\ UNCHANGED <<page, entry>>

RunEffects ==
    /\ pending
    /\ Render(sel, simExp)
    /\ UNCHANGED <<details, fetch, overlays>>

-----------------------------------------------------------------------------
(* The fetch of view.json: sent by the first effects, once. *)

\* Mutant of Merge: what was fetched replaces what the page came with.
Merge_FetchedWins(map) ==
    [h \in DOMAIN details |-> IF map[h] = None THEN details[h] ELSE map[h]]
Merge(map) == [h \in DOMAIN details |-> IF details[h] = None THEN map[h] ELSE details[h]]

\* The answer, of any release, is matched to the colors of the page by position;
\* of two places with the same color the later one counts.
Fetched(r) ==
    /\ fetch = "wait" /\ mounted
    /\ LET dn == denormalizeDetails(normalizeDetails(Views[r]))
           map == [h \in DOMAIN details |->
                    LET i == SelectLastInSeq(Take(colors, Len(dn)), LAMBDA c : c.hex = h)
                    IN  IF i > 0 THEN dn[i] ELSE None]
       IN  details' = Merge(map)
    /\ fetch' = "done"
    /\ Render(sel, simExp)
    /\ UNCHANGED overlays

FetchFails ==
    /\ fetch = "wait" /\ mounted
    /\ fetch' = "failed"
    /\ UNCHANGED <<page, entry, sel, details, mounted, pending, url, simExp, overlays>>

-----------------------------------------------------------------------------
(* The visitor *)

\* A click on a color of the list. The handler asks for no overlay; that a row
\* takes no focus, and so is out of reach under one, is not used.
Select ==
    /\ \E i \in DOMAIN colors \ {sel} : Render(i, simExp)
    /\ UNCHANGED <<details, fetch, overlays>>

\* The next place around a list of n; places count from 1 here and from 0 there.
Around(i, d, n) == JsRem(i - 1 + d + n, n) + 1

\* The arrows of the full-screen preview.
step ==
    /\ full
    /\ \E d \in {-1, 1} : Render(Around(sel, d, Len(colors)), simExp)
    /\ UNCHANGED <<details, fetch, overlays>>

ToggleSim ==
    /\ \E h \in SimHexes : Render(sel, IF simExp = h THEN None ELSE h)
    /\ UNCHANGED <<details, fetch, overlays>>

stepSim ==
    /\ simFull /\ simExp \in SimHexes
    /\ \E d \in {-1, 1} :
        LET i == SelectInSeq(sim, LAMBDA s : s.hex = simExp)
        IN  Render(sel, sim[Around(i, d, Len(sim))].hex)
    /\ UNCHANGED <<details, fetch, overlays>>

\* An overlay opens from a button of the page or of the infobox and closes from
\* itself, or on Escape; none takes the focus, so the buttons stay in reach.
Overlay ==
    /\ \/ full' = ~full /\ UNCHANGED <<sheet, simFull, simSheet>>
       \/ sheet' = ~sheet /\ UNCHANGED <<full, simFull, simSheet>>
       \/ simExp \in SimHexes /\ simFull' = ~simFull /\ UNCHANGED <<full, sheet, simSheet>>
       \/ simExp \in SimHexes /\ simSheet' = simExp /\ UNCHANGED <<full, sheet, simFull>>
       \/ simSheet # None /\ simSheet' = None /\ UNCHANGED <<full, sheet, simFull>>
    /\ Render(sel, simExp)
    /\ UNCHANGED <<details, fetch>>

Next ==
    \/ RunEffects \/ Select \/ step \/ ToggleSim \/ stepSim \/ Overlay
    \/ FetchFails \/ \E r \in Releases : Fetched(r)

Spec == Init /\ [][Next]_vars

-----------------------------------------------------------------------------
(* Properties *)

\* The server picks the color whose details it bakes into the page and the
\* client the color it selects on two paths (detail.ts:180-183 and
\* OsDetail.tsx:62-72); the first paint shows no skeleton.
SeedIsSelected == ~mounted => detail # None

\* Details that are on screen are never replaced: the inline seed is
\* authoritative (OsDetail.tsx:90).
DetailsStable ==
    [][\A h \in DOMAIN details : details[h] # None => details'[h] = details[h]]_vars

\* Once the effects have run, opening the address in the address bar again
\* selects the color that is selected now, if perhaps at another of its places
\* (OsDetail.tsx:151-160).
ReloadKeepsSelection == ~pending => colors[idxOfHex(colors, url)].hex = summary.hex

\* Once the effects have run, the expanded similar color is one of the selected
\* color's own similar colors (OsDetail.tsx:147-149).
SimPanelOfSelected == ~pending => simExp \in SimHexes \cup {None}

DetailsIn(r) == {pickColorDetail(Views[r][i]) : i \in DOMAIN Views[r]}

\* Details shown for a color are that color's, in some release of the site.
DetailsBelong ==
    \A h \in DOMAIN details : details[h] # None =>
        \E r \in Releases : \E i \in DOMAIN Views[r] :
            Views[r][i].hex = h /\ details[h] = pickColorDetail(Views[r][i])

\* After the fetch no color of the page has a skeleton left, and what came over
\* the wire is what the build put on it, platforms and defaults included.
FetchedIsWhole == fetch = "done" => DetailsBelong /\ \A h \in Hexes(colors) : details[h] # None
=============================================================================
