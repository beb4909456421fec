--------------------------------- MODULE Build ---------------------------------
(* A build of the site: the content collection with its schema               *)
(* (content/config.ts), the memos of lib/entries.ts, loadCatalog.ts and      *)
(* osDetail.ts, the catalog of lib/catalog.ts, and the pages that            *)
(* getStaticPaths asks for, with the links on them and the scores they show. *)
(* Meanwhile `counter dump` may write scores.json, which it truncates first. *)
(*                                                                           *)
(* An entry has, besides what Catalog says, predecessor and successor (slugs *)
(* or None), urls (of its references) and note (None or [text, links]).      *)
(* Required names and dates, and pages without data, are left out.           *)
EXTENDS Catalog, SourceNote

CONSTANTS
    Collections,   \* what content/os may hold, file by file
    HttpUrls,      \* the URLs of scheme http or https
    Dumps,         \* what a dump may write: [os, colors]
    MaxDumps,      \* how many dumps there are during a build
    None

\* What a build may find in scores.json, as loadScores reads it: a dump, or
\* nothing, which is all it makes of a file that is torn or absent.
Snapshots ==
    {loadScores([state |-> "torn"])} \cup
    {loadScores([state |-> "whole", os |-> d.os, colors |-> d.colors]) : d \in Dumps}

ASSUME BuildAssumption ==
    /\ \A es \in Collections :
        IsCollection(es) /\ \A i \in DOMAIN es : es[i].note # None => IsSeq(es[i].note.text)
    /\ None \notin Dumps /\ None \notin Snapshots
    /\ \A d \in Dumps : d.os \in [DOMAIN d.os -> Int]

VARIABLES
    source,    \* content/os
    file,      \* scores.json
    dumping,   \* what a dump is about to write, or None
    dumps,     \* how many have started
    phase,     \* "start", "render", "done", "failed"
    catalog,   \* the scores that catalogPromise was built with, or None
    cache,     \* those that detailCache holds a system with, by slug
    todo,      \* the pages still to render
    site       \* the pages rendered: [scores, links] by path

vars == <<source, file, dumping, dumps, phase, catalog, cache, todo, site>>

Slugs == {source[i].slug : i \in DOMAIN source}

-----------------------------------------------------------------------------
(* The schema, and what buildCatalog throws on                               *)

validNote(n) ==
    /\ n.text # << >>
    /\ Range(n.links) \subseteq HttpUrls
    /\ sourceNoteLinkErrors(n.text, n.links) = {}

validEntry(e) ==
    /\ e.colors # << >>
    /\ \A i \in DOMAIN e.colors : e.colors[i].hex \in WellFormedHexes
    /\ Len(Filter(e.colors, LAMBDA c : c.default)) <= 1
    /\ e.urls \subseteq HttpUrls
    /\ e.note # None => validNote(e.note)

\* Mutant of Resolved: a reference to no system is let through.
Resolved_Unchecked == TRUE
Resolved ==
    \A i \in DOMAIN source : {source[i].predecessor, source[i].successor} \subseteq Slugs \cup {None}

-----------------------------------------------------------------------------
(* Paths, and the links of each page                                         *)

IndexPage       == <<"/">>
ColorsPage      == <<"/colors">>
OsPage(slug)    == <<"/os", slug>>
ViewJson(slug)  == <<"/os", slug, "view.json">>
colorPath(s, h) == <<"/os", s, h>>

\* A page for every system, its data, and a page for every one of its colors.
getStaticPaths ==
    <<IndexPage, ColorsPage>>
    \o MapSeq(source, LAMBDA e : OsPage(e.slug))
    \o MapSeq(source, LAMBDA e : ViewJson(e.slug))
    \o MapSeq(Swatches(source), LAMBDA c : colorPath(c.os.slug, c.hex))

\* The cards of the list and the swatches of its list view.
indexLinks == {OsPage(s) : s \in Slugs} \cup
              {colorPath(c.os.slug, c.hex) : c \in ToSet(Swatches(source))}

Shippers(h) == {p.slug : p \in ToSet(platformsByHex(source, h))}

\* The preview of a color leads to the first system that has it, its infobox to all.
colorsLinks ==
    UNION { {colorPath(Head(m.platforms), m.hex)} \cup {colorPath(s, m.hex) : s \in Shippers(m.hex)} :
              m \in ToSet(mergeColorsByHex(source)) }

\* Neighbours in the line, peers, and the uses of every color and of those
\* similar to it; the address bar follows the selected color.
osLinks(slug) ==
    LET e     == source[SelectInSeq(source, LAMBDA x : x.slug = slug)]
        os    == source[SelectLastInSeq(source, LAMBDA x : x.slug = slug)]
        view  == ToSet(buildOsDetail(source, slug))
    IN  {OsPage(s) : s \in {os.predecessor, os.successor} \ {None}}
        \cup {OsPage(p.slug) : p \in ToSet(eraPeers(e, source, 3))}
        \cup {ViewJson(slug)} \cup {colorPath(slug, c.hex) : c \in view}
        \cup (UNION {{colorPath(p.slug, c.hex) : p \in ToSet(c.uses)} : c \in view})
        \cup (UNION {UNION {{colorPath(p.slug, s.hex) : p \in ToSet(s.platforms)} :
                               s \in ToSet(c.similar)} : c \in view})

-----------------------------------------------------------------------------
(* The build                                                                 *)

\* Mutant of loadCatalog: every page reads scores.json.
loadCatalog_Again == loadScores(file)
\* The first call reads it, the later ones get the same promise.
loadCatalog == IF catalog = None THEN loadScores(file) ELSE catalog

Init ==
    /\ source \in Collections
    /\ file \in {[state |-> "absent"]} \cup {[state |-> "whole", os |-> d.os, colors |-> d.colors] : d \in Dumps}
    /\ dumping = None /\ dumps = 0
    /\ phase = "start" /\ catalog = None /\ cache = [s \in {} |-> None]
    /\ todo = << >> /\ site = [p \in {} |-> None]

\* An entry that the schema does not accept ends the build.
Reject ==
    /\ phase = "start" /\ \E i \in DOMAIN source : ~validEntry(source[i])
    /\ phase' = "failed"
    /\ UNCHANGED <<source, file, dumping, dumps, catalog, cache, todo, site>>

\* The first getStaticPaths builds the catalog, or throws.
Routes ==
    /\ phase = "start" /\ \A i \in DOMAIN source : validEntry(source[i])
    /\ IF Resolved THEN phase' = "render" /\ todo' = getStaticPaths /\ catalog' = loadCatalog
       ELSE phase' = "failed" /\ UNCHANGED <<todo, catalog>>
    /\ UNCHANGED <<source, file, dumping, dumps, cache, site>>

\* The detail of a system is made once for all of its pages.
loadOsDetail(slug) == IF slug \in DOMAIN cache THEN cache[slug] ELSE loadCatalog

Render ==
    /\ phase = "render" /\ todo # << >>
    /\ LET path == Head(todo)
           page == CASE path = IndexPage  -> [scores |-> loadCatalog, links |-> indexLinks]
                     [] path = ColorsPage -> [scores |-> loadCatalog, links |-> colorsLinks]
                     [] OTHER -> [scores |-> loadOsDetail(path[2]),
                                  links  |-> IF path = ViewJson(path[2]) THEN {} ELSE osLinks(path[2])]
       IN  /\ site' = [p \in DOMAIN site \cup {path} |-> IF p = path THEN page ELSE site[p]]
           /\ cache' = IF Len(path) = 1 THEN cache
                       ELSE [s \in DOMAIN cache \cup {path[2]} |->
                                IF s = path[2] THEN page.scores ELSE cache[s]]
    /\ todo' = Tail(todo)
    /\ catalog' = loadCatalog
    /\ UNCHANGED <<source, file, dumping, dumps, phase>>

Finish ==
    /\ phase = "render" /\ todo = << >>
    /\ phase' = "done"
    /\ UNCHANGED <<source, file, dumping, dumps, catalog, cache, todo, site>>

-----------------------------------------------------------------------------
(* `counter dump --out scores.json`: truncates, then writes, or dies between *)

DumpTruncate ==
    /\ dumping = None /\ dumps < MaxDumps
    /\ dumping' \in Dumps /\ dumps' = dumps + 1
    /\ file' = [state |-> "torn"]
    /\ UNCHANGED <<source, phase, catalog, cache, todo, site>>

DumpWrite ==
    /\ dumping # None
    /\ file' = [state |-> "whole", os |-> dumping.os, colors |-> dumping.colors]
    /\ dumping' = None
    /\ UNCHANGED <<source, dumps, phase, catalog, cache, todo, site>>

DumpDies ==
    /\ dumping # None
    /\ dumping' = None
    /\ UNCHANGED <<source, file, dumps, phase, catalog, cache, todo, site>>

Next == Reject \/ Routes \/ Render \/ Finish \/ DumpTruncate \/ DumpWrite \/ DumpDies

Spec == Init /\ [][Next]_vars

-----------------------------------------------------------------------------
(* Properties *)

Accepted == phase \in {"render", "done"}

\* All pages of a release show the scores of one dump, whole, or zeros only,
\* although each of them asks for the catalog and a dump may come, or die, at
\* any moment of the build (loadCatalog.ts:5-7, main.go:107).
OneSnapshot == \E s \in Snapshots : \A p \in DOMAIN site : site[p].scores = s

\* Every link on the pages of a finished build leads to one of its pages, and
\* every page is linked: refs are resolved (catalog.ts:94-101), and what pages
\* derive from colors names only pages that getStaticPaths asks for.
LinksResolve ==
    phase = "done" =>
        LET links == UNION {site[p].links : p \in DOMAIN site}
        IN  links \subseteq DOMAIN site /\ DOMAIN site \subseteq links \cup {IndexPage, ColorsPage}

\* The reference for the similar colors of a page (derive.ts:66-83 and
\* detail.ts:104-106, which sort, cut, dedupe, filter and cut again): no color
\* elsewhere that could be shown is nearer than one that is, each is shown
\* once, nearest first; and none is missing while all fit under the limit.
SimilarNearest ==
    Accepted => \A i \in DOMAIN source : \A c \in ToSet(source[i].colors) :
        LET s         == similarOf(c.hex, source, source[i].slug)
            hexes     == {s[k].hex : k \in DOMAIN s}
            others    == {p \in Places(source) : source[p[1]].slug # source[i].slug}
            elsewhere == {h \in {source[p[1]].colors[p[2]].hex : p \in others} :
                                h # c.hex /\ match(Distance[c.hex][h]) < 100}
        IN  /\ Cardinality(hexes) = Len(s) /\ Len(s) <= MaxSimilar /\ hexes \subseteq elsewhere
            /\ \A k \in DOMAIN s : \A h \in elsewhere :
                Distance[c.hex][h] < Distance[c.hex][s[k].hex] =>
                    \E l \in 1 .. k - 1 : s[l].hex = h
            /\ Cardinality(others) <= Limit /\ Len(s) < MaxSimilar => hexes = elsewhere

\* The positions at which the nodes that are no text start.
Starts(nodes) ==
    {1 + Len(FlattenSeq([j \in 1 .. k - 1 |-> SourceOf(nodes[j])])) :
        k \in {j \in DOMAIN nodes : nodes[j].kind # "text"}}

\* Every marker of an accepted note is a link to its own URL, unless every
\* object answers to it, and no link of the note's map is lost.
NotesLinked ==
    Accepted => \A i \in DOMAIN source : source[i].note # None =>
        LET n      == source[i].note
            tokens == tokenizeSourceNote(n.text)
            nodes  == parseSourceNote(n.text, n.links)
        IN  /\ \A k \in DOMAIN tokens : tokens[k].kind = "marker" =>
                /\ nodes[k].kind = "link" /\ nodes[k].label = tokens[k].value
                /\ IF nodes[k].label \in DOMAIN n.links THEN nodes[k].url = n.links[nodes[k].label]
                   ELSE nodes[k].label \in Inherited
            /\ \A l \in DOMAIN n.links : \E k \in DOMAIN nodes : nodes[k].kind = "link" /\ nodes[k].label = l

\* "If validation and rendering disagreed about what counts as a marker, the
\* build would pass on a note that renders wrong" (sourceNote.ts:7-10): a note
\* that is accepted renders to all of its text, every marker and code in it as
\* one, and its markers to their links.
NotesTrue ==
    /\ NotesLinked
    /\ Accepted => \A i \in DOMAIN source : source[i].note # None =>
           LET n     == source[i].note
               nodes == parseSourceNote(n.text, n.links)
           IN  /\ FlattenSeq([k \in DOMAIN nodes |-> SourceOf(nodes[k])]) = n.text
               /\ RightStarts(n.text, Starts(nodes))

ColorAt(u)  == source[u[1]].colors[u[2]]
UsesOf(h)   == {u \in Places(source) : ColorAt(u).hex = h}
Named(h, n) == Cardinality({u \in UsesOf(h) : ColorAt(u).name = n})

\* The colors page shows every color once, under the name some system gives its
\* default, or one than which none is more common, with all who shipped it and
\* the years they span (derive.ts:23-55).
MergedTrue ==
    Accepted =>
        LET merged == mergeColorsByHex(source)
        IN  /\ IsInjective([k \in DOMAIN merged |-> merged[k].hex])
            /\ {m.hex : m \in ToSet(merged)} = UNION {{c.hex : c \in ToSet(source[i].colors)} : i \in DOMAIN source}
            /\ \A m \in ToSet(merged) :
                 LET uses     == UsesOf(m.hex)
                     defaults == {u \in uses : ColorAt(u).default}
                     years    == {source[u[1]].year : u \in uses}
                 IN  /\ IF defaults # {} THEN m.name \in {ColorAt(u).name : u \in defaults}
                        ELSE \A u \in uses : Named(m.hex, ColorAt(u).name) <= Named(m.hex, m.name)
                     /\ ToSet(m.platforms) = Shippers(m.hex) /\ Len(m.platforms) = Cardinality(uses)
                     /\ {m.years[1], m.years[2]} \subseteq years
                     /\ years \subseteq m.years[1] .. m.years[2]
=============================================================================
