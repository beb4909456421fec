--------------------------- MODULE Platforms_proofs ---------------------------
(* Proofs about a build of the site and the list of systems on its first     *)
(* page, for every collection, every dump and every set of searches.         *)
EXTENDS Platforms, Catalog_proofs

-----------------------------------------------------------------------------
(* The build: a release shows one dump, or none, however many dumps there    *)
(* are during a build and wherever they end.                                 *)

\* scores.json is absent, torn, or a whole dump.
FileInv ==
    /\ \/ file.state \in {"absent", "torn"}
       \/ \E d \in Dumps : file = [state |-> "whole", os |-> d.os, colors |-> d.colors]
    /\ dumping \in Dumps \cup {None}

\* What was read once is all that pages and cached details are made of.
MemoInv ==
    /\ catalog \in Snapshots \cup {None}
    /\ phase = "start" => catalog = None
    /\ catalog = None => DOMAIN site = {} /\ DOMAIN cache = {}
    /\ \A p \in DOMAIN site : site[p].scores = catalog
    /\ \A s \in DOMAIN cache : cache[s] = catalog

BuildInv == FileInv /\ MemoInv

\* Whatever state the file is in, reading it gives one snapshot.
LEMMA ReadsSnapshot == FileInv => loadScores(file) \in Snapshots
  <1> SUFFICES ASSUME FileInv PROVE loadScores(file) \in Snapshots
    OBVIOUS
  <1>1. CASE file.state \in {"absent", "torn"}
    <2>1. file.state # "whole"
      BY <1>1
    <2>2. loadScores(file) = loadScores([state |-> "torn"])
      BY <2>1 DEF loadScores
    <2> QED
      BY <2>2 DEF Snapshots
  <1>2. CASE \E d \in Dumps : file = [state |-> "whole", os |-> d.os, colors |-> d.colors]
    BY <1>2 DEF Snapshots
  <1> QED
    BY <1>1, <1>2 DEF FileInv

\* The promise of the catalog is a snapshot, and once it is there it stays.
LEMMA OnePromise ==
    ASSUME FileInv, MemoInv
    PROVE  loadCatalog \in Snapshots /\ loadCatalog # None /\ (catalog # None => loadCatalog = catalog)
  BY ReadsSnapshot, BuildAssumption DEF loadCatalog, MemoInv

\* A cached detail is as good as a new one.
LEMMA CacheAgrees ==
    ASSUME FileInv, MemoInv, NEW slug
    PROVE  loadOsDetail(slug) = loadCatalog
  <1>1. CASE slug \in DOMAIN cache
    BY <1>1, OnePromise DEF loadOsDetail, MemoInv
  <1>2. CASE slug \notin DOMAIN cache
    BY <1>2 DEF loadOsDetail
  <1> QED
    BY <1>1, <1>2

LEMMA BuildInit == Init => BuildInv
  <1> SUFFICES ASSUME Init PROVE BuildInv
    OBVIOUS
  <1>1. FileInv
    BY DEF Init, FileInv
  <1>2. MemoInv
    BY DEF Init, MemoInv
  <1> QED
    BY <1>1, <1>2 DEF BuildInv

\* A page is made of the promise, and so is the detail it leaves in the cache.
LEMMA PageKeeps == BuildInv /\ Render => MemoInv'
  <1> SUFFICES ASSUME FileInv, MemoInv, Render PROVE MemoInv'
    BY DEF BuildInv
  <1> DEFINE path == Head(todo)
             page == CASE path = IndexPage  -> [scores |-> loadCatalog, links |-> indexLinks]
                       [] path = ColorsPage -> [scores |-> loadCatalog, links |-> colorsLinks]
                       [] OTHER -> [scores |-> loadOsDetail(path[2]),
                                    links  |-> IF path = ViewJson(path[2]) THEN {} ELSE osLinks(path[2])]
  <1>1. /\ site' = [p \in DOMAIN site \cup {path} |-> IF p = path THEN page ELSE site[p]]
        /\ cache' = IF Len(path) = 1 THEN cache
                    ELSE [s \in DOMAIN cache \cup {path[2]} |->
                             IF s = path[2] THEN page.scores ELSE cache[s]]
        /\ catalog' = loadCatalog /\ phase = "render" /\ phase' = phase
    BY DEF Render
  <1>2. page.scores = loadCatalog
    <2>1. CASE path = IndexPage
      BY <2>1
    <2>2. CASE path # IndexPage /\ path = ColorsPage
      BY <2>2
    <2>3. CASE path # IndexPage /\ path # ColorsPage
      <3>1. page.scores = loadOsDetail(path[2])
        BY <2>3
      <3> QED
        BY <3>1, CacheAgrees
    <2> QED
      BY <2>1, <2>2, <2>3
  <1> HIDE DEF page, path
  <1>3. catalog' \in Snapshots /\ catalog' # None
    BY <1>1, OnePromise
  <1>4. \A p \in DOMAIN site : site[p].scores = catalog'
    BY <1>1, OnePromise DEF MemoInv
  <1>5. \A s \in DOMAIN cache : cache[s] = catalog'
    BY <1>1, OnePromise DEF MemoInv
  <1>6. \A p \in DOMAIN site' : site'[p].scores = catalog'
    BY <1>1, <1>2, <1>4
  <1>7. \A s \in DOMAIN cache' : cache'[s] = catalog'
    <2>1. CASE Len(path) = 1
      BY <1>1, <1>5, <2>1
    <2>2. CASE Len(path) # 1
      BY <1>1, <1>2, <1>5, <2>2
    <2> QED
      BY <2>1, <2>2
  <1> QED
    BY <1>1, <1>3, <1>6, <1>7 DEF MemoInv

LEMMA BuildStep == BuildInv /\ [Next]_vars => BuildInv'
  <1> SUFFICES ASSUME BuildInv, [Next]_vars PROVE BuildInv'
    OBVIOUS
  <1> USE DEF BuildInv
  <1>1. CASE Reject
    BY <1>1 DEF Reject, FileInv, MemoInv
  <1>2. CASE Routes
    <2>1. FileInv'
      BY <1>2 DEF Routes, FileInv
    <2>2. CASE Resolved
      <3>1. catalog' = loadCatalog /\ catalog = None /\ phase' = "render" /\ site' = site /\ cache' = cache
        BY <1>2, <2>2 DEF Routes, MemoInv
      <3> QED
        BY <2>1, <3>1, OnePromise DEF MemoInv
    <2>3. CASE ~Resolved
      BY <1>2, <2>1, <2>3 DEF Routes, MemoInv
    <2> QED
      BY <2>2, <2>3
  <1>3. CASE Render
    <2>1. FileInv'
      BY <1>3 DEF Render, FileInv
    <2> QED
      BY <1>3, <2>1, PageKeeps
  <1>4. CASE Finish
    BY <1>4 DEF Finish, FileInv, MemoInv
  <1>5. CASE DumpTruncate
    <2>1. FileInv'
      BY <1>5 DEF DumpTruncate, FileInv
    <2> QED
      BY <1>5, <2>1 DEF DumpTruncate, MemoInv
  <1>6. CASE DumpWrite
    <2>1. FileInv'
      BY <1>6 DEF DumpWrite, FileInv
    <2> QED
      BY <1>6, <2>1 DEF DumpWrite, MemoInv
  <1>7. CASE DumpDies
    BY <1>7 DEF DumpDies, FileInv, MemoInv
  <1>8. CASE UNCHANGED vars
    BY <1>8 DEF vars, FileInv, MemoInv
  <1> QED
    BY <1>1, <1>2, <1>3, <1>4, <1>5, <1>6, <1>7, <1>8 DEF Next

LEMMA BuildInductive == Spec => []BuildInv
  BY BuildInit, BuildStep, PTL DEF Spec

\* All pages of a release show one dump, whole, or zeros only, however dumps
\* and pages follow on each other (loadCatalog.ts:5-7, osDetail.ts:13-28).
THEOREM OneDumpPerRelease == Spec => []OneSnapshot
  <1>1. BuildInv => OneSnapshot
    <2> SUFFICES ASSUME MemoInv PROVE OneSnapshot
      BY DEF BuildInv
    <2>1. CASE catalog = None
      <3>1. loadScores([state |-> "torn"]) \in Snapshots
        BY DEF Snapshots
      <3> QED
        BY <2>1, <3>1 DEF OneSnapshot, MemoInv
    <2>2. CASE catalog \in Snapshots
      BY <2>2 DEF OneSnapshot, MemoInv
    <2> QED
      BY <2>1, <2>2 DEF MemoInv
  <1> QED
    BY <1>1, BuildInductive, PTL

-----------------------------------------------------------------------------
(* What is built is a collection, and what is rendered has been accepted.    *)

AcceptInv ==
    /\ source \in Collections
    /\ Accepted => Resolved /\ \A i \in DOMAIN source : validEntry(source[i])

LEMMA AcceptInductive == Spec => []AcceptInv
  <1>1. Init => AcceptInv
    BY DEF Init, AcceptInv, Accepted
  <1>2. AcceptInv /\ [Next]_vars => AcceptInv'
    <2> SUFFICES ASSUME AcceptInv, [Next]_vars PROVE AcceptInv'
      OBVIOUS
    <2>1. source' = source
      BY DEF Next, vars, Reject, Routes, Render, Finish, DumpTruncate, DumpWrite, DumpDies
    <2>2. Accepted' => Accepted \/ (Resolved /\ \A i \in DOMAIN source : validEntry(source[i]))
      BY DEF Accepted, Next, vars, Reject, Routes, Render, Finish, DumpTruncate, DumpWrite, DumpDies
    <2>3. Resolved' <=> Resolved
      BY <2>1 DEF Resolved, Slugs
    <2> QED
      BY <2>1, <2>2, <2>3 DEF AcceptInv
  <1> QED
    BY <1>1, <1>2, PTL DEF Spec

LEMMA AcceptedShape ==
    ASSUME AcceptInv, Accepted
    PROVE  IsCollection(source) /\ WellHexed(source)
  <1>1. IsCollection(source)
    BY BuildAssumption DEF AcceptInv
  <1>2. \A i \in DOMAIN source : \A k \in DOMAIN source[i].colors : source[i].colors[k].hex \in WellFormedHexes
    BY DEF AcceptInv, validEntry
  <1>3. \A p \in Places(source) : p[1] \in DOMAIN source /\ p[2] \in DOMAIN source[p[1]].colors
    BY <1>1, FilesOrdered
  <1> QED
    BY <1>1, <1>2, <1>3 DEF WellHexed, HexAt

LEMMA NearestShown == AcceptInv => SimilarNearest
  <1> SUFFICES ASSUME AcceptInv, Accepted, NEW i \in DOMAIN source, NEW c \in ToSet(source[i].colors)
      PROVE LET s         == similarOf(c.hex, source, source[i].slug)
                hexes     == {s[k].hex : k \in DOMAIN s}
                others    == {p \in Places(source) : source[p[1]].slug # source[i].slug}
                elsewhere == {h \in {source[p[1]].colors[p[2]].hex : p \in others} :
                                    h # c.hex /\ match(Distance[c.hex][h]) < 100}
            IN  /\ Cardinality(hexes) = Len(s) /\ Len(s) <= MaxSimilar /\ hexes \subseteq elsewhere
                /\ \A k \in DOMAIN s : \A h \in elsewhere :
                    Distance[c.hex][h] < Distance[c.hex][s[k].hex] =>
                        \E l \in 1 .. k - 1 : s[l].hex = h
                /\ Cardinality(others) <= Limit /\ Len(s) < MaxSimilar => hexes = elsewhere
    BY DEF SimilarNearest
  <1> DEFINE s == similarOf(c.hex, source, source[i].slug)
             hexes == {s[k].hex : k \in DOMAIN s}
             E == Elsewhere(c.hex, source, source[i].slug)
  <1>1. c.hex \in WellFormedHexes
    BY DEF ToSet, AcceptInv, validEntry
  <1>2. NearestOf(s, c.hex, source, source[i].slug)
    <2>1. IsCollection(source) /\ WellHexed(source)
      BY AcceptedShape
    <2> QED
      BY <1>1, <2>1, SimilarShape
  <1> HIDE DEF s
  <1>3. Len(s) \in Nat /\ Len(s) <= MaxSimilar
    BY <1>2, LimitsAssumption DEF NearestOf
  <1>4. Cardinality(hexes) = Len(s)
    <2> DEFINE f == [k \in 1 .. Len(s) |-> s[k].hex]
    <2>1. f \in Surjection(1 .. Len(s), hexes) /\ f \in Injection(1 .. Len(s), hexes)
      BY <1>2 DEF NearestOf, Surjection, Injection, IsInjective
    <2>2. IsFiniteSet(1 .. Len(s)) /\ Cardinality(1 .. Len(s)) = Len(s)
      BY <1>3, FS_Interval
    <2> HIDE DEF f, hexes
    <2> QED
      BY <2>1, <2>2, FS_Surjection
  <1>5. hexes \subseteq E
    BY <1>2 DEF NearestOf
  <1>6. Cardinality(Others(source, source[i].slug)) <= Limit /\ Len(s) < MaxSimilar => E \subseteq hexes
    BY <1>2 DEF NearestOf
  <1> QED
    BY <1>2, <1>3, <1>4, <1>5, <1>6 DEF s, NearestOf, Elsewhere, Others, HexAt

\* However many colors there are and however they repeat, those shown as similar
\* are the nearest of the other systems, each once, nearest first, none missing
\* while all fit under the limit (derive.ts:66-83, detail.ts:104-106).
THEOREM SimilarAreNearest == Spec => []SimilarNearest
  BY AcceptInductive, NearestShown, PTL

-----------------------------------------------------------------------------
(* The colors of all systems.                                                *)

LEMMA ShippersAt ==
    ASSUME IsCollection(source), NEW h
    PROVE  Shippers(h) = {source[p[1]].slug : p \in PlacesOf(source, h)}
  <1> DEFINE t == platformsByHex(source, h)
  <1>1. /\ \A k \in DOMAIN t : \E p \in PlacesOf(source, h) : t[k] = PlatformAt(source, p)
        /\ \A p \in PlacesOf(source, h) : \E k \in DOMAIN t : t[k] = PlatformAt(source, p)
    BY PlatformShape
  <1>2. \A p : PlatformAt(source, p).slug = source[p[1]].slug
    BY DEF PlatformAt
  <1>3. Shippers(h) = {t[k].slug : k \in DOMAIN t}
    BY DEF Shippers, ToSet
  <1> HIDE DEF t
  <1> QED
    BY <1>1, <1>2, <1>3

\* What a merged color says of its places is what the reference counts.
LEMMA OneIsTrue ==
    ASSUME IsCollection(source), NEW m, NEW q, MergedFrom(m, source, q), PlacesOf(source, m.hex) # {}
    PROVE  LET uses     == UsesOf(m.hex)
               defaults == {u \in uses : ColorAt(u).default}
               years    == {source[u[1]].year : u \in uses}
           IN  /\ IF defaults # {} THEN m.name \in {ColorAt(u).name : u \in defaults}
                  ELSE \A u \in uses : Named(m.hex, ColorAt(u).name) <= Named(m.hex, m.name)
               /\ ToSet(m.platforms) = Shippers(m.hex) /\ Len(m.platforms) = Cardinality(uses)
               /\ {m.years[1], m.years[2]} \subseteq years
               /\ years \subseteq m.years[1] .. m.years[2]
  <1> DEFINE T == PlacesOf(source, m.hex)
             n == Cardinality(T)
             years == {source[p[1]].year : p \in T}
  <1>1. UsesOf(m.hex) = T
    BY DEF UsesOf, ColorAt, PlacesOf
  <1>2. \A p : /\ ColorAt(p).name = NameAt(source, p) /\ ColorAt(p).default = DefaultAt(source, p)
    BY DEF ColorAt, NameAt, DefaultAt
  <1>3. \A a : Named(m.hex, a) = NamedAt(source, m.hex, a)
    BY <1>1 DEF Named, NamedAt, ColorAt, NameAt
  <1>4. /\ IsSeq(m.platforms) /\ Len(m.platforms) = n
        /\ \A k \in 1 .. n : m.platforms[k] = source[q[k][1]].slug
        /\ \A k \in 1 .. n : q[k] \in T
        /\ \A p \in T : \E k \in 1 .. n : q[k] = p
    BY DEF MergedFrom, Lists
  <1>5. T \in SUBSET Places(source) /\ IsFiniteSet(T)
    BY FilesOrdered, FS_Subset DEF PlacesOf
  <1>6. IsFiniteSet(years) /\ years # {} /\ \A y \in years : y \in Int
    <2> DEFINE f == [p \in T |-> source[p[1]].year]
    <2>1. f \in Surjection(T, years)
      BY DEF Surjection
    <2>2. IsFiniteSet(years)
      <3> HIDE DEF f, years, T
      <3> QED
        BY <1>5, <2>1, FS_Surjection
    <2>3. \A p \in T : source[p[1]].year \in Int
      BY <1>5, FilesOrdered DEF IsCollection
    <2> HIDE DEF T
    <2> QED
      BY <2>2, <2>3 DEF T
  <1>7. m.years = <<Min(years), Max(years)>>
    BY DEF MergedFrom
  <1> HIDE DEF years
  <1>8. /\ m.years[1] \in years /\ m.years[2] \in years
        /\ \A y \in years : y \in Int /\ m.years[1] <= y /\ y <= m.years[2]
    BY <1>6, <1>7, Extremes
  <1>9. years \subseteq m.years[1] .. m.years[2]
    BY <1>6, <1>8
  <1>10. ToSet(m.platforms) = Shippers(m.hex)
    <2>1. DOMAIN m.platforms = 1 .. n
      BY <1>4, SeqShape
    <2>2. Shippers(m.hex) = {source[p[1]].slug : p \in T}
      BY ShippersAt
    <2> HIDE DEF n, T
    <2> QED
      BY <1>4, <2>1, <2>2 DEF ToSet
  <1>11. \/ \E p \in T : DefaultAt(source, p) /\ m.name = NameAt(source, p)
         \/ /\ \A p \in T : ~DefaultAt(source, p)
            /\ \A p \in T : NamedAt(source, m.hex, NameAt(source, p)) <= NamedAt(source, m.hex, m.name)
    BY DEF MergedFrom
  <1> DEFINE defaults == {u \in T : ColorAt(u).default}
  <1>12. IF defaults # {} THEN m.name \in {ColorAt(u).name : u \in defaults}
         ELSE \A u \in T : Named(m.hex, ColorAt(u).name) <= Named(m.hex, m.name)
    <2> HIDE DEF T
    <2> QED
      BY <1>2, <1>3, <1>11
  <1> QED
    BY <1>1, <1>4, <1>8, <1>9, <1>10, <1>12 DEF years

LEMMA MergedRight == AcceptInv => MergedTrue
  <1> SUFFICES ASSUME AcceptInv, Accepted PROVE MergedTrue
    BY DEF MergedTrue
  <1> DEFINE M == mergeColorsByHex(source)
  <1>1. IsCollection(source)
    BY AcceptedShape
  <1>2. /\ \A k \in DOMAIN M : PlacesOf(source, M[k].hex) # {} /\ \E q : MergedFrom(M[k], source, q)
        /\ \A p \in Places(source) : \E k \in DOMAIN M : M[k].hex = HexAt(source, p)
        /\ \A j, k \in DOMAIN M : M[j].hex = M[k].hex => j = k
    BY <1>1, MergeShape
  <1> HIDE DEF M
  <1>3. IsInjective([k \in DOMAIN M |-> M[k].hex])
    BY <1>2 DEF IsInjective
  <1>4. {m.hex : m \in ToSet(M)} = UNION {{c.hex : c \in ToSet(source[i].colors)} : i \in DOMAIN source}
    <2> DEFINE H == UNION {{c.hex : c \in ToSet(source[i].colors)} : i \in DOMAIN source}
    <2>1. \A p \in Places(source) : HexAt(source, p) \in H
      <3> TAKE p \in Places(source)
      <3>1. p[1] \in DOMAIN source /\ p[2] \in DOMAIN source[p[1]].colors
        BY <1>1, FilesOrdered
      <3> QED
        BY <3>1 DEF ToSet, HexAt
    <2>2. \A h \in H : \E p \in Places(source) : HexAt(source, p) = h
      <3> TAKE h \in H
      <3>1. PICK i \in DOMAIN source : \E k \in DOMAIN source[i].colors : source[i].colors[k].hex = h
        BY DEF ToSet
      <3>2. PICK k \in DOMAIN source[i].colors : source[i].colors[k].hex = h
        BY <3>1
      <3>3. <<i, k>> \in Places(source)
        BY <1>1, FilesOrdered
      <3> QED
        BY <3>2, <3>3 DEF HexAt
    <2> HIDE DEF H
    <2>3. \A k \in DOMAIN M : \E p \in Places(source) : HexAt(source, p) = M[k].hex
      BY <1>2 DEF PlacesOf, HexAt
    <2>4. {m.hex : m \in ToSet(M)} = {M[k].hex : k \in DOMAIN M}
      BY DEF ToSet
    <2>5. {M[k].hex : k \in DOMAIN M} = H
      BY <1>2, <2>1, <2>2, <2>3
    <2> QED
      BY <2>4, <2>5 DEF H
  <1>5. \A m \in ToSet(M) : PlacesOf(source, m.hex) # {} /\ \E q : MergedFrom(m, source, q)
    BY <1>2 DEF ToSet
  <1>6. ASSUME NEW m \in ToSet(M)
        PROVE  LET uses     == UsesOf(m.hex)
                   defaults == {u \in uses : ColorAt(u).default}
                   years    == {source[u[1]].year : u \in uses}
               IN  /\ IF defaults # {} THEN m.name \in {ColorAt(u).name : u \in defaults}
                      ELSE \A u \in uses : Named(m.hex, ColorAt(u).name) <= Named(m.hex, m.name)
                   /\ ToSet(m.platforms) = Shippers(m.hex) /\ Len(m.platforms) = Cardinality(uses)
                   /\ {m.years[1], m.years[2]} \subseteq years
                   /\ years \subseteq m.years[1] .. m.years[2]
    BY <1>1, <1>5, OneIsTrue
  <1> QED
    BY <1>3, <1>4, <1>6 DEF MergedTrue, M

\* The colors page has every color once, with a name some system gives it as its
\* default or than which none is more common, and with all who shipped it, for
\* every collection (derive.ts:15-55).
THEOREM MergedIsTrue == Spec => []MergedTrue
  BY AcceptInductive, MergedRight, PTL

-----------------------------------------------------------------------------
(* The notes of the systems: the tokenizer goes over the whole text.         *)

\* Where what opens at a position closes, by the reference and by the code.
LEMMA ClosingAt ==
    ASSUME NEW text, IsSeq(text), NEW i \in DOMAIN text
    PROVE  /\ closing(text, i) \in {0} \cup i + 2 .. Len(text)
           /\ \A j \in DOMAIN text : Opens(text, i, j) <=> closing(text, i) = j
  <1> DEFINE n == Len(text)
             I == {k \in i + 1 .. n : text[k] = Closer(text[i])}
  <1>1. n \in Nat /\ DOMAIN text = 1 .. n
    BY SeqShape
  <1>2. closing(text, i) =
            LET close == IF text[i] \in {"[", "tick"} THEN IF I # {} THEN Min(I) ELSE 0 ELSE 0
            IN  IF close > i + 1 THEN close ELSE 0
    BY DEF closing, SelectInSubSeq
  <1>3. ASSUME I # {} PROVE Min(I) \in I /\ \A k \in I : Min(I) <= k
    <2>1. I \subseteq Nat
      BY <1>1
    <2>2. PICK x \in I : \A k \in I : x <= k
      BY <1>3, <2>1, LeastIn
    <2> HIDE DEF I
    <2> QED
      BY <2>2 DEF Min
  <1>4. \A k \in I : k \in Int /\ i + 1 <= k /\ k <= n /\ text[k] = Closer(text[i])
    BY <1>1
  <1>5. \A k \in i + 1 .. n : text[k] = Closer(text[i]) => k \in I
    OBVIOUS
  <1> DEFINE m == Min(I)
  <1> HIDE DEF I, m
  <1>6. closing(text, i) \in {0} \cup i + 2 .. n
    BY <1>1, <1>2, <1>3, <1>4 DEF m
  <1>7. ASSUME NEW j \in DOMAIN text PROVE Opens(text, i, j) <=> closing(text, i) = j
    <2>1. ASSUME Opens(text, i, j) PROVE closing(text, i) = j
      <3>1. /\ text[i] \in {"[", "tick"} /\ j > i + 1 /\ text[j] = Closer(text[i])
            /\ \A k \in i + 1 .. j - 1 : text[k] # Closer(text[i])
        BY <2>1 DEF Opens
      <3>2. j \in I
        BY <1>1, <1>5, <3>1
      <3>3. m = j
        BY <1>1, <1>3, <1>4, <3>1, <3>2 DEF m
      <3> QED
        BY <1>1, <1>2, <3>1, <3>2, <3>3 DEF m
    <2>2. ASSUME closing(text, i) = j PROVE Opens(text, i, j)
      <3>1. text[i] \in {"[", "tick"} /\ I # {} /\ m = j /\ j > i + 1
        BY <1>1, <1>2, <2>2 DEF m
      <3>2. j \in I /\ \A k \in I : j <= k
        BY <1>3, <3>1 DEF m
      <3>3. \A k \in i + 1 .. j - 1 : text[k] # Closer(text[i])
        BY <1>1, <1>5, <3>2
      <3> QED
        BY <1>4, <3>1, <3>2, <3>3 DEF Opens
    <2> QED
      BY <2>1, <2>2
  <1> QED
    BY <1>6, <1>7

\* One step of the tokenizer, where h has the tokens of what is behind it.
Lit(text, b, i) ==
    IF b < i THEN << [kind |-> "text", value |-> SubSeq(text, b, i - 1)] >> ELSE << >>
Token(text, i, j) ==
    [kind |-> IF text[i] = "[" THEN "marker" ELSE "code", value |-> SubSeq(text, i + 1, j - 1)]
Openings(text, b) == {i \in b .. Len(text) : closing(text, i) > 0}
TokensFrom(text, h, b) ==
    LET i == Min(Openings(text, b))
        j == closing(text, i)
    IN  IF Openings(text, b) = {} THEN Lit(text, b, Len(text) + 1)
        ELSE Lit(text, b, i) \o (<< Token(text, i, j) >> \o h[j + 1])

LEMMA OpeningAt ==
    ASSUME NEW text, IsSeq(text), NEW b \in 1 .. Len(text) + 1, Openings(text, b) # {}
    PROVE  LET i == Min(Openings(text, b))
               j == closing(text, i)
           IN  /\ i \in b .. Len(text) /\ j \in i + 2 .. Len(text)
               /\ \A k \in b .. i - 1 : closing(text, k) = 0
  <1> DEFINE O == Openings(text, b)
             i == Min(O)
  <1>1. Len(text) \in Nat /\ DOMAIN text = 1 .. Len(text)
    BY SeqShape
  <1>2. O \subseteq Nat /\ O \subseteq DOMAIN text
    BY <1>1 DEF Openings
  <1>3. PICK x \in O : \A k \in O : x <= k
    BY <1>2, LeastIn
  <1>4. i \in O /\ \A k \in O : i <= k
    BY <1>3 DEF Min
  <1>5. \A k \in b .. Len(text) : closing(text, k) \in {0} \cup k + 2 .. Len(text)
    BY <1>1, ClosingAt
  <1> HIDE DEF i
  <1>6. i \in b .. Len(text) /\ closing(text, i) > 0
    BY <1>4 DEF Openings
  <1>7. closing(text, i) \in i + 2 .. Len(text)
    BY <1>1, <1>5, <1>6
  <1>8. \A k \in b .. i - 1 : closing(text, k) = 0
    <2> SUFFICES ASSUME NEW k \in b .. i - 1 PROVE closing(text, k) = 0
      OBVIOUS
    <2>1. k \in b .. Len(text) /\ k < i
      BY <1>1, <1>6
    <2>2. k \notin O
      BY <1>1, <1>4, <1>6, <2>1
    <2>3. ~(closing(text, k) > 0)
      BY <2>1, <2>2 DEF Openings
    <2> QED
      BY <1>1, <1>5, <2>1, <2>3
  <1> QED
    BY <1>6, <1>7, <1>8 DEF i

\* The recursion is well-founded: each step asks for what is further behind only.
LEMMA Tokenized ==
    ASSUME NEW text, IsSeq(text)
    PROVE  \E h : /\ h = [b \in 1 .. Len(text) + 1 |-> TokensFrom(text, h, b)]
                  /\ tokenizeSourceNote(text) = h[1]
  <1> DEFINE n == Len(text)
             Upto(k, h) == h = [b \in k .. n + 1 |-> TokensFrom(text, h, b)]
             Bad == {m \in 0 .. n : ~\E h : Upto(n + 1 - m, h)}
  <1>1. n \in Nat
    BY SeqShape
  <1>2. ASSUME NEW k \in 1 .. n + 1, k = n + 1 \/ \E h : Upto(k + 1, h)
        PROVE  \E h : Upto(k, h)
    <2>1. PICK h : k < n + 1 => Upto(k + 1, h)
      BY <1>2
    <2> DEFINE g == [b \in k .. n + 1 |-> IF b = k THEN TokensFrom(text, h, k) ELSE h[b]]
    <2>2. \A b \in k .. n + 1 : TokensFrom(text, g, b) = TokensFrom(text, h, b)
      <3> SUFFICES ASSUME NEW b \in k .. n + 1 PROVE TokensFrom(text, g, b) = TokensFrom(text, h, b)
        OBVIOUS
      <3> DEFINE j == closing(text, Min(Openings(text, b)))
      <3>1. CASE Openings(text, b) = {}
        BY <3>1 DEF TokensFrom
      <3>2. CASE Openings(text, b) # {}
        <4>1. b \in 1 .. n + 1
          BY <1>1
        <4>2. j \in Int /\ j > b /\ j <= n
          BY <1>1, <3>2, <4>1, OpeningAt
        <4>3. g[j + 1] = h[j + 1]
          BY <1>1, <4>2
        <4> HIDE DEF g
        <4> QED
          BY <3>2, <4>3 DEF TokensFrom
      <3> QED
        BY <3>1, <3>2
    <2>3. \A b \in k + 1 .. n + 1 : h[b] = TokensFrom(text, h, b)
      <3> SUFFICES ASSUME NEW b \in k + 1 .. n + 1 PROVE h[b] = TokensFrom(text, h, b)
        OBVIOUS
      <3>1. h = [c \in k + 1 .. n + 1 |-> TokensFrom(text, h, c)]
        BY <1>1, <2>1
      <3> QED
        BY <3>1, Zenon
    <2>4. \A b \in k .. n + 1 : g[b] = TokensFrom(text, g, b)
      BY <1>1, <2>2, <2>3
    <2>5. g = [b \in k .. n + 1 |-> g[b]]
      OBVIOUS
    <2> HIDE DEF g
    <2>6. Upto(k, g)
      BY <2>4, <2>5, Zenon
    <2> QED
      BY <2>6
  <1> HIDE DEF Upto
  <1>3. Bad = {}
    <2> SUFFICES ASSUME Bad # {} PROVE FALSE
      OBVIOUS
    <2>0. Bad \subseteq Nat
      OBVIOUS
    <2>1. PICK m \in Bad : \A k \in Bad : m <= k
      <3> HIDE DEF Bad
      <3> QED
        BY <2>0, LeastIn
    <2>2. m \in 0 .. n /\ ~\E h : Upto(n + 1 - m, h)
      OBVIOUS
    <2>3. m = 0 \/ \E h : Upto(n + 1 - (m - 1), h)
      BY <1>1, <2>1, <2>2
    <2>4. n + 1 - m \in 1 .. n + 1 /\ n + 1 - (m - 1) = (n + 1 - m) + 1 /\ (m = 0 => n + 1 - m = n + 1)
      BY <1>1, <2>2
    <2> QED
      BY <1>2, <2>2, <2>3, <2>4
  <1>4. \E h : Upto(1, h)
    <2>1. n \notin Bad /\ n \in 0 .. n /\ n + 1 - n = 1
      BY <1>1, <1>3
    <2> QED
      BY <2>1
  <1>5. \E h : /\ tokenizeSourceNote(text) = h[1]
               /\ (\E g : Upto(1, g)) => Upto(1, h)
    BY DEF tokenizeSourceNote, TokensFrom, Lit, Token, Openings, Upto
  <1> QED
    BY <1>4, <1>5 DEF Upto

\* The text between two cuts, as the tokens have it: a run of text in which
\* nothing opens, or what opens at the first cut and closes before the second.
Spans(text, t, i, j) ==
    /\ i < j
    /\ \/ t.kind = "text" /\ t.value = SubSeq(text, i, j - 1) /\ \A k \in i .. j - 1 : closing(text, k) = 0
       \/ closing(text, i) = j - 1 /\ t = Token(text, i, j - 1)
Cuts(text, T, q, b) ==
    /\ IsSeq(T)
    /\ q \in [1 .. Len(T) + 1 -> b .. Len(text) + 1]
    /\ q[1] = b /\ q[Len(T) + 1] = Len(text) + 1
    /\ \A k \in 1 .. Len(T) : Spans(text, T[k], q[k], q[k + 1])

LEMMA Prepend ==
    ASSUME NEW text, NEW T, NEW q, NEW c \in Nat, NEW b \in 1 .. c - 1, NEW t, Len(text) \in Nat,
           Cuts(text, T, q, c), Spans(text, t, b, c)
    PROVE  \E r : Cuts(text, <<t>> \o T, r, b)
  <1> DEFINE m == Len(T)
             n == Len(text)
             U == <<t>> \o T
             r == [k \in 1 .. m + 2 |-> IF k = 1 THEN b ELSE q[k - 1]]
  <1>1. /\ m \in Nat /\ n \in Nat /\ IsSeq(T) /\ IsSeq(<<t>>) /\ Len(<<t>>) = 1
        /\ q[1] = c /\ q[m + 1] = n + 1
        /\ \A k \in 1 .. m + 1 : q[k] \in c .. n + 1
        /\ \A k \in 1 .. m : Spans(text, T[k], q[k], q[k + 1])
    <2>1. IsSeq(<<t>>) /\ Len(<<t>>) = 1
      BY DEF IsSeq, Range
    <2> QED
      BY <2>1, SeqShape DEF Cuts
  <1>2. /\ IsSeq(U) /\ Len(U) = m + 1 /\ U[1] = t
        /\ \A k \in 2 .. m + 1 : U[k] = T[k - 1]
    <2> DEFINE S == {t} \cup Range(T)
    <2>1. <<t>> \in Seq(S) /\ T \in Seq(S)
      <3>1. \A A, B : A \subseteq B => Seq(A) \subseteq Seq(B)
        BY SeqDef
      <3> QED
        BY <1>1, <3>1 DEF IsSeq
    <2>2. /\ Len(U) = 1 + m
          /\ \A k \in 1 .. 1 + m : U[k] = IF k <= 1 THEN <<t>>[k] ELSE T[k - 1]
      BY <1>1, <2>1, ConcatProperties
    <2>3. IsSeq(U)
      BY <1>1, Concatenated
    <2> HIDE DEF U
    <2> QED
      BY <1>1, <2>2, <2>3
  <1> HIDE DEF U, m, n
  <1>3. \A k \in 1 .. m + 2 : r[k] \in b .. n + 1
    BY <1>1
  <1>4. r[1] = b /\ r[m + 2] = n + 1
    BY <1>1
  <1>5. ASSUME NEW k \in 1 .. m + 1 PROVE Spans(text, U[k], r[k], r[k + 1])
    <2>1. CASE k = 1
      BY <1>1, <1>2, <2>1
    <2>2. CASE k > 1
      <3>1. k - 1 \in 1 .. m /\ (k - 1) + 1 = k /\ k \in 2 .. m + 1
        BY <1>1, <2>2
      <3>2. r[k] = q[k - 1] /\ r[k + 1] = q[(k - 1) + 1] /\ U[k] = T[k - 1]
        BY <1>1, <1>2, <3>1
      <3> QED
        BY <1>1, <3>1, <3>2
    <2> QED
      BY <2>1, <2>2
  <1>6. r \in [1 .. (m + 1) + 1 -> b .. n + 1]
    BY <1>1, <1>3
  <1> HIDE DEF r
  <1>7. Cuts(text, U, r, b)
    BY <1>1, <1>2, <1>4, <1>5, <1>6 DEF Cuts, n
  <1> QED
    BY <1>7 DEF U

\* The tokens of what is behind a position cut it into spans.
LEMMA CutsFrom ==
    ASSUME NEW text, IsSeq(text), NEW h, h = [b \in 1 .. Len(text) + 1 |-> TokensFrom(text, h, b)]
    PROVE  \A b \in 1 .. Len(text) + 1 : \E q : Cuts(text, h[b], q, b)
  <1> DEFINE n == Len(text)
             Bad == {m \in 0 .. n : ~\E q : Cuts(text, h[n + 1 - m], q, n + 1 - m)}
  <1>1. n \in Nat /\ DOMAIN text = 1 .. n
    BY SeqShape
  <1>2. ASSUME NEW b \in 1 .. n + 1, \A c \in b + 1 .. n + 1 : \E q : Cuts(text, h[c], q, c)
        PROVE  \E q : Cuts(text, h[b], q, b)
    <2>1. h[b] = TokensFrom(text, h, b)
      BY Zenon
    <2>2. Cuts(text, << >>, [k \in {1} |-> n + 1], n + 1)
      <3>1. IsSeq(<< >>) /\ Len(<< >>) = 0 /\ 1 .. 0 + 1 = {1} /\ 1 .. 0 = {}
        BY EmptySeq DEF IsSeq
      <3>2. [k \in {1} |-> n + 1] \in [{1} -> n + 1 .. n + 1]
        BY <1>1
      <3> QED
        BY <3>1, <3>2 DEF Cuts
    <2>3. ASSUME NEW i \in b .. n + 1, NEW T, NEW q, Cuts(text, T, q, i),
                 \A k \in b .. i - 1 : closing(text, k) = 0
          PROVE  \E r : Cuts(text, Lit(text, b, i) \o T, r, b)
      <3>0. IsSeq(T)
        BY <2>3 DEF Cuts
      <3>1. CASE b = i
        <4>1. Lit(text, b, i) \o T = T
          BY <1>1, <3>0, <3>1, ConcatEmptySeq DEF Lit, IsSeq
        <4> QED
          BY <2>3, <3>1, <4>1
      <3>2. CASE b < i
        <4> DEFINE t == [kind |-> "text", value |-> SubSeq(text, b, i - 1)]
        <4>1. Lit(text, b, i) = <<t>>
          BY <3>2 DEF Lit
        <4>2. Spans(text, t, b, i)
          BY <2>3, <3>2 DEF Spans
        <4>3. i \in Nat /\ b \in 1 .. i - 1
          BY <1>1, <3>2
        <4> HIDE DEF t
        <4>4. \E r : Cuts(text, <<t>> \o T, r, b)
          BY <1>1, <2>3, <4>2, <4>3, Prepend
        <4> QED
          BY <4>1, <4>4
      <3> QED
        BY <1>1, <3>1, <3>2
    <2>4. CASE Openings(text, b) = {}
      <3>1. \A k \in b .. (n + 1) - 1 : closing(text, k) = 0
        <4> SUFFICES ASSUME NEW k \in b .. (n + 1) - 1 PROVE closing(text, k) = 0
          OBVIOUS
        <4>1. k \in DOMAIN text /\ k \in b .. n /\ k \in Nat
          BY <1>1
        <4>2. ~(closing(text, k) > 0)
          BY <2>4, <4>1 DEF Openings
        <4> QED
          BY <1>1, <4>1, <4>2, ClosingAt
      <3>2. \E r : Cuts(text, Lit(text, b, n + 1) \o << >>, r, b)
        <4>1. n + 1 \in b .. n + 1
          BY <1>1
        <4> QED
          BY <2>2, <2>3, <3>1, <4>1
      <3>3. Lit(text, b, n + 1) \o << >> = Lit(text, b, n + 1)
        <4>1. IsSeq(Lit(text, b, n + 1))
          <5> DEFINE t == [kind |-> "text", value |-> SubSeq(text, b, (n + 1) - 1)]
          <5>1. Lit(text, b, n + 1) = IF b < n + 1 THEN <<t>> ELSE << >>
            BY DEF Lit
          <5> HIDE DEF t
          <5>2. IsSeq(<<t>>) /\ IsSeq(<< >>)
            BY EmptySeq DEF IsSeq, Range
          <5> QED
            BY <5>1, <5>2
        <4> QED
          BY <4>1, ConcatEmptySeq DEF IsSeq
      <3> QED
        BY <2>1, <2>4, <3>2, <3>3 DEF TokensFrom
    <2>5. CASE Openings(text, b) # {}
      <3> DEFINE i == Min(Openings(text, b))
                 j == closing(text, i)
      <3>1. i \in b .. n /\ j \in i + 2 .. n /\ \A k \in b .. i - 1 : closing(text, k) = 0
        BY <2>5, OpeningAt
      <3>2. h[b] = Lit(text, b, i) \o (<< Token(text, i, j) >> \o h[j + 1])
        BY <2>1, <2>5 DEF TokensFrom
      <3>3. Spans(text, Token(text, i, j), i, j + 1)
        BY <1>1, <3>1 DEF Spans
      <3> HIDE DEF i, j
      <3>4. PICK q : Cuts(text, h[j + 1], q, j + 1)
        <4>1. j + 1 \in b + 1 .. n + 1
          BY <1>1, <3>1
        <4> QED
          BY <1>2, <4>1
      <3>5. j + 1 \in Nat /\ i \in 1 .. (j + 1) - 1 /\ i \in b .. n + 1
        BY <1>1, <3>1
      <3>6. PICK r : Cuts(text, << Token(text, i, j) >> \o h[j + 1], r, i)
        BY <1>1, <3>3, <3>4, <3>5, Prepend
      <3> QED
        BY <2>3, <3>1, <3>2, <3>5, <3>6
    <2> QED
      BY <2>4, <2>5
  <1>3. Bad = {}
    <2> SUFFICES ASSUME Bad # {} PROVE FALSE
      OBVIOUS
    <2>1. Bad \subseteq Nat
      OBVIOUS
    <2>2. PICK m \in Bad : \A k \in Bad : m <= k
      <3> HIDE DEF Bad
      <3> QED
        BY <2>1, LeastIn
    <2>3. m \in 0 .. n /\ ~\E q : Cuts(text, h[n + 1 - m], q, n + 1 - m)
      OBVIOUS
    <2>4. ASSUME NEW c \in (n + 1 - m) + 1 .. n + 1 PROVE \E q : Cuts(text, h[c], q, c)
      <3> DEFINE k == n + 1 - c
      <3>1. k \in 0 .. n /\ k < m /\ n + 1 - k = c
        BY <1>1, <2>3
      <3>2. k \notin Bad
        <4> HIDE DEF Bad
        <4> QED
          BY <1>1, <2>2, <2>3, <3>1
      <3> HIDE DEF k
      <3> QED
        BY <3>1, <3>2
    <2>5. n + 1 - m \in 1 .. n + 1
      BY <1>1, <2>3
    <2> QED
      BY <1>2, <2>3, <2>4, <2>5
  <1> SUFFICES ASSUME NEW b \in 1 .. n + 1 PROVE \E q : Cuts(text, h[b], q, b)
    OBVIOUS
  <1> DEFINE k == n + 1 - b
  <1>4. k \in 0 .. n /\ n + 1 - k = b
    BY <1>1
  <1> HIDE DEF k
  <1>5. \E q : Cuts(text, h[n + 1 - k], q, n + 1 - k)
    BY <1>3, <1>4
  <1> QED
    BY <1>4, <1>5

LEMMA Rising ==
    ASSUME NEW m \in Nat, NEW q, \A k \in 1 .. m + 1 : q[k] \in Int, \A k \in 1 .. m : q[k] < q[k + 1]
    PROVE  \A j, k \in 1 .. m + 1 : j < k => q[j] < q[k]
  <1> SUFFICES ASSUME NEW j \in 1 .. m + 1, NEW k0 \in 1 .. m + 1, j < k0, ~(q[j] < q[k0]) PROVE FALSE
    OBVIOUS
  <1> DEFINE S == {k \in 1 .. m + 1 : j < k /\ ~(q[j] < q[k])}
  <1>1. S \subseteq Nat /\ S # {}
    OBVIOUS
  <1>2. PICK k \in S : \A i \in S : k <= i
    <2> HIDE DEF S
    <2> QED
      BY <1>1, LeastIn
  <1>3. k \in 1 .. m + 1 /\ j < k /\ ~(q[j] < q[k])
    OBVIOUS
  <1>4. k - 1 \in 1 .. m /\ k - 1 \notin S /\ (k - 1) + 1 = k
    <2> HIDE DEF S
    <2> QED
      BY <1>1, <1>2, <1>3
  <1>5. k - 1 = j \/ q[j] < q[k - 1]
    BY <1>3, <1>4
  <1>6. q[k - 1] < q[k] /\ q[k - 1] \in Int /\ q[j] \in Int /\ q[k] \in Int
    BY <1>3, <1>4
  <1> QED
    BY <1>3, <1>5, <1>6

\* What FlattenSeq computes, if something is what it defines by recursion.
Flats(F, g) == g = [k \in 1 .. Len(F) |-> IF k = 1 THEN F[k] ELSE g[k - 1] \o F[k]]

LEMMA FlattenedBy ==
    ASSUME NEW F, Len(F) # 0
    PROVE  \E g : FlattenSeq(F) = g[Len(F)] /\ ((\E f : Flats(F, f)) => Flats(F, g))
  <1> DEFINE g == CHOOSE f : Flats(F, f)
  <1>1. FlattenSeq(F) = g[Len(F)]
    BY Zenon DEF FlattenSeq, Flats
  <1>2. (\E f : Flats(F, f)) => Flats(F, g)
    BY Zenon
  <1> HIDE DEF g
  <1> QED
    BY <1>1, <1>2

\* Adjoining parts of a text, one behind the other, are the text up to the last.
Adjoining(text, F, q, m) ==
    /\ IsSeq(text) /\ m \in Nat /\ F = [k \in 1 .. m |-> F[k]]
    /\ q[1] = 1 /\ \A k \in 1 .. m + 1 : q[k] \in 1 .. Len(text) + 1
    /\ \A k \in 1 .. m : q[k] < q[k + 1] /\ F[k] = SubSeq(text, q[k], q[k + 1] - 1)

LEMMA Flattened ==
    ASSUME NEW text, NEW m, NEW F, NEW q, Adjoining(text, F, q, m)
    PROVE  FlattenSeq(F) = SubSeq(text, 1, q[m + 1] - 1)
  <1> DEFINE n == Len(text)
             upTo(k) == SubSeq(text, 1, q[k + 1] - 1)
             h == [k \in 1 .. m |-> upTo(k)]
  <1> USE DEF Adjoining
  <1>1. IsSeq(F) /\ Len(F) = m /\ n \in Nat /\ text \in Seq(Range(text))
    BY FunctionIsSeq, SeqShape DEF IsSeq
  <1>2. CASE m = 0
    <2>1. F = << >> /\ FlattenSeq(F) = F
      BY <1>1, <1>2, EmptySeq DEF FlattenSeq, IsSeq
    <2>2. SubSeq(text, 1, q[m + 1] - 1) = << >>
      BY <1>2, SubSeqEmpty
    <2> QED
      BY <2>1, <2>2
  <1>3. CASE m > 0
    <2>1. ASSUME NEW k \in 1 .. m PROVE upTo(k) = IF k = 1 THEN F[k] ELSE upTo(k - 1) \o F[k]
      <3> DEFINE a == q[k]
                 z == q[k + 1]
      <3>1. /\ a \in 1 .. n + 1 /\ z \in 1 .. n + 1 /\ a < z
            /\ F[k] = SubSeq(text, a, z - 1) /\ q[(k - 1) + 1] = a
        BY <1>1
      <3>2. k = 1 => a = 1
        OBVIOUS
      <3>3. upTo(k) = SubSeq(text, 1, z - 1) /\ upTo(k - 1) = SubSeq(text, 1, a - 1)
        BY <3>1
      <3> HIDE DEF a, z, upTo
      <3>4. 1 \in 1 .. n + 1 /\ a - 1 \in 1 - 1 .. n /\ z - 1 \in a - 1 .. n /\ (a - 1) + 1 = a
        BY ONLY <1>1, <3>1
      <3> HIDE DEF n
      <3>5. SubSeq(text, 1, a - 1) \o SubSeq(text, (a - 1) + 1, z - 1) = SubSeq(text, 1, z - 1)
        <4> DEFINE l == a - 1
                   r == z - 1
        <4> HIDE DEF l, r
        <4>1. 1 \in 1 .. n + 1 /\ l \in 1 - 1 .. n /\ r \in l .. n
          BY <3>4 DEF l, r
        <4>2. SubSeq(text, 1, l) \o SubSeq(text, l + 1, r) = SubSeq(text, 1, r)
          BY <1>1, <4>1, ConcatAdjacentSubSeq DEF n
        <4> QED
          BY <4>2 DEF l, r
      <3> QED
        BY ONLY <3>1, <3>2, <3>3, <3>4, <3>5
    <2>2. PICK g : FlattenSeq(F) = g[m] /\ ((\E f : Flats(F, f)) => Flats(F, g))
      <3>1. Len(F) # 0 /\ Len(F) = m
        BY <1>1, <1>3
      <3>2. \E g : FlattenSeq(F) = g[Len(F)] /\ ((\E f : Flats(F, f)) => Flats(F, g))
        BY <3>1, FlattenedBy, Zenon
      <3> QED
        BY ONLY <3>1, <3>2
    <2> HIDE DEF upTo
    <2>3. Flats(F, h)
      <3>1. \A k \in 1 .. m : k # 1 => h[k - 1] = upTo(k - 1)
        OBVIOUS
      <3> QED
        BY <1>1, <2>1, <3>1 DEF Flats
    <2> HIDE DEF h
    <2>4. \A k \in 1 .. m : g[k] = IF k = 1 THEN F[k] ELSE g[k - 1] \o F[k]
      <3>1. g = [k \in 1 .. m |-> IF k = 1 THEN F[k] ELSE g[k - 1] \o F[k]]
        BY <1>1, <2>2, <2>3 DEF Flats
      <3> QED
        BY <3>1, Zenon
    <2>5. \A k \in 1 .. m : g[k] = upTo(k)
      <3> SUFFICES ASSUME NEW k0 \in 1 .. m, g[k0] # upTo(k0) PROVE FALSE
        OBVIOUS
      <3> DEFINE S == {k \in 1 .. m : g[k] # upTo(k)}
      <3>1. S \subseteq Nat /\ S # {}
        OBVIOUS
      <3>2. PICK k \in S : \A i \in S : k <= i
        <4> HIDE DEF S
        <4> QED
          BY <3>1, LeastIn
      <3>3. k \in 1 .. m /\ g[k] # upTo(k)
        OBVIOUS
      <3>4. k # 1 => k - 1 \in 1 .. m /\ k - 1 \notin S
        <4> HIDE DEF S
        <4> QED
          BY <3>1, <3>2, <3>3
      <3>5. k # 1 => g[k - 1] = upTo(k - 1)
        BY <3>4
      <3>6. g[k] = IF k = 1 THEN F[k] ELSE g[k - 1] \o F[k]
        BY <2>4, <3>3
      <3>7. upTo(k) = IF k = 1 THEN F[k] ELSE upTo(k - 1) \o F[k]
        BY <2>1, <3>3
      <3> QED
        BY ONLY <3>3, <3>5, <3>6, <3>7
    <2>6. m \in 1 .. m
      BY <1>3
    <2> QED
      BY <2>2, <2>5, <2>6 DEF upTo
  <1> QED
    BY <1>2, <1>3

\* The characters of a token.
SourceOfToken(t) ==
    CASE t.kind = "text"   -> t.value
      [] t.kind = "code"   -> <<"tick">> \o t.value \o <<"tick">>
      [] t.kind = "marker" -> <<"[">> \o t.value \o <<"]">>

LEMMA SpanSource ==
    ASSUME NEW text, IsSeq(text), NEW i \in 1 .. Len(text), NEW j \in i + 1 .. Len(text) + 1,
           NEW t, Spans(text, t, i, j)
    PROVE  /\ t.kind \in {"text", "code", "marker"}
           /\ SourceOfToken(t) = SubSeq(text, i, j - 1)
           /\ IF t.kind = "text" THEN \A k \in i .. j - 1 : closing(text, k) = 0
              ELSE closing(text, i) = j - 1
  <1>1. Len(text) \in Nat /\ DOMAIN text = 1 .. Len(text) /\ text \in Seq(Range(text))
    BY SeqShape DEF IsSeq
  <1>2. CASE t.kind = "text" /\ t.value = SubSeq(text, i, j - 1) /\ \A k \in i .. j - 1 : closing(text, k) = 0
    BY <1>2 DEF SourceOfToken
  <1>3. CASE closing(text, i) = j - 1 /\ t = Token(text, i, j - 1)
    <2> DEFINE v == SubSeq(text, i + 1, (j - 1) - 1)
    <2>1. t.kind = (IF text[i] = "[" THEN "marker" ELSE "code") /\ t.value = v
      BY <1>3 DEF Token
    <2>2. j - 1 \in DOMAIN text /\ i \in DOMAIN text /\ i + 2 <= j - 1 /\ Opens(text, i, j - 1)
      BY <1>1, <1>3, ClosingAt
    <2>3. text[i] \in {"[", "tick"} /\ text[j - 1] = Closer(text[i])
      BY <2>2 DEF Opens
    <2>4. <<text[i]>> \o v \o <<text[j - 1]>> = SubSeq(text, i, j - 1)
      <3> DEFINE l == j - 1
      <3>1. l \in 1 .. Len(text) /\ l - 1 \in i .. Len(text) /\ l \in i .. Len(text)
        BY <1>1, <2>2
      <3> HIDE DEF l
      <3>2. SubSeq(text, i, l - 1) = <<text[i]>> \o SubSeq(text, i + 1, l - 1)
        BY <1>1, <3>1, SubSeqRecursiveFirst
      <3>3. SubSeq(text, i, l) = SubSeq(text, i, l - 1) \o <<text[l]>>
        BY <1>1, <3>1, SubSeqRecursiveSecond
      <3> QED
        BY <3>2, <3>3 DEF l
    <2> HIDE DEF v
    <2>5. CASE text[i] = "["
      BY <1>3, <2>1, <2>3, <2>4, <2>5 DEF SourceOfToken, Closer
    <2>6. CASE text[i] = "tick"
      BY <1>3, <2>1, <2>3, <2>4, <2>6 DEF SourceOfToken, Closer
    <2> QED
      BY <2>3, <2>5, <2>6
  <1> QED
    BY <1>2, <1>3 DEF Spans

\* Of spans that adjoin from the first position to behind the last, those that
\* open something start where a marker or code starts, and nothing else does.
Spanned(text, q, m, K) ==
    /\ IsSeq(text) /\ m \in Nat /\ K \in SUBSET (1 .. m)
    /\ q[1] = 1 /\ q[m + 1] = Len(text) + 1 /\ \A k \in 1 .. m + 1 : q[k] \in 1 .. Len(text) + 1
    /\ \A k \in 1 .. m : q[k] < q[k + 1]
    /\ \A k \in K : closing(text, q[k]) = q[k + 1] - 1
    /\ \A k \in (1 .. m) \ K : \A i \in q[k] .. q[k + 1] - 1 : closing(text, i) = 0

LEMMA SpansStart ==
    ASSUME NEW text, NEW m, NEW q, NEW K, Spanned(text, q, m, K)
    PROVE  RightStarts(text, {q[k] : k \in K})
  <1> DEFINE n == Len(text)
             starts == {q[k] : k \in K}
  <1> USE DEF Spanned
  <1>1. n \in Nat /\ DOMAIN text = 1 .. n
    BY SeqShape
  <1>2. \A k \in 1 .. m : q[k] \in 1 .. n /\ q[k + 1] \in 2 .. n + 1 /\ q[k + 1] - 1 \in 1 .. n
    <2> SUFFICES ASSUME NEW k \in 1 .. m
                 PROVE  q[k] \in 1 .. n /\ q[k + 1] \in 2 .. n + 1 /\ q[k + 1] - 1 \in 1 .. n
      OBVIOUS
    <2>1. q[k] \in 1 .. n + 1 /\ q[k + 1] \in 1 .. n + 1 /\ q[k] < q[k + 1]
      OBVIOUS
    <2> QED
      BY ONLY <1>1, <2>1
  <1>3. \A j, k \in 1 .. m + 1 : j < k => q[j] < q[k]
    <2>1. \A k \in 1 .. m + 1 : q[k] \in Int
      BY <1>1
    <2> QED
      BY <2>1, Rising
  <1>4. ASSUME NEW k \in K
        PROVE  /\ k \in 1 .. m /\ q[k] \in DOMAIN text /\ q[k + 1] - 1 \in DOMAIN text
               /\ \A j \in DOMAIN text : Opens(text, q[k], j) <=> j = q[k + 1] - 1
    <2>1. k \in 1 .. m /\ q[k] \in DOMAIN text /\ q[k + 1] - 1 \in DOMAIN text /\ closing(text, q[k]) = q[k + 1] - 1
      BY <1>1, <1>2
    <2>2. closing(text, q[k]) # 0
      BY <1>1, <2>1
    <2> QED
      BY <2>1, <2>2, ClosingAt
  <1>5. ASSUME NEW i \in DOMAIN text, i \in starts
        PROVE  /\ \E j \in DOMAIN text : Opens(text, i, j)
               /\ ~\E s \in starts, j \in DOMAIN text : Opens(text, s, j) /\ i \in s + 1 .. j
    <2>1. PICK k \in K : i = q[k]
      BY <1>5
    <2>2. \E j \in DOMAIN text : Opens(text, i, j)
      BY <1>4, <2>1
    <2>3. ASSUME NEW l \in K, NEW j \in DOMAIN text, Opens(text, q[l], j), i \in q[l] + 1 .. j PROVE FALSE
      <3>1. j = q[l + 1] - 1 /\ l \in 1 .. m /\ k \in 1 .. m
        BY <1>4, <2>3
      <3>2. l + 1 \in 1 .. m + 1 /\ l \in 1 .. m + 1 /\ k \in 1 .. m + 1 /\ l \in Nat /\ k \in Nat
        BY <3>1
      <3>3. q[l] < q[k] /\ q[k] < q[l + 1]
        <4>1. q[l] \in Nat /\ q[k] \in Nat /\ q[l + 1] \in Nat
          BY <1>1, <1>2, <3>1
        <4> QED
          BY ONLY <2>1, <2>3, <3>1, <4>1
      <3>4. q[k] \in Int /\ q[l] \in Int /\ q[l + 1] \in Int
        BY <1>1, <1>2, <3>1
      <3>5. (k < l => q[k] < q[l]) /\ (l + 1 < k => q[l + 1] < q[k])
        BY <1>3, <3>2
      <3>6. k # l /\ k # l + 1
        BY <3>3, <3>4
      <3> QED
        BY ONLY <3>2, <3>3, <3>4, <3>5, <3>6
    <2> QED
      BY <2>2, <2>3
  <1>6. ASSUME NEW i \in DOMAIN text, NEW j \in DOMAIN text, Opens(text, i, j),
               ~\E s \in starts, e \in DOMAIN text : Opens(text, s, e) /\ i \in s + 1 .. e
        PROVE  i \in starts
    <2> DEFINE S == {k \in 1 .. m : i < q[k + 1]}
    <2>1. S \subseteq Nat /\ S # {}
      <3>1. i \in 1 .. n
        BY <1>1
      <3>2. m # 0
        BY <1>1, <3>1
      <3>3. m \in 1 .. m /\ i < q[m + 1]
        BY <1>1, <3>1, <3>2
      <3>4. m \in S
        BY <3>3
      <3>5. S \subseteq Nat
        OBVIOUS
      <3> HIDE DEF S
      <3> QED
        BY <3>4, <3>5
    <2>2. PICK k \in S : \A l \in S : k <= l
      <3> HIDE DEF S
      <3> QED
        BY <2>1, LeastIn
    <2>3. k \in 1 .. m /\ i < q[k + 1]
      OBVIOUS
    <2>4. q[k] <= i
      <3>1. CASE k = 1
        BY <1>1, <3>1
      <3>2. CASE k # 1
        <4>1. k - 1 \in 1 .. m /\ k - 1 \notin S /\ (k - 1) + 1 = k
          <5> HIDE DEF S
          <5> QED
            BY <2>1, <2>2, <2>3, <3>2
        <4>2. ~(i < q[k])
          BY <4>1
        <4>3. q[k] \in Nat /\ i \in Nat
          BY <1>1, <1>2, <2>3
        <4> QED
          BY <4>2, <4>3
      <3> QED
        BY <3>1, <3>2
    <2>5. q[k] \in Nat /\ q[k + 1] \in Nat /\ i \in Nat
      BY <1>1, <1>2, <2>3
    <2>6. k \in K
      <3>1. i \in q[k] .. q[k + 1] - 1
        BY ONLY <2>3, <2>4, <2>5
      <3>2. closing(text, i) # 0
        <4>1. Opens(text, i, j) /\ j \in 1 .. n
          BY <1>1, <1>6
        <4>2. closing(text, i) = j
          BY <4>1, ClosingAt
        <4> QED
          BY <4>1, <4>2
      <3> QED
        BY <2>3, <3>1, <3>2
    <2>7. q[k] \in starts /\ q[k + 1] - 1 \in DOMAIN text /\ Opens(text, q[k], q[k + 1] - 1)
      BY <1>4, <2>6
    <2>8. ~(i \in q[k] + 1 .. q[k + 1] - 1)
      BY <1>6, <2>7
    <2>9. i = q[k]
      BY ONLY <2>3, <2>4, <2>5, <2>8
    <2> QED
      BY <2>7, <2>9
  <1> QED
    BY <1>5, <1>6 DEF RightStarts

\* What a marker becomes if the note's errors are none.
LEMMA MarkersLinked ==
    ASSUME NEW text, NEW links, sourceNoteLinkErrors(text, links) = {},
           NEW k \in DOMAIN tokenizeSourceNote(text), tokenizeSourceNote(text)[k].kind = "marker"
    PROVE  LET l    == tokenizeSourceNote(text)[k].value
               node == parseSourceNote(text, links)[k]
           IN  /\ node.kind = "link" /\ node.label = l
               /\ l \in DOMAIN links => node.url = links[l]
               /\ l \in DOMAIN links \cup Inherited
  <1> DEFINE T == tokenizeSourceNote(text)
             l == T[k].value
  <1>1. l \in markersOf(text)
    BY DEF markersOf, ToSet
  <1>2. l \in DOMAIN links \cup Inherited
    <2>1. SUFFICES ASSUME l \notin DOMAIN links \cup Inherited PROVE FALSE
      OBVIOUS
    <2>2. <<"missing", l>> \in sourceNoteLinkErrors(text, links)
      BY <1>1, <2>1 DEF sourceNoteLinkErrors
    <2> QED
      BY <2>2
  <1>3. parseSourceNote(text, links)[k] =
            IF l \in DOMAIN links THEN [kind |-> "link", label |-> l, url |-> links[l]]
            ELSE [kind |-> "link", label |-> l, url |-> AFunction]
    BY <1>2 DEF parseSourceNote
  <1> HIDE DEF l
  <1>4. LET node == parseSourceNote(text, links)[k]
        IN  node.kind = "link" /\ node.label = l /\ (l \in DOMAIN links => node.url = links[l])
    BY <1>3
  <1> QED
    BY <1>2, <1>4 DEF l

\* What is rendered of a note without errors is its whole text, and what starts
\* in it is what should.
LEMMA NoteRead ==
    ASSUME NEW text, IsSeq(text), NEW links, sourceNoteLinkErrors(text, links) = {}
    PROVE  LET nodes == parseSourceNote(text, links)
           IN  /\ FlattenSeq([k \in DOMAIN nodes |-> SourceOf(nodes[k])]) = text
               /\ RightStarts(text, Starts(nodes))
  <1> DEFINE n == Len(text)
             T == tokenizeSourceNote(text)
             m == Len(T)
             nodes == parseSourceNote(text, links)
             K == {k \in 1 .. m : T[k].kind # "text"}
             F(l) == [j \in 1 .. l |-> SourceOf(nodes[j])]
  <1>1. n \in Nat /\ DOMAIN text = 1 .. n /\ text \in Seq(Range(text))
    BY SeqShape DEF IsSeq
  <1>2. PICK q : Cuts(text, T, q, 1)
    <2>1. PICK h : /\ h = [b \in 1 .. n + 1 |-> TokensFrom(text, h, b)]
                   /\ T = h[1]
      BY Tokenized
    <2>2. \A b \in 1 .. n + 1 : \E q : Cuts(text, h[b], q, b)
      BY <2>1, CutsFrom
    <2>3. 1 \in 1 .. n + 1
      BY <1>1
    <2> QED
      BY <2>1, <2>2, <2>3
  <1>3. /\ m \in Nat /\ DOMAIN T = 1 .. m
        /\ q[1] = 1 /\ q[m + 1] = n + 1
        /\ \A k \in 1 .. m + 1 : q[k] \in 1 .. n + 1
        /\ \A k \in 1 .. m : Spans(text, T[k], q[k], q[k + 1])
    BY <1>2, SeqShape DEF Cuts
  <1> HIDE DEF T
  <1>4. ASSUME NEW k \in 1 .. m
        PROVE  /\ q[k] < q[k + 1]
               /\ SourceOfToken(T[k]) = SubSeq(text, q[k], q[k + 1] - 1)
               /\ T[k].kind \in {"text", "code", "marker"}
               /\ IF T[k].kind = "text" THEN \A i \in q[k] .. q[k + 1] - 1 : closing(text, i) = 0
                  ELSE closing(text, q[k]) = q[k + 1] - 1
    <2> DEFINE a == q[k]
               z == q[k + 1]
               t == T[k]
    <2>1. a \in 1 .. n + 1 /\ z \in 1 .. n + 1 /\ Spans(text, t, a, z)
      BY <1>3
    <2>2. a < z
      BY <2>1 DEF Spans
    <2> HIDE DEF a, z, t
    <2>3. a \in 1 .. Len(text) /\ z \in a + 1 .. Len(text) + 1
      BY <1>1, <2>1, <2>2
    <2>4. /\ t.kind \in {"text", "code", "marker"}
          /\ SourceOfToken(t) = SubSeq(text, a, z - 1)
          /\ IF t.kind = "text" THEN \A i \in a .. z - 1 : closing(text, i) = 0
             ELSE closing(text, a) = z - 1
      BY <2>1, <2>3, SpanSource
    <2> QED
      BY <2>2, <2>4 DEF a, z, t
  <1>5. DOMAIN nodes = 1 .. m
    BY <1>3 DEF parseSourceNote, T
  <1>6. ASSUME NEW k \in 1 .. m
        PROVE  SourceOf(nodes[k]) = SourceOfToken(T[k]) /\ (nodes[k].kind # "text" <=> T[k].kind # "text")
    <2>1. CASE T[k].kind = "marker"
      <3>1. nodes[k].kind = "link" /\ nodes[k].label = T[k].value
        BY <1>3, <2>1, MarkersLinked DEF T
      <3> HIDE DEF nodes
      <3> QED
        BY <2>1, <3>1 DEF SourceOf, SourceOfToken
    <2>2. CASE T[k].kind \in {"text", "code"}
      <3>1. nodes[k] = T[k]
        BY <1>3, <2>2 DEF parseSourceNote, T
      <3> HIDE DEF nodes
      <3> QED
        BY <2>2, <3>1 DEF SourceOf, SourceOfToken
    <2> QED
      BY <1>4, <2>1, <2>2
  <1> HIDE DEF nodes
  <1>7. ASSUME NEW l \in 0 .. m
        PROVE  FlattenSeq(F(l)) = SubSeq(text, 1, q[l + 1] - 1)
    <2> DEFINE G == F(l)
    <2>1. l \in Nat /\ l + 1 \in 1 .. m + 1 /\ 1 .. l \subseteq 1 .. m /\ 1 .. l + 1 \subseteq 1 .. m + 1
      BY <1>3
    <2>2. \A k \in 1 .. l : G[k] = SubSeq(text, q[k], q[k + 1] - 1)
      BY <1>4, <1>6, <2>1
    <2>3. G = [k \in 1 .. l |-> G[k]]
      OBVIOUS
    <2> HIDE DEF G
    <2>4. /\ \A k \in 1 .. l + 1 : q[k] \in 1 .. Len(text) + 1
          /\ \A k \in 1 .. l : q[k] < q[k + 1] /\ G[k] = SubSeq(text, q[k], q[k + 1] - 1)
      BY <1>3, <1>4, <2>1, <2>2
    <2>5. l \in Nat /\ q[1] = 1
      BY <1>3, <2>1
    <2>6. FlattenSeq(G) = SubSeq(text, 1, q[l + 1] - 1)
      <3>1. Adjoining(text, G, q, l)
        BY <2>3, <2>4, <2>5 DEF Adjoining
      <3> QED
        BY <3>1, Flattened
    <2> QED
      BY <2>6 DEF G
  <1>8. FlattenSeq([k \in DOMAIN nodes |-> SourceOf(nodes[k])]) = text
    <2>1. m \in 0 .. m /\ q[m + 1] - 1 = Len(text)
      BY <1>1, <1>3
    <2>2. FlattenSeq(F(m)) = SubSeq(text, 1, Len(text))
      BY <1>7, <2>1
    <2>3. SubSeq(text, 1, Len(text)) = text
      BY <1>1, SubSeqFull
    <2> QED
      BY <1>5, <2>2, <2>3
  <1>9. ASSUME NEW k \in 1 .. m PROVE 1 + Len(FlattenSeq(F(k - 1))) = q[k]
    <2>1. k - 1 \in 0 .. m /\ (k - 1) + 1 = k /\ k \in 1 .. m + 1
      BY <1>3
    <2>2. FlattenSeq(F(k - 1)) = SubSeq(text, 1, q[k] - 1)
      BY <1>7, <2>1
    <2> DEFINE a == q[k] - 1
    <2>3. a \in 0 .. n /\ 1 + a = q[k]
      <3>1. q[k] \in 1 .. n + 1
        BY <1>3, <2>1
      <3> QED
        BY ONLY <1>1, <3>1
    <2> HIDE DEF a
    <2>4. Len(SubSeq(text, 1, a)) = a
      <3>1. \A i \in 1 .. a : text[i] \in Range(text)
        BY <1>1, <2>3 DEF Range
      <3>2. Len(SubSeq(text, 1, a)) = IF 1 <= a THEN a - 1 + 1 ELSE 0
        BY <2>3, <3>1, SubSeqProperties
      <3> QED
        BY <2>3, <3>2
    <2> QED
      BY <2>2, <2>3, <2>4 DEF a
  <1>10. Starts(nodes) = {q[k] : k \in K}
    <2>1. {j \in DOMAIN nodes : nodes[j].kind # "text"} = K
      BY <1>5, <1>6
    <2>2. Starts(nodes) = {1 + Len(FlattenSeq(F(k - 1))) : k \in K}
      BY <2>1 DEF Starts
    <2> QED
      BY <1>9, <2>2
  <1>11. RightStarts(text, {q[k] : k \in K})
    <2>1. /\ K \in SUBSET (1 .. m)
          /\ \A k \in 1 .. m : q[k] < q[k + 1]
          /\ \A k \in K : closing(text, q[k]) = q[k + 1] - 1
          /\ \A k \in (1 .. m) \ K : \A i \in q[k] .. q[k + 1] - 1 : closing(text, i) = 0
      BY <1>4
    <2>2. /\ m \in Nat /\ q[1] = 1 /\ q[m + 1] = Len(text) + 1
          /\ \A k \in 1 .. m + 1 : q[k] \in 1 .. Len(text) + 1
      BY <1>3
    <2> HIDE DEF K, m
    <2>3. Spanned(text, q, m, K)
      BY <2>1, <2>2 DEF Spanned
    <2> QED
      BY <2>3, SpansStart
  <1> QED
    BY <1>8, <1>10, <1>11 DEF nodes

\* A marker is a link to the URL that the note has for its label, or every
\* object answers to the label, and each of the note's links is shown
\* (sourceNote.ts:76-104).
THEOREM NotesAreLinked == Spec => []NotesLinked
  <1>1. AcceptInv => NotesLinked
    <2> SUFFICES ASSUME AcceptInv, Accepted, NEW i \in DOMAIN source, source[i].note # None
                 PROVE  LET n      == source[i].note
                            tokens == tokenizeSourceNote(n.text)
                            nodes  == parseSourceNote(n.text, n.links)
                        IN  /\ \A k \in DOMAIN tokens : tokens[k].kind = "marker" =>
                                /\ nodes[k].kind = "link" /\ nodes[k].label = tokens[k].value
                                /\ IF nodes[k].label \in DOMAIN n.links THEN nodes[k].url = n.links[nodes[k].label]
                                   ELSE nodes[k].label \in Inherited
                            /\ \A l \in DOMAIN n.links :
                                   \E k \in DOMAIN nodes : nodes[k].kind = "link" /\ nodes[k].label = l
      BY DEF NotesLinked
    <2> DEFINE n      == source[i].note
               tokens == tokenizeSourceNote(n.text)
               nodes  == parseSourceNote(n.text, n.links)
    <2>1. sourceNoteLinkErrors(n.text, n.links) = {}
      BY DEF AcceptInv, validEntry, validNote
    <2>2. ASSUME NEW k \in DOMAIN tokens, tokens[k].kind = "marker"
          PROVE  /\ nodes[k].kind = "link" /\ nodes[k].label = tokens[k].value
                 /\ tokens[k].value \in DOMAIN n.links => nodes[k].url = n.links[tokens[k].value]
                 /\ tokens[k].value \in DOMAIN n.links \cup Inherited
      BY <2>1, <2>2, MarkersLinked
    <2>3. ASSUME NEW l \in DOMAIN n.links
          PROVE  \E k \in DOMAIN tokens : tokens[k].kind = "marker" /\ tokens[k].value = l
      <3>1. l \in markersOf(n.text)
        <4>1. l \notin markersOf(n.text) => <<"unused", l>> \in sourceNoteLinkErrors(n.text, n.links)
          BY DEF sourceNoteLinkErrors
        <4> QED
          BY <2>1, <4>1
      <3> QED
        BY <3>1 DEF markersOf, ToSet
    <2>4. DOMAIN nodes = DOMAIN tokens
      BY DEF parseSourceNote
    <2> HIDE DEF n, tokens, nodes
    <2>5. \A k \in DOMAIN tokens : tokens[k].kind = "marker" =>
              /\ nodes[k].kind = "link" /\ nodes[k].label = tokens[k].value
              /\ IF nodes[k].label \in DOMAIN n.links THEN nodes[k].url = n.links[nodes[k].label]
                 ELSE nodes[k].label \in Inherited
      BY <2>2
    <2>6. \A l \in DOMAIN n.links : \E k \in DOMAIN nodes : nodes[k].kind = "link" /\ nodes[k].label = l
      BY <2>2, <2>3, <2>4
    <2> QED
      BY <2>5, <2>6 DEF n, tokens, nodes
  <1> QED
    BY <1>1, AcceptInductive, PTL

\* What NotesTrue says besides NotesLinked.
NotesTexts ==
    Accepted => \A i \in DOMAIN source : source[i].note # None =>
        LET n     == source[i].note
            nodes == parseSourceNote(n.text, n.links)
        IN  /\ FlattenSeq([k \in DOMAIN nodes |-> SourceOf(nodes[k])]) = n.text
            /\ RightStarts(n.text, Starts(nodes))

\* A note that is accepted renders to the whole of its text, and what starts as
\* code or a marker in it is what closes and is not inside an earlier one: the
\* schema and the page agree on what counts as a marker, whatever the text
\* (sourceNote.ts:7-10, 30-54).
THEOREM NotesRenderWhole == Spec => []NotesTrue
  <1>1. AcceptInv => NotesTexts
    <2> SUFFICES ASSUME AcceptInv, Accepted, NEW i \in DOMAIN source, source[i].note # None
                 PROVE  LET n     == source[i].note
                            nodes == parseSourceNote(n.text, n.links)
                        IN  /\ FlattenSeq([k \in DOMAIN nodes |-> SourceOf(nodes[k])]) = n.text
                            /\ RightStarts(n.text, Starts(nodes))
      BY Zenon DEF NotesTexts
    <2>1. IsSeq(source[i].note.text)
      BY BuildAssumption DEF AcceptInv
    <2>2. sourceNoteLinkErrors(source[i].note.text, source[i].note.links) = {}
      BY DEF AcceptInv, validEntry, validNote
    <2> QED
      BY <2>1, <2>2, NoteRead, Zenon
  <1>2. NotesLinked /\ NotesTexts => NotesTrue
    BY Zenon DEF NotesTrue, NotesTexts
  <1> QED
    BY <1>1, <1>2, AcceptInductive, NotesAreLinked, PTL

-----------------------------------------------------------------------------
(* The pages that are built.                                                 *)

\* What is still to render and what has been are all that was asked for.
RouteInv ==
    /\ Accepted => IsSeq(todo) /\ DOMAIN site \cup Range(todo) = Range(getStaticPaths)
    /\ phase = "done" => todo = << >>

\* Every page asked for, by what it is for.
Pages ==
    {IndexPage, ColorsPage} \cup {OsPage(s) : s \in Slugs} \cup {ViewJson(s) : s \in Slugs}
    \cup {colorPath(source[p[1]].slug, HexAt(source, p)) : p \in Places(source)}

LEMMA PathsShape ==
    ASSUME IsCollection(source)
    PROVE  IsSeq(getStaticPaths) /\ Range(getStaticPaths) = Pages
  <1> DEFINE a == <<IndexPage, ColorsPage>>
             b == [i \in DOMAIN source |-> OsPage(source[i].slug)]
             c == [i \in DOMAIN source |-> ViewJson(source[i].slug)]
             W == Swatches(source)
             d == [i \in DOMAIN W |-> colorPath(W[i].os.slug, W[i].hex)]
  <1>1. getStaticPaths = ((a \o b) \o c) \o d
    BY DEF getStaticPaths, MapSeq
  <1>2. /\ Len(source) \in Nat /\ DOMAIN source = 1 .. Len(source)
        /\ Len(W) \in Nat /\ DOMAIN W = 1 .. Len(W)
    BY SeqShape, SwatchShape DEF IsCollection
  <1>3. IsSeq(a) /\ Range(a) = {IndexPage, ColorsPage}
    BY DEF IsSeq, Range
  <1>4. IsSeq(b) /\ Range(b) = {OsPage(s) : s \in Slugs}
    <2>1. b = [i \in 1 .. Len(source) |-> b[i]]
      BY <1>2
    <2>2. Range(b) = {OsPage(s) : s \in Slugs}
      BY DEF Range, Slugs
    <2> HIDE DEF b
    <2> QED
      BY <1>2, <2>1, <2>2, FunctionIsSeq
  <1>5. IsSeq(c) /\ Range(c) = {ViewJson(s) : s \in Slugs}
    <2>1. c = [i \in 1 .. Len(source) |-> c[i]]
      BY <1>2
    <2>2. Range(c) = {ViewJson(s) : s \in Slugs}
      BY DEF Range, Slugs
    <2> HIDE DEF c
    <2> QED
      BY <1>2, <2>1, <2>2, FunctionIsSeq
  <1>6. IsSeq(d) /\ Range(d) = {colorPath(source[p[1]].slug, HexAt(source, p)) : p \in Places(source)}
    <2> DEFINE P == {colorPath(source[p[1]].slug, HexAt(source, p)) : p \in Places(source)}
               q == FileOrder(source)
    <2>1. /\ Lists(q, Places(source), InFileOrder(Places(source)))
          /\ DOMAIN W = 1 .. Cardinality(Places(source))
          /\ \A k \in DOMAIN W : W[k] = ColorOf(source, q[k])
      BY SwatchShape
    <2>2. \A p : ColorOf(source, p).os.slug = source[p[1]].slug /\ ColorOf(source, p).hex = HexAt(source, p)
      BY DEF ColorOf, swatch, HexAt
    <2> HIDE DEF W, q
    <2>3. \A k \in DOMAIN W : q[k] \in Places(source) /\ d[k] = colorPath(source[q[k][1]].slug, HexAt(source, q[k]))
      BY <2>1, <2>2 DEF Lists
    <2>4. \A p \in Places(source) : \E k \in DOMAIN W : q[k] = p
      BY <2>1 DEF Lists
    <2>5. DOMAIN d = DOMAIN W /\ d = [k \in 1 .. Len(W) |-> d[k]]
      BY <1>2
    <2> HIDE DEF d
    <2>6. Range(d) \subseteq P
      BY <2>3, <2>5 DEF Range
    <2>7. P \subseteq Range(d)
      BY <2>3, <2>4, <2>5 DEF Range
    <2>8. IsSeq(d)
      BY <1>2, <2>5, FunctionIsSeq
    <2> QED
      BY <2>6, <2>7, <2>8
  <1> HIDE DEF a, b, c, d
  <1>7. IsSeq(a \o b) /\ Range(a \o b) = Range(a) \cup Range(b)
    BY <1>3, <1>4, Concatenated
  <1>8. IsSeq((a \o b) \o c) /\ Range((a \o b) \o c) = Range(a \o b) \cup Range(c)
    BY <1>5, <1>7, Concatenated
  <1>9. IsSeq(((a \o b) \o c) \o d) /\ Range(((a \o b) \o c) \o d) = Range((a \o b) \o c) \cup Range(d)
    BY <1>6, <1>8, Concatenated
  <1> QED
    BY <1>1, <1>3, <1>4, <1>5, <1>6, <1>7, <1>8, <1>9 DEF Pages

LEMMA RouteInductive == Spec => []RouteInv
  <1>1. Init => RouteInv
    BY DEF Init, RouteInv, Accepted
  <1>2. BuildInv /\ AcceptInv /\ RouteInv /\ [Next]_vars => RouteInv'
    <2> SUFFICES ASSUME BuildInv, AcceptInv, RouteInv, [Next]_vars PROVE RouteInv'
      OBVIOUS
    <2>1. source' = source
      BY DEF Next, vars, Reject, Routes, Render, Finish, DumpTruncate, DumpWrite, DumpDies
    <2>2. getStaticPaths' = getStaticPaths
      BY <2>1 DEF getStaticPaths, MapSeq
    <2>3. CASE Reject
      BY <2>3 DEF Reject, RouteInv, Accepted
    <2>4. CASE Routes
      <3>1. IsSeq(getStaticPaths)
        BY BuildAssumption, PathsShape DEF AcceptInv
      <3>2. DOMAIN site' = {}
        BY <2>4 DEF Routes, BuildInv, MemoInv
      <3>3. CASE Resolved
        BY <2>2, <2>4, <3>1, <3>2, <3>3 DEF Routes, RouteInv, Accepted
      <3>4. CASE ~Resolved
        BY <2>4, <3>4 DEF Routes, RouteInv, Accepted
      <3> QED
        BY <3>3, <3>4
    <2>5. CASE Render
      <3>1. /\ phase = "render" /\ phase' = phase /\ todo' = Tail(todo) /\ todo # << >>
            /\ DOMAIN site' = DOMAIN site \cup {Head(todo)}
        BY <2>5 DEF Render
      <3>2. IsSeq(todo) /\ DOMAIN site \cup Range(todo) = Range(getStaticPaths)
        BY <3>1 DEF RouteInv, Accepted
      <3>3. IsSeq(Tail(todo)) /\ Range(todo) = {Head(todo)} \cup Range(Tail(todo))
        BY <3>1, <3>2, HeadAndTail
      <3> QED
        BY <2>2, <3>1, <3>2, <3>3 DEF RouteInv
    <2>6. CASE Finish
      BY <2>2, <2>6 DEF Finish, RouteInv, Accepted
    <2>7. CASE UNCHANGED <<phase, todo, site>>
      BY <2>2, <2>7 DEF RouteInv, Accepted
    <2>8. DumpTruncate \/ DumpWrite \/ DumpDies => UNCHANGED <<phase, todo, site>>
      BY DEF DumpTruncate, DumpWrite, DumpDies
    <2> QED
      BY <2>3, <2>4, <2>5, <2>6, <2>7, <2>8 DEF Next, vars
  <1> QED
    BY <1>1, <1>2, BuildInductive, AcceptInductive, PTL DEF Spec

\* A finished build has every page that was asked for, and no other.
LEMMA AllBuilt == AcceptInv /\ RouteInv /\ phase = "done" => DOMAIN site = Pages
  <1> SUFFICES ASSUME AcceptInv, RouteInv, phase = "done" PROVE DOMAIN site = Pages
    OBVIOUS
  <1>1. todo = << >> /\ DOMAIN site \cup Range(todo) = Range(getStaticPaths)
    BY DEF RouteInv, Accepted
  <1>2. Range(todo) = {}
    BY <1>1 DEF Range
  <1> QED
    BY <1>1, <1>2, BuildAssumption, PathsShape DEF AcceptInv

-----------------------------------------------------------------------------
(* The links.                                                                *)

LinksOf(path) ==
    CASE path = IndexPage  -> indexLinks
      [] path = ColorsPage -> colorsLinks
      [] OTHER -> IF path = ViewJson(path[2]) THEN {} ELSE osLinks(path[2])

\* A page has the links that it was rendered with.
LinkInv == \A p \in DOMAIN site : site[p].links = LinksOf(p)

LEMMA LinkInductive == Spec => []LinkInv
  <1>1. Init => LinkInv
    BY DEF Init, LinkInv
  <1>2. LinkInv /\ [Next]_vars => LinkInv'
    <2> SUFFICES ASSUME LinkInv, [Next]_vars PROVE LinkInv'
      OBVIOUS
    <2>1. source' = source
      BY DEF Next, vars, Reject, Routes, Render, Finish, DumpTruncate, DumpWrite, DumpDies
    <2>2. \A p : LinksOf(p)' = LinksOf(p)
      <3>1. Slugs' = Slugs
        BY <2>1 DEF Slugs
      <3>2. indexLinks' = indexLinks
        BY <2>1, <3>1 DEF indexLinks
      <3>3. \A h : Shippers(h)' = Shippers(h)
        BY <2>1 DEF Shippers
      <3>4. colorsLinks' = colorsLinks
        <4>1. mergeColorsByHex(source)' = mergeColorsByHex(source)
          BY <2>1
        <4> QED
          BY <3>3, <4>1 DEF colorsLinks
      <3>5. \A s : osLinks(s)' = osLinks(s)
        <4> TAKE s
        <4>1. SelectInSeq(source, LAMBDA x : x.slug = s)' = SelectInSeq(source, LAMBDA x : x.slug = s)
          BY <2>1 DEF SelectInSeq
        <4>2. SelectLastInSeq(source, LAMBDA x : x.slug = s)' = SelectLastInSeq(source, LAMBDA x : x.slug = s)
          BY <2>1 DEF SelectLastInSeq
        <4> QED
          BY <2>1, <4>1, <4>2 DEF osLinks
      <3> QED
        BY <3>2, <3>4, <3>5 DEF LinksOf
    <2>3. CASE Render
      <3> DEFINE path == Head(todo)
                 page == CASE path = IndexPage  -> [scores |-> loadCatalog, links |-> indexLinks]
                           [] path = ColorsPage -> [scores |-> loadCatalog, links |-> colorsLinks]
                           [] OTHER -> [scores |-> loadOsDetail(path[2]),
                                        links  |-> IF path = ViewJson(path[2]) THEN {} ELSE osLinks(path[2])]
      <3>1. site' = [p \in DOMAIN site \cup {path} |-> IF p = path THEN page ELSE site[p]]
        BY <2>3 DEF Render
      <3>2. page.links = LinksOf(path)
        <4>1. IndexPage # ColorsPage
          BY DEF IndexPage, ColorsPage
        <4> HIDE DEF path
        <4> QED
          BY <4>1 DEF LinksOf
      <3> HIDE DEF page, path
      <3> QED
        BY <2>2, <3>1, <3>2 DEF LinkInv
    <2>4. CASE UNCHANGED site
      BY <2>2, <2>4 DEF LinkInv
    <2> QED
      BY <2>3, <2>4 DEF Next, vars, Reject, Routes, Finish, DumpTruncate, DumpWrite, DumpDies
  <1> QED
    BY <1>1, <1>2, PTL DEF Spec

\* Where a color is, there is a page for it.
LEMMA PlaceHasPage ==
    ASSUME IsCollection(source), NEW p \in Places(source)
    PROVE  colorPath(source[p[1]].slug, HexAt(source, p)) \in Pages
  BY DEF Pages

\* Who shipped a color has a page for it.
LEMMA UsesResolve ==
    ASSUME IsCollection(source), NEW h
    PROVE  /\ \A s \in Shippers(h) : colorPath(s, h) \in Pages
           /\ \A p \in ToSet(platformsByHex(source, h)) : colorPath(p.slug, h) \in Pages
  <1>1. \A p \in PlacesOf(source, h) : p \in Places(source) /\ HexAt(source, p) = h
    BY DEF PlacesOf, HexAt
  <1>2. \A s \in Shippers(h) : colorPath(s, h) \in Pages
    BY <1>1, ShippersAt, PlaceHasPage
  <1>3. \A p \in ToSet(platformsByHex(source, h)) : p.slug \in Shippers(h)
    BY DEF Shippers
  <1> QED
    BY <1>2, <1>3

LEMMA IndexResolves == IsCollection(source) => indexLinks \subseteq Pages
  <1> SUFFICES ASSUME IsCollection(source) PROVE indexLinks \subseteq Pages
    OBVIOUS
  <1> DEFINE W == Swatches(source)
  <1>1. \A k \in DOMAIN W : \E p \in Places(source) : W[k].os.slug = source[p[1]].slug /\ W[k].hex = HexAt(source, p)
    <2> TAKE k \in DOMAIN W
    <2>1. W[k] = ColorOf(source, FileOrder(source)[k]) /\ FileOrder(source)[k] \in Places(source)
      BY SwatchShape DEF Lists
    <2> HIDE DEF W
    <2> QED
      BY <2>1 DEF ColorOf, swatch, HexAt
  <1>2. \A c \in ToSet(W) : colorPath(c.os.slug, c.hex) \in Pages
    BY <1>1, PlaceHasPage DEF ToSet
  <1>3. \A s \in Slugs : OsPage(s) \in Pages
    BY DEF Pages
  <1> QED
    BY <1>2, <1>3 DEF indexLinks

LEMMA ColorsResolve == IsCollection(source) => colorsLinks \subseteq Pages
  <1> SUFFICES ASSUME IsCollection(source), NEW m \in ToSet(mergeColorsByHex(source))
               PROVE  /\ colorPath(Head(m.platforms), m.hex) \in Pages
                      /\ \A s \in Shippers(m.hex) : colorPath(s, m.hex) \in Pages
    BY DEF colorsLinks
  <1> DEFINE M == mergeColorsByHex(source)
             T == PlacesOf(source, m.hex)
             n == Cardinality(T)
  <1>1. \A k \in DOMAIN M : PlacesOf(source, M[k].hex) # {} /\ \E q : MergedFrom(M[k], source, q)
    BY MergeShape
  <1>2. T # {} /\ \E q : MergedFrom(m, source, q)
    <2> HIDE DEF M
    <2> QED
      BY <1>1 DEF ToSet, M
  <1>3. PICK q : MergedFrom(m, source, q)
    BY <1>2
  <1>4. /\ n \in Nat /\ IsSeq(m.platforms) /\ Len(m.platforms) = n
        /\ \A k \in 1 .. n : m.platforms[k] = source[q[k][1]].slug /\ q[k] \in T
        /\ \A p \in T : \E k \in 1 .. n : q[k] = p
    BY <1>3 DEF MergedFrom, Lists
  <1>5. 1 \in 1 .. n
    <2>1. PICK k \in 1 .. n : TRUE
      BY <1>2, <1>4
    <2> HIDE DEF n
    <2> QED
      BY <1>4, <2>1
  <1>6. Head(m.platforms) = source[q[1][1]].slug /\ q[1] \in T
    <2>1. Len(m.platforms) # 0
      BY <1>4, <1>5
    <2>2. m.platforms \in Seq(Range(m.platforms)) /\ m.platforms # << >>
      BY <1>4, <2>1, SeqShape, EmptySeq DEF IsSeq
    <2>3. Head(m.platforms) = m.platforms[1]
      BY <2>2, HeadTailProperties
    <2> QED
      BY <1>4, <1>5, <2>3
  <1>7. q[1] \in Places(source) /\ HexAt(source, q[1]) = m.hex
    BY <1>6 DEF PlacesOf, HexAt
  <1>8. colorPath(Head(m.platforms), m.hex) \in Pages
    BY <1>6, <1>7, PlaceHasPage
  <1> QED
    BY <1>8, UsesResolve

\* The similar colors of a system's page come with all who shipped them.
LEMMA SimilarHave ==
    ASSUME NEW h, NEW slug
    PROVE  \A s \in ToSet(similarOf(h, source, slug)) : s.platforms = platformsByHex(source, s.hex)
  <1> DEFINE near == Filter(dedupeSimilarByHex(similarColors(h, source, slug, Limit)),
                            LAMBDA s : match(Distance[h][s.hex]) < 100 /\ s.hex # h)
             t == Take(near, MaxSimilar)
  <1>1. similarOf(h, source, slug) =
            [i \in DOMAIN t |-> [hex |-> t[i].hex, platforms |-> platformsByHex(source, t[i].hex)]]
    BY DEF similarOf, MapSeq
  <1> HIDE DEF t
  <1> QED
    BY <1>1 DEF ToSet

LEMMA SystemResolves ==
    ASSUME IsCollection(source), Resolved, NEW slug \in Slugs
    PROVE  osLinks(slug) \subseteq Pages
  <1> DEFINE I == {i \in 1 .. Len(source) : source[i].slug = slug}
             e == source[SelectInSeq(source, LAMBDA x : x.slug = slug)]
             last == SelectLastInSeq(source, LAMBDA x : x.slug = slug)
             os == source[last]
             details == buildOsDetail(source, slug)
             peers == eraPeers(e, source, 3)
  <1>1. Len(source) \in Nat /\ DOMAIN source = 1 .. Len(source)
    BY SeqShape DEF IsCollection
  <1>2. last \in DOMAIN source /\ os.slug = slug
    <2>1. I # {} /\ I \subseteq 1 .. Len(source)
      BY <1>1 DEF Slugs
    <2>2. last = Max(I)
      BY <2>1 DEF SelectLastInSeq
    <2>3. Max(I) \in I
      <3> HIDE DEF I
      <3> QED
        BY <1>1, <2>1, MaxIn
    <2> HIDE DEF last
    <2> QED
      BY <1>1, <2>2, <2>3
  <1>3. details = [k \in DOMAIN os.colors |-> [hex |-> os.colors[k].hex, isDefault |-> os.colors[k].default,
                                            uses |-> platformsByHex(source, os.colors[k].hex),
                                            similar |-> similarOf(os.colors[k].hex, source, slug)]]
    BY DEF buildOsDetail, MapSeq
  <1>4. osLinks(slug) = {OsPage(s) : s \in {os.predecessor, os.successor} \ {None}}
                        \cup {OsPage(p.slug) : p \in ToSet(peers)}
                        \cup {ViewJson(slug)} \cup {colorPath(slug, c.hex) : c \in ToSet(details)}
                        \cup (UNION {{colorPath(p.slug, c.hex) : p \in ToSet(c.uses)} : c \in ToSet(details)})
                        \cup (UNION {UNION {{colorPath(p.slug, s.hex) : p \in ToSet(s.platforms)} :
                                              s \in ToSet(c.similar)} : c \in ToSet(details)})
    BY DEF osLinks
  <1> HIDE DEF last, e
  <1>5. \A s \in {os.predecessor, os.successor} \ {None} : OsPage(s) \in Pages
    BY <1>2 DEF Resolved, Pages
  <1>6. \A p \in ToSet(peers) : OsPage(p.slug) \in Pages
    <2>1. \A k \in DOMAIN peers : \E i \in DOMAIN source : peers[k].slug = source[i].slug
      BY PeersShape
    <2> HIDE DEF peers
    <2> QED
      BY <2>1 DEF ToSet, Pages, Slugs
  <1> HIDE DEF peers, details
  <1>7. ASSUME NEW c \in ToSet(details)
        PROVE  /\ \E k \in DOMAIN os.colors : c.hex = os.colors[k].hex
               /\ c.uses = platformsByHex(source, c.hex) /\ c.similar = similarOf(c.hex, source, slug)
    BY <1>3 DEF ToSet
  <1>8. \A c \in ToSet(details) : colorPath(slug, c.hex) \in Pages
    <2> TAKE c \in ToSet(details)
    <2>1. PICK k \in DOMAIN os.colors : c.hex = os.colors[k].hex
      BY <1>7
    <2>2. <<last, k>> \in Places(source)
      BY <1>2, FilesOrdered
    <2> QED
      BY <1>2, <2>1, <2>2, PlaceHasPage DEF HexAt
  <1>9. \A c \in ToSet(details) : \A p \in ToSet(c.uses) : colorPath(p.slug, c.hex) \in Pages
    BY <1>7, UsesResolve
  <1>10. \A c \in ToSet(details) : \A s \in ToSet(c.similar) : \A p \in ToSet(s.platforms) :
            colorPath(p.slug, s.hex) \in Pages
    BY <1>7, SimilarHave, UsesResolve
  <1>11. ViewJson(slug) \in Pages
    BY DEF Pages
  <1> HIDE DEF os
  <1> QED
    BY <1>4, <1>5, <1>6, <1>8, <1>9, <1>10, <1>11

\* Every link of every page leads to one.
LEMMA PageResolves ==
    ASSUME IsCollection(source), Resolved, NEW p \in Pages
    PROVE  LinksOf(p) \subseteq Pages
  <1>1. p \notin {IndexPage, ColorsPage} => p[2] \in Slugs
    <2>1. \A s \in Slugs : OsPage(s)[2] = s /\ ViewJson(s)[2] = s
      BY DEF OsPage, ViewJson
    <2>2. \A s, h : colorPath(s, h)[2] = s
      BY DEF colorPath
    <2>3. \A x \in Places(source) : source[x[1]].slug \in Slugs
      BY FilesOrdered DEF Slugs
    <2> QED
      BY <2>1, <2>2, <2>3 DEF Pages
  <1>2. LinksOf(p) \in {indexLinks, colorsLinks, {}} \/ (p[2] \in Slugs /\ LinksOf(p) = osLinks(p[2]))
    BY <1>1 DEF LinksOf
  <1> QED
    BY <1>2, IndexResolves, ColorsResolve, SystemResolves

\* Every page is linked, but for the two that are there to start from.
LEMMA PageLinked ==
    ASSUME IsCollection(source), DOMAIN site = Pages, LinkInv, NEW p \in Pages, p \notin {IndexPage, ColorsPage}
    PROVE  \E from \in Pages : p \in LinksOf(from)
  <1>1. IndexPage \in Pages /\ LinksOf(IndexPage) = indexLinks
    BY DEF Pages, LinksOf, IndexPage, ColorsPage
  <1>2. CASE \E s \in Slugs : p = OsPage(s)
    BY <1>1, <1>2 DEF indexLinks
  <1>3. CASE \E s \in Slugs : p = ViewJson(s)
    <2>1. PICK s \in Slugs : p = ViewJson(s)
      BY <1>3
    <2>2. OsPage(s) \in Pages /\ OsPage(s) \notin {IndexPage, ColorsPage}
      <3>1. OsPage(s)[1] # IndexPage[1] /\ OsPage(s)[1] # ColorsPage[1]
        BY DEF OsPage, IndexPage, ColorsPage
      <3> QED
        BY <3>1 DEF Pages
    <2>3. OsPage(s)[2] = s /\ OsPage(s) # ViewJson(s)
      <3>1. Len(OsPage(s)) = 2 /\ Len(ViewJson(s)) = 3
        BY DEF OsPage, ViewJson
      <3> QED
        BY <3>1 DEF OsPage
    <2>4. LinksOf(OsPage(s)) = osLinks(s)
      BY <2>2, <2>3 DEF LinksOf
    <2>5. ViewJson(s) \in osLinks(s)
      BY DEF osLinks
    <2> QED
      BY <2>1, <2>2, <2>4, <2>5
  <1>4. CASE \E x \in Places(source) : p = colorPath(source[x[1]].slug, HexAt(source, x))
    <2>1. PICK x \in Places(source) : p = colorPath(source[x[1]].slug, HexAt(source, x))
      BY <1>4
    <2> DEFINE W == Swatches(source)
               o == FileOrder(source)
    <2>2. PICK k \in 1 .. Cardinality(Places(source)) : o[k] = x
      BY SwatchShape DEF Lists
    <2>3. k \in DOMAIN W /\ W[k] = ColorOf(source, x)
      BY <2>2, SwatchShape
    <2> HIDE DEF W
    <2>4. W[k].os.slug = source[x[1]].slug /\ W[k].hex = HexAt(source, x)
      BY <2>3 DEF ColorOf, swatch, HexAt
    <2>5. p \in indexLinks
      BY <2>1, <2>3, <2>4 DEF indexLinks, ToSet, W
    <2> QED
      BY <1>1, <2>5
  <1> QED
    BY <1>2, <1>3, <1>4 DEF Pages

\* In a finished build no link is dead and no page is lost, for every collection
\* that the schema lets through (catalog.ts:93-101, the three getStaticPaths).
THEOREM NoDeadLinks == Spec => []LinksResolve
  <1>1. AcceptInv /\ RouteInv /\ LinkInv => LinksResolve
    <2> SUFFICES ASSUME AcceptInv, RouteInv, LinkInv, phase = "done" PROVE LinksResolve
      BY DEF LinksResolve
    <2>1. IsCollection(source) /\ Resolved
      BY AcceptedShape DEF AcceptInv, Accepted
    <2>2. DOMAIN site = Pages
      BY AllBuilt
    <2>3. \A p \in Pages : site[p].links = LinksOf(p)
      BY <2>2 DEF LinkInv
    <2> DEFINE links == UNION {site[p].links : p \in DOMAIN site}
    <2>4. links \subseteq Pages
      BY <2>1, <2>2, <2>3, PageResolves
    <2>5. Pages \subseteq links \cup {IndexPage, ColorsPage}
      BY <2>1, <2>2, <2>3, PageLinked
    <2> QED
      BY <2>2, <2>4, <2>5 DEF LinksResolve
  <1> QED
    BY <1>1, AcceptInductive, RouteInductive, LinkInductive, PTL

-----------------------------------------------------------------------------
(* The list of systems.                                                      *)

LEMMA VisitsLeaveBuild == PSpec => Spec
  <1>1. PInit => Init
    BY DEF PInit
  <1>2. [PNext]_<<vars, controls>> => [Next]_vars
    BY DEF PNext
  <1> QED
    BY <1>1, <1>2, PTL DEF PSpec, Spec

SortInv == sort \in Sorts

LEMMA SortInductive == PSpec => []SortInv
  <1>1. PInit => SortInv
    BY DEF PInit, SortInv, Sorts
  <1>2. SortInv /\ [PNext]_<<vars, controls>> => SortInv'
    BY DEF SortInv, PNext, Visit, controls, RunEffect, ClickTrigger, Dismiss, Type, Sort, selectSort,
           SetView, Resize
  <1> QED
    BY <1>1, <1>2, PTL DEF PSpec

\* Scores are numbers, those that a system has not too.
LEMMA ScoresAreNumbers ==
    ASSUME NEW sc \in Snapshots, NEW slug
    PROVE  osScore(sc, slug) \in Int /\ osScore(sc, slug) # NotANumber
  <1>1. CASE sc = loadScores([state |-> "torn"])
    BY <1>1 DEF loadScores, osScore, NotANumber
  <1>2. ASSUME NEW d \in Dumps, sc = loadScores([state |-> "whole", os |-> d.os, colors |-> d.colors])
        PROVE  osScore(sc, slug) \in Int /\ osScore(sc, slug) # NotANumber
    <2>1. sc.os = [k \in {t \in DOMAIN d.os : d.os[t] # NotANumber} |-> d.os[k]]
      BY <1>2 DEF loadScores, parseBucket
    <2>2. d.os \in [DOMAIN d.os -> Int]
      BY BuildAssumption
    <2> QED
      BY <2>1, <2>2 DEF osScore, NotANumber
  <1> QED
    BY <1>1, <1>2 DEF Snapshots

\* An item by what the visitor sorts by.
Key(it) ==
    LET k == CASE sort = "popular" -> 0 - it.score
               [] sort = "year"    -> it.year
               [] sort = "new"     -> 0 - it.added
               [] sort = "alpha"   -> it.name
    IN  IF rev THEN 0 - k ELSE k
Ranks(a, b) == IF rev THEN cmp(b, a) ELSE cmp(a, b)

IsItem(it) == it.score \in Int /\ it.year \in Int /\ it.added \in Int /\ it.name \in Int

LEMMA KeyRanks ==
    ASSUME SortInv, NEW a, NEW b, IsItem(a), IsItem(b)
    PROVE  Key(a) \in Int /\ (Ranks(a, b) <=> Key(a) < Key(b))
  <1>1. CASE sort = "popular"
    BY <1>1 DEF Key, Ranks, cmp, IsItem
  <1>2. CASE sort = "year"
    BY <1>2 DEF Key, Ranks, cmp, IsItem
  <1>3. CASE sort = "new"
    BY <1>3 DEF Key, Ranks, cmp, IsItem
  <1>4. CASE sort = "alpha"
    BY <1>4 DEF Key, Ranks, cmp, IsItem
  <1> QED
    BY <1>1, <1>2, <1>3, <1>4 DEF SortInv, Sorts

\* A list of what is found, each once, in the order asked for, ties by score
\* and then by file.
InOrder(list, found, scores, at) ==
    /\ at \in [DOMAIN list -> found]
    /\ \A i \in found : \E k \in DOMAIN list : at[k] = i
    /\ \A k \in DOMAIN list : list[k] = itemOf(source[at[k]], scores)
    /\ \A k \in DOMAIN list : \A j \in 1 .. k - 1 :
         /\ at[j] # at[k] /\ ~Ranks(list[k], list[j])
         /\ ~Ranks(list[j], list[k]) =>
                \/ list[j].score > list[k].score
                \/ list[j].score = list[k].score /\ at[j] < at[k]

Found(scores) == {i \in DOMAIN source : matches(itemOf(source[i], scores), query)}

\* The list is the collection, sorted by score, filtered and sorted again.
LEMMA ListShape ==
    ASSUME AcceptInv, SortInv, site[IndexPage].scores \in Snapshots
    PROVE  \E at : InOrder(shown, Found(site[IndexPage].scores), site[IndexPage].scores, at)
  <1> DEFINE sc == site[IndexPage].scores
             M == [i \in DOMAIN source |-> itemOf(source[i], sc)]
             found == {i \in DOMAIN source : matches(M[i], query)}
             n == Len(source)
             byScore == {p \in (DOMAIN M) \X (DOMAIN M) : M[p[1]].score > M[p[2]].score}
             B == SortedBy(M, byScore)
             I == {k \in DOMAIN B : matches(B[k], query)}
             F == ItemsAt(B, I)
             byKey == {p \in (DOMAIN F) \X (DOMAIN F) : Ranks(F[p[1]], F[p[2]])}
             L == SortedBy(F, byKey)
  <1>1. shown = L
    <2>1. items = B
      BY DEF items, platformItems, StableSort, MapSeq
    <2>2. shown = StableSort(F, Ranks)
      BY <2>1 DEF shown, Filter, Ranks
    <2> HIDE DEF F
    <2> QED
      BY <2>2 DEF StableSort
  <1>2. /\ n \in Nat /\ DOMAIN source = 1 .. n
        /\ \A i \in 1 .. n : source[i].name \in Int /\ source[i].year \in Int /\ source[i].added \in Int
    <2>1. IsCollection(source)
      BY BuildAssumption DEF AcceptInv
    <2>2. n \in Nat /\ DOMAIN source = 1 .. n
      BY <2>1, SeqShape DEF IsCollection
    <2> QED
      BY <2>1, <2>2 DEF IsCollection
  <1>3. IsSeq(M) /\ Len(M) = n /\ DOMAIN M = 1 .. n
    <2>1. M = [i \in 1 .. n |-> M[i]]
      BY <1>2
    <2> HIDE DEF M
    <2> QED
      BY <1>2, <2>1, FunctionIsSeq
  <1>4. \A i \in 1 .. n : IsItem(M[i])
    <2> TAKE i \in 1 .. n
    <2>1. M[i].score = osScore(sc, source[i].slug)
      BY <1>2 DEF itemOf
    <2>2. M[i].name = source[i].name /\ M[i].year = source[i].year /\ M[i].added = source[i].added
      BY <1>2 DEF itemOf
    <2>3. M[i].score \in Int
      BY <2>1, ScoresAreNumbers
    <2> QED
      BY <1>2, <2>2, <2>3 DEF IsItem
  <1>5. \A i \in 1 .. n : i \in found <=> matches(M[i], query)
    BY <1>2
  <1>6. found \subseteq 1 .. n /\ found = Found(sc)
    BY <1>2 DEF Found
  <1>7. \A i \in 1 .. n : M[i] = itemOf(source[i], sc)
    BY <1>2
  <1> HIDE DEF M, found
  <1>8. Comparison(DOMAIN M, byScore)
    <2> DEFINE K == [i \in 1 .. n |-> 0 - M[i].score]
    <2>1. \A i \in 1 .. n : K[i] \in Int
      BY <1>4 DEF IsItem
    <2>2. \A i, j \in 1 .. n : <<i, j>> \in byScore <=> M[i].score > M[j].score
      BY <1>3
    <2>3. \A i, j \in 1 .. n : M[i].score > M[j].score <=> K[i] < K[j]
      BY <1>4 DEF IsItem
    <2> HIDE DEF K, byScore, n
    <2>4. \A i, j \in 1 .. n : <<i, j>> \in byScore <=> K[i] < K[j] \/ (K[i] = K[j] /\ K[i] < K[j])
      BY <2>1, <2>2, <2>3
    <2>5. Comparison(1 .. n, byScore)
      BY <2>1, <2>4, KeysCompare
    <2> QED
      BY <1>3, <2>5
  <1>9. \A i, j \in 1 .. n : <<i, j>> \in byScore <=> M[i].score > M[j].score
    BY <1>3
  <1> HIDE DEF byScore
  <1>10. PICK a : Arranged(B, M, byScore, a)
    BY <1>3, <1>8, SortShape
  <1> HIDE DEF B
  <1>11. /\ IsSeq(B) /\ DOMAIN B = 1 .. n
         /\ \A k \in 1 .. n : a[k] \in 1 .. n /\ B[k] = M[a[k]]
         /\ \A i \in 1 .. n : \E k \in 1 .. n : a[k] = i
         /\ \A j, k \in 1 .. n : a[j] = a[k] => j = k
         /\ \A j, k \in 1 .. n : j < k => ~ (M[a[k]].score > M[a[j]].score) /\ (M[a[j]].score > M[a[k]].score \/ a[j] < a[k])
    <2>1. /\ IsSeq(B) /\ DOMAIN B = 1 .. n
          /\ \A k \in 1 .. n : a[k] \in 1 .. n /\ B[k] = M[a[k]]
          /\ \A i \in 1 .. n : \E k \in 1 .. n : a[k] = i
          /\ \A j, k \in 1 .. n : a[j] = a[k] => j = k
          /\ \A j, k \in 1 .. n : j < k => <<a[k], a[j]>> \notin byScore /\ (<<a[j], a[k]>> \in byScore \/ a[j] < a[k])
      BY <1>3, <1>10 DEF Arranged, Picks
    <2> QED
      BY <1>9, <2>1
  <1>12. I \in SUBSET (DOMAIN B) /\ \A k \in 1 .. n : k \in I <=> a[k] \in found
    <2>1. \A k \in 1 .. n : matches(B[k], query) <=> a[k] \in found
      BY <1>5, <1>11
    <2> QED
      BY <1>11, <2>1
  <1> HIDE DEF I
  <1>13. PICK b : Filtered(F, B, I, b)
    BY <1>11, <1>12, FilterShape
  <1> HIDE DEF F
  <1> DEFINE m == Len(F)
  <1>14. /\ IsSeq(F) /\ m \in Nat /\ DOMAIN F = 1 .. m
         /\ \A k \in 1 .. m : b[k] \in 1 .. n /\ b[k] \in I /\ F[k] = B[b[k]]
         /\ \A i \in I : \E k \in 1 .. m : b[k] = i
         /\ \A j, k \in 1 .. m : b[j] = b[k] => j = k
         /\ \A j, k \in 1 .. m : j < k <=> b[j] < b[k]
    BY <1>11, <1>13 DEF Filtered, Picks
  <1>15. \A k \in 1 .. m : IsItem(F[k]) /\ F[k] = M[a[b[k]]]
    <2> TAKE k \in 1 .. m
    <2>1. b[k] \in 1 .. n /\ F[k] = B[b[k]]
      BY <1>14
    <2>2. a[b[k]] \in 1 .. n /\ B[b[k]] = M[a[b[k]]]
      BY <1>11, <2>1
    <2> QED
      BY <1>4, <2>1, <2>2
  <1>16. \A i, j \in 1 .. m : <<i, j>> \in byKey <=> Ranks(F[i], F[j])
    BY <1>14
  <1> HIDE DEF byKey, m
  <1>17. Comparison(DOMAIN F, byKey)
    <2> DEFINE K == [i \in 1 .. m |-> Key(F[i])]
    <2>1. \A i \in 1 .. m : K[i] \in Int
      BY <1>15, KeyRanks
    <2>2. \A i, j \in 1 .. m : <<i, j>> \in byKey <=> K[i] < K[j]
      BY <1>15, <1>16, KeyRanks
    <2> HIDE DEF K
    <2>3. \A i, j \in 1 .. m : <<i, j>> \in byKey <=> K[i] < K[j] \/ (K[i] = K[j] /\ K[i] < K[j])
      BY <2>1, <2>2
    <2>4. Comparison(1 .. m, byKey)
      BY <2>1, <2>3, KeysCompare
    <2> QED
      BY <1>14, <2>4
  <1>18. PICK c : Arranged(L, F, byKey, c)
    BY <1>14, <1>17, SortShape
  <1> HIDE DEF L
  <1>19. /\ IsSeq(L) /\ DOMAIN L = 1 .. m
         /\ \A k \in 1 .. m : c[k] \in 1 .. m /\ L[k] = F[c[k]]
         /\ \A i \in 1 .. m : \E k \in 1 .. m : c[k] = i
         /\ \A j, k \in 1 .. m : c[j] = c[k] => j = k
         /\ \A j, k \in 1 .. m : j < k => <<c[k], c[j]>> \notin byKey /\ (<<c[j], c[k]>> \in byKey \/ c[j] < c[k])
    BY <1>14, <1>18 DEF Arranged, Picks, m
  <1> DEFINE at == [k \in 1 .. m |-> a[b[c[k]]]]
  <1>20. \A k \in 1 .. m : /\ at[k] = a[b[c[k]]] /\ c[k] \in 1 .. m /\ b[c[k]] \in 1 .. n
                           /\ at[k] \in found /\ at[k] \in 1 .. n /\ L[k] = M[at[k]]
    <2> TAKE k \in 1 .. m
    <2>1. c[k] \in 1 .. m /\ L[k] = F[c[k]]
      BY <1>19
    <2>2. b[c[k]] \in 1 .. n /\ b[c[k]] \in I /\ F[c[k]] = M[a[b[c[k]]]]
      BY <1>14, <1>15, <2>1
    <2> QED
      BY <1>11, <1>12, <2>1, <2>2
  <1>21. \A i \in found : \E k \in 1 .. m : at[k] = i
    <2> TAKE i \in found
    <2>1. PICK x \in 1 .. n : a[x] = i
      BY <1>6, <1>11
    <2>2. PICK y \in 1 .. m : b[y] = x
      BY <1>12, <1>14, <2>1
    <2>3. PICK k \in 1 .. m : c[k] = y
      BY <1>19
    <2> QED
      BY <2>1, <2>2, <2>3
  <1> HIDE DEF at
  <1>22. ASSUME NEW k \in 1 .. m, NEW j \in 1 .. k - 1
         PROVE  /\ at[j] # at[k] /\ ~Ranks(L[k], L[j])
                /\ ~Ranks(L[j], L[k]) =>
                       \/ L[j].score > L[k].score
                       \/ L[j].score = L[k].score /\ at[j] < at[k]
    <2>1. j \in 1 .. m /\ j < k
      BY <1>14
    <2>2. at[j] # at[k]
      <3>1. c[j] # c[k]
        BY <1>14, <1>19, <2>1
      <3>2. b[c[j]] # b[c[k]]
        BY <1>14, <1>20, <2>1, <3>1
      <3>3. b[c[j]] \in 1 .. n /\ b[c[k]] \in 1 .. n /\ at[j] = a[b[c[j]]] /\ at[k] = a[b[c[k]]]
        BY <1>20, <2>1
      <3>4. \A x, y \in 1 .. n : a[x] = a[y] => x = y
        BY <1>11
      <3>5. a[b[c[j]]] # a[b[c[k]]]
        BY <3>2, <3>3, <3>4
      <3> QED
        BY <3>3, <3>5
    <2>3. ~Ranks(L[k], L[j])
      <3>1. <<c[k], c[j]>> \notin byKey
        BY <1>19, <2>1
      <3> QED
        BY <1>16, <1>19, <2>1, <3>1
    <2>4. ASSUME ~Ranks(L[j], L[k])
          PROVE  L[j].score > L[k].score \/ (L[j].score = L[k].score /\ at[j] < at[k])
      <3>1. <<c[j], c[k]>> \notin byKey
        BY <1>16, <1>19, <2>1, <2>4
      <3>2. c[j] < c[k]
        BY <1>19, <2>1, <3>1
      <3>3. b[c[j]] < b[c[k]]
        BY <1>14, <1>20, <2>1, <3>2
      <3>4. ~ (M[at[k]].score > M[at[j]].score) /\ (M[at[j]].score > M[at[k]].score \/ at[j] < at[k])
        <4>1. b[c[j]] \in 1 .. n /\ b[c[k]] \in 1 .. n /\ at[j] = a[b[c[j]]] /\ at[k] = a[b[c[k]]]
          BY <1>20, <2>1
        <4>2. \A x, y \in 1 .. n : x < y => ~ (M[a[y]].score > M[a[x]].score) /\ (M[a[x]].score > M[a[y]].score \/ a[x] < a[y])
          BY <1>11
        <4>3. ~ (M[a[b[c[k]]]].score > M[a[b[c[j]]]].score) /\ (M[a[b[c[j]]]].score > M[a[b[c[k]]]].score \/ a[b[c[j]]] < a[b[c[k]]])
          BY <3>3, <4>1, <4>2
        <4> QED
          BY <4>1, <4>3
      <3>5. M[at[k]].score \in Int /\ M[at[j]].score \in Int
        BY <1>4, <1>20, <2>1 DEF IsItem
      <3> QED
        BY <1>20, <2>1, <3>4, <3>5
    <2> QED
      BY <2>2, <2>3, <2>4
  <1>23. at \in [DOMAIN L -> found]
    BY <1>19, <1>20 DEF at
  <1>24. \A k \in DOMAIN L : L[k] = itemOf(source[at[k]], sc)
    BY <1>7, <1>19, <1>20
  <1>25. InOrder(L, found, sc, at)
    <2>1. \A k \in DOMAIN L : k \in 1 .. m
      BY <1>19
    <2> QED
      BY <1>19, <1>21, <1>22, <1>23, <1>24, <2>1 DEF InOrder
  <1> QED
    BY <1>1, <1>6, <1>25

\* However the list was baked, searched, sorted and turned, it shows every match
\* once and in the order asked for, and by numbers (PlatformControls.tsx:47-66).
THEOREM ListStaysInOrder == PSpec => []ListedInOrder
  <1>1. BuildInv /\ AcceptInv /\ RouteInv /\ SortInv => ListedInOrder
    <2> SUFFICES ASSUME BuildInv, AcceptInv, RouteInv, SortInv, phase = "done" PROVE ListedInOrder
      BY DEF ListedInOrder
    <2>1. IndexPage \in DOMAIN site
      BY AllBuilt DEF Pages
    <2>2. site[IndexPage].scores \in Snapshots
      BY <2>1 DEF BuildInv, MemoInv
    <2>3. PICK at : InOrder(shown, Found(site[IndexPage].scores), site[IndexPage].scores, at)
      BY <2>2, ListShape
    <2>4. \A k \in DOMAIN shown : shown[k].score # NotANumber
      <3> SUFFICES ASSUME NEW k \in DOMAIN shown PROVE shown[k].score # NotANumber
        OBVIOUS
      <3>1. shown[k] = itemOf(source[at[k]], site[IndexPage].scores)
        BY <2>3 DEF InOrder
      <3>2. shown[k].score = osScore(site[IndexPage].scores, source[at[k]].slug)
        BY <3>1 DEF itemOf
      <3> QED
        BY <2>2, <3>2, ScoresAreNumbers
    <2> QED
      BY <2>3, <2>4 DEF InOrder, Found, Ranks, ListedInOrder
  <1> QED
    BY <1>1, VisitsLeaveBuild, BuildInductive, AcceptInductive, RouteInductive, SortInductive, PTL

-----------------------------------------------------------------------------
(* The menu and its listeners on the document.                               *)

MenuInv == due \in BOOLEAN /\ MenuListens

\* A render runs the effect of the render before it, and is owed one of its own
\* if the menu opens or closes.
LEMMA RenderKeeps ==
    ASSUME MenuInv, NEW o, RenderMenu(o)
    PROVE  MenuInv'
  <1>1. due' \in BOOLEAN
    BY DEF RenderMenu
  <1>2. ASSUME ~due' PROVE listening' = open'
    <2>1. open' = open
      BY <1>2 DEF RenderMenu
    <2>2. CASE due
      BY <2>1, <2>2 DEF RenderMenu
    <2>3. CASE ~due
      BY <2>1, <2>3 DEF RenderMenu, MenuInv, MenuListens
    <2> QED
      BY <2>2, <2>3
  <1> QED
    BY <1>1, <1>2 DEF MenuInv, MenuListens

LEMMA MenuInductive == PSpec => []MenuInv
  <1>1. PInit => MenuInv
    BY DEF PInit, MenuInv, MenuListens
  <1>2. MenuInv /\ [PNext]_<<vars, controls>> => MenuInv'
    <2> SUFFICES ASSUME MenuInv, [PNext]_<<vars, controls>> PROVE MenuInv'
      OBVIOUS
    <2>1. CASE RunEffect
      BY <2>1 DEF RunEffect, MenuInv, MenuListens
    <2>2. CASE ClickTrigger
      BY <2>2, RenderKeeps DEF ClickTrigger
    <2>3. CASE Dismiss
      BY <2>3, RenderKeeps DEF Dismiss
    <2>4. CASE Type
      BY <2>4, RenderKeeps DEF Type
    <2>5. CASE Sort
      BY <2>5, RenderKeeps DEF Sort
    <2>6. CASE SetView
      BY <2>6, RenderKeeps DEF SetView
    <2>7. CASE Resize
      BY <2>7, RenderKeeps DEF Resize
    <2>8. CASE UNCHANGED controls
      BY <2>8 DEF controls, menu, MenuInv, MenuListens
    <2> QED
      BY <2>1, <2>2, <2>3, <2>4, <2>5, <2>6, <2>7, <2>8 DEF PNext, Visit
  <1> QED
    BY <1>1, <1>2, PTL DEF PSpec

\* Once the effect of its render has run, the menu listens on the document just
\* when it is open, whatever was clicked, typed or resized meanwhile
\* (Dropdown.tsx:19-33).
THEOREM MenuInStep == PSpec => []MenuListens
  <1>1. MenuInv => MenuListens
    BY DEF MenuInv
  <1> QED
    BY <1>1, MenuInductive, PTL
=============================================================================
