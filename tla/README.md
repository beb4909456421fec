# Verification of desktopcolors

desktopcolors.com is a static site about the desktop background colors of
classic operating systems, with a small Go service that counts which colors are
copied, and a script that rebuilds and publishes the site every hour. This
directory holds TLA+ models of its moving parts, the TLC configurations that
check them on small instances, and proofs, checked by TLAPS, of what matters
most about them for every size.

Paths below are relative to the repository (its frontend is under `src/`; where
no path is ambiguous only the file is named).

## 1. The system

| Part | Code | State | Operations |
|---|---|---|---|
| Rate limiter | `counter/internal/ratelimit/limiter.go` | map of buckets keyed by a salted hash of the subnet; the salt and its day | `Allow`, `Sweep`, `rotateSalt` |
| Scoring rules | `counter/internal/scoring/scoring.go` | none | `Validate` |
| Score store | `counter/internal/store/store.go` | two SQLite tables, one connection | `Apply`, `Dump`, `Open`, `Close` |
| HTTP server | `counter/internal/server/server.go` | handlers in flight | `handleEvent`, `handleHealth`, `clientIP` |
| Processes of the counter | `counter/main.go` | `serve` (sweeper, shutdown), `dump` (`scores.json`) | start, stop, dump |
| Deployment | `deploy/rebuild.sh` | checkout, `node_modules`, hash of the lockfile, installed and running counter, `releases/`, `current`, lock, failure marker | one run from fetch to prune, its traps |
| Build of the site | `src/content/config.ts`, `src/lib/entries.ts`, `catalog.ts`, `loadCatalog.ts`, `osDetail.ts`, `links.ts`, `src/pages/` | the memo of the catalog, the cache of details, the pages rendered | schema, `getStaticPaths`, rendering |
| Derived data | `src/lib/derive.ts`, `detail.ts`, `colorCatalog.ts`, `scores.ts` | none: computed from `content/os/*.json` and `scores.json` | similar colors, known uses, merged colors, era peers, scores |
| Source notes | `src/lib/sourceNote.ts`, `src/islands/SourceNote.tsx` | none | tokenizer, check of the schema, rendering |
| Platform list | `src/islands/PlatformControls.tsx`, `Dropdown.tsx`, `src/pages/index.astro` | search, sort, direction, view; the menu and its listeners | typing, sorting, opening and dismissing |
| Page of all colors | `src/islands/Colors.tsx`, `src/lib/colorCatalog.ts` | search, facets, picked systems, infobox, preview, sheet | every control of the page |
| Page of a system | `src/islands/OsDetail.tsx`, `ColorInfobox.tsx`, `src/lib/detail.ts` | selection, details by color, fetch, address bar, similar color, overlays, copied labels and timers | clicks, effects, the answer of the fetch, timers |
| Drawing of desktops | `src/islands/DesktopPreview.tsx`, `FullscreenPreview.tsx`, `src/lib/chromeSpec.ts` | selection, full screen | resizing, the arrows, opening and closing |
| Colors and their inks | `src/lib/color.ts` | none | HSL, CMYK, families, tags, luminance, contrast |
| Other islands, RAL tables, templates, host configuration | see section 6 | little or none | not modelled |

How they interact. A page sends an event to the HTTP server, which asks the
limiter, validates, and applies one transaction to the store. A deployment run
(timer or by hand) fetches the release branch, installs dependencies, rebuilds
and restarts the counter, runs `counter dump`, builds the site, which reads the
dump through `loadScores`, and flips `current`. nginx serves what `current`
names; a page bakes in the details of one color and fetches the others from
`view.json`, which is cached for itself and may be of another release.

What is hard in it:

- *Concurrency*: handlers share one connection; the sweeper runs beside
  requests; a dump reads while the server commits and writes while a build
  reads; two deployment runs overlap; in the browser, effects run after the
  paint, so a click can come first, and timers of several clicks run at once.
- *Failure*: any command of the script may fail; TERM and SIGKILL can hit a run
  anywhere; the server may crash or be shut down with handlers in flight; a dump
  may die with `scores.json` truncated; `rm -rf` may stop half way.
- *Order and time*: the wall clock may be set back (salts, names of releases);
  refill is lazy; files are replaced by rename.
- *Long sequences of legal steps*: picks, facets and greyed-out options on the
  page of colors; a failed run, a revert and another run in the deployment.
- *Numbers*: rounding of color values, inks at the color where they change
  places, panels placed by percentages of a box they do not measure.

`PROJECT.json` lists each such place as a hazard, with its line and the
properties that watch it.

### What makes each part correct

- Limiter: a subnet never gets more than its allowance in any window; a salt
  never hashes addresses on two days, and no key outlives its salt.
- Counter: an event is counted whole, at most once, and the answer is true;
  every request ends; a dump is consistent; no point is lost.
- Deployment: visitors see whole versions that never go back; a run that
  reports success has published its push; retention removes only what it
  should; leftovers are swept; the failure marker is honest; every run ends.
- Build: all pages of a release show one dump; links lead to pages that exist; a
  note that is accepted renders whole; every color is listed once, named by a rule.
- Platform list: every match once, in the promised order; the menu can be
  closed; the similar colors are the nearest ones.
- Page of colors: two readings of one list agree; counts and greyed-out options
  tell the truth; the preview stays in its list.
- Page of a system: selection, address, details and similar colors belong
  together under every order of clicks, effects and answers; no label stays.
- Drawing: parts keep clear of each other, text is legible on any wallpaper, and
  the values a visitor copies are the color.

## 2. The modules

| Module | Models | Composes |
|---|---|---|
| `TokenBucket` | what the limiter promises: allowances per subnet | |
| `RateLimiter` | `limiter.go`, both clocks, an observer's window | implements `TokenBucket` |
| `ScoreLedger` | what the counter promises: events counted whole or refused | |
| `Counter` | server, scoring, store and processes of the counter | implements `ScoreLedger` |
| `PublishedSite` | what visitors may rely on | |
| `Rebuild` | `rebuild.sh` with overlapping runs and faults | implements `PublishedSite` |
| `Js` | `%`, `filter`, the stable sort and dedupe as JavaScript has them | |
| `Catalog` | derived data: similar and merged colors, known uses, peers, scores, list items | uses `Js` |
| `SourceNote` | the tokenizer of source notes, its two readers | |
| `Build` | schema, routes, links, memos, and a dump beside the build | extends `Catalog`, `SourceNote` |
| `Platforms` | the platform list and its menu, on the page that a build made | extends `Build` |
| `Colors` | the page of all colors | uses `Js` |
| `OsDetail` | the page of a system, its wire format and fetch | extends `Catalog` |
| `CopyLabels` | the copied rows of that page and of the infobox, their timers | extends `OsDetail` |
| `ColorMath` | the numbers of `color.ts` | |
| `Desktop` | the boxes and inks of the mock desktops, full screen | extends `ColorMath` |
| `Catalog_proofs` | lemmas about the arrays of `Js` and the functions of `Catalog` | extends `Catalog` |
| `RateLimiter_proofs`, `Counter_proofs`, `Rebuild_proofs`, `Platforms_proofs`, `Colors_proofs`, `OsDetail_proofs`, `Desktop_proofs` | theorems | extend their modules; `Platforms_proofs` is about `Build`, `OsDetail_proofs` about `CopyLabels` too; these two and `Colors_proofs` use the lemmas of `Catalog_proofs` |
| `MC*` | instances for TLC | |

An operator whose name is that of another one with a suffix (`loadCatalog_Again`)
is that definition with a plausible bug. Nothing uses it: `PROJECT.json` pairs it
with the property that catches it.

### RateLimiter

`buckets` is the map, keyed by `<<salt, subnet>>` in place of the hash of both;
`salt` is a serial number, since every salt is fresh; `saltDay` is
`saltYD`/`saltYear`. `Allow` is the whole method: rotation if due, lookup or
creation, refill, the decision. `Sweep` drops what has been idle for longer than
`maxIdle` (strictly). Tokens are counted in fractions (`Unit` of them make one
token), where the code has a float64. `now` (monotonic) and `today` (wall clock)
are separate, as in Go; `today` may move in either direction. The lock held over
the whole of each method makes each an atomic step. `OpenWindow` and the `win…`
variables belong to an observer and influence nothing.

### Counter

A handler is a program counter with a step for each call that can block or
fail: `Arrive`, `Limit` (the decision is left open: 429 or on), `Decode`
(parsing and `Validate`), `Begin` (waits for the one connection),
`ExecColor`, `ExecOs`, `Commit`, `Reply`. `view` is what the open transaction
sees, `db` what is committed. `Stop`, `ShutdownReturns`, `Exit`, `Crash` and
`Start` are the process under `Restart=always`; `ShutdownReturns` may happen
with handlers still in flight, which is the five-second timeout. The dump reads
the two tables in two steps, each of what is committed then, truncates the file
and writes it. Hex strings are a color and the case of its digits, so lowering
the case is modelled by what it does.

### Rebuild

Every run has a program counter over the steps of the script; each command that
can fail is a step, and `Fail`, `Term`, `Kill` may happen between any two.
`TermEarly` and `TermLate` are the two short gaps in which a TERM meets no
traps or ends the cleanup. An exit runs `Clean` (the sweep) and `Mark` (the
marker). Releases are stamps with what was built into them; `torn` are the ones
an `rm -rf` left in part; `stage` and `link` are the staging tree and
`current.tmp`. Faults are rationed by `MaxFaults`, pushes by `MaxPush`, releases
by `MaxStamp`. The dump of the scores cannot stop a run (a failure is logged,
`rebuild.sh:334`), so it is in `Counter`, as the database sees it, and in
`Build`, as the pages do.

### Catalog, SourceNote and Build

`Catalog` has no state: `defaultColor`, `similarColors`, `dedupeSimilarByHex`,
`platformsByHex`, `similarOf`, `mergeColorsByHex`, `eraPeers`, `osScore`,
`colorScore` and `buildOsDetail` are the functions of the same names,
`loadScores` gives the scores of an absent, torn or whole file with the entries
that are no numbers left out, `platformItems` is the list that `index.astro`
bakes. Distances in OKLab are a constant table, in thousandths of the 0.4 at
which a match is 0 %; `match` rounds as the code does. Names are numbers in the
order of `localeCompare`; `says` is the set of searches that occur in a name or a
family.

`SourceNote` has no state either. A text is a sequence of characters, of which
the two brackets and the backtick mean something. The tokenizer is a recursive
function of one position, where a literal run may begin: the loop of the code goes
on from there to the next delimiter that closes, flushes what is before it, takes
the token and starts again behind it. `RightStarts` is the reference it
is checked against: it says which positions start a marker or a code, without
saying how to find them. `Inherited` are the labels that `in` finds on every
JavaScript object.

`Build` starts from a collection that may break the schema (`Reject`), from
references that may name nothing (`Routes`, where `buildCatalog` throws), and
renders the pages of `getStaticPaths` one by one. `catalog` and `cache` are the
memos of `loadCatalog.ts` and `osDetail.ts`, of which only the scores they were
made with are kept; `site` has of every page its scores and its links.
`DumpTruncate`, `DumpWrite` and `DumpDies` are a `counter dump`: the run's own, which
comes before the build and may leave a torn file to it (`rebuild.sh:334`), or one
started by hand, which the build does not wait for.

### Platforms

The page of the list is one of the pages of `Build`, and what it was rendered
with (`site`) is what the visitor sees, whatever has become of `scores.json`
since. An action for each control. A handler and its render are one step, as in Preact,
which renders before the next event. The effect of the menu is `due` after a
render that changed `open`, and runs by itself (`RunEffect`) or at the start of
the next render (`RenderMenu`), with the value it was made with.

### Colors

One action per control; what the grid shows, the counts and the greyed-out
options are operators with the names of the functions in `colorCatalog.ts`. A
color is its number in the catalog, so ties of the stable sort are decided by
`<`. The preview and the sheet are fixed layers over the page that take no focus
(`FullscreenPreview.tsx:28`, `DownloadSheet.tsx:49`): every control beneath them
stays in reach of the keyboard, so no action asks whether one is open, and the
preview goes on with the copy of the list it was opened with (`Colors.tsx:101`).

### OsDetail and CopyLabels

`pending` says that the effects of the last render have not run yet;
`RunEffects` runs them, and every other step that renders runs them first.
No action asks whether an overlay is open, since none takes the focus. (The rows of
the list and the similar colors are no buttons, so under an overlay the model lets
the visitor do more than the keyboard does.)
`Fetched(r)` is the answer with the view.json of release `r`, `FetchFails` the
other outcome. The page is built by `bootstrapFromView` and the answer goes
through `normalizeDetails` and `denormalizeDetails`, all over what
`buildOsDetail` computes from the content of a release.

`CopyLabels` adds the label that says "Copied" on a row of the page (`copied`) or
of the infobox (`infoCopied`) and the timers that take it away, in the order they
were set. The page's timer clears whatever row is labelled (`FirePage`,
`OsDetail.tsx:166`); the infobox's clears its own row only (`FireInfo`,
`ColorInfobox.tsx:44`). The infobox is one component whatever color it shows: its
label goes with it, not with the color.

### ColorMath and Desktop

`ColorMath` has the functions of `color.ts` over colors of three bytes, with the
exact quotient where the code has a float. Two things in it are irrational: the
gamma curve is a table (`Linear`), and OKLCH an argument of `colorTypes`.

`Desktop` draws each of the 15 styles as the rectangles its parts cover
(`CHROME_SPECS` is the table of `chromeSpec.ts`, `rects` the placement of
`DesktopPreview.tsx`), in hundredths of `cu`, the unit all lengths of the drawing
are given in. `box` is the preview inside the page, one column under 760 px and
two above, or the window in full screen. `chromeSurfaces` and `surfaces` are the
films over the wallpaper that text is written on. The visitor resizes, chooses a
color, opens and closes the full-screen preview and walks through the palette.

## 3. The runs

| Run | Instance | States | What it shows |
|---|---|---|---|
| `limiter` | 3 addresses in 2 subnets, 3 days of which 2 share their day of the year, 3 ticks, 2 day changes, 1 window | 752,946 | `TypeOK`, `WindowBound`, `KeysOfCurrentSalt`, `OneDayPerSalt`, refinement of `TokenBucket` |
| `counter` | 2 requests, 5 kinds of body, 1 death or stop, 1 dump | 163,678 | `LedgerExact`, `HeardIsSo`, `DumpConsistent`, `EveryRequestEnds`, refinement of `ScoreLedger` |
| `rebuild` | 2 runs, 2 pushes, 3 stamps, 2 faults of 5 kinds, Keep = 1, symmetry over runs | 918,056 | `TypeOK`, `SiteWhole`, `LeftoversSwept`, `SuccessIsDeployed`, `Retention`, `MarkerOnlyByEndedRuns`, refinement of `PublishedSite` |
| `rebuild_live` | 2 runs, 2 pushes, 1 fault of 6 kinds, a counter that does not serve | 124,301 | `RunsEnd` |
| `build` | every note of up to 4 characters of 5 classes and two longer ones, each with every choice among 3 links; lines of 3 systems; entries the schema rejects; two files with one slug; 2 possible dumps, 1 during the build | 212,502 | `OneSnapshot`, `LinksResolve`, `NotesTrue`, `MergedTrue` |
| `colors` | 4 colors, 2 families, 3 systems, 4 searches; `MCBound` while an overlay is open | 38,788 | `BandsAreRanking`, `CountsTrue`, `OptionsHonest`, `FamToggleUndoes`, `PreviewWhole` |
| `os_detail` | a palette of 4 with a color twice, 2 releases that list the same colors, 2 rows to copy, 2 timers or overlays at a time (`MaxBusy`) | 94,078 | `SeedIsSelected`, `DetailsStable`, `ReloadKeepsSelection`, `SimPanelOfSelected`, `FetchedIsWhole`, `LabelsExpire` |
| `platforms` | 6 contents of 3 systems, one of which has a slug twice, a dump before, during or after the build, 4 searches | 23,212 | `ListedInOrder`, `MenuListens`, `SimilarNearest` |
| `desktop` | 8 windows, 15 styles, 125 palettes of 3 colors | 90,000 | `TypeOK`, `ChromeClear`, `InkLegible`, `ValuesTrue` |
| `rebuild_stale_service`, `rebuild_deps`, `os_detail_skew` | as small as the disagreement allows | | see section 5 |

Every property has a mutant in `PROJECT.json`: a plausible bug in one definition
that makes it fail. A `TypeOK` is checked where it says more than kinds: that
tokens stay in their bucket, that a release that is copied exists, that the
arrows stay in the palette.

Why the bounds are enough.

- *Limiter*: two ticks fill a bucket and the sweeper needs three, so a window
  holds an emptied, a refilled and a swept bucket; the theorems of section 4 hold
  without the bounds.
- *Counter*: two requests suffice for two transactions to meet at the connection,
  for a commit between the two reads of a dump, and for one color under both
  spellings; the bodies include one for each way through `Validate` and `Decode`.
- *Rebuild*: two runs are needed for contention, two pushes for a site to go back,
  three stamps for a collision of names and something to prune with Keep = 1, two
  faults for a failure during the recovery from another.
- *Build*: in a text of four characters a marker and a code can be empty, open
  without closing, hold the opener or the closer of the other, and follow on each
  other; the longer texts have two of them. Three systems make a line with both
  ends, with a name in it that is no system, and share colors as default and not,
  under one name and under two. One dump can come, or die, before, between and
  after the reads of a build. What the properties say of references and scores, of
  links and merged colors is proved for any collection and number of dumps; how a
  note is cut into tokens is not, so the notes are where the run is exhaustive.
- *Colors*: the catalog has, besides ties, a pair of systems of one family with no
  color in common, a color that is a default on one system only, and searches by
  name, family and year. With no overlay every combination of the controls occurs.
  While one is open, `MCBound` leaves the panel of systems as it is at the start
  and of a search, a type and a second overlay one at a time, besides the views,
  the families and the infobox: enough to reorder, shorten and empty the page
  under a preview. Theorem `PreviewStays` has no such bound.
- *OsDetail*: the default color is not the first one, a color occurs twice, and the
  second release has other similar colors and uses. Two timers are what it takes
  for one to fire on another's label; the bound counts overlays with them, so that
  there is also a timer with an overlay, and one overlay opened under another.
- *Platforms*: palettes share colors, repeat one, lack a default or differ by less
  than a rounded per cent; systems tie by score and by year; the limit before
  duplicates go cuts in some contents and not in others; the theorems hold for
  every collection.
- *Desktop*: the windows are a telephone both ways, both sides of the 760 px at
  which the layout changes, a tablet, the largest at which the preview still grows,
  and larger ones; labels wrap, which is the larger case. The channels
  0, 87, 123, 184 and 253, and 2 more, reach every sixth of the hues, the greys and
  both sides of the color where the inks change places.

Fairness. `Counter` assumes weak fairness of each handler, of `Start`,
`ShutdownReturns` and `Exit`, and of the dump: goroutines and processes that can
run are scheduled, `Shutdown` has a timeout, systemd restarts. `Begin` gets by
with weak fairness because there the alternative of an error keeps it enabled
whenever the connection is free, and requests are finitely many. `Rebuild`
assumes that a run that has started keeps executing (`WF` of `Proceed`), and
neither that one starts nor that anything fails. `CopyLabels` assumes that the
browser fires every timer in the end (`WF` of `FirePage` and `FireInfo`), and
nothing of the visitor, the effects or the network. The other specifications
state safety only. Deadlock is not checked in `counter` and `build`, which stop
when the requests, or the pages and dumps, are used up.

## 4. The theorems

All are checked by `tlapm`, with the backends SMT, Zenon and LS4. Each module's
constants are arbitrary but for its named `ASSUME`s, which TLC evaluates in the
run of that module.

| Module | Obligations | Theorems, with the property each states |
|---|---|---|
| `RateLimiter_proofs` | 744 | `TypeCorrect`, `WindowBounded` (`WindowBound`), `NoStaleKeys` (`KeysOfCurrentSalt`), `SaltRotates` (`OneDayPerSalt`), `Refinement` (`ImplementsTokenBucket`) |
| `Counter_proofs` | 955 | `PointsExact` (`LedgerExact`), `ToldTheTruth` (`HeardIsSo`), `DumpsBalance` (`DumpConsistent`), `NeverAhead` (`DumpBehind`, of `DumpConsistent`), `Refinement` (`ImplementsLedger`), `HandlersGoOnward` |
| `Rebuild_proofs` | 1885 | `TypeCorrect`, `AlwaysWhole` (`SiteWhole`), `Refinement` (`ImplementsSite`), `MarkerTrue` (`MarkerOnlyByEndedRuns`), `NothingLeft` (`LeftoversSwept`), `SuccessTrue` (`SuccessIsDeployed`), `KeepsFew` (`Retention`), `RunsGoOnward` |
| `Catalog_proofs` | 1420 | lemmas only |
| `Platforms_proofs` | 1897 | `OneDumpPerRelease` (`OneSnapshot`), `NoDeadLinks` (`LinksResolve`), `SimilarAreNearest` (`SimilarNearest`), `MergedIsTrue` (`MergedTrue`), `NotesAreLinked` (`NotesLinked`, of `NotesTrue`), `NotesRenderWhole` (`NotesTrue`), `ListStaysInOrder` (`ListedInOrder`), `MenuInStep` (`MenuListens`) |
| `Colors_proofs` | 412 | `NoDeadEnds` (`OptionsHonest`), `FamilyBoxUndoes` (`FamToggleUndoes`), `TwoReadings` (`BandsAreRanking`), `PillsCount` (`CountsTrue`), `PreviewStays` (`PreviewWhole`) |
| `OsDetail_proofs` | 1006 | `SeedShown` (`SeedIsSelected`), `AddressFollows` (`ReloadKeepsSelection`), `PanelFollows` (`SimPanelOfSelected`), `SeedStays` (`DetailsStable`), `FetchedWhole` (`FetchedIsWhole`), `LabelsAreTimed` |
| `Desktop_proofs` | 2291 | `TypeCorrect`, `PartsKeepClear` (`ChromeClear`), `ValuesKept` (`ValuesTrue`), `InksTold` (`InkTold`, of `InkLegible`), `TextLegible` (`InkLegible`), `HslInRange`, `CmykInRange`, `EveryColorTagged` |

*RateLimiter*, for every set of addresses and days, and every capacity, refill and
idle time with `Refill * MaxIdle >= Cap` (`LimiterAssumption`; the values of
`main.go:47` and `:55` satisfy it: 0.5 tokens/s for 30 minutes against 40
tokens). `WindowBound` is not inductive: it speaks of what was spent, and the
next request spends from a bucket it does not mention. `WindowInv` adds what the
subnet may still spend (`Avail`) to the left side and takes a rotation that is
due but not yet made off the right. `ClockInv` says that no bucket was touched in
the future, and that its two times agree. A sweep keeps `Avail` by the lemma
`IdleIsFull`, the only one that uses `Refill * MaxIdle >= Cap`: a bucket idle for
longer than `MaxIdle` is full, so dropping it changes nothing. The same lemma
makes a sweep a stutter of `TokenBucket`.

*Counter*, for every finite or infinite set of requests, of colors and systems,
any number of deaths and dumps (`CounterAssumption` keeps the special values
apart). The invariant is `TypeInv` with `TxInv` and `FateInv` of every request.
`TxInv` makes the connection a lock: whoever holds it is between `Begin` and
`Commit`, and sees the committed tables with its own points so far, which is what
a commit then adds and a failure drops. `FateInv` ties the status to the fate of
the transaction, and what the client heard to the status. The tables as sums over
the counted requests follow step by step, by adding one to a finite set.
`NeverAhead` needs of it only that tables never shrink: what a dump has read
stays behind them. `DumpsBalance` needs more: the sum over the colors that a
dump has read is that of the counted requests then, and the requests counted
since only add to the systems it reads next.

*Rebuild*, for every number of runs, pushes, stamps, faults and releases to keep
(0 included; `RebuildAssumption`). The core invariant is
`TypeOK /\ LockInv /\ PathInv /\ SiteInv`. `LockInv`: a run at work, or one that
will sweep, holds the lock, so at most one run is at work. `PathInv`: what is
known at each step between the build and the prune of the tree about to be
copied, renamed, linked or removed. `SiteInv`: `current` is a whole release of a
push that is not newer than the checkout. Most steps touch nothing these speak
of; `QuietStep` says so once, and the proof goes through the others. For the
refinement, `SiteStep` shows that a step leaves what visitors see as it is,
pushes, or flips, and only the flip needs an argument: the lock means that the
push being published is the checkout, which never goes back. Four more
invariants stand on this one:

- `SignalInv`: a run that was told to stop knows it. `MarkerTrue` needs it, and
  that `"early"` is not among the faults: there the code does otherwise.
- `SweepInv`: who holds the lock is at work or about to sweep, and what lies about
  is its own. `NothingLeft` needs it, and that `"late"` is not among the faults.
- `DoneInv`: from the comparison of the counters on the installed one is the
  checkout's, and from the flip on the site is the run's release, until it has
  reported. Only status 0 without a signal counts as a report.
- `KeepInv`: every release that has `Keep` newer ones is on the list of victims,
  and none but `current` has when the list is done. That there are then at most
  `Keep` others is the lemma `KeptFew`: the least of the kept ones has all the
  others above it.

*Catalog* is where the proofs meet data. `Array.filter` and `Array.sort` take a
function, and the library's `SelectSeq` and `SortSeq` take an operator, of which
the provers can say nothing. In `Js` a filter is therefore the list of the
indices that pass, and a sort the list of the indices by how many come before
each (`Ranked`), which is an explicit function of sets. `RankedLists` says that it
lists every member once and in the order, for any order that is total
(`KeysCompare`: a comparison of keys, ties by place, is one), and `OneList` that
there is no other such list. `FilterShape`, `SortShape` and `FirstsShape` (dedupe)
rest on these, `NearestShape`, `SimilarShape`, `MergeShape` and `PeersShape`, one
for each function of `derive.ts` and `detail.ts`, on those. A least counterexample
comes from the well-founded order of the naturals (`LeastIn`), in place of
induction.

*Build* and *Platforms*, for every collection, distance between colors, pair of
limits, number of dumps and moment of each (`BuildAssumption`: what is in
`content/os` is a list of files, and the text of a note one of characters; `None` is
no dump). `FileInv`: the file is absent,
torn or one whole dump. `MemoInv`: the catalog is what was read once, and every
page and every cached detail was made of it; without the cache in it
`OneSnapshot` is not inductive, since a page of a system asks the cache first.
`AcceptInv`: from the routes on the collection is one that the schema and
`buildCatalog` let through; `SimilarNearest`, `MergedTrue` and `NotesLinked` follow
from it and the lemmas of the functions. `RouteInv`: what is rendered and what is
to do are together the pages asked for; `LinkInv`: a page has the links that
`LinksOf` says. `LinksResolve` compares the two sets of pages: every link resolves
since references name systems, similar colors and peers come from the
collection, and every page is linked by the page of its system. A visit to the
list changes nothing of the build (`VisitsLeaveBuild`), so that the list is
computed from the rendered page; `SortInv` and `MenuInv` add the types that the
comparisons and the menu's effect need.

What a note renders to is a fact about a recursion over its text, whatever its
length. `Tokenized` shows that the recursion is well-founded: were there a least
tail of a text without tokens, the step that `TokensFrom` makes of it would ask
for a shorter one. By the same argument the tokens cut the text into adjoining
spans, of which each is either text in which nothing opens or opens at its first
position and closes at its last (`Cuts`, `CutsFrom`). The two halves of `NotesTrue`
are then about spans: put one behind the other they are the text (`Flattened`), and
a position is the start of a marker or a code just when a span opens there
(`SpansStart`: a position lies in one span, and nothing opens in a span of text).

*Colors*, for every catalog in which defaults are shipments and every color has a
family of the list (`CatalogAssumption`). The mode is one of two (`ModeInv`); from
there `OptionsHonest` and `FamToggleUndoes` are about one state: the greying-out,
which goes its own way over facets, mode, picks and "Defaults only", agrees with
what picking would add. `BandsAreRanking` and `CountsTrue` hold in every state:
stable sorting by one key and filtering commute. `PreviewInv` is about the list that
the preview took with it, and says nothing of what is on screen: the list is
sorted in one of the orders of the page (`Orders`) and names no color twice, and
the place is one of its places. That every list a page can show is of this kind,
whatever is searched and picked, is the lemma `GridsAreWhole`; that the arrows
stay in it is `PreviewStep`.

*OsDetail*, for every number of releases and every content of them in which the
system is listed, with colors (`ContentsAssumption`). That `buildOsDetail` makes a
list with details for every color of it, and that the wire format gives every
color what was put in (`WireExact`), are lemmas. The invariant adds to the
properties that the page shows what its address says until the first effects
have run (`FirstInv`), and that details are known for the colors of every release.
`FetchedWhole` (`WholeInv`) has two hypotheses, `SameColors` and `OneEntryPerSlug`:
the releases list the same colors of the system in the same order, and two files
of a release that have a slug in common agree on name, year and family. Without
the first the property is false, which is the finding `os_detail_skew`; the second
holds when no slug is in two files, which no schema checks (section 5).

*Desktop*, for every palette of colors of three bytes (`PalettesAssumption`) and
every gamma curve that ends in white and has the dark ink where it is
(`LinearAssumption`), that rises, and on which the strongest film leaves a channel
55 % of its light or adds at most a quarter (`CurveAssumption`). The curve of sRGB is
the one TLC runs with, so that it evaluates both.

- `InksTold` rests on a fact of numbers: a color that is too near to one ink is
  far enough from the other, since the two are at least 16 to 1 apart, and the
  product of their contrasts with any color is no less.
- `TextLegible` follows the films from a channel to the luminance. The strongest
  of them bounds the weaker ones since the curve rises (`FilmedChannel`), a bound
  that is linear in a channel holds of the weighted mean (`Filmed`), and `InkRanges`
  knows from `onColor` how dark a color is that has light ink, and the reverse, which
  leaves 2:1 (`FilmContrast`). The bound is not the best one: computed for all 2^24
  colors the least contrasts are 4.18 for the ink, 2.96 on panels and windows and
  2.14 on the titles of menus. All of this, and `InksTold`, is of the ink at full
  strength; text that is painted with an opacity is weaker. Computed outside the
  models, labels on the wallpaper at 0.85 (`DesktopPreview.tsx:51`) come down to
  about 3.2:1 (`#f50055`), titles of menus at 0.92 to about 2.03:1.
- `PartsKeepClear` exempts what the code draws in layers (the windows of
  `openlook` among themselves, the windows and the dock of `modern`) from keeping
  apart, and two parts, the panel of `bleskos` and the icons of `gem`, from ending
  above the lower edge; they keep to the other three. It is about every window
  wider than the margins (`ViewportsAssumption`), on the hypothesis `Tall`: the
  window is not flatter than 0.4275 of the width the drawing scales with.
  `SpaceIsRoom` turns it into 42.75 `cu` of height, inline and full screen; then
  there is one lemma for each of the fifteen styles. The bound is exact: at 42.74
  the second window of `modern` is more than a quarter of a unit outside.
- `ValuesKept` follows a channel through the roundings on its way. Of HSL there
  are four: the lightness (once as a term, once as a factor), the saturation and the
  hue, which moves one channel along a side of the trapezoid `Ramp`; the lemma
  `HslErrors` writes the channel that comes back as the one that went in plus
  the four errors, `Sixths` says in each sixth of the circle which channel is on a
  side. Together they are less than 5.5 of 255.

Only model-checked: `RunsEnd`, `EveryRequestEnds` and `LabelsExpire`. They are
liveness, which is out of the prover's reach: it can neither evaluate `ENABLED`,
of which weak fairness is made, nor count down to the end of a run. What makes
them true apart from fairness is safety, and proved:

- `RunsGoOnward`: whatever fails or is signalled, a step of a run takes it to a
  later command (`Rank`) or takes a release off the list it prunes; nothing else
  sets it back. A run that goes on therefore ends.
- `HandlersGoOnward`: the same of the handlers (`Turn`), through stops and deaths;
  and the connection, the one thing that a handler waits for, is held by a handler
  that is between `Begin` and `Commit`, where nothing is waited for.
- `LabelsAreTimed`: a label that says "Copied" has a timer running that will take
  it away, and the infobox's an infobox. A timer fires when those before it have.

All the other properties of the passing runs are theorems.

## 5. Where the code and its words disagree

Each has a run that TLC ends with a counterexample.

- `rebuild_stale_service`: a run that ends between the installation of a new
  counter (`rebuild.sh:312`) and its restart makes the next run find the binary
  "unchanged"; it reports success while the old process keeps running, what
  `rebuild.sh:272-275` sets out to prevent.
- `rebuild_deps`: the hash of the lockfile is written after `npm ci`; an
  interruption before that, then a revert of the lockfile, builds with
  dependencies of another lockfile (`rebuild.sh:260-267`).
- `os_detail_skew`: details are matched to colors by position, so a page and a
  cached view.json of two releases can show a neighbour's details
  (`OsDetail.tsx:101`, `desktopcolors.nginx.conf:82`).

Observed while modelling, without a run of their own. In the deployment:

- A TERM between the EXIT trap (`rebuild.sh:184`) and the signal traps (199-201)
  removes the marker of an earlier failure: `MarkerOnlyByEndedRuns` fails with
  the fault `early`, which run `rebuild` therefore leaves out. A TERM between
  `exit` and the line that disarms the traps ends the cleanup early:
  `LeftoversSwept` fails with the fault `late`. Both gaps are a few instructions
  long. `rebuild_live` has both kinds.
- A push whose counter does not serve is refused by one run and published by the
  next, for which the binary is unchanged (`rebuild.sh:285-304`).
- `KEEP=08` passes the check of digits (`rebuild.sh:57`) and is an invalid octal
  number at `rebuild.sh:443`. Children inherit the lock's file descriptor
  (`rebuild.sh:208`), so one that outlives a killed run keeps the lock.

In the build:

- `label in links` (`sourceNote.ts:81`) accepts a marker such as `[constructor]`
  without an entry, and the page gets a function for its URL: the disagreement
  that lines 7-10 say the shared tokenizer rules out. `NotesTrue` excepts such
  labels (`Inherited`).
- The schema rejects neither two files with one slug nor a color that is twice in
  a file (`config.ts:56-61`). The second makes its known uses list that system
  twice.
- A system without a marked default would have its first color twice in the list
  view (`index.astro:14-17`).
- The 24 nearest swatches are taken before duplicates go, so that a color shared
  by many systems leaves fewer than six similar colors. `SimilarNearest`
  promises completeness only while all swatches fit under the limit.

On the pages:

- "Try a platform name, a color name": the name of a system's default color is
  not searched (`PlatformControls.tsx:52-55`, `:175`).
- The box of a family adds all systems that are enabled one by one; in the mode
  ALL they may exclude each other and empty the grid (`Colors.tsx:120`,
  `colorCatalog.ts:220-222`). `FamToggleUndoes` holds all the same.
- A preview of a similar color asked for in the frame between a change of color
  and its effects stays on with nothing to show, and opens by itself at the next
  similar color that is expanded (`OsDetail.tsx:437`). The same by keyboard, at any
  time: Expand stays in reach under the preview of a similar color, and once both
  previews are open an arrow steps both, so that the color changes and the preview
  of the similar one is left with nothing to show.
- Controls under an open overlay answer to the keyboard; a preview opened from the
  page of colors then shows a list that may no longer be on screen
  (`Colors.tsx:101`). `PreviewWhole` says what is left of it.
- A copied label stays for its 1.3 seconds when another color is selected or
  another similar color takes the infobox's place, and the page's timer, which
  does not look whose label it clears (`OsDetail.tsx:166`), ends that of a row
  copied later early. `LabelsExpire` says that none stays for good.

In the drawing:

- `bleskos` needs about 50.6 `cu` of height (`DesktopPreview.tsx:422-457`) where
  `docs/adding-a-preview-style.md:184-191` budgets 43, and with labels of two lines
  the icons of `gem` outgrow the preview: `ChromeClear` exempts both from the lower
  edge (`TooHigh`), and from nothing else.
- On a telephone held sideways, less than about 42 `cu` high, the icons of `win9x`
  would meet the taskbar: the windows of the instance, and `Tall` in the theorem,
  are a little higher. The second window of `modern`
  is cut by up to two pixels in some windows, within the quarter of a unit that
  `ChromeClear` grants.

## 6. What is abstracted, and not modelled

Abstracted: texts, layout and the formats of a color; sets and small numbers
stand for names, colors, days and times; matching a search is membership in the
set of searches that occur. In `Rebuild` a tree is what it was built from; in
`Counter` a row that does not exist is a row of 0. In `Build` a page is its scores
and its links; in `Desktop` a part is the rectangles it covers.

Not modelled:

- `clientIP`, whose result is any address of the limiter, and `handleHealth`:
  neither has state. `track.ts` sends one request and ignores the answer.
- In `rebuild.sh` the parsing of `KEEP`, a child process that outlives a killed
  run, and a failing `flock` other than contention: what they do depends on bash
  and on the host more than on the script. The first two are listed as hazards.
- OKLab, OKLCH and the nearest RAL color: cube roots over two tables of data. The
  models take distances and OKLCH as given, so the mutants of `SimilarNearest`
  are about the selection, not about the metric.
- The scripts that wrote the RAL tables, once.
- The sheet of downloads, the setup guides, the timeline of uses, the navigation
  on telephones: each keeps one toggle that nothing else depends on, and
  otherwise shows texts. The canvas of the wallpaper is the browser's.
- The formats toggle and the note's toggle on the page of a system, scrolling, the
  mobile panel of the page of colors, for the same reason.
- Inside a part of a drawing: fonts, gradients, markup.
- Layouts, head tags, static assets, `gitInfo.ts` (one call of git at build time).
- nginx and systemd units: configuration, whose effect on the processes (restart,
  the hourly start, caching of `view.json`) is in the environment of the models.

Hazards that no property covers have a note in `PROJECT.json` that says why.

## 7. Reading order

1. `TokenBucket`, `RateLimiter`, `RateLimiter_proofs`: the smallest component with
   everything a project like this has, refinement included.
2. `ScoreLedger`, `Counter`, `Counter_proofs`: concurrency and crashes.
3. `PublishedSite`, `Rebuild`, `Rebuild_proofs`: faults at every step.
4. `Js`, `Catalog`, `SourceNote`, `Build`, `Catalog_proofs`: from content and scores to
   pages.
5. `Platforms`, `Colors`, `OsDetail`, `CopyLabels` and their proofs: the pages in the
   browser.
6. `ColorMath`, `Desktop`, `Desktop_proofs`: what they draw.

To check a module, run TLC with the module and configuration that
`PROJECT.json` names for the run, and `tlapm` on a proof module. Its `map` names the
lines that each definition models: when those change, so may the definition.
