------------------------------ MODULE CopyLabels ------------------------------
(* The page of a system with the values a click copies: the rows of          *)
(* islands/OsDetail.tsx and those of islands/ColorInfobox.tsx, which shows   *)
(* the similar color that is expanded.  A row that was copied says so until  *)
(* a timer of 1.3 s fires; timers fire in the order they were set.           *)
(*                                                                           *)
(* The infobox is one component whatever the color it shows: its label stays *)
(* when another similar color is expanded in its place and goes with it.     *)
EXTENDS OsDetail

CONSTANTS CopyKeys,    \* the rows
          MaxBusy      \* bound: timers running and overlays open at a time

VARIABLES
    copied,        \* the row of the page that says "Copied", or None
    infoCopied,    \* and that of the infobox
    timers         \* [who, key]: who set it, and for which row

labels == <<copied, infoCopied, timers>>
lvars  == <<page, entry, sel, details, fetch, mounted, pending, url, simExp, overlays, labels>>

InfoShown == simExp \in SimHexes

Timer(who, key) == [who |-> who, key |-> key]

\* A timer of an infobox that is gone changes nothing any more.
Alive(ts) == IF InfoShown' THEN ts ELSE Filter(ts, LAMBDA t : t.who = "page")

LInit == Init /\ copied = None /\ infoCopied = None /\ timers = << >>

\* How many overlays are open, shown or not.
Open == Cardinality({i \in 1 .. 4 : <<full, sheet, simFull, simSheet # None>>[i]})

\* What the page does besides.
Browse ==
    /\ Next
    /\ Len(timers) + Open' <= MaxBusy
    /\ infoCopied' = IF InfoShown' THEN infoCopied ELSE None
    /\ timers' = Alive(timers)
    /\ UNCHANGED copied

\* A row of the page; the state is the page's own, so the page renders.
copy ==
    /\ Len(timers) + Open < MaxBusy
    /\ Render(sel, simExp)
    /\ UNCHANGED <<details, fetch, overlays>>
    /\ \E k \in CopyKeys : copied' = k /\ timers' = Alive(Append(timers, Timer("page", k)))
    /\ infoCopied' = IF InfoShown' THEN infoCopied ELSE None

\* A row of the infobox, which renders alone.
copyInfo ==
    /\ InfoShown /\ Len(timers) + Open < MaxBusy
    /\ \E k \in CopyKeys : infoCopied' = k /\ timers' = Append(timers, Timer("info", k))
    /\ UNCHANGED <<vars, copied>>

\* The timer of the page clears its label, whichever row it is on.
FirePage ==
    /\ timers # << >> /\ Head(timers).who = "page"
    /\ IF copied = None THEN UNCHANGED <<page, entry, sel, mounted, pending, url, simExp>>
       ELSE Render(sel, simExp)
    /\ UNCHANGED <<details, fetch, overlays>>
    /\ copied' = None /\ timers' = Alive(Tail(timers))
    /\ infoCopied' = IF InfoShown' THEN infoCopied ELSE None

\* Mutant of FireInfo: it compares with the label of the render that set it.
FireInfo_Stale ==
    /\ timers # << >> /\ Head(timers).who = "info"
    /\ timers' = Tail(timers)
    /\ UNCHANGED <<vars, copied, infoCopied>>
\* That of the infobox clears the label of its own row.
FireInfo ==
    /\ timers # << >> /\ Head(timers).who = "info"
    /\ infoCopied' = IF infoCopied = Head(timers).key THEN None ELSE infoCopied
    /\ timers' = Tail(timers)
    /\ UNCHANGED <<vars, copied>>

LNext == Browse \/ copy \/ copyInfo \/ FirePage \/ FireInfo

LSpec == LInit /\ [][LNext]_lvars /\ WF_lvars(FirePage) /\ WF_lvars(FireInfo)

-----------------------------------------------------------------------------
(* Properties *)

\* No label stays: whatever is clicked meanwhile, the page's is cleared and the
\* infobox's changes, by a timer or with the infobox (OsDetail.tsx:166,
\* ColorInfobox.tsx:44).  The browser fires every timer in the end.
LabelsExpire ==
    /\ (copied # None) ~> (copied = None)
    /\ \A k \in CopyKeys : (infoCopied = k) ~> (infoCopied # k)
=============================================================================
