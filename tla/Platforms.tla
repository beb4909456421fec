------------------------------- MODULE Platforms -------------------------------
(* The list of systems: islands/PlatformControls.tsx over the items that     *)
(* pages/index.astro bakes into the first page of a build, with the menu of  *)
(* islands/Dropdown.tsx.  The content and the scores are those of the build, *)
(* whatever has become of scores.json since.  A handler and its render are   *)
(* one step; the effect of the menu, which adds and removes its listeners on *)
(* the document, runs after the paint or at the latest with the next render  *)
(* of the menu.                                                              *)
EXTENDS Build

CONSTANT Queries        \* searches the visitor may type, in lower case

ASSUME QueriesAssumption == "" \in Queries

VARIABLES
    query, sort, rev, view,
    narrow,           \* the window is narrower than the site's 760 px
    open,             \* the menu is open
    listening,        \* its listeners are on the document
    due               \* its effect has still to run

menu == <<open, listening, due>>
controls == <<query, sort, rev, view, narrow, menu>>

PInit ==
    /\ Init
    /\ query = "" /\ sort = "popular" /\ rev = FALSE /\ view = "card"
    /\ narrow \in BOOLEAN
    /\ open = FALSE /\ listening = FALSE /\ due = TRUE

-----------------------------------------------------------------------------
(* What a render computes *)

items == platformItems(source, site[IndexPage].scores)

\* The name of the default color is not looked at, only its hex.
matches(it, q) ==
    \/ q = ""
    \/ q \in it.says \cup {it.defaultHex}
    \/ \E c \in ToSet(it.altColors) : q \in {c.name, c.hex}

cmp(a, b) == CASE sort = "popular" -> a.score > b.score
               [] sort = "year"    -> a.year < b.year
               [] sort = "new"     -> a.added > b.added
               [] sort = "alpha"   -> a.name < b.name

\* Mutant of shown: the direction is turned by turning the sorted list.
shown_Reversed ==
    LET list == StableSort(Filter(items, LAMBDA it : matches(it, query)), cmp)
    IN  IF rev THEN Reverse(list) ELSE list
shown ==
    StableSort(Filter(items, LAMBDA it : matches(it, query)),
               LAMBDA a, b : IF rev THEN cmp(b, a) ELSE cmp(a, b))

-----------------------------------------------------------------------------
(* The menu *)

\* Mutant of RunEffect: the effect has no dependencies but its first run.
RunEffect_Once ==
    /\ due
    /\ listening' = FALSE /\ due' = FALSE
    /\ UNCHANGED <<query, sort, rev, view, narrow, open>>
\* The listeners of the render before go, those of an open menu come.
RunEffect ==
    /\ due
    /\ listening' = open /\ due' = FALSE
    /\ UNCHANGED <<query, sort, rev, view, narrow, open>>

\* A render with the menu open or not; what is due of the one before runs first.
RenderMenu(o) ==
    /\ listening' = IF due THEN open ELSE listening
    /\ open' = o
    /\ due' = (o # open)

\* The trigger is inside the menu's element, so its mousedown closes nothing.
ClickTrigger ==
    /\ narrow
    /\ RenderMenu(~open)
    /\ UNCHANGED <<query, sort, rev, view, narrow>>

\* A mousedown elsewhere, or Escape.
Dismiss ==
    /\ listening /\ open
    /\ RenderMenu(FALSE)
    /\ UNCHANGED <<query, sort, rev, view, narrow>>

-----------------------------------------------------------------------------
(* The visitor *)

Type ==
    /\ query' \in Queries \ {query}
    /\ RenderMenu(open)
    /\ UNCHANGED <<sort, rev, view, narrow>>

Sorts == {"popular", "year", "new", "alpha"}

selectSort(key) ==
    IF key = sort THEN rev' = ~rev /\ UNCHANGED sort ELSE sort' = key /\ rev' = FALSE

\* On a wide window the keys are buttons, on a narrow one items of the menu,
\* which close it.
Sort ==
    /\ \E key \in Sorts : selectSort(key)
    /\ \/ ~narrow /\ RenderMenu(open)
       \/ narrow /\ open /\ RenderMenu(FALSE)
    /\ UNCHANGED <<query, view, narrow>>

SetView ==
    /\ ~narrow
    /\ view' \in {"card", "list"} \ {view}
    /\ RenderMenu(open)
    /\ UNCHANGED <<query, sort, rev, narrow>>

Resize ==
    /\ narrow' = ~narrow
    /\ RenderMenu(open)
    /\ UNCHANGED <<query, sort, rev, view>>

Visit == RunEffect \/ ClickTrigger \/ Dismiss \/ Type \/ Sort \/ SetView \/ Resize

\* A finished build is visited, while scores.json may go on to change.
PNext == \/ Next /\ UNCHANGED controls
         \/ phase = "done" /\ Visit /\ UNCHANGED vars

PSpec == PInit /\ [][PNext]_<<vars, controls>>

-----------------------------------------------------------------------------
(* Properties *)

\* The list shows every match once, in the order asked for, and systems that tie
\* by popularity and then by file, in both directions: a list baked in the one
\* order and sorted again in the browser, where `rev` negates the comparison
\* instead of turning the list (index.astro:7-8, PlatformControls.tsx:63-65).
\* Every score it is sorted by is a number, whatever scores.json says: with one
\* that is not, the comparison would order nothing (scores.ts:8-44).
ListedInOrder ==
    phase = "done" =>
        LET list      == shown
            scores    == site[IndexPage].scores
            found     == {i \in DOMAIN source : matches(itemOf(source[i], scores), query)}
            ranks(a, b) == IF rev THEN cmp(b, a) ELSE cmp(a, b)
        IN  \E at \in [DOMAIN list -> found] :
                /\ \A i \in found : \E k \in DOMAIN list : at[k] = i
                /\ \A k \in DOMAIN list : /\ list[k] = itemOf(source[at[k]], scores)
                                          /\ list[k].score # NotANumber
                /\ \A k \in DOMAIN list : \A j \in 1 .. k - 1 :
                    /\ at[j] # at[k] /\ ~ranks(list[k], list[j])
                    /\ ~ranks(list[j], list[k]) =>
                           \/ list[j].score > list[k].score
                           \/ list[j].score = list[k].score /\ at[j] < at[k]

\* An open menu can be closed from outside once the effect of its render has
\* run, and a closed one has left nothing on the document, however opening,
\* choosing, dismissing and resizing follow on each other (Dropdown.tsx:20-34).
MenuListens == ~due => listening = open
=============================================================================
