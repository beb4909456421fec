-------------------------------- MODULE Desktop --------------------------------
(* The mock desktop on the page of a system, inline and full screen:         *)
(* lib/chromeSpec.ts and islands/DesktopPreview.tsx.  What is drawn is a set *)
(* of boxes over a wallpaper.  Lengths are hundredths of `cu`, the scale of  *)
(* the drawing: a hundredth of the preview's width, at most 9 px.  Children  *)
(* of a box, opacity and radii are left out where they do not make its size. *)
EXTENDS ColorMath, Sequences

CONSTANTS
    Viewports,   \* widths and heights of the browser's window, in px
    Palettes,    \* sequences of the colors of a system
    Wrap         \* icon labels of two words take two lines: it depends on the font

RgbColors == [1 .. 3 -> 0 .. 255]

ASSUME PalettesAssumption == \A p \in Palettes : p \in Seq(RgbColors) /\ p # << >>

\* A window is wider than the margins of the preview.
ASSUME ViewportsAssumption == \A v \in Viewports : v \in Nat \X Nat /\ v[1] > 34

VARIABLES
    style,       \* desktopStyle of the system
    colors,      \* and its colors
    sel,         \* the selected one
    window,      \* <<width, height>>
    full         \* the full-screen preview is open

vars == <<style, colors, sel, window, full>>

-----------------------------------------------------------------------------
(* The chrome of each style.  Of n icons, `long` have a label of two words.  *)

Grid(n, cols) == [kind |-> "gridIcons", n |-> n, cols |-> cols]
Rows(n)       == [kind |-> "rows", n |-> n]
Panes         == [kind |-> "panes"]

DeskIcons(side, anchor, n, long) == [part |-> "deskIcons", side |-> side, anchor |-> anchor,
                                     n |-> n, long |-> long]
Window(part, left, top, w, body) == [part |-> part, left |-> 100 * left, top |-> 100 * top,
                                     w |-> 100 * w, body |-> body]
Part(part) == [part |-> part]

\* The style "modern" has no spec of its own; its scene is the three parts here.
CHROME_SPECS == [
    modern   |-> << Part("modernIcons"), Part("modernWindows"), Part("modernDock") >>,
    win9x    |-> << DeskIcons("left", "top", 2, 1), Window("window", 28, 8, 54, Grid(6, 3)),
                    DeskIcons("right", "bottom", 1, 1), Part("taskbar") >>,
    win31    |-> << Window("window", 16, 8, 68, Panes) >>,
    platinum |-> << Part("menuBar"), DeskIcons("right", "top", 2, 1),
                    Window("platinumWindow", 20, 12, 52, Grid(6, 3)) >>,
    beos     |-> << Part("beosTab"), DeskIcons("left", "top", 2, 0),
                    Window("beosWindow", 26, 11, 46, Grid(8, 4)) >>,
    amiga    |-> << Part("topBar"), DeskIcons("right", "top", 3, 0),
                    Window("window", 10, 12, 46, Grid(3, 3)) >>,
    kde      |-> << Window("window", 22, 9, 52, Rows(4)), Part("dock") >>,
    cde      |-> << DeskIcons("left", "top", 1, 0), Window("cdeWindow", 22, 8, 46, Grid(6, 3)),
                    Part("frontPanel") >>,
    gem      |-> << Part("menuBar"), DeskIcons("right", "top", 3, 2),
                    Window("gemWindow", 12, 11, 46, Grid(6, 3)) >>,
    bleskos  |-> << Part("bleskos") >>,
    blackbox |-> << Part("rootMenu"), Part("workspaceBar") >>,
    c64      |-> << Part("basicScreen") >>,
    openlook |-> << DeskIcons("left", "bottom", 1, 0), Window("openLookWindow", 20, 3, 34, Rows(2)),
                    Window("openLookWindow", 44, 17, 44, Grid(4, 4)) >>,
    plan9    |-> << Window("rioWindow", 3, 3, 52, Rows(9)), Window("rioWindow", 59, 3, 36, Rows(7)) >>,
    generic  |-> << DeskIcons("left", "top", 2, 0), Part("dock") >>
]

Styles == DOMAIN CHROME_SPECS

-----------------------------------------------------------------------------
(* The room there is                                                         *)

\* The preview inside the page, in px: the left of two columns, of which the
\* hero is at least 372 high, or above the list on a narrow window.
inlineBox(vw) ==
    IF vw < 760 THEN <<vw - 34, 310>>
    ELSE LET content == Min({vw - 96, 1400})
         IN  <<((content - 28) * 14) \div 24 - 2, 342>>

box == IF full THEN window ELSE inlineBox(window[1])

\* Width and height of a box in a scale of a hundredth of its width, capped.
scaled(b, cap) ==
    LET px == Min({b[1], cap})
    IN  [W |-> (10000 * b[1]) \div px, H |-> (10000 * b[2]) \div px]

-----------------------------------------------------------------------------
(* What a part covers                                                        *)

Rect(l, t, w, h) == [l |-> l, t |-> t, r |-> l + w, b |-> t + h]

\* n items of the size with a gap between them.
Stacked(n, size, gap) == n * size + (n - 1) * gap

bodyHeight(body) ==
    CASE body.kind = "gridIcons" -> Stacked((body.n + body.cols - 1) \div body.cols, 400, 160)
      [] body.kind = "rows"      -> Stacked(body.n, 140, 140)
      [] body.kind = "panes"     -> 400 + 2 * 140 + Stacked(2, 400, 160)

\* A title bar or tag, what there is between it and the body, and the padding.
windowHeight(p) ==
    CASE p.part \in {"window", "platinumWindow", "cdeWindow", "gemWindow"} ->
             550 + 440 + bodyHeight(p.body)
      [] p.part = "beosWindow"     -> 440 + 440 + bodyHeight(p.body)
      [] p.part = "openLookWindow" -> 550 + 520 + 440 + bodyHeight(p.body)
      [] p.part = "rioWindow"      -> 400 + Max({900, 400 + bodyHeight(p.body)})

\* An icon, its label and the gaps.
deskIconsRect(p, W, H) ==
    LET h == Stacked(p.n, 690, 320) + 276 * (p.n + IF Wrap THEN p.long ELSE 0)
    IN  Rect(IF p.side = "right" THEN W - 1750 ELSE 400,
             IF p.anchor = "bottom" THEN H - 1100 - h ELSE 600, 1300, h)

\* The title bar of a menu, its padding and its items.
menuHeight(items) == 350 + 160 + 280 * items

\* Mutant of rootMenuAt: centred, without the lift.
rootMenuAt_Centred(W, H) == <<W \div 2 - (56 * 4840) \div 100, H \div 2 - menuHeight(8) \div 2>>
\* Where the menu and its submenu start: moved up and left of the centre.
rootMenuAt(W, H) == <<W \div 2 - (56 * 4840) \div 100, H \div 2 - (58 * menuHeight(8)) \div 100>>

\* The bars and panels of the edges.
bars(W, H) == [
    taskbar      |-> {Rect(300, H - 940, W - 600, 640)},
    menuBar      |-> {Rect(0, 0, W, 540)},
    topBar       |-> {Rect(0, 0, W, 500)},
    beosTab      |-> {Rect(W - 2400, 0, 2000, 500)},
    dock         |-> {Rect(0, H - 580, W, 580)},
    frontPanel   |-> {Rect(W \div 2 - 1850, H - 1160, 3700, 860)}
]

rootMenu(W, H) ==
    LET at == rootMenuAt(W, H)
    IN  {Rect(at[1], at[2], 2700, menuHeight(8)), Rect(at[1] + 2640, at[2] + 1270, 2200, menuHeight(3))}

workspaceBar(W, H) == {Rect(W \div 2 - 3100, H - 780, 6200, 480)}

\* A title that gives way, two columns of entries that do not, and a hint.
bleskos(W, H) ==
    LET column == 2 * 130 + 2 * 120 + Stacked(4, 400, 130) + 260 + Stacked(3, 400, 130)
    IN  {Rect(450, 300, W - 900, Max({H - 850, 300 + 260 + column + 160 + 130}) - 300)}

\* Five lines on the screen of a C64.
basicScreen(W, H) == {Rect(650, 600, W - 1300, 5 * 320 + 50 + 260)}

\* The scene of a style without a spec.
modern(W, H) == [
    modernIcons   |-> {Rect(400, 500, 1200, Stacked(2, 600 + 80 + 290, 300))},
    modernWindows |-> {Rect(2400, 500, 4600, 2600), Rect(3800, 1300, 5200, 3000)},
    modernDock    |-> {Rect(400, H - 1000, W - 800, 600)}
]

rects(p, W, H) ==
    CASE p.part \in DOMAIN bars(W, H)   -> bars(W, H)[p.part]
      [] p.part \in DOMAIN modern(W, H) -> modern(W, H)[p.part]
      [] p.part = "deskIcons"           -> {deskIconsRect(p, W, H)}
      [] p.part = "rootMenu"            -> rootMenu(W, H)
      [] p.part = "workspaceBar"        -> workspaceBar(W, H)
      [] p.part = "bleskos"             -> bleskos(W, H)
      [] p.part = "basicScreen"         -> basicScreen(W, H)
      [] OTHER                          -> {Rect(p.left, p.top, p.w, windowHeight(p))}

\* The parts of the drawing with what each covers, and the box.
spec  == CHROME_SPECS[style]
space == scaled(box, IF style = "modern" THEN 1100 ELSE 900)
drawn == [i \in DOMAIN spec |-> rects(spec[i], space.W, space.H)]

-----------------------------------------------------------------------------
(* Its inks                                                                  *)

summary == colors[sel]

\* The first of the system's other colors; << >> if all are the same.
accent == LET others == SelectSeq(colors, LAMBDA c : c # summary)
          IN  IF others = << >> THEN << >> ELSE others[1]

ACCENT_MIN == 160

\* What a screen of the C64 is written in; every other style takes onColor.
basicInk == IF accent # << >> /\ contrast(accent, summary) >= ACCENT_MIN THEN accent
            ELSE onColor(summary)

\* A channel under a film of a% black, and of a% white.
blackened(v, a) == (v * (100 - a)) \div 100
whitened(v, a)  == v + ((255 - v) * a) \div 100

\* A film of a% over c: black under dark ink, white under light ink.
film(c, ink, a) ==
    [i \in 1 .. 3 |-> IF ink = inkDark THEN blackened(c[i], a) ELSE whitened(c[i], a)]

\* The surfaces that text is written on: the panels, the windows, and the title
\* and active item of a menu, a film over that of the menu.
chromeSurfaces(c) ==
    LET ink  == onColor(c)
        dark == ink = inkDark
        win  == film(c, ink, IF dark THEN 10 ELSE 20)
    IN  {film(c, ink, IF dark THEN 7 ELSE 14), win, film(win, ink, IF dark THEN 13 ELSE 26)}

\* The windows of "modern".
surfaces(c) ==
    LET ink == onColor(c)
    IN  {film(c, ink, IF ink = inkDark THEN 8 ELSE 14), film(c, ink, IF ink = inkDark THEN 11 ELSE 20)}

\* The gamma curve rises, and under the strongest film, that of a title, a
\* channel keeps 55% of its light or gains at most 2,450 ten-thousandths.
ASSUME CurveAssumption ==
    /\ \A v, w \in 0 .. 255 : v <= w => Linear[v] <= Linear[w]
    /\ \A v \in 0 .. 255 : 100 * Linear[blackened(blackened(v, 10), 13)] + 400 >= 55 * Linear[v]
    /\ \A v \in 0 .. 255 : Linear[whitened(whitened(v, 20), 26)] <= Linear[v] + 2450

-----------------------------------------------------------------------------
(* The visitor                                                               *)

Init ==
    /\ style \in Styles /\ colors \in Palettes
    /\ sel \in DOMAIN colors
    /\ window \in Viewports /\ full = FALSE

Resize == window' \in Viewports \ {window} /\ UNCHANGED <<style, colors, sel, full>>
Expand == ~full /\ full' = TRUE /\ UNCHANGED <<style, colors, sel, window>>
\* A click on a row of the list: no button, so that an overlay keeps it from view
\* and the keyboard has no other way to it (OsDetail.tsx:311).
Choose == ~full /\ sel' \in DOMAIN colors \ {sel} /\ UNCHANGED <<style, colors, window, full>>
Close  == full /\ full' = FALSE /\ UNCHANGED <<style, colors, sel, window>>

\* Mutant of step: the palette is no circle.
step_Straight ==
    /\ full
    /\ \E d \in {-1, 1} : sel' = sel + d
    /\ UNCHANGED <<style, colors, window, full>>
\* The arrows, on the screen or on the keyboard.
step ==
    /\ full
    /\ \E d \in {-1, 1} : sel' = ((sel - 1 + d + Len(colors)) % Len(colors)) + 1
    /\ UNCHANGED <<style, colors, window, full>>

Next == Resize \/ Expand \/ Choose \/ Close \/ step

Spec == Init /\ [][Next]_vars

-----------------------------------------------------------------------------
(* Properties *)

\* The kind of every variable; the selection is a place in the palette, which
\* the arrows of the full-screen preview walk around (OsDetail.tsx:169).
TypeOK ==
    /\ style \in Styles /\ colors \in Palettes /\ sel \in DOMAIN colors
    /\ window \in Viewports /\ full \in BOOLEAN

Apart(r, s) == r.r <= s.l \/ s.r <= r.l \/ r.b <= s.t \/ s.b <= r.t

\* What is drawn in layers: the windows of OPEN LOOK, and those of the modern
\* scene with the dock under them.
Stacks(p, q) == {p.part, q.part} \subseteq {"openLookWindow"}
                \/ {p.part, q.part} \subseteq {"modernWindows", "modernDock"}

\* What outgrows some boxes downward: the panel of bleskos (DesktopPreview.tsx:
\* 422-457), and three icons with five lines of labels, those of gem.
TooHigh(p) ==
    \/ p.part = "bleskos"
    \/ p.part = "deskIcons" /\ p.long = 2

Fits(r, p) == /\ r.l >= 0 /\ r.t >= 0 /\ r.r <= space.W
              /\ r.b <= space.H + 25 \/ TooHigh(p)

\* In every viewport, inline and full screen: the parts of a style that is not
\* drawn in layers do not cover each other, the menu keeps clear of the
\* workspace bar (DesktopPreview.tsx:493-498), rio's windows stay side by side
\* (chromeSpec.ts:105-108); and a part is inside the box on all four sides, to a
\* quarter of a unit below, or on three if it is one of the two that are too high.
ChromeClear ==
    /\ \A i, j \in DOMAIN spec : i < j /\ ~Stacks(spec[i], spec[j]) =>
           \A r \in drawn[i], s \in drawn[j] : Apart(r, s)
    /\ \A i \in DOMAIN spec : \A r \in drawn[i] : Fits(r, spec[i])

\* The two inks, whatever the color, at full strength.
InkTold ==
    /\ contrast(onColor(summary), summary) >= 400
    /\ contrast(basicInk, summary) >= ACCENT_MIN

\* The ink of a color has a contrast of at least 4:1 with it (color.ts:67-79),
\* whatever the color; what a C64 is written in is told from its background.
\* It is the ink that is compared: text that is drawn with an opacity, such as the
\* labels of icons (0.85, DesktopPreview.tsx:51), comes out weaker than that.
\* "chrome has to stay legible on an arbitrary wallpaper, so it comes from
\* chromeSurfaces" (DesktopPreview.tsx:309-310): with the films over it, which
\* bring the background nearer to the ink, 2:1 is left.
InkLegible ==
    /\ InkTold
    /\ \A c \in chromeSurfaces(summary) \cup surfaces(summary) : contrast(onColor(summary), c) >= 200

\* The color that a reader of the page gets from hue, saturation and lightness:
\* a channel is a trapezoid over the hue, a third of a turn from the others.
Ramp(k) == Max({-30, Min({k - 90, 270 - k, 30})})
hslToRgb(v) ==
    [i \in 1 .. 3 |->
        LET t == Ramp((v[1] + <<0, 240, 120>>[i]) % 360)
        IN  Round(255 * (3000 * v[3] - v[2] * Min({v[3], 100 - v[3]}) * t), 300000)]
cmykToRgb(v) == [i \in 1 .. 3 |-> Round(255 * (100 - v[i]) * (100 - v[4]), 10000)]

Near(c, d, by) == \A i \in 1 .. 3 : c[i] - d[i] \in -by .. by

\* The rounded values the page offers to copy are those of the color: whoever
\* uses them gets it back, to 5 of 255 by HSL and 3 by CMYK (color.ts:11-51).
ValuesTrue ==
    /\ Near(hslToRgb(rgbToHsl(summary)), summary, 5)
    /\ Near(cmykToRgb(rgbToCmyk(summary)), summary, 3)
=============================================================================
