------------------------------- MODULE ColorMath -------------------------------
(* lib/color.ts: the numbers, names and inks that the site derives from a    *)
(* color.  A color is <<r, g, b>>, what hexToRgb makes of its hex.  Where    *)
(* the code has a quotient of floats the model has the exact one; the gamma  *)
(* curve and OKLCH are irrational and enter as a table and as arguments.     *)
EXTENDS Integers, FiniteSets, FiniteSetsExt

CONSTANT Linear   \* Linear[c]: srgbToLinear of a channel, in ten-thousandths

\* Math.round(n / d), for d > 0: halves go up, below zero too.  At an exact half
\* the float of the code may fall short of it; no property tells the two apart.
Round(n, d) == (2 * n + d) \div (2 * d)

Rgb(c) == {c[1], c[2], c[3]}

Hue(c, mx, d) ==
    CASE d = 0                                -> 0
      [] d # 0 /\ mx = c[1]                   -> Round(60 * (c[2] - c[3] + IF c[2] < c[3] THEN 6 * d ELSE 0), d)
      [] d # 0 /\ mx # c[1] /\ mx = c[2]      -> Round(60 * (c[3] - c[1] + 2 * d), d)
      [] OTHER                                -> Round(60 * (c[1] - c[2] + 4 * d), d)

\* Mutant of rgbToHsl: light colors are divided by what only dark ones are.
rgbToHsl_Dark(c) ==
    LET mx == Max(Rgb(c))
        mn == Min(Rgb(c))
        d  == mx - mn
    IN  <<Hue(c, mx, d), IF d = 0 THEN 0 ELSE Round(100 * d, mx + mn), Round(100 * (mx + mn), 510)>>
\* Hue in degrees, saturation and lightness in per cent.  A hue just short of a
\* full turn rounds to 360.
rgbToHsl(c) ==
    LET mx == Max(Rgb(c))
        mn == Min(Rgb(c))
        d  == mx - mn
        s  == IF d = 0 THEN 0
              ELSE Round(100 * d, IF mx + mn > 255 THEN 510 - mx - mn ELSE mx + mn)
    IN  <<Hue(c, mx, d), s, Round(100 * (mx + mn), 510)>>

\* Per cent of cyan, magenta, yellow and black.
rgbToCmyk(c) ==
    LET mx == Max(Rgb(c))
    IN  IF mx = 0 THEN <<0, 0, 0, 100>>
        ELSE <<Round(100 * (mx - c[1]), mx), Round(100 * (mx - c[2]), mx),
               Round(100 * (mx - c[3]), mx), Round(100 * (255 - mx), 255)>>

\* The family a color is filed under, by its rounded hue and saturation.
hueFamily(h, s) ==
    CASE s < 12                                 -> "achromatic"
      [] s >= 12 /\ (h < 15 \/ h >= 345)        -> "red"
      [] s >= 12 /\ h \in 15 .. 44              -> "orange"
      [] s >= 12 /\ h \in 45 .. 69              -> "yellow"
      [] s >= 12 /\ h \in 70 .. 159             -> "green"
      [] s >= 12 /\ h \in 160 .. 199            -> "teal"
      [] s >= 12 /\ h \in 200 .. 249            -> "blue"
      [] s >= 12 /\ h \in 250 .. 289            -> "purple"
      [] OTHER                                  -> "pink"

\* The tags of a color, from its OKLCH: lightness and chroma in thousandths,
\* hue in degrees.
colorTypes(L, C, H) ==
    {t \in {"pastel", "light", "dark", "muted", "neutral", "vivid", "neon", "jewel",
            "earth", "warm", "cool"} :
        \/ t = "pastel"  /\ L >= 800 /\ C >= 30 /\ C <= 100
        \/ t = "light"   /\ L >= 820
        \/ t = "dark"    /\ L <= 350
        \/ t = "muted"   /\ C >= 25 /\ C <= 90
        \/ t = "neutral" /\ C < 25
        \/ t = "vivid"   /\ C >= 160
        \/ t = "neon"    /\ C >= 220 /\ L >= 550
        \/ t = "jewel"   /\ L >= 300 /\ L <= 650 /\ C >= 120
        \/ t = "earth"   /\ H >= 40 /\ H < 130 /\ C >= 30 /\ C <= 110 /\ L >= 250 /\ L <= 700
        \/ t = "warm"    /\ C >= 25 /\ (H < 130 \/ H >= 340)
        \/ t = "cool"    /\ C >= 25 /\ H >= 130 /\ H < 340}

-----------------------------------------------------------------------------
(* Contrast, and the two inks.                                               *)

inkDark  == <<28, 25, 23>>
inkLight == <<255, 255, 255>>

\* In ten-thousandths of white.
relativeLuminance(c) ==
    (2126 * Linear[c[1]] + 7152 * Linear[c[2]] + 722 * Linear[c[3]]) \div 10000

\* What the inks rest on: white is 1, and the dark ink, about 0.011, at most 0.015.
ASSUME LinearAssumption ==
    /\ Linear \in [0 .. 255 -> Nat] /\ \A c \in 0 .. 255 : Linear[c] <= Linear[255]
    /\ Linear[255] = 10000
    /\ relativeLuminance(inkDark) <= 150

\* WCAG contrast, in hundredths: 100 to 2100.
contrast(c, d) ==
    LET L == {relativeLuminance(c), relativeLuminance(d)}
    IN  (100 * (Max(L) + 500)) \div (Min(L) + 500)

\* Mutant of onColor: the ink is chosen by the lightness of HSL.
onColor_ByLightness(c) == IF rgbToHsl(c)[3] > 50 THEN inkDark ELSE inkLight
\* The better of the two inks on a color; compared without rounding.
onColor(c) ==
    LET L  == relativeLuminance(c)
        D  == relativeLuminance(inkDark)
        hi == IF L > D THEN L ELSE D
        lo == IF L > D THEN D ELSE L
    IN  IF (hi + 500) * (L + 500) >= 10500 * (lo + 500) THEN inkDark ELSE inkLight
=============================================================================
