---------------------------- MODULE Desktop_proofs ----------------------------
(* Proofs about Desktop and ColorMath, for every palette, window and gamma   *)
(* curve: the ink on a color is legible, no part of a drawing covers another *)
(* in a window that is not too flat, and what the page says of a color is in *)
(* the range of its kind and gives the color back.                           *)
EXTENDS Desktop, SequenceTheorems, TLAPS

-----------------------------------------------------------------------------
(* Quotients                                                                 *)

LEMMA Division ==
    ASSUME NEW a \in Int, NEW b \in Nat \ {0}
    PROVE  a \div b \in Int /\ b * (a \div b) <= a /\ a < b * (a \div b) + b
  OBVIOUS

\* A quotient that is at most m is at most m when it is rounded.
LEMMA RoundBound ==
    ASSUME NEW n \in Nat, NEW d \in Nat \ {0}, NEW m \in Nat, n <= m * d
    PROVE  Round(n, d) \in 0 .. m
  <1> DEFINE q == (2 * n + d) \div (2 * d)
  <1>1. q \in Int /\ (2 * d) * q <= 2 * n + d /\ 2 * n + d < (2 * d) * q + 2 * d
    <2>1. 2 * n + d \in Int /\ 2 * d \in Nat \ {0}
      OBVIOUS
    <2> QED
      BY <2>1, Division
  <1> HIDE DEF q
  <1>2. q >= 0
    <2>1. SUFFICES ASSUME q <= -1 PROVE FALSE
      BY <1>1
    <2>2. (2 * d) * q <= (2 * d) * (-1)
      BY <1>1, <2>1
    <2> QED
      BY <1>1, <2>2
  <1>3. q <= m
    <2>1. SUFFICES ASSUME q >= m + 1 PROVE FALSE
      BY <1>1
    <2>2. (2 * d) * q >= (2 * d) * (m + 1)
      BY <1>1, <2>1
    <2> QED
      BY <1>1, <2>2
  <1> QED
    BY <1>1, <1>2, <1>3 DEF Round, q

LEMMA TurnBound ==
    ASSUME NEW n \in Nat, NEW d \in Nat \ {0}, n <= 360 * d
    PROVE  Round(n, d) \in 0 .. 360
  <1> DEFINE m == 360
  <1>1. m \in Nat /\ n <= m * d
    OBVIOUS
  <1> HIDE DEF m
  <1>2. Round(n, d) \in 0 .. m
    BY <1>1, RoundBound
  <1> QED
    BY <1>2 DEF m

-----------------------------------------------------------------------------
(* The inks                                                                  *)

LEMMA TwoExtremes ==
    ASSUME NEW a \in Int, NEW b \in Int
    PROVE  /\ Max({a, b}) = IF a >= b THEN a ELSE b
           /\ Min({a, b}) = IF a <= b THEN a ELSE b
  <1>1. PICK x \in {a, b} : \A y \in {a, b} : x >= y
    <2>1. CASE a >= b
      BY <2>1
    <2>2. CASE b >= a
      BY <2>2
    <2> QED
      BY <2>1, <2>2
  <1>2. PICK w \in {a, b} : \A y \in {a, b} : w <= y
    <2>1. CASE a <= b
      BY <2>1
    <2>2. CASE b <= a
      BY <2>2
    <2> QED
      BY <2>1, <2>2
  <1>3. Max({a, b}) \in {a, b} /\ \A y \in {a, b} : Max({a, b}) >= y
    BY <1>1 DEF Max
  <1>4. Min({a, b}) \in {a, b} /\ \A y \in {a, b} : Min({a, b}) <= y
    BY <1>2 DEF Min
  <1> QED
    BY <1>3, <1>4

LEMMA Weighted ==
    ASSUME NEW x \in Nat, NEW y \in Nat, NEW z \in Nat, x <= 10000, y <= 10000, z <= 10000
    PROVE  /\ (2126 * x + 7152 * y + 722 * z) \div 10000 \in Nat
           /\ (2126 * x + 7152 * y + 722 * z) \div 10000 <= 10000
  OBVIOUS

LEMMA Luminance ==
    ASSUME NEW c \in RgbColors
    PROVE  relativeLuminance(c) \in Nat /\ relativeLuminance(c) <= 10000
  <1> DEFINE x == Linear[c[1]]
             y == Linear[c[2]]
             z == Linear[c[3]]
             B == 0 .. 255
  <1>1. c[1] \in B /\ c[2] \in B /\ c[3] \in B
    BY DEF RgbColors
  <1>2. \A k \in B : Linear[k] \in Nat /\ Linear[k] <= 10000
    BY LinearAssumption
  <1> HIDE DEF B
  <1>3. x \in Nat /\ x <= 10000 /\ y \in Nat /\ y <= 10000 /\ z \in Nat /\ z <= 10000
    BY <1>1, <1>2
  <1>4. relativeLuminance(c) = (2126 * x + 7152 * y + 722 * z) \div 10000
    BY DEF relativeLuminance
  <1> HIDE DEF x, y, z
  <1> QED
    BY <1>3, <1>4, Weighted

LEMMA Inks ==
    /\ inkDark \in RgbColors /\ inkLight \in RgbColors /\ inkDark # inkLight
    /\ relativeLuminance(inkDark) \in Nat /\ relativeLuminance(inkDark) <= 150
    /\ relativeLuminance(inkLight) = 10000
  <1>1. inkDark \in RgbColors /\ inkLight \in RgbColors /\ inkDark # inkLight
    BY DEF inkDark, inkLight, RgbColors
  <1>2. relativeLuminance(inkLight) = 10000
    <2>1. inkLight[1] = 255 /\ inkLight[2] = 255 /\ inkLight[3] = 255
      BY DEF inkLight
    <2>2. relativeLuminance(inkLight) = (2126 * 10000 + 7152 * 10000 + 722 * 10000) \div 10000
      BY <2>1, LinearAssumption DEF relativeLuminance
    <2> QED
      BY <2>2
  <1>3. relativeLuminance(inkDark) \in Nat /\ relativeLuminance(inkDark) <= 150
    BY <1>1, Luminance, LinearAssumption
  <1> QED
    BY <1>1, <1>2, <1>3

\* Where the dark ink is chosen it is four times away, because the square of x
\* is more than sixteen times that of d; where the light one is, x is small.
LEMMA Apart4 ==
    ASSUME NEW x \in Nat, NEW d \in Nat, x <= 10500, 500 <= d, d <= 650
    PROVE  /\ x * x >= 10500 * d => x >= 4 * d
           /\ x * x < 10500 * d  => 4 * x <= 10500
  <1>1. ASSUME x * x >= 10500 * d, x < 4 * d PROVE FALSE
    <2>1. x * x <= x * (4 * d)
      BY <1>1
    <2>2. x * (4 * d) <= (4 * d) * (4 * d)
      BY <1>1
    <2>3. (4 * d) * (4 * d) = (16 * d) * d
      OBVIOUS
    <2>4. (16 * d) * d <= 10400 * d
      OBVIOUS
    <2> QED
      BY <1>1, <2>1, <2>2, <2>3, <2>4
  <1>2. ASSUME x * x < 10500 * d, 4 * x > 10500 PROVE FALSE
    <2>1. x >= 2626
      BY <1>2
    <2>2. x * x >= 2626 * 2626
      <3>1. x * x >= 2626 * x
        BY <2>1
      <3> QED
        BY <2>1, <3>1
    <2> QED
      BY <1>2, <2>2
  <1> QED
    BY <1>1, <1>2

\* The ink of a color has a contrast of 4:1 with it, whatever the color.
LEMMA InkContrast ==
    ASSUME NEW c \in RgbColors
    PROVE  contrast(onColor(c), c) >= 400
  <1> DEFINE L == relativeLuminance(c)
             D == relativeLuminance(inkDark)
  <1>1. L \in Nat /\ L <= 10000 /\ D \in Nat /\ D <= 150
    BY Luminance, Inks
  <1>2. /\ onColor(c) = IF ((IF L > D THEN L ELSE D) + 500) * (L + 500) >= 10500 * ((IF L > D THEN D ELSE L) + 500)
                        THEN inkDark ELSE inkLight
        /\ \A k \in RgbColors :
             LET M == relativeLuminance(k)
             IN  contrast(k, c) = (100 * ((IF M >= L THEN M ELSE L) + 500)) \div ((IF M <= L THEN M ELSE L) + 500)
    <2>1. \A k \in RgbColors : relativeLuminance(k) \in Int
      BY Luminance
    <2>2. L \in Int
      BY <1>1
    <2> HIDE DEF L
    <2>3. ASSUME NEW k \in RgbColors
          PROVE  contrast(k, c) = (100 * ((IF relativeLuminance(k) >= L THEN relativeLuminance(k) ELSE L) + 500))
                                  \div ((IF relativeLuminance(k) <= L THEN relativeLuminance(k) ELSE L) + 500)
      <3>1. relativeLuminance(k) \in Int
        BY <2>1
      <3>2. contrast(k, c) = (100 * (Max({relativeLuminance(k), L}) + 500)) \div (Min({relativeLuminance(k), L}) + 500)
        BY DEF contrast, L
      <3> QED
        BY <2>2, <3>1, <3>2, TwoExtremes
    <2> QED
      BY <2>3 DEF onColor, L
  <1> HIDE DEF L, D
  <1>3. CASE L > D /\ (L + 500) * (L + 500) >= 10500 * (D + 500)
    <2>1. onColor(c) = inkDark /\ contrast(inkDark, c) = (100 * (L + 500)) \div (D + 500)
      BY <1>1, <1>2, <1>3, Inks DEF D
    <2>2. L + 500 >= 4 * (D + 500)
      BY <1>1, <1>3, Apart4
    <2>3. (100 * (L + 500)) \div (D + 500) >= 400
      BY <1>1, <2>2, Division
    <2> QED
      BY <2>1, <2>3
  <1>4. CASE L > D /\ (L + 500) * (L + 500) < 10500 * (D + 500)
    <2>1. onColor(c) = inkLight /\ contrast(inkLight, c) = (100 * 10500) \div (L + 500)
      BY <1>1, <1>2, <1>4, Inks
    <2>2. 4 * (L + 500) <= 10500
      BY <1>1, <1>4, Apart4
    <2>3. (100 * 10500) \div (L + 500) >= 400
      BY <1>1, <2>2, Division
    <2> QED
      BY <2>1, <2>3
  <1>5. CASE L <= D
    <2>1. (D + 500) * (L + 500) < 10500 * (L + 500)
      BY <1>1
    <2>2. onColor(c) = inkLight /\ contrast(inkLight, c) = (100 * 10500) \div (L + 500)
      BY <1>1, <1>2, <1>5, <2>1, Inks
    <2>3. (100 * 10500) \div (L + 500) >= 400
      BY <1>1, <1>5, Division
    <2> QED
      BY <2>2, <2>3
  <1> QED
    BY <1>1, <1>3, <1>4, <1>5

-----------------------------------------------------------------------------
(* Text on the films over a color                                            *)

\* What a film leaves of the light of a channel.
Dimmed(v, u) == u \in 0 .. 255 /\ 100 * Linear[u] + 400 >= 55 * Linear[v]
Lifted(v, u) == u \in 0 .. 255 /\ Linear[u] <= Linear[v] + 2450

LEMMA FilmedChannel ==
    ASSUME NEW v \in 0 .. 255
    PROVE  /\ \A a \in {7, 8, 10, 11} : Dimmed(v, blackened(v, a))
           /\ \A a \in {14, 20} : Lifted(v, whitened(v, a))
           /\ Dimmed(v, blackened(blackened(v, 10), 13))
           /\ Lifted(v, whitened(whitened(v, 20), 26))
  <1> DEFINE B == 0 .. 255
             Dark(u)  == 100 * Linear[blackened(blackened(u, 10), 13)] + 400 >= 55 * Linear[u]
             Light(u) == Linear[whitened(whitened(u, 20), 26)] <= Linear[u] + 2450
  <1>1. v \in B /\ (\A u \in B : Linear[u] \in Nat)
    BY LinearAssumption
  <1>2. \A u, w \in B : u <= w => Linear[u] <= Linear[w]
    BY CurveAssumption, Zenon
  <1>3. (\A u \in B : Dark(u)) /\ (\A u \in B : Light(u))
    BY CurveAssumption, Zenon
  <1> HIDE DEF B, Dark, Light
  <1>4. Dark(v) /\ Light(v)
    BY <1>1, <1>3
  <1>5. ASSUME NEW a \in {7, 8, 10, 11} PROVE Dimmed(v, blackened(v, a))
    <2> DEFINE u == blackened(v, a)
               w == blackened(blackened(v, 10), 13)
    \* The strongest film goes furthest.
    <2>1. u \in B /\ w \in B /\ w <= u
      BY DEF B, blackened
    <2>2. Linear[w] <= Linear[u] /\ Linear[w] \in Nat /\ Linear[u] \in Nat /\ Linear[v] \in Nat
      BY <1>1, <1>2, <2>1, Zenon
    <2>3. 100 * Linear[w] + 400 >= 55 * Linear[v]
      BY <1>4 DEF Dark
    <2> HIDE DEF u, w
    <2> QED
      BY <2>1, <2>2, <2>3 DEF Dimmed, u, B
  <1>6. ASSUME NEW a \in {14, 20} PROVE Lifted(v, whitened(v, a))
    <2> DEFINE u == whitened(v, a)
               w == whitened(whitened(v, 20), 26)
    <2>1. u \in B /\ w \in B /\ u <= w
      BY DEF B, whitened
    <2>2. Linear[u] <= Linear[w] /\ Linear[w] \in Nat /\ Linear[u] \in Nat /\ Linear[v] \in Nat
      BY <1>1, <1>2, <2>1, Zenon
    <2>3. Linear[w] <= Linear[v] + 2450
      BY <1>4 DEF Light
    <2> HIDE DEF u, w
    <2> QED
      BY <2>1, <2>2, <2>3 DEF Lifted, u, B
  <1>7. blackened(blackened(v, 10), 13) \in 0 .. 255 /\ whitened(whitened(v, 20), 26) \in 0 .. 255
    BY DEF blackened, whitened
  <1> QED
    BY <1>4, <1>5, <1>6, <1>7 DEF Dimmed, Lifted, Dark, Light

\* The same of the luminance, a weighted mean of the channels.
Mean(x, y, z) == (2126 * x + 7152 * y + 722 * z) \div 10000

LEMMA Filmed ==
    ASSUME NEW c \in RgbColors, NEW f, f = [i \in 1 .. 3 |-> f[i]]
    PROVE  /\ (\A i \in 1 .. 3 : Dimmed(c[i], f[i])) =>
                  f \in RgbColors /\ 100 * relativeLuminance(f) + 500 >= 55 * relativeLuminance(c)
           /\ (\A i \in 1 .. 3 : Lifted(c[i], f[i])) =>
                  f \in RgbColors /\ relativeLuminance(f) <= relativeLuminance(c) + 2451
  <1> DEFINE B == 0 .. 255
             T == 1 .. 3
             x == Linear[c[1]]
             y == Linear[c[2]]
             z == Linear[c[3]]
             p == Linear[f[1]]
             q == Linear[f[2]]
             r == Linear[f[3]]
  <1>1. \A u \in B : Linear[u] \in Nat
    BY LinearAssumption
  <1>2. (\A i \in T : f[i] \in B) => f \in RgbColors
    BY DEF RgbColors
  <1>3. relativeLuminance(f) = Mean(p, q, r) /\ relativeLuminance(c) = Mean(x, y, z)
    BY DEF relativeLuminance, Mean
  <1>4. 1 \in T /\ 2 \in T /\ 3 \in T /\ (\A i \in T : c[i] \in B)
    BY DEF RgbColors
  <1> HIDE DEF B, T
  <1>5. x \in Nat /\ y \in Nat /\ z \in Nat
    BY <1>1, <1>4, Zenon
  <1>6. ASSUME \A i \in T : f[i] \in B PROVE p \in Nat /\ q \in Nat /\ r \in Nat
    BY <1>1, <1>4, <1>6, Zenon
  <1>7. ASSUME \A i \in T : Dimmed(c[i], f[i])
        PROVE  f \in RgbColors /\ 100 * relativeLuminance(f) + 500 >= 55 * relativeLuminance(c)
    <2>1. \A i \in T : f[i] \in B
      BY <1>7 DEF Dimmed, B
    <2>2. 100 * p + 400 >= 55 * x /\ 100 * q + 400 >= 55 * y /\ 100 * r + 400 >= 55 * z
      <3>1. Dimmed(c[1], f[1]) /\ Dimmed(c[2], f[2]) /\ Dimmed(c[3], f[3])
        BY <1>4, <1>7, Zenon
      <3> QED
        BY <3>1, Zenon DEF Dimmed
    <2>3. p \in Nat /\ q \in Nat /\ r \in Nat
      BY <1>6, <2>1
    <2> HIDE DEF x, y, z, p, q, r
    <2>4. 100 * Mean(p, q, r) + 500 >= 55 * Mean(x, y, z)
      BY ONLY <1>5, <2>2, <2>3 DEF Mean
    <2> QED
      BY <1>2, <1>3, <2>1, <2>4
  <1>8. ASSUME \A i \in T : Lifted(c[i], f[i])
        PROVE  f \in RgbColors /\ relativeLuminance(f) <= relativeLuminance(c) + 2451
    <2>1. \A i \in T : f[i] \in B
      BY <1>8 DEF Lifted, B
    <2>2. p <= x + 2450 /\ q <= y + 2450 /\ r <= z + 2450
      <3>1. Lifted(c[1], f[1]) /\ Lifted(c[2], f[2]) /\ Lifted(c[3], f[3])
        BY <1>4, <1>8, Zenon
      <3> QED
        BY <3>1 DEF Lifted
    <2>3. p \in Nat /\ q \in Nat /\ r \in Nat
      BY <1>6, <2>1
    <2> HIDE DEF x, y, z, p, q, r
    <2>4. Mean(p, q, r) <= Mean(x, y, z) + 2451
      BY ONLY <1>5, <2>2, <2>3 DEF Mean
    <2> QED
      BY <1>2, <1>3, <2>1, <2>4
  <1> QED
    BY <1>7, <1>8 DEF T

\* Every surface of the chrome is such a film, black where the ink is dark.
LEMMA Surfaces ==
    ASSUME NEW c \in RgbColors, NEW f \in chromeSurfaces(c) \cup surfaces(c)
    PROVE  /\ f = [i \in 1 .. 3 |-> f[i]]
           /\ IF onColor(c) = inkDark THEN \A i \in 1 .. 3 : Dimmed(c[i], f[i])
              ELSE \A i \in 1 .. 3 : Lifted(c[i], f[i])
  <1> DEFINE ink == onColor(c)
  <1>1. \A i \in 1 .. 3 : c[i] \in 0 .. 255
    BY DEF RgbColors
  <1>2. CASE ink = inkDark
    <2>1. \/ \E a \in {7, 8, 10, 11} : f = film(c, ink, a)
          \/ f = film(film(c, ink, 10), ink, 13)
      BY <1>2 DEF chromeSurfaces, surfaces
    <2>2. ASSUME NEW a \in {7, 8, 10, 11}, f = film(c, ink, a)
          PROVE  f = [i \in 1 .. 3 |-> f[i]] /\ \A i \in 1 .. 3 : f[i] = blackened(c[i], a)
      BY <1>2, <2>2 DEF film
    <2>3. ASSUME f = film(film(c, ink, 10), ink, 13)
          PROVE  f = [i \in 1 .. 3 |-> f[i]] /\ \A i \in 1 .. 3 : f[i] = blackened(blackened(c[i], 10), 13)
      BY <1>2, <2>3 DEF film
    <2> QED
      BY <1>1, <1>2, <2>1, <2>2, <2>3, FilmedChannel
  <1>3. CASE ink # inkDark
    <2>1. \/ \E a \in {14, 20} : f = film(c, ink, a)
          \/ f = film(film(c, ink, 20), ink, 26)
      BY <1>3 DEF chromeSurfaces, surfaces
    <2>2. ASSUME NEW a \in {14, 20}, f = film(c, ink, a)
          PROVE  f = [i \in 1 .. 3 |-> f[i]] /\ \A i \in 1 .. 3 : f[i] = whitened(c[i], a)
      BY <1>3, <2>2 DEF film
    <2>3. ASSUME f = film(film(c, ink, 20), ink, 26)
          PROVE  f = [i \in 1 .. 3 |-> f[i]] /\ \A i \in 1 .. 3 : f[i] = whitened(whitened(c[i], 20), 26)
      BY <1>3, <2>3 DEF film
    <2> QED
      BY <1>1, <1>3, <2>1, <2>2, <2>3, FilmedChannel
  <1> QED
    BY <1>2, <1>3

\* Where the ink is dark the color has a luminance of 1,791 at least, where it
\* is light one of 2,112 at most.
LEMMA InkRanges ==
    ASSUME NEW c \in RgbColors
    PROVE  IF onColor(c) = inkDark THEN relativeLuminance(c) >= 1791
           ELSE onColor(c) = inkLight /\ relativeLuminance(c) <= 2112
  <1> DEFINE L == relativeLuminance(c)
             D == relativeLuminance(inkDark)
  <1>1. L \in Nat /\ L <= 10000 /\ D \in Nat /\ D <= 150 /\ inkDark # inkLight
    BY Luminance, Inks
  <1>2. onColor(c) = IF ((IF L > D THEN L ELSE D) + 500) * (L + 500) >= 10500 * ((IF L > D THEN D ELSE L) + 500)
                     THEN inkDark ELSE inkLight
    BY DEF onColor
  <1> HIDE DEF L, D
  <1>3. ASSUME L > D, L < 1791 PROVE (L + 500) * (L + 500) < 10500 * (D + 500)
    <2>1. (L + 500) * (L + 500) <= 2290 * (L + 500)
      BY <1>1, <1>3
    <2> QED
      BY <1>1, <1>3, <2>1
  <1>4. ASSUME L > 2112 PROVE (L + 500) * (L + 500) >= 10500 * (D + 500)
    <2>1. (L + 500) * (L + 500) >= 2613 * (L + 500)
      BY <1>1, <1>4
    <2> QED
      BY <1>1, <1>4, <2>1
  <1>5. ASSUME L <= D PROVE (D + 500) * (L + 500) < 10500 * (L + 500)
    BY <1>1, <1>5
  <1>6. CASE L > D
    BY <1>1, <1>2, <1>3, <1>4, <1>6 DEF L
  <1>7. CASE L <= D
    BY <1>1, <1>2, <1>5, <1>7 DEF L
  <1> QED
    BY <1>1, <1>6, <1>7

\* The ink of a color has a contrast of 2:1 with every surface over it.
LEMMA FilmContrast ==
    ASSUME NEW c \in RgbColors, NEW f \in chromeSurfaces(c) \cup surfaces(c)
    PROVE  contrast(onColor(c), f) >= 200
  <1> DEFINE L == relativeLuminance(c)
             F == relativeLuminance(f)
             M == relativeLuminance(onColor(c))
  <1>1. /\ f \in RgbColors
        /\ IF onColor(c) = inkDark THEN 100 * F + 500 >= 55 * L ELSE F <= L + 2451
    BY Surfaces, Filmed
  <1>2. L \in Nat /\ F \in Nat /\ F <= 10000
    BY <1>1, Luminance
  <1>3. contrast(onColor(c), f) = (100 * (Max({M, F}) + 500)) \div (Min({M, F}) + 500)
    BY DEF contrast
  <1>4. IF onColor(c) = inkDark THEN L >= 1791 /\ M \in Nat /\ M <= 150
        ELSE L <= 2112 /\ M = 10000
    BY InkRanges, Inks
  <1> HIDE DEF L, F, M
  <1>5. Max({M, F}) = (IF M >= F THEN M ELSE F) /\ Min({M, F}) = (IF M <= F THEN M ELSE F)
    BY <1>2, <1>4, TwoExtremes
  <1>6. CASE onColor(c) = inkDark
    <2>1. F >= 980 /\ M <= 150 /\ M \in Nat
      BY <1>1, <1>2, <1>4, <1>6
    <2>2. (100 * (F + 500)) \div (M + 500) >= 200
      BY <1>2, <2>1, Division
    <2> QED
      BY <1>2, <1>3, <1>5, <2>1, <2>2
  <1>7. CASE onColor(c) # inkDark
    <2>1. F <= 4563 /\ M = 10000
      BY <1>1, <1>2, <1>4, <1>7
    <2>2. (100 * 10500) \div (F + 500) >= 200
      BY <1>2, <2>1, Division
    <2> QED
      BY <1>2, <1>3, <1>5, <2>1, <2>2
  <1> QED
    BY <1>6, <1>7

-----------------------------------------------------------------------------
(* What the page says of a color                                             *)

LEMMA Channels ==
    ASSUME NEW c \in RgbColors
    PROVE  /\ Max(Rgb(c)) \in Rgb(c) /\ Min(Rgb(c)) \in Rgb(c)
           /\ \A i \in 1 .. 3 : /\ c[i] \in 0 .. 255
                                /\ Min(Rgb(c)) <= c[i] /\ c[i] <= Max(Rgb(c))
  <1>1. c[1] \in 0 .. 255 /\ c[2] \in 0 .. 255 /\ c[3] \in 0 .. 255
    BY DEF RgbColors
  <1>2. \E x \in Rgb(c) : \A y \in Rgb(c) : x >= y
    <2>1. CASE c[1] >= c[2] /\ c[1] >= c[3]
      BY <1>1, <2>1 DEF Rgb
    <2>2. CASE c[2] >= c[1] /\ c[2] >= c[3]
      BY <1>1, <2>2 DEF Rgb
    <2>3. CASE c[3] >= c[1] /\ c[3] >= c[2]
      BY <1>1, <2>3 DEF Rgb
    <2>4. c[1] \in Int /\ c[2] \in Int /\ c[3] \in Int
      BY <1>1
    <2> QED
      BY <2>1, <2>2, <2>3, <2>4
  <1>3. \E x \in Rgb(c) : \A y \in Rgb(c) : x <= y
    <2>1. CASE c[1] <= c[2] /\ c[1] <= c[3]
      BY <1>1, <2>1 DEF Rgb
    <2>2. CASE c[2] <= c[1] /\ c[2] <= c[3]
      BY <1>1, <2>2 DEF Rgb
    <2>3. CASE c[3] <= c[1] /\ c[3] <= c[2]
      BY <1>1, <2>3 DEF Rgb
    <2>4. c[1] \in Int /\ c[2] \in Int /\ c[3] \in Int
      BY <1>1
    <2> QED
      BY <2>1, <2>2, <2>3, <2>4
  <1>4. Max(Rgb(c)) \in Rgb(c) /\ \A y \in Rgb(c) : Max(Rgb(c)) >= y
    BY <1>2 DEF Max
  <1>5. Min(Rgb(c)) \in Rgb(c) /\ \A y \in Rgb(c) : Min(Rgb(c)) <= y
    BY <1>3 DEF Min
  <1>6. \A i \in 1 .. 3 : c[i] \in Rgb(c) /\ c[i] \in 0 .. 255
    BY <1>1 DEF Rgb
  <1>7. \A y \in Rgb(c) : y \in Int
    BY <1>1 DEF Rgb
  <1> QED
    BY <1>4, <1>5, <1>6, <1>7

\* The extremes of the channels.
Top(c)    == Max(Rgb(c))
Bottom(c) == Min(Rgb(c))

LEMMA Extremes ==
    ASSUME NEW c \in RgbColors
    PROVE  /\ Top(c) \in 0 .. 255 /\ Bottom(c) \in 0 .. 255 /\ Bottom(c) <= Top(c)
           /\ Top(c) \in {c[1], c[2], c[3]} /\ Bottom(c) \in {c[1], c[2], c[3]}
           /\ \A i \in 1 .. 3 : c[i] \in 0 .. 255 /\ Bottom(c) <= c[i] /\ c[i] <= Top(c)
  <1>1. /\ Top(c) \in {c[1], c[2], c[3]} /\ Bottom(c) \in {c[1], c[2], c[3]}
        /\ \A i \in 1 .. 3 : c[i] \in 0 .. 255 /\ Bottom(c) <= c[i] /\ c[i] <= Top(c)
    <2>1. /\ Top(c) \in Rgb(c) /\ Bottom(c) \in Rgb(c)
          /\ \A i \in 1 .. 3 : c[i] \in 0 .. 255 /\ Bottom(c) <= c[i] /\ c[i] <= Top(c)
      BY Channels DEF Top, Bottom
    <2> QED
      BY <2>1 DEF Rgb
  <1>2. c[1] \in 0 .. 255 /\ c[2] \in 0 .. 255 /\ c[3] \in 0 .. 255
    BY <1>1
  <1> QED
    BY <1>1, <1>2

\* Hue is 0 to 360, saturation and lightness are per cents, for every color:
\* the differences that are divided by are never nothing (color.ts:21-29).
THEOREM HslInRange ==
    ASSUME NEW c \in RgbColors
    PROVE  /\ rgbToHsl(c)[1] \in 0 .. 360
           /\ rgbToHsl(c)[2] \in 0 .. 100 /\ rgbToHsl(c)[3] \in 0 .. 100
  <1> DEFINE mx == Max(Rgb(c))
             mn == Min(Rgb(c))
             d  == mx - mn
  <1>1. /\ mx \in Nat /\ mn \in Nat /\ mx <= 255 /\ mn <= mx
        /\ c[1] \in Nat /\ c[2] \in Nat /\ c[3] \in Nat
        /\ mn <= c[1] /\ c[1] <= mx /\ mn <= c[2] /\ c[2] <= mx /\ mn <= c[3] /\ c[3] <= mx
        /\ mx \in {c[1], c[2], c[3]} /\ mn \in {c[1], c[2], c[3]}
    <2>1. /\ mx \in 0 .. 255 /\ mn \in 0 .. 255 /\ mn <= mx
          /\ mx \in {c[1], c[2], c[3]} /\ mn \in {c[1], c[2], c[3]}
      BY Extremes DEF Top, Bottom
    <2>2. \A i \in 1 .. 3 : c[i] \in 0 .. 255 /\ mn <= c[i] /\ c[i] <= mx
      BY Extremes DEF Top, Bottom
    <2> HIDE DEF mx, mn
    <2> QED
      BY <2>1, <2>2
  <1>2. rgbToHsl(c) =
          <<Hue(c, mx, d),
            IF d = 0 THEN 0 ELSE Round(100 * d, IF mx + mn > 255 THEN 510 - mx - mn ELSE mx + mn),
            Round(100 * (mx + mn), 510)>>
    BY DEF rgbToHsl
  <1> HIDE DEF mx, mn
  <1>3. Hue(c, mx, d) \in 0 .. 360
    <2>1. CASE d = 0
      BY <2>1 DEF Hue
    <2>2. CASE d # 0 /\ mx = c[1]
      <3> DEFINE n == 60 * (c[2] - c[3] + IF c[2] < c[3] THEN 6 * d ELSE 0)
      <3>1. d \in Nat \ {0} /\ n \in Nat /\ n <= 360 * d
        BY <1>1, <2>2
      <3>2. Hue(c, mx, d) = Round(n, d)
        BY <1>1, <2>2 DEF Hue
      <3> HIDE DEF n, d
      <3> QED
        BY <3>1, <3>2, TurnBound
    <2>3. CASE d # 0 /\ mx # c[1] /\ mx = c[2]
      <3> DEFINE n == 60 * (c[3] - c[1] + 2 * d)
      <3>1. d \in Nat \ {0} /\ n \in Nat /\ n <= 360 * d
        BY <1>1, <2>3
      <3>2. Hue(c, mx, d) = Round(n, d)
        BY <1>1, <2>3 DEF Hue
      <3> HIDE DEF n, d
      <3> QED
        BY <3>1, <3>2, TurnBound
    <2>4. CASE d # 0 /\ mx # c[1] /\ mx # c[2]
      <3> DEFINE n == 60 * (c[1] - c[2] + 4 * d)
      <3>1. d \in Nat \ {0} /\ n \in Nat /\ n <= 360 * d
        BY <1>1, <2>4
      <3>2. Hue(c, mx, d) = Round(n, d)
        BY <1>1, <2>4 DEF Hue
      <3> HIDE DEF n, d
      <3> QED
        BY <3>1, <3>2, TurnBound
    <2> QED
      BY <2>1, <2>2, <2>3, <2>4
  <1>4. d # 0 => Round(100 * d, IF mx + mn > 255 THEN 510 - mx - mn ELSE mx + mn) \in 0 .. 100
    <2> DEFINE s == IF mx + mn > 255 THEN 510 - mx - mn ELSE mx + mn
    <2>1. SUFFICES ASSUME d # 0 PROVE Round(100 * d, s) \in 0 .. 100
      OBVIOUS
    <2>2. s \in Nat \ {0} /\ d \in Nat /\ d <= s
      BY <1>1, <2>1
    <2> HIDE DEF s, d
    <2>3. 100 * d \in Nat /\ 100 * d <= 100 * s
      BY <2>2
    <2> QED
      BY <2>2, <2>3, RoundBound
  <1>5. Round(100 * (mx + mn), 510) \in 0 .. 100
    <2> DEFINE n == 100 * (mx + mn)
               w == 510
    <2>1. n \in Nat /\ w \in Nat \ {0} /\ n <= 100 * w
      BY <1>1
    <2> HIDE DEF n, w
    <2>2. Round(n, w) \in 0 .. 100
      BY <2>1, RoundBound
    <2> QED
      BY <2>2 DEF n, w
  <1> QED
    BY <1>2, <1>3, <1>4, <1>5

\* The inks of a CMYK print are per cents, black included (color.ts:41).
THEOREM CmykInRange ==
    ASSUME NEW c \in RgbColors, NEW i \in 1 .. 4
    PROVE  rgbToCmyk(c)[i] \in 0 .. 100
  <1> DEFINE mx == Max(Rgb(c))
  <1>1. /\ mx \in Nat /\ mx <= 255
        /\ \A j \in 1 .. 3 : c[j] \in Nat /\ c[j] <= mx
    <2>1. \A j \in 1 .. 3 : c[j] \in Nat /\ c[j] <= 255 /\ c[j] <= mx
      BY Channels
    <2>2. mx \in {c[1], c[2], c[3]}
      BY Channels DEF Rgb
    <2> HIDE DEF mx
    <2> QED
      BY <2>1, <2>2
  <1>2. rgbToCmyk(c) = IF mx = 0 THEN <<0, 0, 0, 100>>
                       ELSE <<Round(100 * (mx - c[1]), mx), Round(100 * (mx - c[2]), mx),
                              Round(100 * (mx - c[3]), mx), Round(100 * (255 - mx), 255)>>
    BY DEF rgbToCmyk
  <1> HIDE DEF mx
  <1>3. CASE mx = 0
    BY <1>2, <1>3
  <1>4. CASE mx # 0
    <2>1. \A j \in 1 .. 3 : Round(100 * (mx - c[j]), mx) \in 0 .. 100
      <3>1. TAKE j \in 1 .. 3
      <3>2. 100 * (mx - c[j]) \in Nat /\ 100 * (mx - c[j]) <= 100 * mx /\ mx \in Nat \ {0}
        BY <1>1, <1>4
      <3> QED
        BY <3>2, RoundBound
    <2>2. Round(100 * (255 - mx), 255) \in 0 .. 100
      <3> DEFINE n == 100 * (255 - mx)
                 w == 255
      <3>1. n \in Nat /\ w \in Nat \ {0} /\ n <= 100 * w
        BY <1>1
      <3> HIDE DEF n, w
      <3>2. Round(n, w) \in 0 .. 100
        BY <3>1, RoundBound
      <3> QED
        BY <3>2 DEF n, w
    <2> QED
      BY <1>2, <1>4, <2>1, <2>2
  <1> QED
    BY <1>3, <1>4

\* "Every color lands at least one tag" (color.ts:152-153): every color is one
\* of warm, cool and neutral, and only one.
THEOREM EveryColorTagged ==
    ASSUME NEW L \in Int, NEW C \in Int, NEW H \in Int
    PROVE  \E t \in {"warm", "cool", "neutral"} :
               colorTypes(L, C, H) \cap {"warm", "cool", "neutral"} = {t}
  <1>1. CASE C < 25
    <2>1. colorTypes(L, C, H) \cap {"warm", "cool", "neutral"} = {"neutral"}
      BY <1>1 DEF colorTypes
    <2> QED
      BY <2>1
  <1>2. CASE C >= 25 /\ (H < 130 \/ H >= 340)
    <2>1. colorTypes(L, C, H) \cap {"warm", "cool", "neutral"} = {"warm"}
      BY <1>2 DEF colorTypes
    <2> QED
      BY <2>1
  <1>3. CASE C >= 25 /\ ~(H < 130 \/ H >= 340)
    <2>1. colorTypes(L, C, H) \cap {"warm", "cool", "neutral"} = {"cool"}
      BY <1>3 DEF colorTypes
    <2> QED
      BY <2>1
  <1> QED
    BY <1>1, <1>2, <1>3

-----------------------------------------------------------------------------
(* The preview                                                               *)

LEMMA PaletteDomain ==
    ASSUME NEW p \in Palettes
    PROVE  Len(p) \in Nat \ {0} /\ DOMAIN p = 1 .. Len(p) /\ \A i \in DOMAIN p : p[i] \in RgbColors
  <1>1. p \in Seq(RgbColors) /\ p # << >>
    BY PalettesAssumption
  <1> QED
    BY <1>1, LenProperties, EmptySeq, ElementOfSeq

\* The selection stays a place of the palette: the arrows of the full-screen
\* preview walk around it at both ends (OsDetail.tsx:169).
THEOREM TypeCorrect == Spec => []TypeOK
  <1>1. Init => TypeOK
    BY DEF Init, TypeOK
  <1>2. TypeOK /\ [Next]_vars => TypeOK'
    <2> SUFFICES ASSUME TypeOK, [Next]_vars PROVE TypeOK'
      OBVIOUS
    <2>1. CASE Resize
      BY <2>1 DEF Resize, TypeOK
    <2>2. CASE Expand
      BY <2>2 DEF Expand, TypeOK
    <2>3. CASE Choose
      BY <2>3 DEF Choose, TypeOK
    <2>4. CASE Close
      BY <2>4 DEF Close, TypeOK
    <2>5. CASE step
      <3>1. PICK d \in {-1, 1} : sel' = ((sel - 1 + d + Len(colors)) % Len(colors)) + 1
        BY <2>5 DEF step
      <3>2. Len(colors) \in Nat \ {0} /\ DOMAIN colors = 1 .. Len(colors)
        BY PaletteDomain DEF TypeOK
      <3>3. sel - 1 + d + Len(colors) \in Nat
        BY <3>2 DEF TypeOK
      <3>4. sel' \in 1 .. Len(colors)
        BY <3>1, <3>2, <3>3
      <3> QED
        BY <2>5, <3>2, <3>4 DEF step, TypeOK
    <2>6. CASE UNCHANGED vars
      BY <2>6 DEF vars, TypeOK
    <2> QED
      BY <2>1, <2>2, <2>3, <2>4, <2>5, <2>6 DEF Next
  <1> QED
    BY <1>1, <1>2, PTL DEF Spec

\* The ink of a color is told from it: by 4:1 the one that onColor chooses, by
\* 1.6:1 that of the screen of a C64, which is another color of the system if that
\* is far enough (color.ts:72-79, DesktopPreview.tsx:562). It is the contrast of
\* the ink, not of text that is painted with some of its opacity.
THEOREM InksTold == Spec => []InkTold
  <1>1. TypeOK => InkTold
    <2> SUFFICES ASSUME TypeOK PROVE InkTold
      OBVIOUS
    <2>1. summary \in RgbColors
      BY PaletteDomain DEF TypeOK, summary
    <2>2. contrast(onColor(summary), summary) >= 400
      BY <2>1, InkContrast
    <2>3. contrast(basicInk, summary) >= ACCENT_MIN
      <3>1. CASE accent # << >> /\ contrast(accent, summary) >= ACCENT_MIN
        BY <3>1 DEF basicInk
      <3>2. CASE ~(accent # << >> /\ contrast(accent, summary) >= ACCENT_MIN)
        <4>1. basicInk = onColor(summary)
          BY <3>2 DEF basicInk
        <4>2. contrast(onColor(summary), summary) \in Int
          <5>1. onColor(summary) \in RgbColors
            BY Inks DEF onColor
          <5>2. relativeLuminance(onColor(summary)) \in Nat /\ relativeLuminance(summary) \in Nat
            BY <2>1, <5>1, Luminance
          <5> DEFINE a == relativeLuminance(onColor(summary))
                     b == relativeLuminance(summary)
          <5>3. contrast(onColor(summary), summary) = (100 * (Max({a, b}) + 500)) \div (Min({a, b}) + 500)
            BY DEF contrast
          <5>4. a \in Nat /\ b \in Nat /\ a \in Int /\ b \in Int
            BY <5>2
          <5> HIDE DEF a, b
          <5>5. /\ Max({a, b}) = IF a >= b THEN a ELSE b
                /\ Min({a, b}) = IF a <= b THEN a ELSE b
            BY <5>4, TwoExtremes
          <5> QED
            BY <5>3, <5>4, <5>5
        <4> QED
          BY <2>2, <4>1, <4>2 DEF ACCENT_MIN
      <3> QED
        BY <3>1, <3>2
    <2> QED
      BY <2>2, <2>3 DEF InkTold
  <1> QED
    BY <1>1, TypeCorrect, PTL

\* The ink stays legible on an arbitrary wallpaper: 2:1 is left on every surface
\* of the chrome (DesktopPreview.tsx:309-310, color.ts:67-79), at full strength.
THEOREM TextLegible == Spec => []InkLegible
  <1>1. TypeOK => summary \in RgbColors
    BY PaletteDomain DEF TypeOK, summary
  <1>2. TypeOK /\ InkTold => InkLegible
    BY <1>1, FilmContrast DEF InkLegible
  <1> QED
    BY <1>2, TypeCorrect, InksTold, PTL
-----------------------------------------------------------------------------
(* The parts of the drawing.                                                 *)

\* What ChromeClear says of two parts, and of one, where they are drawn.
Clear(p, q, W, H) ==
    ~Stacks(p, q) => \A r \in rects(p, W, H), s \in rects(q, W, H) : Apart(r, s)
Inside(p, W, H) ==
    \A r \in rects(p, W, H) : /\ r.l >= 0 /\ r.t >= 0 /\ r.r <= W
                              /\ r.b <= H + 25 \/ TooHigh(p)

\* The parts of a specification keep clear of each other in a room.
AllClear(sp, W, H) ==
    /\ \A i, j \in DOMAIN sp : i < j => Clear(sp[i], sp[j], W, H)
    /\ \A i \in DOMAIN sp : Inside(sp[i], W, H)

Room(W, H) == W \in Nat /\ H \in Nat /\ W >= 10000 /\ H >= 4275

LEMMA Edges ==
    ASSUME NEW W, NEW H
    PROVE  /\ DOMAIN bars(W, H) = {"taskbar", "menuBar", "topBar", "beosTab", "dock", "frontPanel"}
           /\ DOMAIN modern(W, H) = {"modernIcons", "modernWindows", "modernDock"}
  BY DEF bars, modern

LEMMA EdgeArea ==
    ASSUME NEW W, NEW H, NEW x \in {"taskbar", "menuBar", "topBar", "beosTab", "dock", "frontPanel"}
    PROVE  rects(Part(x), W, H) = bars(W, H)[x]
  BY Edges DEF rects, Part

LEMMA ModernArea ==
    ASSUME NEW W, NEW H, NEW x \in {"modernIcons", "modernWindows", "modernDock"}
    PROVE  rects(Part(x), W, H) = modern(W, H)[x]
  BY Edges DEF rects, Part

LEMMA OwnArea ==
    ASSUME NEW W, NEW H
    PROVE  /\ rects(Part("rootMenu"), W, H) = rootMenu(W, H)
           /\ rects(Part("workspaceBar"), W, H) = workspaceBar(W, H)
           /\ rects(Part("basicScreen"), W, H) = basicScreen(W, H)
  <1>1. rects(Part("rootMenu"), W, H) = rootMenu(W, H)
    BY Edges DEF rects, Part
  <1>2. rects(Part("workspaceBar"), W, H) = workspaceBar(W, H)
    BY Edges DEF rects, Part
  <1>3. rects(Part("basicScreen"), W, H) = basicScreen(W, H)
    BY Edges DEF rects, Part
  <1> QED
    BY <1>1, <1>2, <1>3

LEMMA IconsArea ==
    ASSUME NEW W, NEW H, NEW side, NEW anchor, NEW n, NEW long
    PROVE  rects(DeskIcons(side, anchor, n, long), W, H) = {deskIconsRect(DeskIcons(side, anchor, n, long), W, H)}
  BY Edges DEF rects, DeskIcons

LEMMA WindowArea ==
    ASSUME NEW W, NEW H,
           NEW x \in {"window", "platinumWindow", "cdeWindow", "gemWindow", "beosWindow",
                      "openLookWindow", "rioWindow"},
           NEW l, NEW t, NEW w, NEW body
    PROVE  rects(Window(x, l, t, w, body), W, H) =
               {Rect(100 * l, 100 * t, 100 * w, windowHeight(Window(x, l, t, w, body)))}
  BY Edges DEF rects, Window

\* What stands in a title bar's window above its body.
LEMMA Heights ==
    /\ \A x \in {"window", "platinumWindow", "cdeWindow", "gemWindow"} : \A l, t, w :
            \A n, cols \in 1 .. 9 :
              windowHeight(Window(x, l, t, w, Grid(n, cols))) = 990 + Stacked((n + cols - 1) \div cols, 400, 160)
    /\ \A l, t, w : \A n \in 1 .. 9 :
              windowHeight(Window("window", l, t, w, Rows(n))) = 990 + Stacked(n, 140, 140)
    /\ \A l, t, w : windowHeight(Window("window", l, t, w, Panes)) = 990 + 680 + 960
    /\ \A l, t, w : windowHeight(Window("beosWindow", l, t, w, Grid(8, 4))) = 880 + 960
    /\ \A l, t, w : windowHeight(Window("openLookWindow", l, t, w, Rows(2))) = 1510 + 420
    /\ \A l, t, w : windowHeight(Window("openLookWindow", l, t, w, Grid(4, 4))) = 1510 + 400
    /\ \A l, t, w : windowHeight(Window("rioWindow", l, t, w, Rows(9))) = 800 + 2380
    /\ \A l, t, w : windowHeight(Window("rioWindow", l, t, w, Rows(7))) = 800 + 1820
  <1>1. \A n, cols : bodyHeight(Grid(n, cols)) = Stacked((n + cols - 1) \div cols, 400, 160)
    BY DEF bodyHeight, Grid
  <1>2. \A n : bodyHeight(Rows(n)) = Stacked(n, 140, 140)
    BY DEF bodyHeight, Rows
  <1>3. bodyHeight(Panes) = 680 + 960
    BY DEF bodyHeight, Panes, Stacked
  <1>4. \A x \in {"window", "platinumWindow", "cdeWindow", "gemWindow"} : \A l, t, w, body :
            windowHeight(Window(x, l, t, w, body)) = 550 + 440 + bodyHeight(body)
    BY DEF windowHeight, Window
  <1>5. \A l, t, w, body : windowHeight(Window("beosWindow", l, t, w, body)) = 440 + 440 + bodyHeight(body)
    BY DEF windowHeight, Window
  <1>6. \A l, t, w, body :
            windowHeight(Window("openLookWindow", l, t, w, body)) = 550 + 520 + 440 + bodyHeight(body)
    BY DEF windowHeight, Window
  <1>7. \A l, t, w, body :
            windowHeight(Window("rioWindow", l, t, w, body)) = 400 + Max({900, 400 + bodyHeight(body)})
    BY DEF windowHeight, Window
  <1>8. /\ bodyHeight(Grid(8, 4)) = 960 /\ bodyHeight(Grid(4, 4)) = 400
        /\ bodyHeight(Rows(2)) = 420 /\ bodyHeight(Rows(7)) = 1820 /\ bodyHeight(Rows(9)) = 2380
    BY <1>1, <1>2 DEF Stacked
  <1>9. Max({900, 400 + 2380}) = 2780 /\ Max({900, 400 + 1820}) = 2220
    BY TwoExtremes
  <1> QED
    BY <1>1, <1>2, <1>3, <1>4, <1>5, <1>6, <1>7, <1>8, <1>9 DEF Stacked

LEMMA OnePart ==
    ASSUME NEW W, NEW H, NEW p, Inside(p, W, H)
    PROVE  AllClear(<<p>>, W, H)
  BY DEF AllClear

LEMMA TwoParts ==
    ASSUME NEW W, NEW H, NEW p, NEW q, Clear(p, q, W, H), Inside(p, W, H), Inside(q, W, H)
    PROVE  AllClear(<<p, q>>, W, H)
  BY DEF AllClear

LEMMA ThreeParts ==
    ASSUME NEW W, NEW H, NEW p, NEW q, NEW r, Clear(p, q, W, H), Clear(p, r, W, H), Clear(q, r, W, H),
           Inside(p, W, H), Inside(q, W, H), Inside(r, W, H)
    PROVE  AllClear(<<p, q, r>>, W, H)
  BY DEF AllClear

LEMMA FourParts ==
    ASSUME NEW W, NEW H, NEW p, NEW q, NEW r, NEW s,
           Clear(p, q, W, H), Clear(p, r, W, H), Clear(p, s, W, H),
           Clear(q, r, W, H), Clear(q, s, W, H), Clear(r, s, W, H),
           Inside(p, W, H), Inside(q, W, H), Inside(r, W, H), Inside(s, W, H)
    PROVE  AllClear(<<p, q, r, s>>, W, H)
  BY DEF AllClear

LEMMA OfWin9x == ASSUME NEW W, NEW H, Room(W, H) PROVE AllClear(CHROME_SPECS.win9x, W, H)
  <1> DEFINE p == DeskIcons("left", "top", 2, 1)
             q == Window("window", 28, 8, 54, Grid(6, 3))
             r == DeskIcons("right", "bottom", 1, 1)
             s == Part("taskbar")
  <1>1. W \in Nat /\ H \in Nat /\ W >= 10000 /\ H >= 4275
    BY DEF Room
  <1>2. /\ rects(p, W, H) = {deskIconsRect(p, W, H)}
        /\ rects(r, W, H) = {deskIconsRect(r, W, H)}
        /\ rects(q, W, H) = {Rect(2800, 800, 5400, windowHeight(q))}
        /\ rects(s, W, H) = bars(W, H)["taskbar"]
    <2>1. rects(p, W, H) = {deskIconsRect(p, W, H)}
      BY IconsArea
    <2>2. rects(r, W, H) = {deskIconsRect(r, W, H)}
      BY IconsArea
    <2>3. rects(q, W, H) = {Rect(2800, 800, 5400, windowHeight(q))}
      BY WindowArea
    <2>4. rects(s, W, H) = bars(W, H)["taskbar"]
      BY EdgeArea
    <2> QED
      BY <2>1, <2>2, <2>3, <2>4
  <1>3. windowHeight(q) = 1950
    BY Heights DEF Stacked
  <1>4. /\ deskIconsRect(p, W, H) \in {Rect(400, 600, 1300, h) : h \in {2252, 2528}}
        /\ deskIconsRect(r, W, H) \in {Rect(W - 1750, H - 1100 - h, 1300, h) : h \in {966, 1242}}
    BY <1>1 DEF deskIconsRect, DeskIcons, Stacked
  <1>5. bars(W, H)["taskbar"] = {Rect(300, H - 940, W - 600, 640)}
    BY DEF bars
  <1>6. p.part = "deskIcons" /\ q.part = "window" /\ r.part = "deskIcons" /\ s.part = "taskbar"
    BY DEF DeskIcons, Window, Part
  <1>7. CHROME_SPECS.win9x = <<p, q, r, s>>
    BY DEF CHROME_SPECS
  <1> HIDE DEF p, q, r, s
  <1>8. Clear(p, q, W, H) /\ Clear(p, r, W, H) /\ Clear(p, s, W, H)
    BY <1>1, <1>2, <1>3, <1>4, <1>5, <1>6 DEF Clear, Rect, Apart
  <1>9. Clear(q, r, W, H) /\ Clear(q, s, W, H) /\ Clear(r, s, W, H)
    BY <1>1, <1>2, <1>3, <1>4, <1>5, <1>6 DEF Clear, Rect, Apart
  <1>10. Inside(p, W, H) /\ Inside(q, W, H) /\ Inside(r, W, H) /\ Inside(s, W, H)
    BY <1>1, <1>2, <1>3, <1>4, <1>5, <1>6 DEF Inside, Rect
  <1> QED
    BY <1>7, <1>8, <1>9, <1>10, FourParts

LEMMA OfWin31 == ASSUME NEW W, NEW H, Room(W, H) PROVE AllClear(CHROME_SPECS.win31, W, H)
  <1> DEFINE p == Window("window", 16, 8, 68, Panes)
  <1>1. W \in Nat /\ H \in Nat /\ W >= 10000 /\ H >= 4275
    BY DEF Room
  <1>2. rects(p, W, H) = {Rect(1600, 800, 6800, windowHeight(p))}
    <2>1. rects(p, W, H) = {Rect(100 * 16, 100 * 8, 100 * 68, windowHeight(p))}
      <3>1. \A l, t, w, body : rects(Window("window", l, t, w, body), W, H) =
                {Rect(100 * l, 100 * t, 100 * w, windowHeight(Window("window", l, t, w, body)))}
        BY WindowArea
      <3> QED
        BY <3>1
    <2> QED
      BY <2>1
  <1>3. windowHeight(p) = 2630
    BY Heights DEF Stacked
  <1>4. p.part = "window"
    BY DEF Window
  <1>5. CHROME_SPECS.win31 = <<p>>
    BY DEF CHROME_SPECS
  <1> HIDE DEF p
  <1>6. Inside(p, W, H)
    BY <1>1, <1>2, <1>3, <1>4 DEF Inside, Rect
  <1> QED
    BY <1>5, <1>6, OnePart

LEMMA OfPlatinum == ASSUME NEW W, NEW H, Room(W, H) PROVE AllClear(CHROME_SPECS.platinum, W, H)
  <1> DEFINE p == Part("menuBar")
             q == DeskIcons("right", "top", 2, 1)
             r == Window("platinumWindow", 20, 12, 52, Grid(6, 3))
  <1>1. W \in Nat /\ H \in Nat /\ W >= 10000 /\ H >= 4275
    BY DEF Room
  <1>2. /\ rects(q, W, H) = {deskIconsRect(q, W, H)}
        /\ rects(r, W, H) = {Rect(2000, 1200, 5200, windowHeight(r))}
        /\ rects(p, W, H) = bars(W, H)["menuBar"]
    <2>1. rects(q, W, H) = {deskIconsRect(q, W, H)}
      BY IconsArea
    <2>2. rects(r, W, H) = {Rect(2000, 1200, 5200, windowHeight(r))}
      BY WindowArea
    <2>3. rects(p, W, H) = bars(W, H)["menuBar"]
      BY EdgeArea
    <2> QED
      BY <2>1, <2>2, <2>3
  <1>3. windowHeight(r) = 1950
    BY Heights DEF Stacked
  <1>4. deskIconsRect(q, W, H) \in {Rect(W - 1750, 600, 1300, h) : h \in {2252, 2528}}
    BY <1>1 DEF deskIconsRect, DeskIcons, Stacked
  <1>5. bars(W, H)["menuBar"] = {Rect(0, 0, W, 540)}
    BY DEF bars
  <1>6. p.part = "menuBar" /\ q.part = "deskIcons" /\ r.part = "platinumWindow"
    BY DEF Part, DeskIcons, Window
  <1>7. CHROME_SPECS.platinum = <<p, q, r>>
    BY DEF CHROME_SPECS
  <1> HIDE DEF p, q, r
  <1>8. Clear(p, q, W, H) /\ Clear(p, r, W, H) /\ Clear(q, r, W, H)
    BY <1>1, <1>2, <1>3, <1>4, <1>5, <1>6 DEF Clear, Rect, Apart
  <1>9. Inside(p, W, H) /\ Inside(q, W, H) /\ Inside(r, W, H)
    BY <1>1, <1>2, <1>3, <1>4, <1>5, <1>6 DEF Inside, Rect
  <1> QED
    BY <1>7, <1>8, <1>9, ThreeParts

LEMMA OfBeos == ASSUME NEW W, NEW H, Room(W, H) PROVE AllClear(CHROME_SPECS.beos, W, H)
  <1> DEFINE p == Part("beosTab")
             q == DeskIcons("left", "top", 2, 0)
             r == Window("beosWindow", 26, 11, 46, Grid(8, 4))
  <1>1. W \in Nat /\ H \in Nat /\ W >= 10000 /\ H >= 4275
    BY DEF Room
  <1>2. /\ rects(q, W, H) = {deskIconsRect(q, W, H)}
        /\ rects(r, W, H) = {Rect(2600, 1100, 4600, windowHeight(r))}
        /\ rects(p, W, H) = bars(W, H)["beosTab"]
    <2>1. rects(q, W, H) = {deskIconsRect(q, W, H)}
      BY IconsArea
    <2>2. rects(r, W, H) = {Rect(2600, 1100, 4600, windowHeight(r))}
      BY WindowArea
    <2>3. rects(p, W, H) = bars(W, H)["beosTab"]
      BY EdgeArea
    <2> QED
      BY <2>1, <2>2, <2>3
  <1>3. windowHeight(r) = 1840
    BY Heights DEF Stacked
  <1>4. deskIconsRect(q, W, H) \in {Rect(400, 600, 1300, h) : h \in {2252}}
    BY <1>1 DEF deskIconsRect, DeskIcons, Stacked
  <1>5. bars(W, H)["beosTab"] = {Rect(W - 2400, 0, 2000, 500)}
    BY DEF bars
  <1>6. p.part = "beosTab" /\ q.part = "deskIcons" /\ r.part = "beosWindow"
    BY DEF Part, DeskIcons, Window
  <1>7. CHROME_SPECS.beos = <<p, q, r>>
    BY DEF CHROME_SPECS
  <1> HIDE DEF p, q, r
  <1>8. Clear(p, q, W, H) /\ Clear(p, r, W, H) /\ Clear(q, r, W, H)
    BY <1>1, <1>2, <1>3, <1>4, <1>5, <1>6 DEF Clear, Rect, Apart
  <1>9. Inside(p, W, H) /\ Inside(q, W, H) /\ Inside(r, W, H)
    BY <1>1, <1>2, <1>3, <1>4, <1>5, <1>6 DEF Inside, Rect
  <1> QED
    BY <1>7, <1>8, <1>9, ThreeParts

LEMMA OfAmiga == ASSUME NEW W, NEW H, Room(W, H) PROVE AllClear(CHROME_SPECS.amiga, W, H)
  <1> DEFINE p == Part("topBar")
             q == DeskIcons("right", "top", 3, 0)
             r == Window("window", 10, 12, 46, Grid(3, 3))
  <1>1. W \in Nat /\ H \in Nat /\ W >= 10000 /\ H >= 4275
    BY DEF Room
  <1>2. /\ rects(q, W, H) = {deskIconsRect(q, W, H)}
        /\ rects(r, W, H) = {Rect(1000, 1200, 4600, windowHeight(r))}
        /\ rects(p, W, H) = bars(W, H)["topBar"]
    <2>1. rects(q, W, H) = {deskIconsRect(q, W, H)}
      BY IconsArea
    <2>2. rects(r, W, H) = {Rect(1000, 1200, 4600, windowHeight(r))}
      BY WindowArea
    <2>3. rects(p, W, H) = bars(W, H)["topBar"]
      BY EdgeArea
    <2> QED
      BY <2>1, <2>2, <2>3
  <1>3. windowHeight(r) = 1390
    BY Heights DEF Stacked
  <1>4. deskIconsRect(q, W, H) \in {Rect(W - 1750, 600, 1300, h) : h \in {3538}}
    BY <1>1 DEF deskIconsRect, DeskIcons, Stacked
  <1>5. bars(W, H)["topBar"] = {Rect(0, 0, W, 500)}
    BY DEF bars
  <1>6. p.part = "topBar" /\ q.part = "deskIcons" /\ r.part = "window"
    BY DEF Part, DeskIcons, Window
  <1>7. CHROME_SPECS.amiga = <<p, q, r>>
    BY DEF CHROME_SPECS
  <1> HIDE DEF p, q, r
  <1>8. Clear(p, q, W, H) /\ Clear(p, r, W, H) /\ Clear(q, r, W, H)
    BY <1>1, <1>2, <1>3, <1>4, <1>5, <1>6 DEF Clear, Rect, Apart
  <1>9. Inside(p, W, H) /\ Inside(q, W, H) /\ Inside(r, W, H)
    BY <1>1, <1>2, <1>3, <1>4, <1>5, <1>6 DEF Inside, Rect
  <1> QED
    BY <1>7, <1>8, <1>9, ThreeParts

LEMMA OfKde == ASSUME NEW W, NEW H, Room(W, H) PROVE AllClear(CHROME_SPECS.kde, W, H)
  <1> DEFINE p == Window("window", 22, 9, 52, Rows(4))
             q == Part("dock")
  <1>1. W \in Nat /\ H \in Nat /\ W >= 10000 /\ H >= 4275
    BY DEF Room
  <1>2. /\ rects(p, W, H) = {Rect(2200, 900, 5200, windowHeight(p))}
        /\ rects(q, W, H) = bars(W, H)["dock"]
    <2>1. rects(p, W, H) = {Rect(2200, 900, 5200, windowHeight(p))}
      BY WindowArea
    <2>2. rects(q, W, H) = bars(W, H)["dock"]
      BY EdgeArea
    <2> QED
      BY <2>1, <2>2
  <1>3. windowHeight(p) = 1970
    BY Heights DEF Stacked
  <1>4. bars(W, H)["dock"] = {Rect(0, H - 580, W, 580)}
    BY DEF bars
  <1>5. p.part = "window" /\ q.part = "dock"
    BY DEF Window, Part
  <1>6. CHROME_SPECS.kde = <<p, q>>
    BY DEF CHROME_SPECS
  <1> HIDE DEF p, q
  <1>7. Clear(p, q, W, H)
    BY <1>1, <1>2, <1>3, <1>4, <1>5 DEF Clear, Rect, Apart
  <1>8. Inside(p, W, H) /\ Inside(q, W, H)
    BY <1>1, <1>2, <1>3, <1>4, <1>5 DEF Inside, Rect
  <1> QED
    BY <1>6, <1>7, <1>8, TwoParts

LEMMA OfCde == ASSUME NEW W, NEW H, Room(W, H) PROVE AllClear(CHROME_SPECS.cde, W, H)
  <1> DEFINE p == DeskIcons("left", "top", 1, 0)
             q == Window("cdeWindow", 22, 8, 46, Grid(6, 3))
             r == Part("frontPanel")
  <1>1. W \in Nat /\ H \in Nat /\ W >= 10000 /\ H >= 4275
    BY DEF Room
  <1>2. /\ rects(p, W, H) = {deskIconsRect(p, W, H)}
        /\ rects(q, W, H) = {Rect(2200, 800, 4600, windowHeight(q))}
        /\ rects(r, W, H) = bars(W, H)["frontPanel"]
    <2>1. rects(p, W, H) = {deskIconsRect(p, W, H)}
      BY IconsArea
    <2>2. rects(q, W, H) = {Rect(2200, 800, 4600, windowHeight(q))}
      BY WindowArea
    <2>3. rects(r, W, H) = bars(W, H)["frontPanel"]
      BY EdgeArea
    <2> QED
      BY <2>1, <2>2, <2>3
  <1>3. windowHeight(q) = 1950
    BY Heights DEF Stacked
  <1>4. deskIconsRect(p, W, H) \in {Rect(400, 600, 1300, h) : h \in {966}}
    BY <1>1 DEF deskIconsRect, DeskIcons, Stacked
  <1>5. bars(W, H)["frontPanel"] = {Rect(W \div 2 - 1850, H - 1160, 3700, 860)}
    BY DEF bars
  <1>6. p.part = "deskIcons" /\ q.part = "cdeWindow" /\ r.part = "frontPanel"
    BY DEF DeskIcons, Window, Part
  <1>7. CHROME_SPECS.cde = <<p, q, r>>
    BY DEF CHROME_SPECS
  <1> HIDE DEF p, q, r
  <1>8. Clear(p, q, W, H) /\ Clear(p, r, W, H) /\ Clear(q, r, W, H)
    BY <1>1, <1>2, <1>3, <1>4, <1>5, <1>6 DEF Clear, Rect, Apart
  <1>9. Inside(p, W, H) /\ Inside(q, W, H) /\ Inside(r, W, H)
    BY <1>1, <1>2, <1>3, <1>4, <1>5, <1>6 DEF Inside, Rect
  <1> QED
    BY <1>7, <1>8, <1>9, ThreeParts

LEMMA OfGem == ASSUME NEW W, NEW H, Room(W, H) PROVE AllClear(CHROME_SPECS.gem, W, H)
  <1> DEFINE p == Part("menuBar")
             q == DeskIcons("right", "top", 3, 2)
             r == Window("gemWindow", 12, 11, 46, Grid(6, 3))
  <1>1. W \in Nat /\ H \in Nat /\ W >= 10000 /\ H >= 4275
    BY DEF Room
  <1>2. /\ rects(q, W, H) = {deskIconsRect(q, W, H)}
        /\ rects(r, W, H) = {Rect(1200, 1100, 4600, windowHeight(r))}
        /\ rects(p, W, H) = bars(W, H)["menuBar"]
    <2>1. rects(q, W, H) = {deskIconsRect(q, W, H)}
      BY IconsArea
    <2>2. rects(r, W, H) = {Rect(1200, 1100, 4600, windowHeight(r))}
      BY WindowArea
    <2>3. rects(p, W, H) = bars(W, H)["menuBar"]
      BY EdgeArea
    <2> QED
      BY <2>1, <2>2, <2>3
  <1>3. windowHeight(r) = 1950
    BY Heights DEF Stacked
  <1>4. deskIconsRect(q, W, H) \in {Rect(W - 1750, 600, 1300, h) : h \in {3538, 4090}}
    BY <1>1 DEF deskIconsRect, DeskIcons, Stacked
  <1>5. bars(W, H)["menuBar"] = {Rect(0, 0, W, 540)}
    BY DEF bars
  <1>6. p.part = "menuBar" /\ q.part = "deskIcons" /\ r.part = "gemWindow" /\ TooHigh(q)
    BY DEF Part, DeskIcons, Window, TooHigh
  <1>7. CHROME_SPECS.gem = <<p, q, r>>
    BY DEF CHROME_SPECS
  <1> HIDE DEF p, q, r
  <1>8. Clear(p, q, W, H) /\ Clear(p, r, W, H) /\ Clear(q, r, W, H)
    BY <1>1, <1>2, <1>3, <1>4, <1>5, <1>6 DEF Clear, Rect, Apart
  <1>9. Inside(p, W, H) /\ Inside(q, W, H) /\ Inside(r, W, H)
    BY <1>1, <1>2, <1>3, <1>4, <1>5, <1>6 DEF Inside, Rect
  <1> QED
    BY <1>7, <1>8, <1>9, ThreeParts

LEMMA OfOpenlook == ASSUME NEW W, NEW H, Room(W, H) PROVE AllClear(CHROME_SPECS.openlook, W, H)
  <1> DEFINE p == DeskIcons("left", "bottom", 1, 0)
             q == Window("openLookWindow", 20, 3, 34, Rows(2))
             r == Window("openLookWindow", 44, 17, 44, Grid(4, 4))
  <1>1. W \in Nat /\ H \in Nat /\ W >= 10000 /\ H >= 4275
    BY DEF Room
  <1>2. /\ rects(p, W, H) = {deskIconsRect(p, W, H)}
        /\ rects(q, W, H) = {Rect(2000, 300, 3400, windowHeight(q))}
        /\ rects(r, W, H) = {Rect(4400, 1700, 4400, windowHeight(r))}
    <2>1. rects(p, W, H) = {deskIconsRect(p, W, H)}
      BY IconsArea
    <2>2. rects(q, W, H) = {Rect(2000, 300, 3400, windowHeight(q))}
      BY WindowArea
    <2>3. rects(r, W, H) = {Rect(4400, 1700, 4400, windowHeight(r))}
      BY WindowArea
    <2> QED
      BY <2>1, <2>2, <2>3
  <1>3. /\ windowHeight(q) = 1930
        /\ windowHeight(r) = 1910
    BY Heights DEF Stacked
  <1>4. deskIconsRect(p, W, H) \in {Rect(400, H - 1100 - h, 1300, h) : h \in {966}}
    BY <1>1 DEF deskIconsRect, DeskIcons, Stacked
  <1>5. p.part = "deskIcons" /\ q.part = "openLookWindow" /\ r.part = "openLookWindow"
    BY DEF DeskIcons, Window
  <1>6. CHROME_SPECS.openlook = <<p, q, r>>
    BY DEF CHROME_SPECS
  <1> HIDE DEF p, q, r
  <1>7. Clear(p, q, W, H) /\ Clear(p, r, W, H) /\ Clear(q, r, W, H)
    BY <1>1, <1>2, <1>3, <1>4, <1>5 DEF Clear, Rect, Apart, Stacks
  <1>8. Inside(p, W, H) /\ Inside(q, W, H) /\ Inside(r, W, H)
    BY <1>1, <1>2, <1>3, <1>4, <1>5 DEF Inside, Rect
  <1> QED
    BY <1>6, <1>7, <1>8, ThreeParts

LEMMA OfPlan9 == ASSUME NEW W, NEW H, Room(W, H) PROVE AllClear(CHROME_SPECS.plan9, W, H)
  <1> DEFINE p == Window("rioWindow", 3, 3, 52, Rows(9))
             q == Window("rioWindow", 59, 3, 36, Rows(7))
  <1>1. W \in Nat /\ H \in Nat /\ W >= 10000 /\ H >= 4275
    BY DEF Room
  <1>2. /\ rects(p, W, H) = {Rect(300, 300, 5200, windowHeight(p))}
        /\ rects(q, W, H) = {Rect(5900, 300, 3600, windowHeight(q))}
    <2>1. rects(p, W, H) = {Rect(300, 300, 5200, windowHeight(p))}
      BY WindowArea
    <2>2. rects(q, W, H) = {Rect(5900, 300, 3600, windowHeight(q))}
      BY WindowArea
    <2> QED
      BY <2>1, <2>2
  <1>3. /\ windowHeight(p) = 3180
        /\ windowHeight(q) = 2620
    BY Heights DEF Stacked
  <1>4. p.part = "rioWindow" /\ q.part = "rioWindow"
    BY DEF Window
  <1>5. CHROME_SPECS.plan9 = <<p, q>>
    BY DEF CHROME_SPECS
  <1> HIDE DEF p, q
  <1>6. Clear(p, q, W, H)
    BY <1>1, <1>2, <1>3, <1>4 DEF Clear, Rect, Apart
  <1>7. Inside(p, W, H) /\ Inside(q, W, H)
    BY <1>1, <1>2, <1>3, <1>4 DEF Inside, Rect
  <1> QED
    BY <1>5, <1>6, <1>7, TwoParts

LEMMA OfGeneric == ASSUME NEW W, NEW H, Room(W, H) PROVE AllClear(CHROME_SPECS.generic, W, H)
  <1> DEFINE p == DeskIcons("left", "top", 2, 0)
             q == Part("dock")
  <1>1. W \in Nat /\ H \in Nat /\ W >= 10000 /\ H >= 4275
    BY DEF Room
  <1>2. /\ rects(p, W, H) = {deskIconsRect(p, W, H)}
        /\ rects(q, W, H) = bars(W, H)["dock"]
    <2>1. rects(p, W, H) = {deskIconsRect(p, W, H)}
      BY IconsArea
    <2>2. rects(q, W, H) = bars(W, H)["dock"]
      BY EdgeArea
    <2> QED
      BY <2>1, <2>2
  <1>3. deskIconsRect(p, W, H) \in {Rect(400, 600, 1300, h) : h \in {2252}}
    BY <1>1 DEF deskIconsRect, DeskIcons, Stacked
  <1>4. bars(W, H)["dock"] = {Rect(0, H - 580, W, 580)}
    BY DEF bars
  <1>5. p.part = "deskIcons" /\ q.part = "dock"
    BY DEF DeskIcons, Part
  <1>6. CHROME_SPECS.generic = <<p, q>>
    BY DEF CHROME_SPECS
  <1> HIDE DEF p, q
  <1>7. Clear(p, q, W, H)
    BY <1>1, <1>2, <1>3, <1>4, <1>5 DEF Clear, Rect, Apart
  <1>8. Inside(p, W, H) /\ Inside(q, W, H)
    BY <1>1, <1>2, <1>3, <1>4, <1>5 DEF Inside, Rect
  <1> QED
    BY <1>6, <1>7, <1>8, TwoParts

\* The scene without a spec: the dock lies over the windows on purpose.
LEMMA OfModern == ASSUME NEW W, NEW H, Room(W, H) PROVE AllClear(CHROME_SPECS.modern, W, H)
  <1> DEFINE p == Part("modernIcons")
             q == Part("modernWindows")
             r == Part("modernDock")
  <1>1. W \in Nat /\ H \in Nat /\ W >= 10000 /\ H >= 4275
    BY DEF Room
  <1>2. /\ rects(p, W, H) = modern(W, H)["modernIcons"]
        /\ rects(q, W, H) = modern(W, H)["modernWindows"]
        /\ rects(r, W, H) = modern(W, H)["modernDock"]
    <2>1. rects(p, W, H) = modern(W, H)["modernIcons"]
      BY ModernArea
    <2>2. rects(q, W, H) = modern(W, H)["modernWindows"]
      BY ModernArea
    <2>3. rects(r, W, H) = modern(W, H)["modernDock"]
      BY ModernArea
    <2> QED
      BY <2>1, <2>2, <2>3
  <1>3. /\ modern(W, H)["modernIcons"] = {Rect(400, 500, 1200, 2240)}
        /\ modern(W, H)["modernWindows"] = {Rect(2400, 500, 4600, 2600), Rect(3800, 1300, 5200, 3000)}
        /\ modern(W, H)["modernDock"] = {Rect(400, H - 1000, W - 800, 600)}
    BY DEF modern, Stacked
  <1>4. p.part = "modernIcons" /\ q.part = "modernWindows" /\ r.part = "modernDock"
    BY DEF Part
  <1>5. CHROME_SPECS.modern = <<p, q, r>>
    BY DEF CHROME_SPECS
  <1> HIDE DEF p, q, r
  <1>6. Clear(p, q, W, H) /\ Clear(p, r, W, H)
    BY <1>1, <1>2, <1>3, <1>4 DEF Clear, Rect, Apart
  <1>7. Clear(q, r, W, H)
    BY <1>4 DEF Clear, Stacks
  <1>8. Inside(p, W, H) /\ Inside(q, W, H) /\ Inside(r, W, H)
    BY <1>1, <1>2, <1>3, <1>4 DEF Inside, Rect
  <1> QED
    BY <1>5, <1>6, <1>7, <1>8, ThreeParts

\* The menu, lifted above the centre, ends above the bar.
LEMMA OfBlackbox == ASSUME NEW W, NEW H, Room(W, H) PROVE AllClear(CHROME_SPECS.blackbox, W, H)
  <1> DEFINE p == Part("rootMenu")
             q == Part("workspaceBar")
             x == W \div 2
             y == H \div 2
  <1>1. W \in Nat /\ H \in Nat /\ W >= 10000 /\ H >= 4275
    BY DEF Room
  <1>2. rects(p, W, H) = rootMenu(W, H) /\ rects(q, W, H) = workspaceBar(W, H)
    <2>1. rects(p, W, H) = rootMenu(W, H)
      BY OwnArea
    <2>2. rects(q, W, H) = workspaceBar(W, H)
      BY OwnArea
    <2> QED
      BY <2>1, <2>2
  <1>3. menuHeight(8) = 2750 /\ menuHeight(3) = 1350
    BY DEF menuHeight
  <1>4. rootMenuAt(W, H) = <<x - 2710, y - 1595>>
    BY <1>3 DEF rootMenuAt
  <1>5. rootMenu(W, H) = {Rect(x - 2710, y - 1595, 2700, 2750), Rect(x - 2710 + 2640, y - 1595 + 1270, 2200, 1350)}
    BY <1>3, <1>4 DEF rootMenu
  <1>6. workspaceBar(W, H) = {Rect(x - 3100, H - 780, 6200, 480)}
    BY DEF workspaceBar
  <1>7. p.part = "rootMenu" /\ q.part = "workspaceBar"
    BY DEF Part
  <1>8. CHROME_SPECS.blackbox = <<p, q>>
    BY DEF CHROME_SPECS
  <1>9. x \in Nat /\ y \in Nat /\ x >= 5000 /\ y >= 2137 /\ 2 * x <= W /\ 2 * y <= H
    BY <1>1
  <1> HIDE DEF p, q, x, y
  <1>10. Clear(p, q, W, H)
    BY <1>1, <1>2, <1>5, <1>6, <1>9 DEF Clear, Rect, Apart
  <1>11. Inside(p, W, H) /\ Inside(q, W, H)
    BY <1>1, <1>2, <1>5, <1>6, <1>9 DEF Inside, Rect
  <1> QED
    BY <1>8, <1>10, <1>11, TwoParts

LEMMA OfC64 == ASSUME NEW W, NEW H, Room(W, H) PROVE AllClear(CHROME_SPECS.c64, W, H)
  <1> DEFINE p == Part("basicScreen")
  <1>1. W \in Nat /\ H \in Nat /\ W >= 10000 /\ H >= 4275
    BY DEF Room
  <1>2. rects(p, W, H) = {Rect(650, 600, W - 1300, 1910)}
    BY OwnArea DEF basicScreen
  <1>3. CHROME_SPECS.c64 = <<p>>
    BY DEF CHROME_SPECS
  <1> HIDE DEF p
  <1>4. Inside(p, W, H)
    BY <1>1, <1>2 DEF Inside, Rect
  <1> QED
    BY <1>3, <1>4, OnePart

\* One part, which is inside but for the bottom.
LEMMA OfBleskos == ASSUME NEW W, NEW H, Room(W, H) PROVE AllClear(CHROME_SPECS.bleskos, W, H)
  <1> DEFINE p == Part("bleskos")
  <1>1. W \in Nat /\ W >= 10000
    BY DEF Room
  <1>2. CHROME_SPECS.bleskos = <<p>>
    BY DEF CHROME_SPECS
  <1>3. rects(p, W, H) = bleskos(W, H) /\ TooHigh(p)
    <2>1. p.part = "bleskos"
      BY DEF Part
    <2> QED
      BY <2>1, Edges DEF rects, TooHigh
  <1> HIDE DEF p
  <1>4. ASSUME NEW r \in rects(p, W, H)
        PROVE  r.l >= 0 /\ r.t >= 0 /\ r.r <= W
    <2>1. \A h : Rect(450, 300, W - 900, h).l = 450 /\ Rect(450, 300, W - 900, h).t = 300
                 /\ Rect(450, 300, W - 900, h).r = W - 450
      BY <1>1 DEF Rect
    <2>2. \E h : r = Rect(450, 300, W - 900, h)
      BY <1>3, <1>4 DEF bleskos
    <2> QED
      BY <1>1, <2>1, <2>2
  <1>5. Inside(p, W, H)
    BY <1>3, <1>4 DEF Inside
  <1> QED
    BY <1>2, <1>5, OnePart

\* In a room of which the height is 0.4275 of the width or more, every style is
\* clear: the windows of the scene without a spec need that much.
LEMMA EveryStyle ==
    ASSUME NEW W, NEW H, Room(W, H), NEW s \in Styles
    PROVE  AllClear(CHROME_SPECS[s], W, H)
  <1>1. s \in {"modern", "win9x", "win31", "platinum", "beos", "amiga", "kde", "cde", "gem", "bleskos",
               "blackbox", "c64", "openlook", "plan9", "generic"}
    BY DEF Styles, CHROME_SPECS
  <1>2. CASE s \in {"modern", "win9x", "win31", "platinum", "beos"}
    BY <1>2, OfModern, OfWin9x, OfWin31, OfPlatinum, OfBeos
  <1>3. CASE s \in {"amiga", "kde", "cde", "gem", "bleskos"}
    BY <1>3, OfAmiga, OfKde, OfCde, OfGem, OfBleskos
  <1>4. CASE s \in {"blackbox", "c64", "openlook", "plan9", "generic"}
    BY <1>4, OfBlackbox, OfC64, OfOpenlook, OfPlan9, OfGeneric
  <1> QED
    BY <1>1, <1>2, <1>3, <1>4

\* No window is flatter than the drawing of the styles allows.
Tall == \A v \in Viewports : 10000 * v[2] >= 4275 * Min({v[1], 1100})

LEMMA Scaled ==
    ASSUME NEW w \in Nat \ {0}, NEW h \in Nat, NEW cap \in {900, 1100}, 10000 * h >= 4275 * Min({w, 1100})
    PROVE  LET s == scaled(<<w, h>>, cap) IN Room(s.W, s.H)
  <1> DEFINE px == IF w <= cap THEN w ELSE cap
  <1>1. Min({w, cap}) = px /\ Min({w, 1100}) = IF w <= 1100 THEN w ELSE 1100
    <2>1. \A b \in Int : Min({w, b}) = IF w <= b THEN w ELSE b
      BY TwoExtremes
    <2>2. cap \in Int /\ 1100 \in Int
      OBVIOUS
    <2> QED
      BY <2>1, <2>2
  <1>2. px \in Nat \ {0} /\ px <= w /\ 10000 * h >= 4275 * px
    BY <1>1
  <1>3. scaled(<<w, h>>, cap) = [W |-> (10000 * w) \div px, H |-> (10000 * h) \div px]
    BY <1>1 DEF scaled
  <1> HIDE DEF px
  <1>4. ASSUME NEW a \in Nat, NEW m \in Nat, a >= m * px
        PROVE  a \div px \in Nat /\ a \div px >= m
    <2> DEFINE q == a \div px
    <2>1. q \in Int /\ px * q <= a /\ a < px * q + px
      BY <1>2, <1>4, Division
    <2> HIDE DEF q
    <2>2. q >= m
      <3>1. SUFFICES ASSUME q + 1 <= m PROVE FALSE
        BY <1>4, <2>1
      <3>2. px * (q + 1) <= px * m
        BY <1>2, <1>4, <2>1, <3>1
      <3> QED
        BY <1>2, <1>4, <2>1, <3>2
    <2> QED
      BY <1>4, <2>1, <2>2 DEF q
  <1>5. (10000 * w) \div px \in Nat /\ (10000 * w) \div px >= 10000
    <2> DEFINE m == 10000
               a == 10000 * w
    <2>1. m \in Nat /\ a \in Nat /\ a >= m * px
      BY <1>2
    <2> HIDE DEF m, a
    <2>2. a \div px \in Nat /\ a \div px >= m
      BY <1>4, <2>1
    <2> QED
      BY <2>2 DEF m, a
  <1>6. (10000 * h) \div px \in Nat /\ (10000 * h) \div px >= 4275
    <2> DEFINE m == 4275
               a == 10000 * h
    <2>1. m \in Nat /\ a \in Nat /\ a >= m * px
      BY <1>2
    <2> HIDE DEF m, a
    <2>2. a \div px \in Nat /\ a \div px >= m
      BY <1>4, <2>1
    <2> QED
      BY <2>2 DEF m, a
  <1> QED
    BY <1>3, <1>5, <1>6 DEF Room
LEMMA SpaceIsRoom == TypeOK /\ Tall => Room(space.W, space.H)
  <1> SUFFICES ASSUME TypeOK, Tall PROVE Room(space.W, space.H)
    OBVIOUS
  <1> DEFINE v   == window[1]
             cap == IF style = "modern" THEN 1100 ELSE 900
  <1>1. /\ v \in Nat /\ v > 34 /\ window[2] \in Nat /\ window = <<v, window[2]>>
        /\ 10000 * window[2] >= 4275 * Min({v, 1100})
    BY ViewportsAssumption DEF TypeOK, Tall
  <1>2. cap \in {900, 1100} /\ space = scaled(box, cap)
    BY DEF space
  <1> HIDE DEF v, cap
  <1>3. \A w \in Nat \ {0}, h \in Nat :
            10000 * h >= 4275 * Min({w, 1100}) => LET s == scaled(<<w, h>>, cap) IN Room(s.W, s.H)
    BY <1>2, Scaled
  <1>4. CASE full
    <2>1. box = <<v, window[2]>> /\ v \in Nat \ {0}
      BY <1>1, <1>4 DEF box
    <2> QED
      BY <1>1, <1>2, <1>3, <2>1
  <1>5. \A b \in Int : Min({b, 1100}) <= b /\ Min({b, 1100}) \in Int
    <2>1. \A a, b \in Int : Min({a, b}) = IF a <= b THEN a ELSE b
      BY TwoExtremes
    <2>2. \A b \in Int : Min({b, 1100}) = IF b <= 1100 THEN b ELSE 1100
      BY <2>1
    <2> QED
      BY <2>2
  <1>6. CASE ~full /\ v < 760
    <2> DEFINE w == v - 34
    <2>1. box = <<w, 310>>
      BY <1>6 DEF box, inlineBox, v
    <2>2. w \in Nat \ {0} /\ w <= 725
      BY <1>1, <1>6
    <2> HIDE DEF w
    <2>3. 10000 * 310 >= 4275 * Min({w, 1100})
      BY <1>5, <2>2
    <2> QED
      BY <1>2, <1>3, <2>1, <2>2, <2>3
  <1>7. CASE ~full /\ v >= 760
    <2> DEFINE content == IF v - 96 <= 1400 THEN v - 96 ELSE 1400
               w == ((content - 28) * 14) \div 24 - 2
    <2>1. Min({v - 96, 1400}) = content
      <3>1. \A a, b \in Int : Min({a, b}) = IF a <= b THEN a ELSE b
        BY TwoExtremes
      <3>2. v - 96 \in Int /\ 1400 \in Int
        BY <1>1
      <3> QED
        BY <3>1, <3>2
    <2>2. box = <<w, 342>>
      BY <1>1, <1>7, <2>1 DEF box, inlineBox, v
    <2>3. content \in 664 .. 1400
      BY <1>1, <1>7
    <2> HIDE DEF content
    <2>4. w \in Nat \ {0} /\ w <= 798
      BY <2>3
    <2> HIDE DEF w
    <2>5. 10000 * 342 >= 4275 * Min({w, 1100})
      BY <1>5, <2>4
    <2> QED
      BY <1>2, <1>3, <2>2, <2>4, <2>5
  <1> QED
    BY <1>1, <1>4, <1>6, <1>7 DEF TypeOK

\* For every window that is not flatter than 0.4275 of what the drawing scales
\* with, inline and full screen (chromeSpec.ts, DesktopPreview.tsx): parts that
\* are not drawn in layers (Stacks) are apart, and every part is inside the box,
\* but for the lower edge of the two that are too high (TooHigh).
THEOREM PartsKeepClear == ASSUME Tall PROVE Spec => []ChromeClear
  <1>1. TypeOK => ChromeClear
    <2> SUFFICES ASSUME TypeOK PROVE ChromeClear
      OBVIOUS
    <2> DEFINE W == space.W
               H == space.H
    <2>1. Room(W, H) /\ style \in Styles
      BY SpaceIsRoom DEF TypeOK
    <2>2. AllClear(spec, W, H)
      BY <2>1, EveryStyle DEF spec
    <2>3. \A i \in DOMAIN spec : drawn[i] = rects(spec[i], W, H)
      BY DEF drawn
    <2>4. DOMAIN drawn = DOMAIN spec
      BY DEF drawn
    <2>5. ASSUME NEW i \in DOMAIN spec, NEW j \in DOMAIN spec, i < j, ~Stacks(spec[i], spec[j])
          PROVE  \A r \in drawn[i], s \in drawn[j] : Apart(r, s)
      BY <2>2, <2>3, <2>5 DEF AllClear, Clear
    <2>6. ASSUME NEW i \in DOMAIN spec
          PROVE  \A r \in drawn[i] : Fits(r, spec[i])
      BY <2>2, <2>3, <2>6 DEF AllClear, Inside, Fits
    <2> QED
      BY <2>5, <2>6 DEF ChromeClear
  <1> QED
    BY <1>1, TypeCorrect, PTL

-----------------------------------------------------------------------------
(* What the page says of a color is that color.                              *)

\* A rounded quotient is off by a half at most.
LEMMA RoundError ==
    ASSUME NEW n \in Int, NEW d \in Nat \ {0}
    PROVE  /\ Round(n, d) \in Int
           /\ 2 * (d * Round(n, d) - n) <= d /\ -d < 2 * (d * Round(n, d) - n)
  <1> DEFINE q == (2 * n + d) \div (2 * d)
  <1>1. q \in Int /\ (2 * d) * q <= 2 * n + d /\ 2 * n + d < (2 * d) * q + 2 * d
    <2>1. 2 * n + d \in Int /\ 2 * d \in Nat \ {0}
      OBVIOUS
    <2> QED
      BY <2>1, Division
  <1>2. Round(n, d) = q
    BY DEF Round
  <1> HIDE DEF q
  <1>3. (2 * d) * q = 2 * (d * q) /\ d * q \in Int
    BY <1>1
  <1> QED
    BY <1>1, <1>2, <1>3

\* It is not further from a whole number than the quotient.
LEMMA RoundWithin ==
    ASSUME NEW n \in Int, NEW d \in Nat \ {0}, NEW lo \in Int, NEW hi \in Int, lo * d <= n, n <= hi * d
    PROVE  Round(n, d) \in lo .. hi
  <1> DEFINE q == Round(n, d)
  <1>1. q \in Int /\ 2 * (d * q - n) <= d /\ -d < 2 * (d * q - n)
    BY RoundError
  <1> HIDE DEF q
  <1>2. ASSUME q <= lo - 1 PROVE FALSE
    <2>1. d * q <= d * (lo - 1)
      BY <1>1, <1>2
    <2> QED
      BY <1>1, <2>1
  <1>3. ASSUME q >= hi + 1 PROVE FALSE
    <2>1. d * q >= d * (hi + 1)
      BY <1>1, <1>3
    <2> QED
      BY <1>1, <2>1
  <1> QED
    BY <1>1, <1>2, <1>3 DEF q

\* A number near a multiple of the divisor is rounded to what is near it.
LEMMA RoundBack ==
    ASSUME NEW x \in Int, NEW d \in Nat \ {0}, NEW c \in Int, NEW by \in Nat,
           2 * (x - d * c) < (2 * by + 1) * d, -((2 * by + 1) * d) <= 2 * (x - d * c)
    PROVE  Round(x, d) - c \in -by .. by
  <1> DEFINE q == Round(x, d)
  <1>1. q \in Int /\ 2 * (d * q - x) <= d /\ -d < 2 * (d * q - x)
    BY RoundError
  <1> HIDE DEF q
  <1>2. ASSUME q <= c - by - 1 PROVE FALSE
    <2>1. d * q <= d * (c - by - 1)
      BY <1>1, <1>2
    <2> QED
      BY <1>1, <2>1
  <1>3. ASSUME q >= c + by + 1 PROVE FALSE
    <2>1. d * q >= d * (c + by + 1)
      BY <1>1, <1>3
    <2> QED
      BY <1>1, <2>1
  <1> QED
    BY <1>1, <1>2, <1>3 DEF q

\* K rounds the part of 255 that mx is, V the part of mx that c is.
Shares(mx, c, V, K) ==
    /\ 2 * (mx * V - 100 * c) <= mx /\ -mx <= 2 * (mx * V - 100 * c)
    /\ 2 * (255 * K - 100 * mx) <= 255 /\ -255 <= 2 * (255 * K - 100 * mx)
InkBack(c, V, K) == Round(255 * V * K, 10000) - c \in -3 .. 3

\* Of two factors that are rounded, the one errs by half of the channel, the
\* other by half of its own unit: 25500 of 10000 are left of it.
LEMMA CmykBack ==
    ASSUME NEW mx \in 1 .. 255, NEW c \in 0 .. mx, NEW V \in 0 .. 100, NEW K \in 0 .. 100,
           Shares(mx, c, V, K)
    PROVE  InkBack(c, V, K)
  <1> DEFINE a == 255 * K - 100 * mx
             b == mx * V - 100 * c
             x == 255 * V * K
  <1>1. x = V * (100 * mx + a)
    OBVIOUS
  <1>2. V * (100 * mx + a) = 100 * (mx * V) + a * V
    OBVIOUS
  <1>3. x = 10000 * c + 100 * b + a * V
    BY <1>1, <1>2
  <1>4. a \in Int /\ b \in Int /\ x \in Int /\ 2 * a <= 255 /\ -255 <= 2 * a /\ 2 * b <= 255 /\ -255 <= 2 * b
    BY SMT DEF Shares
  <1> HIDE DEF a, b, x
  <1>5. a * V \in Int /\ 2 * (a * V) <= 25500 /\ -25500 <= 2 * (a * V)
    <2>1. a <= 127 /\ -127 <= a
      BY <1>4
    <2>2. a * V <= 127 * V /\ (-127) * V <= a * V
      BY <1>4, <2>1
    <2> QED
      BY <1>4, <2>2
  <1>6. 2 * (x - 10000 * c) < 70000 /\ -70000 <= 2 * (x - 10000 * c)
    BY <1>3, <1>4, <1>5
  <1> DEFINE d == 10000
             by == 3
  <1>7. /\ d \in Nat \ {0} /\ by \in Nat
        /\ 2 * (x - d * c) < (2 * by + 1) * d /\ -((2 * by + 1) * d) <= 2 * (x - d * c)
    BY <1>4, <1>6
  <1> HIDE DEF d, by
  <1>8. Round(x, d) - c \in -by .. by
    <2>1. c \in Int
      OBVIOUS
    <2> QED
      BY <1>4, <1>7, <2>1, RoundBack
  <1> QED
    BY <1>8, SMT DEF InkBack, d, by, x

LEMMA Rearranged ==
    ASSUME NEW x \in Int, NEW y \in Int, NEW z \in Int
    PROVE  (x * y) * z = (x * z) * y /\ (x * y) * z = y * (z * x) /\ (x * y) * z \in Int
  OBVIOUS

LEMMA Spread ==
    ASSUME NEW u \in Int, NEW y \in Int, NEW z \in Int, NEW i \in Int, NEW j \in Int
    PROVE  u * (i * y - j * z) = i * (u * y) - j * (u * z)
  <1>1. u * (i * y - j * z) = u * (i * y) - u * (j * z)
    <2>1. \A v, w \in Int : u * (v - w) = u * v - u * w
      OBVIOUS
    <2>2. i * y \in Int /\ j * z \in Int
      OBVIOUS
    <2> QED
      BY <2>1, <2>2
  <1>2. u * (i * y) = i * (u * y) /\ u * (j * z) = j * (u * z)
    OBVIOUS
  <1> QED
    BY <1>1, <1>2

\* How far twice the value is from what it stands for, error by error.
Agree(S, c, d, den, s, l, m, t) ==
    2 * (255 * (3000 * l - s * m * t) - 300000 * c) =
        3000 * (510 * l - 100 * S) - 10000 * (d * t - 30 * (S - 2 * c))
        - 100 * (t * (den * s - 100 * d)) - (s * t) * (510 * m - 100 * den)

LEMMA HslErrors ==
    ASSUME NEW S \in Int, NEW c \in Int, NEW d \in Int, NEW den \in Int,
           NEW s \in Int, NEW l \in Int, NEW m \in Int, NEW t \in Int
    PROVE  Agree(S, c, d, den, s, l, m, t)
  <1> DEFINE P == s * m * t
             Q == (s * t) * den
             R == d * t
             st == s * t
             ds == den * s
  <1>1. P \in Int /\ Q \in Int /\ R \in Int /\ st \in Int /\ ds \in Int
    OBVIOUS
  <1>2. st * m = P
    BY Rearranged
  <1>3. t * ds = Q
    BY Rearranged
  <1>4. st * den = Q
    OBVIOUS
  <1>5. t * d = R /\ d * t = R
    OBVIOUS
  <1> HIDE DEF P, Q, R, st, ds
  <1>6. st * (510 * m - 100 * den) = 510 * P - 100 * Q
    <2>1. 510 \in Int /\ 100 \in Int
      OBVIOUS
    <2> QED
      BY <1>1, <1>2, <1>4, <2>1, Spread
  <1>7. t * (ds - 100 * d) = Q - 100 * R
    <2>1. t * (1 * ds - 100 * d) = 1 * (t * ds) - 100 * (t * d)
      <3>1. 1 \in Int /\ 100 \in Int
        OBVIOUS
      <3> QED
        BY <1>1, <3>1, Spread
    <2> QED
      BY <1>1, <1>3, <1>5, <2>1
  <1>8. 2 * (255 * (3000 * l - P) - 300000 * c) =
            3000 * (510 * l - 100 * S) - 10000 * (R - 30 * (S - 2 * c)) - 100 * (Q - 100 * R) - (510 * P - 100 * Q)
    BY <1>1
  <1> QED
    BY <1>6, <1>7, <1>8 DEF Agree, P, R, st, ds

LEMMA FivesOff ==
    ASSUME NEW x \in Int, NEW c \in Int, 2 * (x - 300000 * c) < 3300000, -3300000 <= 2 * (x - 300000 * c)
    PROVE  Round(x, 300000) - c \in -5 .. 5
  BY SMT DEF Round

Fives(x, c) == Round(x, 300000) - c \in -5 .. 5

\* The sum of what four roundings do to a channel: of the hue, f, of the
\* saturation, b, and of the lightness, by itself, a, and as a factor, g.
Summed(x, c, a, b, f, g, s, t) ==
    2 * (x - 300000 * c) = 3000 * a - 10000 * f - 100 * (t * b) - (s * t) * g

LEMMA ErrorsAdd ==
    ASSUME NEW x \in Int, NEW c \in Int, NEW a \in -255 .. 255, NEW b \in -127 .. 127, NEW f \in -127 .. 127,
           NEW g \in -255 .. 255, NEW s \in 0 .. 100, NEW t \in -30 .. 30, Summed(x, c, a, b, f, g, s, t)
    PROVE  Fives(x, c)
  <1>1. t * b \in Int /\ -3810 <= t * b /\ t * b <= 3810
    OBVIOUS
  <1>2. (s * t) * g \in Int /\ -765000 <= (s * t) * g /\ (s * t) * g <= 765000
    <2> DEFINE st == s * t
    <2>1. st \in Int /\ -3000 <= st /\ st <= 3000
      OBVIOUS
    <2> HIDE DEF st
    <2>2. st * g \in Int /\ -765000 <= st * g /\ st * g <= 765000
      BY <2>1
    <2> QED
      BY <2>2 DEF st
  <1>3. 2 * (x - 300000 * c) < 3300000 /\ -3300000 <= 2 * (x - 300000 * c)
    BY <1>1, <1>2 DEF Summed
  <1> QED
    BY <1>3, FivesOff, SMT DEF Fives

\* q is n / d, rounded.
Off(n, d, q) == 2 * (d * q - n) <= d /\ -d <= 2 * (d * q - n)

\* A channel of the color of saturation s and lightness l, at t of the ramp.
Channel(s, l, m, t) == Round(255 * (3000 * l - s * m * t), 300000)

\* The four roundings on the way to hue, saturation and lightness, and back.
Roundings(S, c, d, den, s, l, m, t) ==
    /\ 510 * l - 100 * S \in -255 .. 255
    /\ den * s - 100 * d \in -127 .. 127
    /\ d * t - 30 * (S - 2 * c) \in -127 .. 127
    /\ 510 * m - 100 * den \in -255 .. 255

\* What the saturation is a part of; the lesser of lightness and darkness.
MostChroma(S) == IF S > 255 THEN 510 - S ELSE S
Lesser(l)     == IF l <= 100 - l THEN l ELSE 100 - l

Rounded(S, c, d, s, l, t) ==
    Off(100 * S, 510, l) /\ Off(100 * d, MostChroma(S), s) /\ Off(30 * (S - 2 * c), d, t)

LEMMA RoundingsAre ==
    ASSUME NEW S \in 1 .. 509, NEW c \in 0 .. 255, NEW d \in 1 .. 255,
           NEW s \in 0 .. 100, NEW l \in 0 .. 100, NEW t \in -30 .. 30, Rounded(S, c, d, s, l, t)
    PROVE  Roundings(S, c, d, MostChroma(S), s, l, Lesser(l), t)
  <1> DEFINE den == MostChroma(S)
             m   == Lesser(l)
  <1>1. den \in 1 .. 255 /\ den = IF S > 255 THEN 510 - S ELSE S
    BY SMT DEF MostChroma
  <1>2. m \in Int /\ m = IF l <= 100 - l THEN l ELSE 100 - l
    BY SMT DEF Lesser
  <1>3. Off(100 * S, 510, l) /\ Off(100 * d, den, s) /\ Off(30 * (S - 2 * c), d, t)
    BY SMT DEF Rounded
  <1> HIDE DEF den, m
  <1>4. 510 * l - 100 * S \in -255 .. 255
    BY <1>3, SMT DEF Off
  <1>5. den * s - 100 * d \in -127 .. 127
    BY <1>1, <1>3, SMT DEF Off
  <1>6. d * t - 30 * (S - 2 * c) \in -127 .. 127
    BY <1>3, SMT DEF Off
  <1>7. 510 * m - 100 * den \in -255 .. 255
    BY <1>1, <1>2, <1>4, SMT
  <1>8. Roundings(S, c, d, den, s, l, m, t)
    BY <1>4, <1>5, <1>6, <1>7, SMT DEF Roundings
  <1> QED
    BY <1>8 DEF den, m

LEMMA HueKept ==
    ASSUME NEW S \in Int, NEW c \in Int, NEW d \in Int, NEW den \in Int, NEW s \in 0 .. 100, NEW l \in Int,
           NEW m \in Int, NEW t \in -30 .. 30, Roundings(S, c, d, den, s, l, m, t)
    PROVE  Channel(s, l, m, t) - c \in -5 .. 5
  <1> DEFINE a == 510 * l - 100 * S
             b == den * s - 100 * d
             f == d * t - 30 * (S - 2 * c)
             g == 510 * m - 100 * den
             x == 255 * (3000 * l - s * m * t)
  <1>1. a \in -255 .. 255 /\ b \in -127 .. 127 /\ f \in -127 .. 127 /\ g \in -255 .. 255
    BY SMT DEF Roundings
  <1>2. x \in Int
    BY SMT
  <1>3. s \in Int /\ t \in Int
    OBVIOUS
  <1>4. Agree(S, c, d, den, s, l, m, t)
    BY <1>3, HslErrors, ZenonT(30)
  <1>5. Summed(x, c, a, b, f, g, s, t)
    BY <1>4, SMT DEF Agree, Summed
  <1> HIDE DEF a, b, f, g, x
  <1>6. Fives(x, c)
    BY <1>1, <1>2, <1>5, ErrorsAdd, ZenonT(30)
  <1> QED
    BY <1>6, SMT DEF Fives, Channel, x

LEMMA LeastOfThree ==
    ASSUME NEW a \in Int, NEW b \in Int, NEW e \in Int
    PROVE  Min({a, b, e}) \in {a, b, e} /\ \A y \in {a, b, e} : Min({a, b, e}) <= y
  <1>1. \E x \in {a, b, e} : \A y \in {a, b, e} : x <= y
    <2>1. CASE a <= b /\ a <= e
      BY <2>1
    <2>2. CASE b <= a /\ b <= e
      BY <2>2
    <2>3. CASE e <= a /\ e <= b
      BY <2>3
    <2> QED
      BY <2>1, <2>2, <2>3
  <1> QED
    BY <1>1 DEF Min

LEMMA RampIs ==
    ASSUME NEW k \in 0 .. 359
    PROVE  Ramp(k) = IF k <= 60 THEN -30
                     ELSE IF k <= 120 THEN k - 90
                     ELSE IF k <= 240 THEN 30
                     ELSE IF k <= 300 THEN 270 - k ELSE -30
  <1> DEFINE a == k - 90
             b == 270 - k
             e == 30
             l == Min({a, b, e})
  <1>1. a \in Int /\ b \in Int /\ e \in Int
    OBVIOUS
  <1>2. l \in {a, b, e} /\ l <= a /\ l <= b /\ l <= e
    <2> HIDE DEF a, b, e
    <2> QED
      BY <1>1, LeastOfThree
  <1>3. l \in Int
    BY <1>1, <1>2
  <1>4. Ramp(k) = Max({-30, l})
    BY DEF Ramp
  <1> HIDE DEF l
  <1>5. Max({-30, l}) = IF -30 >= l THEN -30 ELSE l
    <2>1. \A x, y \in Int : Max({x, y}) = IF x >= y THEN x ELSE y
      BY TwoExtremes
    <2>2. -30 \in Int
      OBVIOUS
    <2> QED
      BY <1>3, <2>1, <2>2
  <1> QED
    BY <1>2, <1>3, <1>4, <1>5

\* On the flat parts of the trapezoid the hue does not matter, on its sides the
\* channel errs by as much as the hue.
OnRamp(k, d, y) ==
    \/ k \in 120 .. 240 /\ y = 30 * d
    \/ (k <= 60 \/ k >= 300) /\ y = -(30 * d)
    \/ k \in 60 .. 120 /\ 2 * (d * k - 90 * d - y) <= d /\ -d <= 2 * (d * k - 90 * d - y)
    \/ k \in 240 .. 300 /\ 2 * (270 * d - d * k - y) <= d /\ -d <= 2 * (270 * d - d * k - y)
ByHalf(k, d, y) == Ramp(k) \in -30 .. 30 /\ Off(y, d, Ramp(k))

LEMMA RampError ==
    ASSUME NEW k \in 0 .. 359, NEW d \in 1 .. 255, NEW y \in Int, OnRamp(k, d, y)
    PROVE  ByHalf(k, d, y)
  <1>1. CASE k \in 120 .. 240 /\ y = 30 * d
    <2>1. Ramp(k) = 30
      BY <1>1, RampIs
    <2> QED
      BY <1>1, <2>1 DEF ByHalf, Off
  <1>2. CASE (k <= 60 \/ k >= 300) /\ y = -(30 * d)
    <2>1. Ramp(k) = -30
      BY <1>2, RampIs
    <2> QED
      BY <1>2, <2>1 DEF ByHalf, Off
  <1>3. CASE k \in 60 .. 120 /\ 2 * (d * k - 90 * d - y) <= d /\ -d <= 2 * (d * k - 90 * d - y)
    <2>1. Ramp(k) = k - 90
      BY <1>3, RampIs
    <2>2. d * (k - 90) = d * k - 90 * d
      OBVIOUS
    <2> QED
      BY <1>3, <2>1, <2>2 DEF ByHalf, Off
  <1>4. CASE k \in 240 .. 300 /\ 2 * (270 * d - d * k - y) <= d /\ -d <= 2 * (270 * d - d * k - y)
    <2>1. Ramp(k) = 270 - k
      BY <1>4, RampIs
    <2>2. d * (270 - k) = 270 * d - d * k
      OBVIOUS
    <2> QED
      BY <1>4, <2>1, <2>2 DEF ByHalf, Off
  <1> QED
    BY <1>1, <1>2, <1>3, <1>4 DEF OnRamp

LEMMA Doubled ==
    ASSUME NEW x \in Int, NEW y \in Int, NEW z \in Int
    PROVE  x * (y + z) = x * y + z * x
  OBVIOUS

LEMMA Halves ==
    ASSUME NEW n \in Int, NEW d \in Nat \ {0}, NEW lo \in Int, NEW hi \in Int, lo * d <= n, n <= hi * d
    PROVE  /\ Round(n, d) \in lo .. hi
           /\ 2 * (d * Round(n, d) - n) <= d /\ -d <= 2 * (d * Round(n, d) - n)
  <1> DEFINE q == Round(n, d)
  <1>1. q \in lo .. hi
    BY RoundWithin
  <1>2. q \in Int /\ 2 * (d * q - n) <= d /\ -d < 2 * (d * q - n)
    BY RoundError
  <1> HIDE DEF q
  <1>3. -d <= 2 * (d * q - n)
    BY <1>2
  <1> QED
    BY <1>1, <1>2, <1>3 DEF q

OnRamps(H, mx, mn, r, g, b) ==
    /\ H \in 0 .. 360
    /\ OnRamp(H % 360, mx - mn, 30 * ((mx + mn) - 2 * r))
    /\ OnRamp((H + 240) % 360, mx - mn, 30 * ((mx + mn) - 2 * g))
    /\ OnRamp((H + 120) % 360, mx - mn, 30 * ((mx + mn) - 2 * b))

HasHue(H, d, mx, mn, r, g, b) ==
    /\ mx \in {r, g, b} /\ mn \in {r, g, b} /\ \A x \in {r, g, b} : mn <= x /\ x <= mx
    /\ mx # mn /\ d = mx - mn /\ H = Hue(<<r, g, b>>, mx, d)

\* The three channels of a color that is no grey, at its rounded hue: one is on
\* top, one at the bottom and one on a side, in each of the six sixths.
LEMMA Sixths ==
    ASSUME NEW r \in 0 .. 255, NEW g \in 0 .. 255, NEW b \in 0 .. 255, NEW mx \in Int, NEW mn \in Int,
           NEW d \in Int, NEW H, HasHue(H, d, mx, mn, r, g, b)
    PROVE  OnRamps(H, mx, mn, r, g, b)
  <1>1. /\ r \in Nat /\ g \in Nat /\ b \in Nat /\ mx \in Nat /\ mn \in Nat /\ mx <= 255
        /\ mx \in {r, g, b} /\ mn \in {r, g, b}
        /\ mn <= r /\ r <= mx /\ mn <= g /\ g <= mx /\ mn <= b /\ b <= mx
        /\ d = mx - mn /\ d \in Nat \ {0}
    BY DEF HasHue
  <1>2. H = IF mx = r THEN Round(60 * (g - b + IF g < b THEN 6 * d ELSE 0), d)
            ELSE IF mx = g THEN Round(60 * (b - r + 2 * d), d)
            ELSE Round(60 * (r - g + 4 * d), d)
    BY <1>1 DEF HasHue, Hue
  <1>3. (r >= g /\ r >= b) \/ (g > r /\ g >= b) \/ (b > r /\ b > g)
    OBVIOUS
  <1>4. CASE r >= g /\ r >= b /\ g >= b
    <2> DEFINE n  == 60 * (g - b)
               lo == 0
               hi == 60
    <2>1. mx = r /\ mn = b /\ d = r - b
      BY <1>1, <1>4
    <2>2. n \in Int /\ lo \in Int /\ hi \in Int /\ lo * d <= n /\ n <= hi * d
      BY <1>1, <1>4, <2>1
    <2>3. H = Round(n, d)
      BY <1>1, <1>2, <1>4, <2>1
    <2> HIDE DEF n, lo, hi
    <2>4. H \in lo .. hi /\ 2 * (d * H - n) <= d /\ -d <= 2 * (d * H - n)
      <3>1. Round(n, d) \in lo .. hi /\ 2 * (d * Round(n, d) - n) <= d /\ -d <= 2 * (d * Round(n, d) - n)
        BY <1>1, <2>2, Halves
      <3> QED
        BY <2>3, <3>1
    <2>5. H \in 0 .. 60
      BY <2>4 DEF lo, hi
    <2>6. /\ H % 360 = H
          /\ (H + 240) % 360 = H + 240
          /\ (H + 120) % 360 = H + 120
      BY <2>5
    <2>7. OnRamp(H % 360, d, 30 * ((mx + mn) - 2 * r))
      BY <1>1, <2>1, <2>5, <2>6 DEF OnRamp
    <2>8. OnRamp((H + 120) % 360, d, 30 * ((mx + mn) - 2 * b))
      BY <1>1, <2>1, <2>5, <2>6 DEF OnRamp
    <2>9. OnRamp((H + 240) % 360, d, 30 * ((mx + mn) - 2 * g))
      <3>1. 270 * d - d * (H + 240) - 30 * ((mx + mn) - 2 * g) = n - d * H
        <4>1. d * (H + 240) = d * H + 240 * d /\ d * H \in Int
          <5>1. H \in Int /\ d \in Int /\ 240 \in Int
            BY <1>1, <2>5
          <5>2. d * (H + 240) = d * H + 240 * d
            BY <5>1, Doubled
          <5> QED
            BY <5>1, <5>2
        <4> QED
          BY <1>1, <2>1, <2>5, <4>1 DEF n
      <3>2. H + 240 \in 240 .. 300
        BY <2>5
      <3>3. /\ 2 * (270 * d - d * (H + 240) - 30 * ((mx + mn) - 2 * g)) <= d
            /\ -d <= 2 * (270 * d - d * (H + 240) - 30 * ((mx + mn) - 2 * g))
        <4>1. d * H \in Int
          BY <1>1, <2>5
        <4> QED
          BY <1>1, <2>2, <2>4, <3>1, <4>1
      <3> QED
        BY <2>6, <3>2, <3>3 DEF OnRamp
    <2> QED
      BY <1>1, <2>5, <2>7, <2>8, <2>9 DEF OnRamps
  <1>5. CASE r >= g /\ r >= b /\ g < b
    <2> DEFINE n  == 60 * (g - b + 6 * d)
               lo == 300
               hi == 360
    <2>1. mx = r /\ mn = g /\ d = r - g
      BY <1>1, <1>5
    <2>2. n \in Int /\ lo \in Int /\ hi \in Int /\ lo * d <= n /\ n <= hi * d
      BY <1>1, <1>5, <2>1
    <2>3. H = Round(n, d)
      BY <1>1, <1>2, <1>5, <2>1
    <2> HIDE DEF n, lo, hi
    <2>4. H \in lo .. hi /\ 2 * (d * H - n) <= d /\ -d <= 2 * (d * H - n)
      <3>1. Round(n, d) \in lo .. hi /\ 2 * (d * Round(n, d) - n) <= d /\ -d <= 2 * (d * Round(n, d) - n)
        BY <1>1, <2>2, Halves
      <3> QED
        BY <2>3, <3>1
    <2>5. H \in 300 .. 360
      BY <2>4 DEF lo, hi
    <2>6. /\ H % 360 = IF H = 360 THEN 0 ELSE H
          /\ (H + 240) % 360 = H - 120
          /\ (H + 120) % 360 = H - 240
      BY <2>5
    <2>7. OnRamp(H % 360, d, 30 * ((mx + mn) - 2 * r))
      BY <1>1, <2>1, <2>5, <2>6 DEF OnRamp
    <2>8. OnRamp((H + 240) % 360, d, 30 * ((mx + mn) - 2 * g))
      BY <1>1, <2>1, <2>5, <2>6 DEF OnRamp
    <2>9. OnRamp((H + 120) % 360, d, 30 * ((mx + mn) - 2 * b))
      <3>1. d * (H - 240) - 90 * d - 30 * ((mx + mn) - 2 * b) = d * H - n
        <4>1. d * (H - 240) = d * H - 240 * d /\ d * H \in Int
          BY <1>1, <2>5
        <4> QED
          BY <1>1, <2>1, <2>5, <4>1 DEF n
      <3>2. H - 240 \in 60 .. 120
        BY <2>5
      <3>3. /\ 2 * (d * (H - 240) - 90 * d - 30 * ((mx + mn) - 2 * b)) <= d
            /\ -d <= 2 * (d * (H - 240) - 90 * d - 30 * ((mx + mn) - 2 * b))
        <4>1. d * H \in Int
          BY <1>1, <2>5
        <4> QED
          BY <1>1, <2>2, <2>4, <3>1, <4>1
      <3> QED
        BY <2>6, <3>2, <3>3 DEF OnRamp
    <2> QED
      BY <1>1, <2>5, <2>7, <2>8, <2>9 DEF OnRamps
  <1>6. CASE g > r /\ g >= b /\ b <= r
    <2> DEFINE n  == 60 * (b - r + 2 * d)
               lo == 60
               hi == 120
    <2>1. mx = g /\ mn = b /\ d = g - b /\ mx # r /\ mx = g
      BY <1>1, <1>6
    <2>2. n \in Int /\ lo \in Int /\ hi \in Int /\ lo * d <= n /\ n <= hi * d
      BY <1>1, <1>6, <2>1
    <2>3. H = Round(n, d)
      BY <1>1, <1>2, <1>6, <2>1
    <2> HIDE DEF n, lo, hi
    <2>4. H \in lo .. hi /\ 2 * (d * H - n) <= d /\ -d <= 2 * (d * H - n)
      <3>1. Round(n, d) \in lo .. hi /\ 2 * (d * Round(n, d) - n) <= d /\ -d <= 2 * (d * Round(n, d) - n)
        BY <1>1, <2>2, Halves
      <3> QED
        BY <2>3, <3>1
    <2>5. H \in 60 .. 120
      BY <2>4 DEF lo, hi
    <2>6. /\ H % 360 = H
          /\ (H + 240) % 360 = IF H = 120 THEN 0 ELSE H + 240
          /\ (H + 120) % 360 = H + 120
      BY <2>5
    <2>7. OnRamp((H + 240) % 360, d, 30 * ((mx + mn) - 2 * g))
      BY <1>1, <2>1, <2>5, <2>6 DEF OnRamp
    <2>8. OnRamp((H + 120) % 360, d, 30 * ((mx + mn) - 2 * b))
      BY <1>1, <2>1, <2>5, <2>6 DEF OnRamp
    <2>9. OnRamp(H % 360, d, 30 * ((mx + mn) - 2 * r))
      <3>1. d * (H) - 90 * d - 30 * ((mx + mn) - 2 * r) = d * H - n
        <4>1. d * (H) = d * H /\ d * H \in Int
          BY <1>1, <2>5
        <4> QED
          BY <1>1, <2>1, <2>5, <4>1 DEF n
      <3>2. H \in 60 .. 120
        BY <2>5
      <3>3. /\ 2 * (d * (H) - 90 * d - 30 * ((mx + mn) - 2 * r)) <= d
            /\ -d <= 2 * (d * (H) - 90 * d - 30 * ((mx + mn) - 2 * r))
        <4>1. d * H \in Int
          BY <1>1, <2>5
        <4> QED
          BY <1>1, <2>2, <2>4, <3>1, <4>1
      <3> QED
        BY <2>6, <3>2, <3>3 DEF OnRamp
    <2> QED
      BY <1>1, <2>5, <2>7, <2>8, <2>9 DEF OnRamps
  <1>7. CASE g > r /\ g >= b /\ b > r
    <2> DEFINE n  == 60 * (b - r + 2 * d)
               lo == 120
               hi == 180
    <2>1. mx = g /\ mn = r /\ d = g - r /\ mx # r /\ mx = g
      BY <1>1, <1>7
    <2>2. n \in Int /\ lo \in Int /\ hi \in Int /\ lo * d <= n /\ n <= hi * d
      BY <1>1, <1>7, <2>1
    <2>3. H = Round(n, d)
      BY <1>1, <1>2, <1>7, <2>1
    <2> HIDE DEF n, lo, hi
    <2>4. H \in lo .. hi /\ 2 * (d * H - n) <= d /\ -d <= 2 * (d * H - n)
      <3>1. Round(n, d) \in lo .. hi /\ 2 * (d * Round(n, d) - n) <= d /\ -d <= 2 * (d * Round(n, d) - n)
        BY <1>1, <2>2, Halves
      <3> QED
        BY <2>3, <3>1
    <2>5. H \in 120 .. 180
      BY <2>4 DEF lo, hi
    <2>6. /\ H % 360 = H
          /\ (H + 240) % 360 = H - 120
          /\ (H + 120) % 360 = H + 120
      BY <2>5
    <2>7. OnRamp(H % 360, d, 30 * ((mx + mn) - 2 * r))
      BY <1>1, <2>1, <2>5, <2>6 DEF OnRamp
    <2>8. OnRamp((H + 240) % 360, d, 30 * ((mx + mn) - 2 * g))
      BY <1>1, <2>1, <2>5, <2>6 DEF OnRamp
    <2>9. OnRamp((H + 120) % 360, d, 30 * ((mx + mn) - 2 * b))
      <3>1. 270 * d - d * (H + 120) - 30 * ((mx + mn) - 2 * b) = n - d * H
        <4>1. d * (H + 120) = d * H + 120 * d /\ d * H \in Int
          BY <1>1, <2>5
        <4> QED
          BY <1>1, <2>1, <2>5, <4>1 DEF n
      <3>2. H + 120 \in 240 .. 300
        BY <2>5
      <3>3. /\ 2 * (270 * d - d * (H + 120) - 30 * ((mx + mn) - 2 * b)) <= d
            /\ -d <= 2 * (270 * d - d * (H + 120) - 30 * ((mx + mn) - 2 * b))
        <4>1. d * H \in Int
          BY <1>1, <2>5
        <4> QED
          BY <1>1, <2>2, <2>4, <3>1, <4>1
      <3> QED
        BY <2>6, <3>2, <3>3 DEF OnRamp
    <2> QED
      BY <1>1, <2>5, <2>7, <2>8, <2>9 DEF OnRamps
  <1>8. CASE b > r /\ b > g /\ r <= g
    <2> DEFINE n  == 60 * (r - g + 4 * d)
               lo == 180
               hi == 240
    <2>1. mx = b /\ mn = r /\ d = b - r /\ mx # r /\ mx # g
      BY <1>1, <1>8
    <2>2. n \in Int /\ lo \in Int /\ hi \in Int /\ lo * d <= n /\ n <= hi * d
      BY <1>1, <1>8, <2>1
    <2>3. H = Round(n, d)
      BY <1>1, <1>2, <1>8, <2>1
    <2> HIDE DEF n, lo, hi
    <2>4. H \in lo .. hi /\ 2 * (d * H - n) <= d /\ -d <= 2 * (d * H - n)
      <3>1. Round(n, d) \in lo .. hi /\ 2 * (d * Round(n, d) - n) <= d /\ -d <= 2 * (d * Round(n, d) - n)
        BY <1>1, <2>2, Halves
      <3> QED
        BY <2>3, <3>1
    <2>5. H \in 180 .. 240
      BY <2>4 DEF lo, hi
    <2>6. /\ H % 360 = H
          /\ (H + 240) % 360 = H - 120
          /\ (H + 120) % 360 = IF H = 240 THEN 0 ELSE H + 120
      BY <2>5
    <2>7. OnRamp(H % 360, d, 30 * ((mx + mn) - 2 * r))
      BY <1>1, <2>1, <2>5, <2>6 DEF OnRamp
    <2>8. OnRamp((H + 120) % 360, d, 30 * ((mx + mn) - 2 * b))
      BY <1>1, <2>1, <2>5, <2>6 DEF OnRamp
    <2>9. OnRamp((H + 240) % 360, d, 30 * ((mx + mn) - 2 * g))
      <3>1. d * (H - 120) - 90 * d - 30 * ((mx + mn) - 2 * g) = d * H - n
        <4>1. d * (H - 120) = d * H - 120 * d /\ d * H \in Int
          BY <1>1, <2>5
        <4> QED
          BY <1>1, <2>1, <2>5, <4>1 DEF n
      <3>2. H - 120 \in 60 .. 120
        BY <2>5
      <3>3. /\ 2 * (d * (H - 120) - 90 * d - 30 * ((mx + mn) - 2 * g)) <= d
            /\ -d <= 2 * (d * (H - 120) - 90 * d - 30 * ((mx + mn) - 2 * g))
        <4>1. d * H \in Int
          BY <1>1, <2>5
        <4> QED
          BY <1>1, <2>2, <2>4, <3>1, <4>1
      <3> QED
        BY <2>6, <3>2, <3>3 DEF OnRamp
    <2> QED
      BY <1>1, <2>5, <2>7, <2>8, <2>9 DEF OnRamps
  <1>9. CASE b > r /\ b > g /\ r > g
    <2> DEFINE n  == 60 * (r - g + 4 * d)
               lo == 240
               hi == 300
    <2>1. mx = b /\ mn = g /\ d = b - g /\ mx # r /\ mx # g
      BY <1>1, <1>9
    <2>2. n \in Int /\ lo \in Int /\ hi \in Int /\ lo * d <= n /\ n <= hi * d
      BY <1>1, <1>9, <2>1
    <2>3. H = Round(n, d)
      BY <1>1, <1>2, <1>9, <2>1
    <2> HIDE DEF n, lo, hi
    <2>4. H \in lo .. hi /\ 2 * (d * H - n) <= d /\ -d <= 2 * (d * H - n)
      <3>1. Round(n, d) \in lo .. hi /\ 2 * (d * Round(n, d) - n) <= d /\ -d <= 2 * (d * Round(n, d) - n)
        BY <1>1, <2>2, Halves
      <3> QED
        BY <2>3, <3>1
    <2>5. H \in 240 .. 300
      BY <2>4 DEF lo, hi
    <2>6. /\ H % 360 = H
          /\ (H + 240) % 360 = H - 120
          /\ (H + 120) % 360 = H - 240
      BY <2>5
    <2>7. OnRamp((H + 240) % 360, d, 30 * ((mx + mn) - 2 * g))
      BY <1>1, <2>1, <2>5, <2>6 DEF OnRamp
    <2>8. OnRamp((H + 120) % 360, d, 30 * ((mx + mn) - 2 * b))
      BY <1>1, <2>1, <2>5, <2>6 DEF OnRamp
    <2>9. OnRamp(H % 360, d, 30 * ((mx + mn) - 2 * r))
      <3>1. 270 * d - d * (H) - 30 * ((mx + mn) - 2 * r) = n - d * H
        <4>1. d * (H) = d * H /\ d * H \in Int
          BY <1>1, <2>5
        <4> QED
          BY <1>1, <2>1, <2>5, <4>1 DEF n
      <3>2. H \in 240 .. 300
        BY <2>5
      <3>3. /\ 2 * (270 * d - d * (H) - 30 * ((mx + mn) - 2 * r)) <= d
            /\ -d <= 2 * (270 * d - d * (H) - 30 * ((mx + mn) - 2 * r))
        <4>1. d * H \in Int
          BY <1>1, <2>5
        <4> QED
          BY <1>1, <2>2, <2>4, <3>1, <4>1
      <3> QED
        BY <2>6, <3>2, <3>3 DEF OnRamp
    <2> QED
      BY <1>1, <2>5, <2>7, <2>8, <2>9 DEF OnRamps
  <1> QED
    BY <1>3, <1>4, <1>5, <1>6, <1>7, <1>8, <1>9

\* A channel c of a color whose extremes have the sum S and the difference d,
\* told as saturation s, lightness l and k degrees on the ramp.
Told(S, c, d, s, l, k) ==
    Off(100 * S, 510, l) /\ Off(100 * d, MostChroma(S), s) /\ OnRamp(k, d, 30 * (S - 2 * c))

LEMMA ChannelKept ==
    ASSUME NEW S \in 1 .. 509, NEW c \in 0 .. 255, NEW d \in 1 .. 255,
           NEW s \in 0 .. 100, NEW l \in 0 .. 100, NEW k \in 0 .. 359, Told(S, c, d, s, l, k)
    PROVE  Channel(s, l, Lesser(l), Ramp(k)) - c \in -5 .. 5
  <1> DEFINE t   == Ramp(k)
             y   == 30 * (S - 2 * c)
             den == MostChroma(S)
             m   == Lesser(l)
  <1>1. ByHalf(k, d, y)
    <2>1. y \in Int /\ OnRamp(k, d, y)
      BY SMT DEF Told
    <2> HIDE DEF y
    <2> QED
      BY <2>1, RampError, ZenonT(30)
  <1>2. t \in -30 .. 30 /\ Off(30 * (S - 2 * c), d, t)
    BY <1>1 DEF ByHalf
  <1>3. den \in Int
    BY SMT DEF MostChroma
  <1>4. m \in Int
    BY SMT DEF Lesser
  <1>5. Rounded(S, c, d, s, l, t)
    BY <1>2, SMT DEF Told, Rounded
  <1>6. S \in Int /\ c \in Int /\ d \in Int /\ l \in Int
    OBVIOUS
  <1> HIDE DEF t
  <1>7. Roundings(S, c, d, den, s, l, m, t)
    BY <1>2, <1>5, RoundingsAre, Zenon
  <1> HIDE DEF den, m
  <1>8. Channel(s, l, m, t) - c \in -5 .. 5
    BY <1>2, <1>3, <1>4, <1>6, <1>7, HueKept, Zenon
  <1> QED
    BY <1>8 DEF m, t

\* What rgbToHsl rounds, in terms of the extremes of the channels.
LEMMA HslIs ==
    ASSUME NEW c \in RgbColors
    PROVE  /\ rgbToHsl(c)[1] = Hue(c, Top(c), Top(c) - Bottom(c))
           /\ rgbToHsl(c)[2] = IF Top(c) - Bottom(c) = 0 THEN 0
                               ELSE Round(100 * (Top(c) - Bottom(c)), MostChroma(Top(c) + Bottom(c)))
           /\ rgbToHsl(c)[3] = Round(100 * (Top(c) + Bottom(c)), 510)
  <1> DEFINE a == Top(c)
             b == Bottom(c)
  <1>1. a \in Int /\ b \in Int
    BY Extremes
  <1>2. /\ rgbToHsl(c)[1] = Hue(c, a, a - b)
        /\ rgbToHsl(c)[2] = IF a - b = 0 THEN 0
                            ELSE Round(100 * (a - b), IF a + b > 255 THEN 510 - a - b ELSE a + b)
        /\ rgbToHsl(c)[3] = Round(100 * (a + b), 510)
    BY DEF rgbToHsl, Top, Bottom
  <1> HIDE DEF a, b
  <1>3. MostChroma(a + b) = IF a + b > 255 THEN 510 - a - b ELSE a + b
    BY <1>1 DEF MostChroma
  <1> QED
    BY <1>2, <1>3 DEF a, b

\* The place on the ramp of channel i of a color of hue h.
HueFits(h, c, i) ==
    OnRamp((h + <<0, 240, 120>>[i]) % 360, Top(c) - Bottom(c), 30 * ((Top(c) + Bottom(c)) - 2 * c[i]))

LEMMA HueOnRamp ==
    ASSUME NEW c \in RgbColors, Top(c) # Bottom(c)
    PROVE  /\ rgbToHsl(c)[1] \in 0 .. 360
           /\ \A i \in 1 .. 3 : HueFits(rgbToHsl(c)[1], c, i)
  <1> DEFINE H  == rgbToHsl(c)[1]
             mx == Top(c)
             mn == Bottom(c)
             d  == mx - mn
  <1>1. H = Hue(c, mx, d)
    BY HslIs
  <1>2. c[1] \in 0 .. 255 /\ c[2] \in 0 .. 255 /\ c[3] \in 0 .. 255
    BY Extremes
  <1>3. \A x \in {c[1], c[2], c[3]} : mn <= x /\ x <= mx
    BY Extremes
  <1>4. Hue(c, mx, d) = Hue(<<c[1], c[2], c[3]>>, mx, d)
    <2> HIDE DEF d
    <2> QED
      BY DEF Hue
  <1>5. mx \in Int /\ mn \in Int /\ mx \in {c[1], c[2], c[3]} /\ mn \in {c[1], c[2], c[3]}
    BY Extremes
  <1>6. d = mx - mn /\ d \in Int
    BY <1>5
  <1>7. mx # mn
    OBVIOUS
  <1> HIDE DEF H, d, mx, mn
  <1>8. OnRamps(H, mx, mn, c[1], c[2], c[3])
    <2>1. HasHue(H, d, mx, mn, c[1], c[2], c[3])
      BY <1>1, <1>3, <1>4, <1>5, <1>6, <1>7, Zenon DEF HasHue
    <2> QED
      BY <1>2, <1>5, <1>6, <2>1, Sixths, Zenon
  <1>9. H \in 0 .. 360 /\ H + 0 = H
    BY <1>8 DEF OnRamps
  <1>10. \A i \in 1 .. 3 : OnRamp((H + <<0, 240, 120>>[i]) % 360, mx - mn, 30 * ((mx + mn) - 2 * c[i]))
    <2> TAKE i \in 1 .. 3
    <2>1. CASE i = 1
      BY <1>8, <1>9, <2>1 DEF OnRamps
    <2>2. CASE i = 2
      BY <1>8, <2>2 DEF OnRamps
    <2>3. CASE i = 3
      BY <1>8, <2>3 DEF OnRamps
    <2> QED
      BY <2>1, <2>2, <2>3
  <1> QED
    BY <1>9, <1>10, Zenon DEF HueFits, H, mx, mn


LEMMA RoundOff ==
    ASSUME NEW n \in Int, NEW d \in Nat \ {0}
    PROVE  Off(n, d, Round(n, d)) /\ Round(n, d) \in Int
  <1> DEFINE q == Round(n, d)
  <1>1. q \in Int /\ 2 * (d * q - n) <= d /\ -d < 2 * (d * q - n)
    BY RoundError
  <1> HIDE DEF q
  <1>2. Off(n, d, q)
    BY <1>1 DEF Off
  <1> QED
    BY <1>1, <1>2 DEF q

\* What a reader of hue, saturation and lightness computes.
LEMMA ReadBack ==
    ASSUME NEW v, v[3] \in 0 .. 100, NEW i \in 1 .. 3
    PROVE  hslToRgb(v)[i] = Channel(v[2], v[3], Lesser(v[3]), Ramp((v[1] + <<0, 240, 120>>[i]) % 360))
  <1> DEFINE l == v[3]
  <1>1. l \in Int /\ 100 - l \in Int
    OBVIOUS
  <1> HIDE DEF l
  <1>2. Min({l, 100 - l}) = Lesser(l)
    BY <1>1, TwoExtremes DEF Lesser
  <1>3. Min({v[3], 100 - v[3]}) = Lesser(v[3])
    BY <1>2 DEF l
  <1> QED
    BY <1>3, SMT DEF hslToRgb, Channel

LEMMA ColorKept ==
    ASSUME NEW c \in RgbColors, Top(c) # Bottom(c), NEW i \in 1 .. 3
    PROVE  hslToRgb(rgbToHsl(c))[i] - c[i] \in -5 .. 5
  <1> DEFINE mx  == Top(c)
             mn  == Bottom(c)
             d   == mx - mn
             S   == mx + mn
             den == MostChroma(S)
             h   == rgbToHsl(c)[1]
             s   == rgbToHsl(c)[2]
             l   == rgbToHsl(c)[3]
             k   == (h + <<0, 240, 120>>[i]) % 360
             ci  == c[i]
  <1>1. /\ mx \in 0 .. 255 /\ mn \in 0 .. 255 /\ mn <= mx /\ mx # mn /\ ci \in 0 .. 255
    BY Extremes
  <1>2. s \in 0 .. 100 /\ l \in 0 .. 100
    BY HslInRange
  <1>3. (d = 0 \/ s = Round(100 * d, den)) /\ l = Round(100 * S, 510)
    BY HslIs
  <1>4. h \in 0 .. 360 /\ HueFits(h, c, i)
    BY HueOnRamp
  <1>5. hslToRgb(rgbToHsl(c))[i] = Channel(s, l, Lesser(l), Ramp(k))
    BY <1>2, ReadBack, SMT
  <1>6. OnRamp(k, d, 30 * (S - 2 * ci))
    BY <1>4 DEF HueFits
  <1> HIDE DEF h, s, l, ci
  <1>7. k \in 0 .. 359
    <2>1. <<0, 240, 120>>[i] \in {0, 240, 120}
      OBVIOUS
    <2> QED
      BY <1>4, <2>1
  <1> HIDE DEF k, mx, mn
  <1>8. d \in 1 .. 255 /\ S \in 1 .. 509
    BY <1>1
  <1> HIDE DEF d, S
  <1>9. den \in Nat \ {0}
    BY <1>8 DEF MostChroma
  <1>10. Off(100 * S, 510, l)
    <2>1. 100 * S \in Int /\ 510 \in Nat \ {0}
      BY <1>8
    <2> QED
      BY <1>3, <2>1, RoundOff, SMT
  <1>11. Off(100 * d, den, s)
    <2>1. 100 * d \in Int /\ den \in Nat \ {0} /\ d # 0
      BY <1>8, <1>9
    <2> HIDE DEF den
    <2> QED
      BY <1>3, <2>1, RoundOff, SMT
  <1>12. Told(S, ci, d, s, l, k)
    BY <1>6, <1>10, <1>11, Zenon DEF Told
  <1>13. Channel(s, l, Lesser(l), Ramp(k)) - ci \in -5 .. 5
    BY <1>1, <1>2, <1>7, <1>8, <1>12, ChannelKept, ZenonT(30)
  <1> QED
    BY <1>5, <1>13 DEF ci


\* A grey has no saturation: the lightness is all there is to round.
LEMMA GreyKept ==
    ASSUME NEW c \in RgbColors, Top(c) = Bottom(c), NEW i \in 1 .. 3
    PROVE  hslToRgb(rgbToHsl(c))[i] - c[i] \in -5 .. 5
  <1> DEFINE l  == rgbToHsl(c)[3]
             k  == (rgbToHsl(c)[1] + <<0, 240, 120>>[i]) % 360
             ci == c[i]
             mx == Top(c)
             m  == Lesser(l)
             t  == Ramp(k)
             x  == 255 * (3000 * l - 0 * m * t)
  <1>1. mx \in 0 .. 255 /\ ci = mx
    <2>1. mx \in 0 .. 255 /\ ci \in 0 .. 255 /\ Bottom(c) <= ci /\ ci <= mx
      BY Extremes
    <2>2. mx <= ci
      BY <2>1, Zenon
    <2> HIDE DEF mx, ci
    <2> QED
      BY <2>1, <2>2
  <1>2. l \in 0 .. 100 /\ rgbToHsl(c)[1] \in 0 .. 360
    BY HslInRange
  <1>3. rgbToHsl(c)[2] = 0 /\ l = Round(100 * (mx + mx), 510)
    BY <1>1, HslIs
  <1>4. hslToRgb(rgbToHsl(c))[i] = Channel(0, l, m, t)
    BY <1>2, <1>3, ReadBack, SMT
  <1>5. k \in 0 .. 359
    <2>1. <<0, 240, 120>>[i] \in {0, 240, 120}
      OBVIOUS
    <2> QED
      BY <1>2, <2>1
  <1> HIDE DEF l, k, ci, mx
  <1>6. t \in Int
    BY <1>5, RampIs, SMT
  <1>7. m \in Int
    BY <1>2, SMT DEF Lesser
  <1>8. Off(100 * (mx + mx), 510, l)
    <2>1. 100 * (mx + mx) \in Int /\ 510 \in Nat \ {0}
      BY <1>1
    <2> QED
      BY <1>3, <2>1, RoundOff, SMT
  <1> HIDE DEF m, t
  <1>9. x \in Int /\ 2 * (x - 300000 * ci) < 3300000 /\ -3300000 <= 2 * (x - 300000 * ci)
    BY <1>1, <1>2, <1>6, <1>7, <1>8, SMT DEF Off
  <1>10. ci \in Int
    BY <1>1
  <1> HIDE DEF x
  <1>11. Round(x, 300000) - ci \in -5 .. 5
    BY <1>9, <1>10, FivesOff, SMT
  <1> QED
    BY <1>4, <1>11, SMT DEF Channel, x, ci

\* The page's per cents of cyan, magenta, yellow and black give the color back.
LEMMA InkKept ==
    ASSUME NEW c \in RgbColors, NEW i \in 1 .. 3
    PROVE  cmykToRgb(rgbToCmyk(c))[i] - c[i] \in -3 .. 3
  <1> DEFINE mx == Top(c)
             ci == c[i]
             v  == rgbToCmyk(c)[i]
             k  == rgbToCmyk(c)[4]
  <1>1. mx \in 0 .. 255 /\ ci \in 0 .. mx
    <2>1. mx \in 0 .. 255 /\ ci \in 0 .. 255 /\ ci <= mx
      BY Extremes
    <2> HIDE DEF mx, ci
    <2> QED
      BY <2>1
  <1>2. cmykToRgb(rgbToCmyk(c))[i] = Round(255 * (100 - v) * (100 - k), 10000)
    BY SMT DEF cmykToRgb
  <1>3. v \in 0 .. 100 /\ k \in 0 .. 100
    BY CmykInRange
  <1>4. CASE mx = 0
    <2>1. v = 0 /\ k = 100
      BY <1>4 DEF rgbToCmyk, Top
    <2> HIDE DEF v, k, mx, ci
    <2>2. cmykToRgb(rgbToCmyk(c))[i] = 0 /\ ci = 0
      BY <1>1, <1>2, <1>4, <2>1, SMT DEF Round
    <2> QED
      BY <2>2 DEF ci
  <1>5. CASE mx # 0
    <2>1. v = Round(100 * (mx - ci), mx) /\ k = Round(100 * (255 - mx), 255)
      BY <1>5 DEF rgbToCmyk, Top
    <2> HIDE DEF v, k, mx, ci
    <2>2. Off(100 * (mx - ci), mx, v)
      <3>1. 100 * (mx - ci) \in Int /\ mx \in Nat \ {0}
        BY <1>1, <1>5
      <3> QED
        BY <2>1, <3>1, RoundOff, SMT
    <2>3. Off(100 * (255 - mx), 255, k)
      <3>1. 100 * (255 - mx) \in Int /\ 255 \in Nat \ {0}
        BY <1>1
      <3> QED
        BY <2>1, <3>1, RoundOff, SMT
    <2> DEFINE V == 100 - v
               K == 100 - k
    <2>4. V \in 0 .. 100 /\ K \in 0 .. 100
      BY <1>3
    <2>5. 2 * (mx * V - 100 * ci) <= mx /\ -mx <= 2 * (mx * V - 100 * ci)
      <3>1. mx * V = 100 * mx - mx * v /\ mx * v \in Int
        BY <1>1, <1>3
      <3> QED
        BY <1>1, <2>2, <3>1, SMT DEF Off
    <2>6. 2 * (255 * K - 100 * mx) <= 255 /\ -255 <= 2 * (255 * K - 100 * mx)
      BY <1>1, <1>3, <2>3, SMT DEF Off
    <2>7. mx \in 1 .. 255
      BY <1>1, <1>5
    <2> HIDE DEF V, K
    <2>8. InkBack(ci, V, K)
      <3>1. Shares(mx, ci, V, K)
        BY <2>5, <2>6, SMT DEF Shares
      <3> QED
        BY <1>1, <2>4, <2>7, <3>1, CmykBack, ZenonT(30)
    <2>9. cmykToRgb(rgbToCmyk(c))[i] = Round(255 * V * K, 10000)
      BY <1>2 DEF V, K
    <2> HIDE DEF V, K
    <2> QED
      BY <2>8, <2>9, SMT DEF InkBack, ci
  <1> QED
    BY <1>4, <1>5

\* The values of every color can be read back: hue, saturation and lightness to
\* 5 of 255, cyan, magenta, yellow and black to 3 (color.ts:11-51).
THEOREM ValuesKept == Spec => []ValuesTrue
  <1>1. TypeOK => ValuesTrue
    <2> SUFFICES ASSUME TypeOK PROVE ValuesTrue
      OBVIOUS
    <2>1. summary \in RgbColors
      BY PaletteDomain DEF TypeOK, summary
    <2> DEFINE c == summary
    <2> HIDE DEF c
    <2>2. c \in RgbColors
      BY <2>1 DEF c
    <2>3. ASSUME NEW i \in 1 .. 3 PROVE hslToRgb(rgbToHsl(c))[i] - c[i] \in -5 .. 5
      BY <2>2, GreyKept, ColorKept
    <2>4. ASSUME NEW i \in 1 .. 3 PROVE cmykToRgb(rgbToCmyk(c))[i] - c[i] \in -3 .. 3
      BY <2>2, InkKept
    <2> QED
      BY <2>3, <2>4 DEF ValuesTrue, Near, c
  <1> QED
    BY <1>1, TypeCorrect, PTL
=============================================================================
