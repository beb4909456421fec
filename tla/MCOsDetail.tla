----------------------------- MODULE MCOsDetail -----------------------------
(* Instances of OsDetail for TLC: the page of "win", whose palette has its   *)
(* default in the middle and one color twice, beside two other systems.      *)
EXTENDS CopyLabels

\* The colors on a line, with their distance along it.
Place == [black |-> 0, navy |-> 100, blue |-> 180, teal |-> 250, white |-> 900]
MCDistance ==
    [g \in DOMAIN Place |-> [h \in DOMAIN Place |->
        IF Place[g] <= Place[h] THEN Place[h] - Place[g] ELSE Place[g] - Place[h]]]

Color(h, n, d) == [hex |-> h, name |-> n, default |-> d]
System(s, n, y, cs) ==
    [slug |-> s, name |-> n, year |-> y, added |-> 1, family |-> s, says |-> {s}, colors |-> cs]

Black == Color("black", "Black", FALSE)
Teal  == Color("teal", "Teal", TRUE)
White == Color("white", "White", FALSE)
Navy  == Color("navy", "Navy", TRUE)

Mac  == System("mac", 1, 1984, <<Navy, Color("teal", "Sea", FALSE)>>)
Beos == System("beos", 2, 1995, <<Color("blue", "Blue", TRUE), Black>>)

\* Two releases with the same colors in the same order; the later one has one
\* more system, and so other similar colors and other uses.
Twice == <<Black, Teal, White, Color("black", "Coal", FALSE)>>
SameColors == << <<System("win", 3, 1995, Twice), Mac>>,
                 <<System("win", 3, 1995, Twice), Mac, Beos>> >>

\* Two releases, the second with a color inserted before the others.
ColorInserted == << <<System("win", 3, 1995, <<Teal, White>>), Mac>>,
                    <<System("win", 3, 1995, <<Black, Teal, White>>), Mac>> >>
=============================================================================
