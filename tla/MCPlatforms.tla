----------------------------- MODULE MCPlatforms -----------------------------
(* Instances of Platforms for TLC: three systems, with palettes that share   *)
(* colors, repeat one under another name, have no default, or differ by less *)
(* than a rounded per cent; two tie by score, two by year, and in one of the *)
(* contents two files say that they are the same system.                     *)
EXTENDS Platforms

\* The colors on a line, with their distance along it.
Place == [black |-> 0, ink |-> 3, navy |-> 100, teal |-> 250]
MCDistance ==
    [g \in DOMAIN Place |-> [h \in DOMAIN Place |->
        IF Place[g] <= Place[h] THEN Place[h] - Place[g] ELSE Place[g] - Place[h]]]

Color(h, n, d) == [hex |-> h, name |-> n, default |-> d]

P1 == << Color("teal", "Teal", TRUE), Color("black", "Black", FALSE) >>
P2 == << Color("ink", "Ink", FALSE), Color("black", "Coal", FALSE) >>
P3 == << Color("navy", "Navy", FALSE), Color("teal", "Teal", FALSE), Color("navy", "Midnight", TRUE) >>

OneSystem(s, n, y, a, f, p) ==
    [slug |-> s, name |-> n, year |-> y, added |-> a, family |-> f, says |-> {f}, colors |-> p,
     predecessor |-> None, successor |-> None, urls |-> {}, note |-> None]

Three(p, q, r) ==
    << OneSystem("beos", 1, 1995, 1, "be", p), OneSystem("win95", 3, 1995, 3, "windows", q),
       OneSystem("mac", 2, 1984, 2, "mac os", r) >>

MCCollections ==
    { Three(P1, P2, P3), Three(P2, P3, P1), Three(P3, P1, P2), Three(P2, P2, P3), Three(P3, P3, P1),
      [Three(P1, P2, P3) EXCEPT ![3].slug = "beos"] }

MCDumps == { [colors |-> [h \in {} |-> 0],
              os |-> [beos |-> 3, mac |-> NotANumber, win95 |-> 5, gone |-> 9]] }

MCQueries == {"", "windows", "black", "Teal"}
=============================================================================
