-------------------------------- MODULE MCBuild --------------------------------
(* Instances of Build for TLC: collections of one system with every short    *)
(* provenance note, and of three whose colors, names, years and references   *)
(* meet, or break the schema.                                                *)
EXTENDS Build

Place == [black |-> 0, navy |-> 100, teal |-> 250]
MCDistance ==
    [g \in DOMAIN Place |-> [h \in DOMAIN Place |->
        IF Place[g] <= Place[h] THEN Place[h] - Place[g] ELSE Place[g] - Place[h]]]

Color(h, n, d) == [hex |-> h, name |-> n, default |-> d]
System(s, y, cs, before, after, note) ==
    [slug |-> s, name |-> y, year |-> y, added |-> 1, family |-> s, says |-> {}, colors |-> cs,
     predecessor |-> before, successor |-> after, urls |-> {}, note |-> note]

Teal(d) == Color("teal", "Teal", d)
Sea(d)  == Color("teal", "Sea", d)
Black   == Color("black", "Black", FALSE)

\* "c" stands for a label that every object answers to.
MCInherited == {<<"c">>}
Url == (<<"a">> :> "u1" @@ <<"tick", "a">> :> "u2" @@ <<"c">> :> "u3")
Texts == UNION {[1 .. n -> {"[", "]", "tick", "a", "c"}] : n \in 0 .. 4}
         \cup {<<"[", "a", "]", "tick", "a", "tick">>, <<"[", "c", "]", "[", "a", "]">>}
Notes == {[text |-> t, links |-> [l \in s |-> Url[l]]] : t \in Texts, s \in SUBSET DOMAIN Url}
NoteCollections ==
    {<<System("mac", 1984, <<Teal(TRUE)>>, None, None, n)>> : n \in Notes}

P1 == <<Teal(TRUE), Black>>
P2 == <<Sea(FALSE), Black>>
P3 == <<Black, Sea(TRUE)>>
P4 == <<Teal(FALSE), Sea(FALSE)>>
P5 == <<Black, Color("navy", "Navy", FALSE)>>
Line ==
    {<<System("mac", 1984, p, None, "gs", None), System("gs", 1986, q, b, a, None),
       System("win", 1995, r, a, None, None)>> :
        p \in {P1, P2, P3, P4}, q \in {P2, P4, P5}, r \in {P1, P3, P4}, b \in {"mac", "gone"}, a \in {None, "win"}}

Mac == System("mac", 1984, <<Teal(TRUE)>>, None, None, None)
Rejected ==
    { <<[Mac EXCEPT !.colors = << >>]>>, <<[Mac EXCEPT !.colors = <<Teal(TRUE), [Black EXCEPT !.default = TRUE]>>]>>,
      <<[Mac EXCEPT !.colors = <<Color("#12", "Short", TRUE)>>]>>, <<[Mac EXCEPT !.urls = {"mailto"}]>> }

\* Two files with one slug.
SameSlug == {<<Mac, [Mac EXCEPT !.colors = <<Black>>, !.year = 1991]>>}

MCCollections == NoteCollections \cup Line \cup Rejected \cup SameSlug

MCDumps == {[os |-> [mac |-> 3], colors |-> [teal |-> 5, black |-> NotANumber]],
            [os |-> [mac |-> 4, win |-> 1], colors |-> [teal |-> 7]]}
=============================================================================
