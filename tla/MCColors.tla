------------------------------ MODULE MCColors ------------------------------
(* An instance of Colors for TLC: four colors of two families, three systems  *)
(* of two families, and among them                                           *)
(*   - a color that ships on both systems of one family and is the default   *)
(*     of one only, and systems of that family with no color in common,      *)
(*   - two colors with equal hue and score, so that a tie is broken,         *)
(*   - a search for a name, for a family of systems and for a year.          *)
EXTENDS Colors

MCColorSet   == 1 .. 4
MCFam        == <<"teal", "gray", "teal", "teal">>
MCTypes      == << {"dark"}, {"light"}, {"dark", "light"}, {"light"} >>
MCHue        == <<5, 0, 5, 3>>
MCLight      == <<2, 1, 2, 2>>
MCScore      == <<3, 4, 3, 2>>
MCWords      == << {"Teal"}, {"Gray"}, {}, {} >>
MCSpan       == << <<1995, 1995>>, <<1990, 1998>>, <<1992, 1995>>, <<1998, 1998>> >>
MCFamilyDefs == <<"teal", "gray">>
MCTypeDefs   == {"dark", "light"}
MCSystems    == {"win95", "win98", "mac"}
MCOsFam      == [o \in MCSystems |-> IF o = "mac" THEN "Mac OS" ELSE "Windows"]
MCShips      == { <<1, "win95">>, <<2, "win98">>, <<2, "mac">>, <<3, "win95">>,
                  <<3, "mac">>, <<4, "win98">> }
MCDefaults   == { <<1, "win95">>, <<2, "mac">>, <<4, "win98">> }
MCQueries    == {"", "Teal", "Mac OS", "1994"}
MCYearOf     == [q \in MCQueries |-> IF q = "1994" THEN 1994 ELSE 0]

\* The bound: under the preview or the sheet the panel of systems and "Defaults
\* only" are as at the start, and of a search, a type and a second overlay there
\* is one at most.  With neither open, every combination of the controls.
MCBound ==
    pv # None \/ sheet # None =>
        /\ ~osOpen /\ osPick = <<{}, "any">> /\ ~defaultsOnly
        /\ Cardinality({i \in 1 .. 3 :
                <<search # "", type # None, pv # None /\ sheet # None>>[i]}) <= 1
=============================================================================
