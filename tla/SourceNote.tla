------------------------------ MODULE SourceNote ------------------------------
(* The provenance note of a system: lib/sourceNote.ts, one tokenizer for the *)
(* schema, which rejects a note, and for the page, which renders it.         *)
(*                                                                           *)
(* A text is a sequence of characters, of which only the brackets and the    *)
(* backtick, "tick" here, mean something; a label is a part of it.  links is *)
(* a function from labels to URLs.                                           *)
EXTENDS Integers, SequencesExt

CONSTANT Inherited   \* labels every JavaScript object answers to ("constructor")

\* What such a label answers: a function, no URL.
AFunction == "function"

Closer(c) == IF c = "[" THEN "]" ELSE c

\* Where what opens at i closes; 0 if nothing opens there.  It must not be empty.
closing(text, i) ==
    LET close == IF text[i] \in {"[", "tick"}
                 THEN SelectInSubSeq(text, i + 1, Len(text), LAMBDA c : c = Closer(text[i]))
                 ELSE 0
    IN  IF close > i + 1 THEN close ELSE 0

\* The tokens of a text: literal runs, `code` and [markers], which do not nest.
tokenizeSourceNote(text) ==
    LET n == Len(text)
        lit(b, i)   == IF b < i THEN << [kind |-> "text", value |-> SubSeq(text, b, i - 1)] >>
                       ELSE << >>
        token(i, j) == [kind  |-> IF text[i] = "[" THEN "marker" ELSE "code",
                        value |-> SubSeq(text, i + 1, j - 1)]
        \* from[b]: from b on, where a literal run may begin.
        from[b \in 1 .. n + 1] ==
            LET openings == {i \in b .. n : closing(text, i) > 0}
                split(i, j) == lit(b, i) \o (<< token(i, j) >> \o from[j + 1])
                opened(i)   == split(i, closing(text, i))
            IN  IF openings = {} THEN lit(b, n + 1) ELSE opened(Min(openings))
    IN  from[1]

markersOf(text) ==
    {t.value : t \in {u \in ToSet(tokenizeSourceNote(text)) : u.kind = "marker"}}

\* Mutant of sourceNoteLinkErrors: what is cited is not looked up.
sourceNoteLinkErrors_Unused(text, links) ==
    {<<"unused", l>> : l \in DOMAIN links \ markersOf(text)}
\* What the schema has against a note: labels that links does not answer to,
\* its own or an inherited one, and links that are not cited.
sourceNoteLinkErrors(text, links) ==
    {<<"missing", l>> : l \in markersOf(text) \ (DOMAIN links \cup Inherited)}
    \cup {<<"unused", l>> : l \in DOMAIN links \ markersOf(text)}

\* The nodes the page renders.
parseSourceNote(text, links) ==
    [k \in DOMAIN tokenizeSourceNote(text) |->
        LET t == tokenizeSourceNote(text)[k]
        IN  CASE t.kind # "marker" -> t
              [] t.kind = "marker" /\ t.value \in DOMAIN links ->
                     [kind |-> "link", label |-> t.value, url |-> links[t.value]]
              [] t.kind = "marker" /\ t.value \in Inherited \ DOMAIN links ->
                     [kind |-> "link", label |-> t.value, url |-> AFunction]
              [] OTHER -> [kind |-> "text", value |-> <<"[">> \o t.value \o <<"]">>]]

-----------------------------------------------------------------------------
(* A reference: the positions of a text where a marker or code starts are    *)
(* those that close and are not inside an earlier one.                       *)

SourceOf(node) ==
    CASE node.kind = "text" -> node.value
      [] node.kind = "code" -> <<"tick">> \o node.value \o <<"tick">>
      [] node.kind = "link" -> <<"[">> \o node.label \o <<"]">>

\* i opens something: the first closer after it is not right behind it.
Opens(text, i, j) ==
    /\ text[i] \in {"[", "tick"} /\ j > i + 1 /\ text[j] = Closer(text[i])
    /\ \A k \in i + 1 .. j - 1 : text[k] # Closer(text[i])

RightStarts(text, starts) ==
    \A i \in DOMAIN text :
        i \in starts <=> /\ \E j \in DOMAIN text : Opens(text, i, j)
                         /\ ~\E s \in starts, j \in DOMAIN text : Opens(text, s, j) /\ i \in s + 1 .. j
=============================================================================
