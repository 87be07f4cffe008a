------------------------------ MODULE MCLookup ------------------------------
(***************************************************************************)
(* Dictionaries of three keys drawn from a handful of texts that collide   *)
(* in every way normalization allows: by case, by a stripped character, by *)
(* a leading or a different path separator, by a lower case of two         *)
(* characters.                                                             *)
(***************************************************************************)
EXTENDS Lookup

Texts == {
    <<97>>,             \* a
    <<65>>,             \* A
    <<Dash, 65>>,       \* -A
    <<Slash, 97>>,      \* /a
    <<97, 304>>,        \* a, then a capital I with a dot
    <<97, 105, 775>>}   \* its lower case

MCTables == [1..3 -> Texts]

\* char::to_lowercase, for ASCII, Latin-1, two of the characters whose lower case is
\* not one character of the same class, U+0130 and the Kelvin sign, and one of four
\* bytes.
MCToLowercase(c) ==
    CASE IsUpper(c) \/ c \in 192..222 \ {215} -> <<c + 32>>
      [] c = 304 -> <<105, 775>>
      [] c = 8490 -> <<107>>
      [] c = 66560 -> <<66600>>
      [] OTHER -> <<c>>

MCChars == 0..255 \cup {304, 775, 8490, 66560, 66600}

MCQueries ==
    Texts \cup {<<>>, <<Backslash, 97>>, <<Slash, Slash, 8490, Slash, 66560>>, [i \in 1..53 |-> 97]}

MCHeaders == {
    [caseSensitive |-> FALSE, stripKey |-> TRUE, resourcePath |-> FALSE],
    [caseSensitive |-> TRUE, stripKey |-> FALSE, resourcePath |-> FALSE],
    [caseSensitive |-> FALSE, stripKey |-> FALSE, resourcePath |-> TRUE]}

\* Texts of equal length collide.
MCDigest(raw) == Len(raw)

=============================================================================
