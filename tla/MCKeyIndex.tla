----------------------------- MODULE MCKeyIndex -----------------------------
(***************************************************************************)
(* Instances of KeyIndex for TLC.                                          *)
(***************************************************************************)
EXTENDS KeyIndex

Key(raw, digest, folded, norm) ==
    [tag |-> "key", raw |-> raw, digest |-> digest, folded |-> folded, norm |-> norm]

\* "a", "A" and "a-" normalize to the same text; the digests of "a" and "A"
\* collide; "ab" has the normalized prefix of the others.
a == Key("a", 0, "a", 1)
A == Key("A", 0, "a", 1)
a_ == Key("a-", 1, "a-", 1)
ab == Key("ab", 1, "ab", 2)

\* Two rows in the first block and one in the second.
MCBlockOf == [o \in 0..2 |-> IF o = 2 THEN 1 ELSE 0]
MCKeys ==
    [v \in {0, 1} |->
        IF v = 0 THEN [o \in 0..2 |-> CASE o = 0 -> A [] o = 1 -> a_ [] o = 2 -> a]
        ELSE [o \in 0..2 |-> CASE o = 0 -> ab [] o = 1 -> a [] o = 2 -> A]]
MCQueries == {a, a_}
MCOneQuery == {a}
MCPrefixes == {{1, 2}}
MCWindows == {[offset |-> 0, limit |-> 3], [offset |-> 1, limit |-> 1]}
MCOneWindow == {[offset |-> 1, limit |-> 2]}

=============================================================================
