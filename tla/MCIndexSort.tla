---------------------------- MODULE MCIndexSort ----------------------------
(***************************************************************************)
(* Instances of IndexSort for TLC, with the record sizes of a 64-bit       *)
(* build.                                                                  *)
(***************************************************************************)
EXTENDS IndexSort
LOCAL INSTANCE FiniteSetsExt

CONSTANT MaxRows    \* bound: the rows of a dictionary

\* Long ASCII keys of two texts, a key that shrinks to nothing, a non-ASCII key
\* that grows, and an ASCII key whose raw form alone is too long.
LongB == [rank |-> 2, raw |-> 140, norm |-> 140, ascii |-> TRUE]
LongA == [rank |-> 1, raw |-> 150, norm |-> 140, ascii |-> TRUE]
Blank == [rank |-> 0, raw |-> 3, norm |-> 0, ascii |-> TRUE]
Folds == [rank |-> 3, raw |-> 100, norm |-> 130, ascii |-> FALSE]
Spaced == [rank |-> 1, raw |-> 190, norm |-> 140, ascii |-> TRUE]

SameShape == UNION {[1..n -> {LongA, LongB}] : n \in {0, 1, MaxRows}}
Mixed == [1..(MaxRows - 2) -> {LongA, LongB, Blank, Folds, Spaced}]

\* Long rows make a large text arena, short ones then a large row table.
Uneven == {<<LongB, LongB>> \o [i \in 1..n |-> Blank] : n \in {8, 9, 20}}

\* Short rows only: the row table grows by doubling.
Even == {[i \in 1..n |-> Blank] : n \in {12, 20}}

\* Rows of no text, then one that has some: it finds a row table grown by doubling.
Empty == [rank |-> 0, raw |-> 0, norm |-> 0, ascii |-> TRUE]
Fits == [rank |-> 1, raw |-> 64, norm |-> 64, ascii |-> TRUE]
Late == {[i \in 1..n |-> IF i = n THEN Fits ELSE Empty] : n \in {9, 10, 11}}

MCRowChoices == Late \cup Even \cup SameShape \cup Mixed \cup Uneven

=============================================================================
