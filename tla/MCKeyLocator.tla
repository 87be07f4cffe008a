---------------------------- MODULE MCKeyLocator ----------------------------
(***************************************************************************)
(* Small dictionaries for KeyLocator: three key blocks of four keys, two   *)
(* of which normalize alike, in no order of the normalized text.           *)
(***************************************************************************)
EXTENDS KeyLocator

MCKeyCounts == <<1, 2, 1>>
MCRecordSizes == <<3>>

Start(a, b, c, d) == [o \in 0..3 |-> <<a, b, c, d>>[o + 1]]

OneFault(at, kind) == [b \in 0..2 |-> IF b = at THEN kind ELSE "none"]

File(start, keyFault) ==
    [start |-> start, keyFault |-> keyFault, recordFault |-> [i \in {0} |-> "none"]]

\* A sound file, one fault in each block, and offsets that step back between the
\* first two or the last two blocks.
MCFiles == {
    File(Start(0, 1, 1, 3), OneFault(-1, "none")),
    File(Start(0, 1, 1, 3), OneFault(0, "data")),
    File(Start(0, 1, 1, 3), OneFault(1, "format")),
    File(Start(0, 1, 1, 3), OneFault(2, "data")),
    File(Start(2, 1, 2, 3), OneFault(-1, "none")),
    File(Start(0, 1, 2, 1), OneFault(-1, "none"))}

MCNormKey == [o \in 0..3 |-> <<2, 1, 3, 1>>[o + 1]]

\* One byte for each key but the last, which has three.
MCNormLen == [o \in 0..3 |-> <<1, 1, 1, 3>>[o + 1]]

\* The locator takes 52 bytes of tables and 6 of text: limits that suffice, that
\* stop it in the last block, before the first one, and on the entry count, and
\* tables too narrow for the last bound or for the ordinals.
MCLimitChoices == {
    [entries |-> 4, bytes |-> 58, width |-> 6],
    [entries |-> 4, bytes |-> 57, width |-> 6],
    [entries |-> 4, bytes |-> 51, width |-> 6],
    [entries |-> 3, bytes |-> 58, width |-> 6],
    [entries |-> 4, bytes |-> 58, width |-> 5],
    [entries |-> 4, bytes |-> 58, width |-> 3]}

=============================================================================
