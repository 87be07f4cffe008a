---------------------------- MODULE MCDictReader ----------------------------
(***************************************************************************)
(* Small dictionaries for DictReader: three key blocks, three record       *)
(* blocks of which one is empty, records that are empty, that lie in one   *)
(* block and that cross blocks, and every kind of fault in every position  *)
(* that matters.                                                           *)
(***************************************************************************)
EXTENDS DictReader, TLC

MCKeyCounts == <<1, 2, 1>>
MCRecordSizes == <<2, 0, 1>>

Start(a, b, c, d) == [o \in 0..3 |-> <<a, b, c, d>>[o + 1]]

OneFault(at, kind) == [b \in 0..2 |-> IF b = at THEN kind ELSE "none"]
Healthy == OneFault(-1, "none")

File(start, keyFault, recordFault) ==
    [start |-> start, keyFault |-> keyFault, recordFault |-> recordFault]

\* Two well-formed sets of record offsets, with empty records and records that
\* cross blocks; a decrease at each block boundary; one inside a block; an
\* offset past the end of the stream.
Tidy == Start(0, 1, 1, 3)
Crossing == Start(0, 0, 1, 1)
StepsBackEarly == Start(2, 1, 2, 3)
StepsBackLate == Start(0, 1, 2, 1)
StepsBackInside == Start(0, 2, 1, 3)
PastTheEnd == Start(0, 1, 1, 4)

MCFiles == {
    File(Tidy, Healthy, Healthy),
    File(Crossing, Healthy, OneFault(2, "format")),
    File(Crossing, Healthy, OneFault(0, "data")),
    File(Tidy, OneFault(0, "format"), Healthy),
    File(Tidy, OneFault(1, "data"), Healthy),
    File(Crossing, OneFault(2, "format"), Healthy),
    File(StepsBackEarly, Healthy, Healthy),
    File(StepsBackLate, Healthy, Healthy),
    File(StepsBackInside, Healthy, Healthy),
    File(PastTheEnd, Healthy, Healthy)}

MCBatches == {<<3, 0, 3>>, <<2, 9, 1>>, <<>>}

Interchangeable == Permutations(Readers)

=============================================================================
