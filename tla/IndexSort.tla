------------------------------ MODULE IndexSort ------------------------------
(***************************************************************************)
(* The external sort behind a persistent key index: the row loop of        *)
(* build_index (src/core/persistent/build.rs) and merge_runs               *)
(* (src/core/persistent/sort.rs).                                          *)
(*                                                                         *)
(* Rows arrive in physical order and are collected in an arena; when the   *)
(* next row would fill more than half of the build memory the arena is     *)
(* sorted and written to a scratch file as a run.  If there was more than  *)
(* one arena, passes of merges with a fan-in the memory allows reduce the  *)
(* runs until one pass can write the order section itself.                 *)
(*                                                                         *)
(* A row's normalized text is abstracted to its rank; what the memory      *)
(* checks need of it are the lengths.  A run is the sequence of the        *)
(* ordinals in it.  Decoding the rows, the source stamps and the limit on  *)
(* the checksum table are in modules KeyIndex and IndexLayout.             *)
(***************************************************************************)
EXTENDS Integers, Sequences, FiniteSets

CONSTANTS
    RowChoices,        \* the key rows a dictionary may have, in physical order
    MemoryChoices,     \* KeyIndexOptions.build_memory_bytes
    ArenaRecordBytes,  \* size_of::<ArenaRecord>()
    RunRecordBytes,    \* size_of::<RunRecord>() + 12
    CursorBytes,       \* size_of::<RunCursor>() + size_of::<HeapRecord>()
    MaxFanIn,          \* MAX_MERGE_FAN_IN
    ChunkBytes,        \* KeyIndexOptions.chunk_bytes
    RunReadBufferBytes \* RUN_READ_BUFFER_BYTES

RowType == [rank : Nat, raw : Nat, norm : Nat, ascii : BOOLEAN]

\* Equal texts have equal lengths, and normalizing ASCII never makes it longer.  An
\* ArenaRecord holds two indices and an ordinal, a RunRecord a vector and an ordinal.
ASSUME SortAssumption ==
    /\ \A rs \in RowChoices :
          /\ rs \in Seq(RowType)
          /\ \A i, j \in DOMAIN rs : rs[i].rank = rs[j].rank => rs[i].norm = rs[j].norm
          /\ \A i \in DOMAIN rs : rs[i].ascii => rs[i].norm <= rs[i].raw
    /\ MemoryChoices \subseteq Nat \ (0..255)
    /\ ArenaRecordBytes \in Nat /\ RunRecordBytes \in Nat /\ CursorBytes \in Nat
    /\ ArenaRecordBytes >= 3 /\ ArenaRecordBytes + 2 <= RunRecordBytes
    /\ MaxFanIn \in Nat \ {0, 1}

\* validate_options: a chunk has 64 bytes at least and is not larger than the memory.
ASSUME BufferAssumption ==
    /\ ChunkBytes \in Nat /\ ChunkBytes >= 64
    /\ \A m \in MemoryChoices : ChunkBytes <= m
    /\ RunReadBufferBytes \in Nat /\ RunReadBufferBytes >= 1

VARIABLES
    rows,         \* the rows of the dictionary
    memory,       \* options.build_memory_bytes
    phase,        \* "rows", "merge", or how the build ended
    next,         \* the ordinal of the next row, from 1
    buffer,       \* SortBuffer.records
    textLen,      \* the length of SortBuffer.normalized
    bufferBytes,  \* the planned size of what is in the arena
    capacity,     \* the capacities of the two vectors of the arena
    maxRecord,    \* maximum_record_bytes
    runs,         \* the runs this pass has not merged yet
    out,          \* the runs this pass has written
    final,        \* this pass writes the order section
    readBuffer,   \* run_read_buffer_bytes
    group,        \* the group being merged
    order         \* the finished order section

arena == <<next, buffer, textLen, bufferBytes, capacity, maxRecord>>
merge == <<runs, out, final, readBuffer, group>>
vars == <<rows, memory, phase, arena, merge, order>>

Least(a, b) == IF a <= b THEN a ELSE b
Greatest(a, b) == IF a >= b THEN a ELSE b

-----------------------------------------------------------------------------

\* Normalized text first, then the ordinal.
Before(x, y) ==
    \/ rows[x].rank < rows[y].rank
    \/ rows[x].rank = rows[y].rank /\ x < y

\* sort_records
SortRecords(records) ==
    LET os == {records[i] : i \in DOMAIN records} IN
    [k \in 1..Len(records) |->
        CHOOSE o \in os : Cardinality({p \in os : Before(p, o)}) = k - 1]

SingleLimit == memory \div 4

\* An ASCII key is planned at its raw length, which normalizing cannot exceed,
\* unless that is already too much; any other at its normalized length.
Planned(o) ==
    LET byRaw == rows[o].raw + ArenaRecordBytes IN
    IF rows[o].ascii /\ byRaw <= SingleLimit THEN byRaw
    ELSE rows[o].norm + ArenaRecordBytes

RecordBytes(o) == rows[o].norm + RunRecordBytes

TooLong(o) == RecordBytes(o) > SingleLimit

\* Vec::try_reserve: how far a vector of this capacity, holding len elements,
\* grows for extra more.
Grown(cap, len, extra, least) ==
    IF cap - len >= extra THEN cap
    ELSE Greatest(Greatest(2 * cap, len + extra), least)

\* SortBuffer::reserve_record, for row o after count rows of len bytes
Reserve(count, len, o) ==
    [text |-> Grown(capacity.text, len, Planned(o) - ArenaRecordBytes, 8),
     records |-> Grown(capacity.records, count, 1, 4)]

AllocatedBytes(c) == c.text + c.records * ArenaRecordBytes

\* scratch_write_buffer_bytes: what each writer of a scratch file buffers.
WriteBuffer == Greatest(Least(ChunkBytes, memory \div 16), 1)

-----------------------------------------------------------------------------

NoGroup == [size |-> 0]

Init ==
    /\ rows \in RowChoices
    /\ memory \in MemoryChoices
    /\ phase = "rows"
    /\ next = 1
    /\ buffer = <<>>
    /\ textLen = 0 /\ bufferBytes = 0
    /\ capacity = [text |-> 0, records |-> 0]
    /\ maxRecord = RunRecordBytes
    /\ runs = <<>> /\ out = <<>> /\ final = FALSE /\ readBuffer = 0 /\ group = NoGroup
    /\ order = <<>>

\* Bug: the arena may fill all of the memory, as if it never grew past its rows.
Spills_Full(o) == buffer # <<>> /\ bufferBytes + Planned(o) > memory

\* The arena must be written out before row o.
Spills(o) == buffer # <<>> /\ bufferBytes + Planned(o) > memory \div 2

\* reserve_record as row o finds the arena, written out or not
ReserveFor(o) == IF Spills(o) THEN Reserve(0, 0, o) ELSE Reserve(Len(buffer), textLen, o)

\* One row of build_index: spill if needed, then append.
TakeRow ==
    /\ phase = "rows" /\ next <= Len(rows)
    /\ ~TooLong(next)
    /\ AllocatedBytes(ReserveFor(next)) <= memory
    /\ capacity' = ReserveFor(next)
    /\ IF Spills(next)
       THEN /\ runs' = Append(runs, SortRecords(buffer))
            /\ buffer' = <<next>>
            /\ textLen' = rows[next].norm
            /\ bufferBytes' = Planned(next)
       ELSE /\ runs' = runs
            /\ buffer' = Append(buffer, next)
            /\ textLen' = textLen + rows[next].norm
            /\ bufferBytes' = bufferBytes + Planned(next)
    /\ maxRecord' = Greatest(maxRecord, RecordBytes(next))
    /\ next' = next + 1
    /\ UNCHANGED <<rows, memory, phase, out, final, readBuffer, group, order>>

\* A row is longer than a quarter of the memory, or the arena has grown past it.
\* Unless the plan for the row alone is too long, the arena is written out and grown
\* before the row is refused.
RefuseRow ==
    LET planned == Planned(next) <= SingleLimit
        spilled == planned /\ Spills(next)
    IN
    /\ phase = "rows" /\ next <= Len(rows)
    /\ TooLong(next) \/ AllocatedBytes(ReserveFor(next)) > memory
    /\ phase' = "limit"
    /\ runs' = IF spilled THEN Append(runs, SortRecords(buffer)) ELSE runs
    /\ buffer' = IF spilled THEN <<>> ELSE buffer
    /\ textLen' = IF spilled THEN 0 ELSE textLen
    /\ bufferBytes' = IF spilled THEN 0 ELSE bufferBytes
    /\ capacity' = IF planned THEN ReserveFor(next) ELSE capacity
    /\ UNCHANGED <<rows, memory, next, maxRecord, out, final, readBuffer, group, order>>

\* All rows fit in one arena: the order is written without a run.
OneArena ==
    /\ phase = "rows" /\ next > Len(rows)
    /\ runs = <<>>
    /\ order' = SortRecords(buffer)
    /\ phase' = "built"
    /\ UNCHANGED <<rows, memory, arena, merge>>

\* The largest record, a cursor, a place in the heap, and an allowance.
BasePerRun == maxRecord + CursorBytes + 64

\* Bug: the room for the cursors and the heap is forgotten.
FanIn_Records == Least(memory \div (maxRecord + 1), MaxFanIn)

\* merge_runs: how many runs can be merged at once.
FanIn == Least(memory \div (BasePerRun + 1), MaxFanIn)

\* Bug: a merge that cannot make progress is attempted.
TooNarrow_Never(n) == FALSE

TooNarrow(n) == n > 1 /\ FanIn < 2

MaxReadBuffer == Least(ChunkBytes, RunReadBufferBytes)

\* The read buffer every run of a group gets.
RunReadBuffer(n) ==
    LET active == Least(n, Greatest(FanIn, 1))
        budget == Greatest(memory - BasePerRun * active, 0)
    IN  Least(Greatest(budget \div active, 1), MaxReadBuffer)

\* The rows did not fit: the rest becomes the last run, and merging starts.
StartMerge ==
    LET all == Append(runs, SortRecords(buffer)) IN
    /\ phase = "rows" /\ next > Len(rows)
    /\ runs # <<>>
    /\ runs' = all
    /\ buffer' = <<>>
    /\ phase' = IF TooNarrow(Len(all)) THEN "limit" ELSE "merge"
    /\ final' = (Len(all) <= FanIn)
    /\ readBuffer' = RunReadBuffer(Len(all))
    /\ UNCHANGED <<rows, memory, next, textLen, bufferBytes, capacity, maxRecord, out, group, order>>

\* Bug: a run ends one record early.
Refill_Early(cursor, run) ==
    IF Len(cursor) <= 1 THEN {} ELSE {[ordinal |-> Head(cursor), run |-> run]}

\* read_sort_record: the next record of a run, if there is one.
Refill(cursor, run) ==
    IF cursor = <<>> THEN {} ELSE {[ordinal |-> Head(cursor), run |-> run]}

Advanced(cursor) == IF cursor = <<>> THEN <<>> ELSE Tail(cursor)

\* The next group of runs: read the headers, then one record of each.
BeginGroup ==
    LET size == Least(Len(runs), FanIn)
        taken == SubSeq(runs, 1, size)
    IN
    /\ phase = "merge" /\ group = NoGroup
    /\ group' = [size |-> size,
                 cursors |-> [r \in 1..size |-> Advanced(taken[r])],
                 heap |-> UNION {Refill(taken[r], r) : r \in 1..size},
                 rowCount |-> Cardinality(UNION {{r} \X DOMAIN taken[r] : r \in 1..size}),
                 merged |-> <<>>]
    /\ runs' = SubSeq(runs, size + 1, Len(runs))
    /\ UNCHANGED <<rows, memory, phase, arena, out, final, readBuffer, order>>

\* Bug: among equal texts the record of the last run comes first.
HeapBefore_LastRun(g, h) ==
    \/ rows[g.ordinal].rank < rows[h.ordinal].rank
    \/ rows[g.ordinal].rank = rows[h.ordinal].rank /\ g.run > h.run

\* Ord for HeapRecord; no two records have the same ordinal.
HeapBefore(g, h) == Before(g.ordinal, h.ordinal)

\* Write the least record of the group and read the next one of its run.
Pop ==
    /\ phase = "merge" /\ group # NoGroup
    /\ group.heap # {}
    /\ LET item == CHOOSE g \in group.heap : \A h \in group.heap \ {g} : HeapBefore(g, h)
           cursor == group.cursors[item.run]
       IN  group' = [group EXCEPT
               !.merged = Append(@, item.ordinal),
               !.heap = (@ \ {item}) \cup Refill(cursor, item.run),
               !.cursors[item.run] = Advanced(@)]
    /\ UNCHANGED <<rows, memory, phase, arena, runs, out, final, readBuffer, order>>

\* The group is merged.  At the end of a pass either the order is complete or
\* the runs written become the input of the next pass.
EndGroup ==
    LET written == Append(out, group.merged)
        passEnds == runs = <<>>
        ends == passEnds /\ (final \/ Len(written) = 1)
    IN
    /\ phase = "merge" /\ group # NoGroup
    /\ group.heap = {}
    /\ group' = NoGroup
    /\ phase' = CASE Len(group.merged) # group.rowCount -> "invalid"
                  [] ends /\ (Len(written) # 1 \/ Len(written[1]) # Len(rows)) -> "invalid"
                  [] ends -> "built"
                  [] OTHER -> "merge"
    /\ order' = IF ends THEN written[1] ELSE order
    /\ runs' = IF passEnds /\ ~ends THEN written ELSE runs
    /\ out' = IF passEnds THEN <<>> ELSE written
    /\ final' = IF passEnds /\ ~ends THEN Len(written) <= FanIn ELSE final
    /\ UNCHANGED <<rows, memory, arena, readBuffer>>

\* check_cancelled comes before every row, every group and every record; the
\* scratch files may fail there too.
Abandon ==
    /\ \/ phase = "rows" /\ next <= Len(rows)
       \/ phase = "merge" /\ (group # NoGroup => group.heap # {})
    /\ phase' \in {"cancelled", "io"}
    /\ UNCHANGED <<rows, memory, arena, merge, order>>

Step == TakeRow \/ RefuseRow \/ OneArena \/ StartMerge \/ BeginGroup \/ Pop \/ EndGroup

Next == Step \/ Abandon

Spec == Init /\ [][Next]_vars

\* The sort is one sequential call: it takes its next step as long as it has one.
FairSpec == Spec /\ WF_vars(Step)

-----------------------------------------------------------------------------

Ended == {"built", "limit", "invalid", "cancelled", "io"}
Physical == DOMAIN rows

\* However the rows fall into arenas and the runs into groups and passes, the
\* order section lists every physical row exactly once, by normalized text and,
\* among equal texts, in physical order ("Duplicates retain ascending physical
\* order"), so that binary search over it is sound.
OrderExact ==
    phase = "built" =>
        /\ Len(order) = Len(rows)
        /\ {order[k] : k \in DOMAIN order} = Physical
        /\ \A j, k \in DOMAIN order : j < k => Before(order[j], order[k])

\* What a build holds beyond build_memory_bytes is bounded.  The arena stays within
\* it, and beside the arena are the buffers of four writers: the text, bounds and raw
\* sections and the runs.  In a merge each run of the group has a record as large as
\* the largest, a cursor, a place in the heap and a read buffer, which together stay
\* within it; the buffer of the output comes on top.  A write buffer is a sixteenth of
\* the memory or less.  (The checksums of the sections are limited by
\* max_metadata_bytes: module IndexLayout.)
BuildMemoryBounded ==
    /\ phase = "rows" => AllocatedBytes(capacity) + 4 * WriteBuffer <= memory + memory \div 4
    /\ group # NoGroup =>
          group.size * (BasePerRun + readBuffer) + WriteBuffer <= memory + memory \div 16

\* None of the consistency checks of merge_runs fires, and a pass never starts
\* with a single run: the code after the loop over passes is not reached.
NoMismatch ==
    /\ phase # "invalid"
    /\ phase = "merge" /\ out = <<>> /\ group = NoGroup => Len(runs) > 1

\* Spilling at half of the memory leaves room for how vectors grow: apart from a
\* key that is too long by itself, no row is refused before an arena was written
\* out, nor when all rows so far have the same size.  Only capacities left by
\* earlier, different rows can make the arena too large.
RefusedOnlyInReusedArena ==
    phase = "limit" /\ next <= Len(rows) /\ ~TooLong(next) =>
        /\ runs # <<>>
        /\ \E i \in 1..next : Planned(i) # Planned(next)

\* A build ends: every pass leaves fewer runs than it was given.
BuildEnds == <>(phase \in Ended)

=============================================================================
