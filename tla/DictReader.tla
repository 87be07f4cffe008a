----------------------------- MODULE DictReader -----------------------------
(***************************************************************************)
(* The read operations of one open dictionary shared by several threads:   *)
(* key_at_ordinal, keys_at_ordinals, record_at_ordinal followed by         *)
(* read_record_span or a streaming copy, KeyIter and RecordIter            *)
(* (src/core/keys.rs, records.rs, iter.rs, and the spans of src/mdd.rs).   *)
(*                                                                         *)
(* A call is cut where it lets go of a cache mutex: between two blocks of  *)
(* a record, between the block of an entry and the block that gives its    *)
(* end, between two blocks of a batch.  In each of those gaps another      *)
(* thread may replace or fail the one slot both caches have.               *)
(*                                                                         *)
(* Errors of class "internal" are the defensive ones: an inverted span, an *)
(* offset no record block covers, a slice out of range, no progress.       *)
(***************************************************************************)
EXTENDS BlockCache

CONSTANTS
    Readers,         \* threads that read single keys and records
    Batchers,        \* threads that call keys_at_ordinals
    KeyScanners,     \* threads that run a KeyIter
    RecordScanners,  \* threads that run a RecordIter
    Batches,         \* the inputs of keys_at_ordinals
    MaterializedMax  \* Limits::materialized_record_bytes

ASSUME ReaderAssumption ==
    /\ Batches \subseteq Seq(Nat)
    /\ MaterializedMax \in Nat
    /\ KeyScanners \cap RecordScanners = {}

VARIABLES
    call,    \* the call in progress of each reader and batcher
    result,  \* what its last completed call returned
    iter     \* the iterator of each scanner

caches == <<keyCache, recordCache>>
vars == <<file, caches, call, result, iter>>

Callers == Readers \cup Batchers
Scanners == KeyScanners \cup RecordScanners

Idle == [pc |-> "idle"]
NoResult == [op |-> "none"]
NoRows == <<>>
None == -1
Internal == Failed("internal", -1)

\* KeyIter::new, RecordIter::new
NewIter == [pc |-> "idle", block |-> 0, entry |-> 0, rows |-> NoRows,
            pending |-> NoRows, yielded |-> <<>>, done |-> FALSE, error |-> NoRows]

Init ==
    /\ CacheInit
    /\ call = [t \in Callers |-> Idle]
    /\ result = [t \in Callers |-> NoResult]
    /\ iter = [t \in Scanners |-> NewIter]

\* The call of t ends with the given result.
Return(t, r) ==
    /\ call' = [call EXCEPT ![t] = Idle]
    /\ result' = [result EXCEPT ![t] = r]

Continue(t, c) ==
    /\ call' = [call EXCEPT ![t] = c]
    /\ UNCHANGED result

-----------------------------------------------------------------------------

\* key_entry_at_ordinal(o), past the o >= len() return: the block of the entry,
\* if the search finds one and the decoded block reaches that far.
KeyEntryAtOrdinal(o) ==
    LET b == FindKeyBlock(o) IN
    IF b \notin KeyBlocks THEN {[result |-> Internal, slot |-> keyCache]}
    ELSE {IF ~IsFailure(d.result) /\ o - EntryStart[b] \notin DOMAIN d.result.rows
          THEN [result |-> Internal, slot |-> d.slot] ELSE d : d \in DecodeKeyBlock(b)}

\* key_at_ordinal(o); copying the key may fail.
KeyAt(t, o) ==
    /\ call[t] = Idle
    /\ \E d \in KeyEntryAtOrdinal(o) :
          /\ keyCache' = d.slot
          /\ \E outcome \in
                IF IsFailure(d.result) THEN {d.result}
                ELSE {Transient,
                      [tag |-> "ok",
                       key |-> d.result.rows[o - EntryStart[FindKeyBlock(o)]].ordinal]} :
                Return(t, [op |-> "key", ordinal |-> o, outcome |-> outcome])
    /\ UNCHANGED <<file, recordCache, iter>>

EntryResult(c, outcome) ==
    [op |-> c.op, ordinal |-> c.ordinal, out |-> c.out, outcome |-> outcome]

\* The span start..end of entry o is known: the checks of
\* record_descriptor_from_hit and validate_record_span, for "read" also the
\* materialization limit and the reservation, then the loop of
\* visit_record_span unless the span is empty.
WithSpan(t, op, o, start, end) ==
    LET c == [pc |-> "span", op |-> op, ordinal |-> o, cursor |-> start,
              end |-> end, out |-> <<>>]
    IN
    IF end < start \/ end > TotalLen THEN Return(t, EntryResult(c, Internal))
    ELSE IF op = "read" /\ end - start > MaterializedMax
    THEN Return(t, EntryResult(c, Failed("limit", o)))
    ELSE \/ op = "read" /\ Return(t, EntryResult(c, Transient))
         \/ IF start < end THEN Continue(t, c)
            ELSE Return(t, EntryResult(c, [tag |-> "ok"]))

\* record_at_ordinal(o) up to the end of its first critical section.  The end
\* of the record is the next row's offset, the next block's first offset, or
\* the end of the stream; the block is dropped before the next one is decoded.
\* Copying the key may fail.
OpenEntry(t, op, o) ==
    LET b == FindKeyBlock(o)
        e == o - EntryStart[b]
    IN
    /\ call[t] = Idle
    /\ \E d \in KeyEntryAtOrdinal(o) :
          /\ keyCache' = d.slot
          /\ IF IsFailure(d.result)
             THEN Return(t, [op |-> op, ordinal |-> o, out |-> <<>>, outcome |-> d.result])
             ELSE LET start == d.result.rows[e].start IN
                  \/ Return(t, [op |-> op, ordinal |-> o, out |-> <<>>, outcome |-> Transient])
                  \/ IF e + 1 \in DOMAIN d.result.rows
                     THEN WithSpan(t, op, o, start, d.result.rows[e + 1].start)
                     ELSE IF b + 1 < NKey
                     THEN Continue(t, [pc |-> "end", op |-> op, ordinal |-> o,
                                       next |-> b + 1, start |-> start])
                     ELSE WithSpan(t, op, o, start, TotalLen)
    /\ UNCHANGED <<file, recordCache, iter>>

\* Bug: the next block is decoded and cached without the look at its predecessor.
FindEnd_Unchecked(t) ==
    LET c == call[t] IN
    /\ c.pc = "end"
    /\ \E r \in DecodeKeyBlockUncached(c.next) :
          /\ keyCache' = [index |-> c.next, value |-> r]
          /\ IF IsFailure(r)
             THEN Return(t, [op |-> c.op, ordinal |-> c.ordinal, out |-> <<>>, outcome |-> r])
             ELSE WithSpan(t, c.op, c.ordinal, c.start, r.rows[0].start)
    /\ UNCHANGED <<file, recordCache, iter>>

\* The second critical section of record_descriptor_from_hit.
FindEnd(t) ==
    LET c == call[t] IN
    /\ c.pc = "end"
    /\ \E d \in DecodeKeyBlock(c.next) :
          /\ keyCache' = d.slot
          /\ IF IsFailure(d.result)
             THEN Return(t, [op |-> c.op, ordinal |-> c.ordinal, out |-> <<>>,
                             outcome |-> d.result])
             ELSE WithSpan(t, c.op, c.ordinal, c.start, d.result.rows[0].start)
    /\ UNCHANGED <<file, recordCache, iter>>

Smaller(a, b) == IF a <= b THEN a ELSE b

\* Bug: the chunk starts where the block does.
Slice_FromBlockStart(bytes, base, from, to) ==
    [k \in 1..(to - from) |-> bytes[k - 1]]

\* The bytes from..to-1 of a decoded block that starts at offset base.
Slice(bytes, base, from, to) ==
    [k \in 1..(to - from) |-> bytes[from - base + k - 1]]

\* One round of the loop of visit_record_span.  The visitor of "read" appends
\* the chunk; the visitor of "copy" writes it to a destination that may fail
\* after any part of it.
VisitBlock(t) ==
    LET c == call[t]
        i == FindRecordBlock(c.cursor)
        chunkEnd == Smaller(c.end, DecompOffset[i] + DecompSize(i))
    IN
    /\ c.pc = "span"
    /\ IF i \notin RecordBlocks
       THEN Return(t, EntryResult(c, Internal)) /\ UNCHANGED recordCache
       ELSE \E d \in DecodeRecordBlock(i) :
          /\ recordCache' = d.slot
          /\ IF IsFailure(d.result) THEN Return(t, EntryResult(c, d.result))
             ELSE IF chunkEnd - DecompOffset[i] - 1 \notin DOMAIN d.result.bytes
                     \/ chunkEnd <= c.cursor
             THEN Return(t, EntryResult(c, Internal))
             ELSE LET chunk == Slice(d.result.bytes, DecompOffset[i], c.cursor, chunkEnd)
                      n == [c EXCEPT !.out = @ \o chunk, !.cursor = chunkEnd]
                  IN
                  \/ IF chunkEnd < c.end THEN Continue(t, n)
                     ELSE Return(t, EntryResult(n, [tag |-> "ok"]))
                  \/ /\ c.op = "copy"
                     /\ \E k \in 0..(Len(chunk) - 1) :
                           Return(t, EntryResult([c EXCEPT !.out = @ \o SubSeq(chunk, 1, k)],
                                                 Transient))
    /\ UNCHANGED <<file, keyCache, iter>>

-----------------------------------------------------------------------------

\* keys_at_ordinals up to its first critical section: requests are grouped by
\* block; an ordinal past the end keeps its None.
StartBatch(t, input) ==
    LET asked == {FindKeyBlock(input[k]) : k \in {k \in DOMAIN input : input[k] < NEntries}}
    IN
    /\ call[t] = Idle
    /\ IF asked \subseteq KeyBlocks
       THEN Continue(t, [pc |-> "batch", input |-> input, left |-> asked,
                         got |-> [k \in DOMAIN input |-> None]])
       ELSE Return(t, [op |-> "batch", input |-> input, outcome |-> Internal])
    /\ UNCHANGED <<file, caches, iter>>

\* Bug: the loop over the blocks ends after the first.
BatchBlock_StopsEarly(t) ==
    LET c == call[t]
        least == {b \in c.left : \A other \in c.left : b <= other}
    IN
    /\ c.pc = "batch"
    /\ \E b \in least : \E d \in DecodeKeyBlock(b) :
          /\ keyCache' = d.slot
          /\ IF IsFailure(d.result)
             THEN Return(t, [op |-> "batch", input |-> c.input, outcome |-> d.result])
             ELSE Continue(t, [c EXCEPT !.left = {}])
    /\ UNCHANGED <<file, recordCache, iter>>

\* The smallest block left: it is decoded once and answers all its requests.
BatchBlock(t) ==
    LET c == call[t]
        least == {b \in c.left : \A other \in c.left : b <= other}
    IN
    /\ c.pc = "batch"
    /\ \E b \in least : \E d \in DecodeKeyBlock(b) :
          LET mine == {k \in DOMAIN c.input :
                          c.input[k] < NEntries /\ FindKeyBlock(c.input[k]) = b}
              End(r) == Return(t, [op |-> "batch", input |-> c.input, outcome |-> r])
          IN
          /\ keyCache' = d.slot
          /\ IF IsFailure(d.result) THEN End(d.result)
             ELSE IF \E k \in mine : c.input[k] - EntryStart[b] \notin DOMAIN d.result.rows
             THEN End(Internal)
             ELSE \/ End(Transient)
                  \/ Continue(t, [c EXCEPT
                        !.left = @ \ {b},
                        !.got = [k \in DOMAIN @ |->
                                   IF k \in mine
                                   THEN d.result.rows[c.input[k] - EntryStart[b]].ordinal
                                   ELSE @[k]]])
    /\ UNCHANGED <<file, recordCache, iter>>

EndBatch(t) ==
    LET c == call[t] IN
    /\ c.pc = "batch" /\ c.left = {}
    /\ Return(t, [op |-> "batch", input |-> c.input,
                  outcome |-> [tag |-> "ok", got |-> c.got]])
    /\ UNCHANGED <<file, caches, iter>>

-----------------------------------------------------------------------------

Set(t, it) == iter' = [iter EXCEPT ![t] = it]

Fail(it, r) == [it EXCEPT !.done = TRUE, !.error = r, !.pc = "idle"]

\* KeyIter::next, for a call that finds its row in the block it holds.  Copying
\* the key may fail.
NextHeldKey(t) ==
    LET it == iter[t] IN
    /\ ~it.done /\ it.entry \in DOMAIN it.rows
    /\ \/ Set(t, [it EXCEPT !.entry = @ + 1,
                            !.yielded = Append(@, it.rows[it.entry].ordinal)])
       \/ Set(t, Fail([it EXCEPT !.entry = @ + 1], Transient))
    /\ UNCHANGED <<file, caches, call, result>>

\* KeyIter::next, for a call that holds no block or has used it up.
NextKeyBlock(t) ==
    LET it == iter[t]
        b == IF it.rows = NoRows THEN it.block ELSE it.block + 1
    IN
    /\ ~it.done /\ it.entry \notin DOMAIN it.rows
    /\ IF b >= NKey
       THEN Set(t, [it EXCEPT !.block = b, !.rows = NoRows, !.done = TRUE])
            /\ UNCHANGED keyCache
       ELSE \E d \in DecodeKeyBlock(b) :
          /\ keyCache' = d.slot
          /\ LET at == [it EXCEPT !.block = b, !.rows = NoRows] IN
             IF IsFailure(d.result) THEN Set(t, Fail(at, d.result))
             ELSE \/ Set(t, [at EXCEPT !.rows = d.result.rows, !.entry = 1,
                                       !.yielded = Append(@, d.result.rows[0].ordinal)])
                  \/ Set(t, Fail([at EXCEPT !.entry = 1], Transient))
    /\ UNCHANGED <<file, recordCache, call, result>>

\* RecordIter::next yields a descriptor, or fails on an inverted span.
Emit(it, row, end) ==
    IF end < row.start THEN Fail(it, Internal)
    ELSE [it EXCEPT !.yielded = Append(@, [ordinal |-> row.ordinal, start |-> row.start,
                                           end |-> end])]

\* Bug: the last record of every block, not only of the last one, ends with the
\* stream.
TakeRow_ToStreamEnd(it, rows) ==
    IF it.entry + 1 \in DOMAIN rows
    THEN Emit([it EXCEPT !.entry = @ + 1, !.rows = rows], rows[it.entry],
              rows[it.entry + 1].start)
    ELSE Emit([it EXCEPT !.block = @ + 1, !.entry = 0, !.rows = NoRows], rows[it.entry], TotalLen)

\* The row at it.entry of a block in hand: an inner row ends where the next row
\* starts; the last row gives the block up and needs the next block, if any.
TakeRow(it, rows) ==
    LET row == rows[it.entry]
        past == [it EXCEPT !.block = @ + 1, !.entry = 0, !.rows = NoRows]
    IN
    IF it.entry + 1 \in DOMAIN rows
    THEN Emit([it EXCEPT !.entry = @ + 1, !.rows = rows], row, rows[it.entry + 1].start)
    ELSE IF it.block + 1 < NKey
    THEN [past EXCEPT !.pc = "tail", !.pending = row]
    ELSE Emit(past, row, TotalLen)

\* RecordIter::next up to the end of its first critical section, if it has one.
\* Copying the key may fail.
NextRecord(t) ==
    LET it == iter[t] IN
    /\ ~it.done /\ it.pc = "idle"
    /\ IF it.rows # NoRows
       THEN /\ Set(t, TakeRow(it, it.rows)) \/ Set(t, Fail(it, Transient))
            /\ UNCHANGED keyCache
       ELSE IF it.block >= NKey THEN Set(t, [it EXCEPT !.done = TRUE]) /\ UNCHANGED keyCache
       ELSE \E d \in DecodeKeyBlock(it.block) :
          /\ keyCache' = d.slot
          /\ IF IsFailure(d.result) THEN Set(t, Fail(it, d.result))
             ELSE Set(t, TakeRow(it, d.result.rows)) \/ Set(t, Fail(it, Transient))
    /\ UNCHANGED <<file, recordCache, call, result>>

\* The next block's first offset, for the last row of a block.
TailRecord(t) ==
    LET it == iter[t]
        back == [it EXCEPT !.pc = "idle", !.pending = NoRows]
    IN
    /\ it.pc = "tail"
    /\ \E d \in DecodeKeyBlock(it.block) :
          /\ keyCache' = d.slot
          /\ Set(t, IF IsFailure(d.result) THEN Fail(back, d.result)
                    ELSE Emit(back, it.pending, d.result.rows[0].start))
    /\ UNCHANGED <<file, recordCache, call, result>>

-----------------------------------------------------------------------------

Next ==
    \/ \E t \in Readers, o \in Ordinals :
          KeyAt(t, o) \/ OpenEntry(t, "read", o) \/ OpenEntry(t, "copy", o)
    \/ \E t \in Readers : FindEnd(t) \/ VisitBlock(t)
    \/ \E t \in Batchers, input \in Batches : StartBatch(t, input)
    \/ \E t \in Batchers : BatchBlock(t) \/ EndBatch(t)
    \/ \E t \in KeyScanners : NextHeldKey(t) \/ NextKeyBlock(t)
    \/ \E t \in RecordScanners : NextRecord(t) \/ TailRecord(t)

Spec == Init /\ [][Next]_vars

-----------------------------------------------------------------------------

\* The reads use the two caches in no other way than module BlockCache allows,
\* so that what is proved of the caches there holds here.
UsesCaches == CacheSpec

\* The record of entry o, from the file.
StartOf(o) == file.start[o]
EndOf(o) == IF o + 1 < NEntries THEN file.start[o + 1] ELSE TotalLen

IsStretch(out, o) == \A k \in DOMAIN out : out[k] = StartOf(o) + k - 1

\* A completed read returns exactly the record's bytes, in order and once each,
\* although it took the key cache twice and the record cache once per block; a
\* copy that fails has written a prefix of them, and so has one in progress.  A
\* key read by ordinal is the key of that ordinal.
EntryExact ==
    \A t \in Readers :
        LET r == result[t] IN
        /\ r.op = "key" /\ r.outcome.tag = "ok" => r.outcome.key = r.ordinal
        /\ r.op \in {"read", "copy"} =>
              /\ IsStretch(r.out, r.ordinal)
              /\ r.outcome.tag = "ok" => Len(r.out) = EndOf(r.ordinal) - StartOf(r.ordinal)
        /\ call[t].pc = "span" =>
              /\ IsStretch(call[t].out, call[t].ordinal)
              /\ call[t].cursor = StartOf(call[t].ordinal) + Len(call[t].out)

\* keys_at_ordinals answers every input position with its own key, duplicates
\* and positions past the end included, whatever the order of the blocks.
BatchExact ==
    \A t \in Batchers :
        result[t].op = "batch" /\ result[t].outcome.tag = "ok" =>
            \A k \in DOMAIN result[t].input :
                result[t].outcome.got[k] =
                    IF result[t].input[k] < NEntries THEN result[t].input[k] ELSE None

\* A scan ends in an error only for want of memory or I/O, or for a fault of the
\* file at or before the block it had reached.
ErrorHasCause(t) ==
    iter[t].error # NoRows =>
        \/ iter[t].error.class = "transient"
        \/ \E b \in KeyBlocks : b <= iter[t].block /\ FaultyKeyBlock(b)

\* A KeyIter yields the keys 0, 1, 2, ... and never gets past a faulty block; if
\* it ends without an error it has seen all of them and the file has no fault,
\* and an error has a cause in the file.
KeyScanExact ==
    \A t \in KeyScanners :
        LET y == iter[t].yielded IN
        /\ \A k \in DOMAIN y : y[k] = k - 1
        /\ \A b \in KeyBlocks : Len(y) > EntryStart[b] => ~FaultyKeyBlock(b)
        /\ iter[t].done /\ iter[t].error = NoRows => Len(y) = NEntries
        /\ ErrorHasCause(t)

\* The spans of a RecordIter are those of the entries, tile the stream without a
\* gap or an overlap, and are complete unless it ends in an error with a cause, although
\* the end of a block's last record is read in a later critical section.
RecordScanExact ==
    \A t \in RecordScanners :
        LET y == iter[t].yielded IN
        /\ \A k \in DOMAIN y :
              y[k] = [ordinal |-> k - 1, start |-> StartOf(k - 1), end |-> EndOf(k - 1)]
        /\ \A k \in DOMAIN y : k > 1 => y[k - 1].end = y[k].start
        /\ iter[t].done /\ iter[t].error = NoRows => Len(y) = NEntries
        /\ ErrorHasCause(t)

Outcomes == {result[t].outcome : t \in {t \in Callers : result[t].op # "none"}}

\* The defensive errors (inverted or uncovered span, slice out of range, no
\* progress) are unreachable: the cross-block check made when the blocks were
\* decoded rules them out for every file, however damaged.
NoInternalError == \A r \in Outcomes : r.tag = "failed" => r.class # "internal"

\* A read of entry o fails deterministically only if the file is at fault in a
\* key block up to the one that ends the record, or in a record block.
FailureHasCause ==
    \A t \in Readers :
        LET r == result[t] IN
        /\ r.op \in {"key", "read", "copy"} /\ r.outcome.tag = "failed"
        /\ r.outcome.class \in {"format", "data"}
        =>
            \/ \E b \in KeyBlocks : b <= FindKeyBlock(r.ordinal) + 1 /\ FaultyKeyBlock(b)
            \/ /\ r.op # "key"
               /\ \E i \in RecordBlocks :
                     /\ file.recordFault[i] # "none"
                     /\ StartOf(r.ordinal) < DecompOffset[i + 1]
                     /\ DecompOffset[i] < EndOf(r.ordinal)

\* "failures must replay identically" (tests/hardening_v1.rs): a thread that
\* repeats key_at for an ordinal that just failed deterministically fails again,
\* unless the repetition meets a transient error.
ReplaysIdentically ==
    [][\A t \in Readers :
          LET before == result[t]
              after == result'[t]
          IN  /\ before.op = "key" /\ after.op = "key" /\ before.ordinal = after.ordinal
              /\ before.outcome.tag = "failed" /\ before.outcome.class # "transient"
              => after.outcome.tag = "failed"]_vars

=============================================================================
