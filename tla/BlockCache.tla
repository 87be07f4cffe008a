----------------------------- MODULE BlockCache -----------------------------
(***************************************************************************)
(* The lazily decoded blocks of an open dictionary and the two one-slot    *)
(* caches every caller shares (src/core/keys.rs, src/core/records.rs,      *)
(* CachedFailure in src/core/mod.rs).                                      *)
(*                                                                         *)
(* decode_key_block and decode_record_block hold their cache's mutex from  *)
(* the look-up to the store, so each is one atomic step here; the module   *)
(* gives the step as a relation between the caches before, the result r    *)
(* the caller gets and the caches after.  Modules that extend this one     *)
(* supply the callers.                                                     *)
(*                                                                         *)
(* Payload bytes are abstracted to the decoded offsets they come from, a   *)
(* key to its physical ordinal.  Reading, decompressing, checksumming and  *)
(* parsing one block is abstracted to the fault the file has there: none,  *)
(* one that capture() always retains ("format": InvalidFormat, Truncated,  *)
(* ChecksumMismatch, ...), or one whose text must be charged to the memory *)
(* budget first ("data": InvalidData).  Any uncached decode may also fail  *)
(* for a reason that is not the file's: Io, AllocationFailed, or the       *)
(* working-memory limit while other threads hold memory ("transient").     *)
(***************************************************************************)
EXTENDS Integers, Sequences

CONSTANTS
    KeyCounts,    \* entry_count of each key block, in file order
    RecordSizes,  \* decomp_size of each record block, in file order
    Files         \* the contents the opened file may have under that layout

NKey == Len(KeyCounts)
NRecord == Len(RecordSizes)
KeyBlocks == 0..(NKey - 1)
RecordBlocks == 0..(NRecord - 1)

EntryCount(b) == KeyCounts[b + 1]
DecompSize(i) == RecordSizes[i + 1]

\* Where each of the blocks of the given sizes starts, and the end of the last.
Starts(sizes) ==
    LET start[i \in 0..Len(sizes)] == IF i = 0 THEN 0 ELSE start[i - 1] + sizes[i]
    IN  start

\* KeyBlockDescriptor.entry_start_index, and the entry count past the last block
EntryStart == Starts(KeyCounts)

\* RecordBlockDescriptor.decomp_offset, and total_decoded_record_len at the end
DecompOffset == Starts(RecordSizes)

NEntries == EntryStart[NKey]
TotalLen == DecompOffset[NRecord]
Ordinals == 0..(NEntries - 1)

Faults == {"none", "format", "data"}

\* A key block is never declared empty (validate_key_block_sizes); a record
\* block may be.  A stored record offset may be any number.
ASSUME LayoutAssumption ==
    /\ KeyCounts \in Seq(Nat \ {0}) /\ KeyCounts # <<>>
    /\ RecordSizes \in Seq(Nat) /\ RecordSizes # <<>>
    /\ Files \subseteq [start : [Ordinals -> Nat],
                        keyFault : [KeyBlocks -> Faults],
                        recordFault : [RecordBlocks -> Faults]]

VARIABLES
    file,         \* the contents of the opened file
    keyCache,     \* MdictFile.key_block_cache
    recordCache   \* MdictFile.record_block_cache

-----------------------------------------------------------------------------

\* The binary search of find_key_block_by_ordinal and find_record_block over
\* blocks of which m covers lo[m] up to lo[m] plus its size.  -1 is None.
Search(lo, sizes, x) ==
    LET n == Len(sizes)
        find[w \in (0..n) \X (0..n)] ==
            LET mid == (w[1] + w[2]) \div 2 IN
            IF w[1] >= w[2] THEN -1
            ELSE IF x < lo[mid] THEN find[<<w[1], mid>>]
            ELSE IF x >= lo[mid] + sizes[mid + 1] THEN find[<<mid + 1, w[2]>>]
            ELSE mid
    IN  find[<<0, n>>]

FindKeyBlock(o) == Search(EntryStart, KeyCounts, o)
FindRecordBlock(x) == Search(DecompOffset, RecordSizes, x)

-----------------------------------------------------------------------------

\* Results of decoding a block.
Failed(class, at) == [tag |-> "failed", class |-> class, at |-> at]
Transient == Failed("transient", -1)
IsFailure(r) == r.tag = "failed"

\* The rows of key block b: the key (its ordinal) and its record offset.
Rows(b) ==
    [e \in 0..(EntryCount(b) - 1) |->
        [ordinal |-> EntryStart[b] + e, start |-> file.start[EntryStart[b] + e]]]

\* decode_key_rows rejects an offset past the record stream and a decrease.
RowsValid(b) ==
    LET rows == Rows(b) IN
    /\ \A e \in DOMAIN rows : rows[e].start <= TotalLen
    /\ \A e \in DOMAIN rows : e > 0 => rows[e - 1].start <= rows[e].start

\* What decode_key_block_uncached returns when nothing transient happens.
OwnKeyResult(b) ==
    IF file.keyFault[b] # "none" THEN Failed(file.keyFault[b], b)
    ELSE IF ~RowsValid(b) THEN Failed("data", b)
    ELSE [tag |-> "ready", rows |-> Rows(b)]

DecodeKeyBlockUncached(b) == {OwnKeyResult(b), Transient}

OwnRecordResult(i) ==
    IF file.recordFault[i] # "none" THEN Failed(file.recordFault[i], i)
    ELSE [tag |-> "ready",
          bytes |-> [j \in 0..(DecompSize(i) - 1) |-> DecompOffset[i] + j]]

DecodeRecordBlockUncached(i) == {OwnRecordResult(i), Transient}

-----------------------------------------------------------------------------

Empty == [index |-> -1]

\* Bug: every failure is retained.
Capture_Everything(b, r, base) == {[index |-> b, value |-> r]}

\* CachedFailure::capture: what the slot holds after block b failed with r and
\* the slot stood at base.  A transient failure is not retained; a "data" one
\* is unless its text cannot be charged or copied.
Capture(b, r, base) ==
    LET retained == [index |-> b, value |-> r] IN
    CASE r.class = "transient" -> {base}
      [] r.class = "data" -> {base, retained}
      [] OTHER -> {retained}

\* CachedFailure::replay: copying the text of a "data" failure may fail.
Replay(r) == IF r.class = "data" THEN {r, Transient} ELSE {r}

\* A hit hands out the cached block or replays the cached failure.
FromCache(value) == IF IsFailure(value) THEN Replay(value) ELSE {value}

\* What the slot may hold once block b was attempted with result r.
Settle(b, r, base) ==
    {[result |-> r, slot |-> s] :
        s \in IF IsFailure(r) THEN Capture(b, r, base)
              ELSE {[index |-> b, value |-> r]}}

\* The predecessor whose last record offset block b is checked against: the
\* slot if it holds block b - 1, otherwise a decode that is not cached.
NoPredecessor == [tag |-> "none"]

Predecessor(b) ==
    IF b = 0 THEN {NoPredecessor}
    ELSE IF keyCache.index = b - 1 THEN FromCache(keyCache.value)
    ELSE DecodeKeyBlockUncached(b - 1)

LastStart(b, block) == block.rows[EntryCount(b) - 1].start

\* Bug: the boundary between two blocks is not checked.
Checked_NoBoundary(b, previous, own) == own

\* Bug: two records may not start at the same offset if they are in two blocks.
Checked_Strict(b, previous, own) ==
    IF IsFailure(own) \/ b = 0 THEN own
    ELSE IF LastStart(b - 1, previous) >= own.rows[0].start THEN Failed("data", b)
    ELSE own

\* Block b after its predecessor was accepted: its own decode, then the check
\* that record offsets do not decrease across the boundary.
Checked(b, previous, own) ==
    IF IsFailure(own) \/ b = 0 THEN own
    ELSE IF LastStart(b - 1, previous) > own.rows[0].start THEN Failed("data", b)
    ELSE own

\* MdictFile::decode_key_block(b): what the caller may get and what the slot
\* then holds.  A miss empties the slot only after the predecessor was accepted.
DecodeKeyBlock(b) ==
    IF keyCache.index = b
    THEN {[result |-> r, slot |-> keyCache] : r \in FromCache(keyCache.value)}
    ELSE UNION {
           IF IsFailure(p) THEN Settle(b, p, keyCache)
           ELSE UNION {Settle(b, Checked(b, p, own), Empty) :
                          own \in DecodeKeyBlockUncached(b)} :
             p \in Predecessor(b)}

\* MdictFile::decode_record_block(i), likewise.
DecodeRecordBlock(i) ==
    IF recordCache.index = i
    THEN {[result |-> r, slot |-> recordCache] : r \in FromCache(recordCache.value)}
    ELSE UNION {Settle(i, r, Empty) : r \in DecodeRecordBlockUncached(i)}

\* MdictFile::open: both slots start empty.
CacheInit ==
    /\ file \in Files
    /\ keyCache = Empty
    /\ recordCache = Empty

\* The caches under any callers whatever: some caller decodes some block.
CacheNext ==
    \/ \E b \in KeyBlocks : /\ \E d \in DecodeKeyBlock(b) : keyCache' = d.slot
                            /\ UNCHANGED <<file, recordCache>>
    \/ \E i \in RecordBlocks : /\ \E d \in DecodeRecordBlock(i) : recordCache' = d.slot
                               /\ UNCHANGED <<file, keyCache>>

CacheSpec == CacheInit /\ [][CacheNext]_<<file, keyCache, recordCache>>

-----------------------------------------------------------------------------

\* The file itself is at fault in key block b: it does not decode, or its record
\* offsets step back from the block before it.
FaultyKeyBlock(b) ==
    \/ IsFailure(OwnKeyResult(b))
    \/ /\ b > 0 /\ ~IsFailure(OwnKeyResult(b - 1)) /\ ~IsFailure(OwnKeyResult(b))
       /\ LastStart(b - 1, OwnKeyResult(b - 1)) > OwnKeyResult(b).rows[0].start

\* The failure a faulty key block is reported with.
BlockFailure(b) == IF IsFailure(OwnKeyResult(b)) THEN OwnKeyResult(b) ELSE Failed("data", b)

\* The failures of a decode.
Failures == [tag : {"failed"}, class : {"transient", "format", "data"}, at : Int]

\* A key block a caller may be given: its own rows, and offsets that continue
\* those of a predecessor that decodes too.  A failure that is not transient is the
\* one of a faulty block at or before it.
SoundKeyResult(b, r) ==
    IF IsFailure(r)
    THEN /\ r \in Failures
         /\ r # Transient => \E j \in 0..b : FaultyKeyBlock(j) /\ r = BlockFailure(j)
    ELSE /\ r = OwnKeyResult(b)
         /\ ~FaultyKeyBlock(b)
         /\ b > 0 => ~IsFailure(OwnKeyResult(b - 1))

\* decode_key_block's slot: a retained block is the right one and was checked
\* against its predecessor, and a retained failure is never transient (a lost
\* race for memory must not make a healthy block unreadable) but has a cause in
\* the file at or before the block it is retained for.
KeyCacheSound ==
    keyCache # Empty =>
        /\ keyCache.index \in KeyBlocks
        /\ SoundKeyResult(keyCache.index, keyCache.value)
        /\ IsFailure(keyCache.value) => keyCache.value.class # "transient"

\* decode_record_block's slot: exactly what a fresh decode would give.
RecordCacheSound ==
    recordCache # Empty =>
        /\ recordCache.index \in RecordBlocks
        /\ recordCache.value = OwnRecordResult(recordCache.index)

=============================================================================
