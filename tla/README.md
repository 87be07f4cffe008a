# Verification of mdictlib

TLA+ specifications of mdictlib, a Rust library that reads MDict dictionaries
(MDX) and resource containers (MDD), with TLC configurations that check them on
small instances and TLAPS proofs for every value of the constants. The definitions
are translated from the Rust source; `PROJECT.json` gives, for each of them, the
lines it stands for. Paths below are relative to `src/src/`.

## 1. The system

`MdxFile` and `MddFile` wrap one `MdictFile` (`core/mod.rs`): a validated layout, a
source file, two one-slot block caches, a lazily built key locator and a memory
budget. A handle is `Sync`: any number of threads call it at once, and all of the
mutable state is behind three mutexes, one `OnceLock` and two atomics. A host can
also build a persistent key index beside the dictionary and query through it.

| component | source | state | operations | module |
|---|---|---|---|---|
| memory budget | `limits.rs` | `used`, `peak` (atomics); `MemoryReservation.bytes` | reserve, grow, drop, memory_usage | `MemoryBudget` |
| block caches | `core/mod.rs`, `core/keys.rs`, `core/records.rs` | `key_block_cache`, `record_block_cache`: a block or a `CachedFailure` | decode_key_block, decode_record_block | `BlockCache` |
| physical reads | `core/keys.rs`, `core/records.rs`, `core/iter.rs`, `mdd.rs` | the locals of a call; an iterator's block, row and held block | key_at, keys_at, record_at, read, copy, KeyIter, RecordIter | `DictReader` |
| key locator | `core/locator.rs` | `locator` (`OnceLock`), `locator_build` (mutex) | key_locator | `KeyLocator`, `OnceValue` |
| lookup | `core/locator.rs`, `core/case_variants.rs`, `core/normalize.rs`, `lookup.rs` | none beyond the locator | locate, pages, match modes, prefix | `Lookup` |
| index sort | `core/persistent/build.rs`, `sort.rs` | arenas, runs, heap, scratch files | row loop, flush, merge passes | `IndexSort` |
| index layout | `core/persistent/build.rs`, `format.rs` | the header and section table | plan, write, parse, validate | `IndexLayout` |
| chunk cache | `core/persistent/cache.rs` | one chunk per section, one page of checksums | read, checksum lookup | `ChunkCache` |
| key index | `core/persistent/build.rs`, `cache.rs`, `query.rs`, `format/common/source.rs` | index file, source stamp, build in progress, open index | build, open, locate, page, variants, prefix, scan | `KeyIndex` |
| header | `format/common/header.rs`, `encoding.rs` | the header's fields | parse, resolve aliases, versions, encodings | `Header` |
| layout grammars | `format/mod.rs`, `format/v1`, `format/v2`, `format/common/descriptors.rs`, `compression.rs` | the section ranges, the block descriptors, two reservations | open: parse, verify, keep | `Layout` |
| key rows | `format/v1/keyword.rs`, `format/v2/keyword.rs`, `encoding.rs` | none | decode_key_rows | `KeyRows` |
| codecs, ciphers, types, file URLs, fuzz hooks | `format/common/*`, `types.rs`, `error.rs`, `fuzzing.rs` | none | pure conversions | not modelled, see 6 |

**How they interact.** `MdictFile::open` parses the header, picks one of two wire
grammars by its version and keeps the descriptors of all blocks, a validated layout
that everything else takes for granted; it charges the budget twice for what it
keeps, once while it parses and once for the life of the handle. Every read of keys goes through `decode_key_block`, which
holds the cache's mutex while it decodes and, for a block after the first, needs
the last record offset of the block before it, from the cache if that is the block
held there and by decoding it otherwise. `record_at` and `visit_record_span` take
the caches several times in one call, with the mutex released in between, so
another thread's blocks come and go inside a read. `key_locator` decodes all key
blocks through the same cache while holding `locator_build`. A build of a
persistent index does so too, and each row that a query finds in an index is
compared with the source key, again through that cache. Every buffer that lasts is
charged to the shared budget.

**What is hard.** Declared counts and sizes that are any numbers of their width, and
sums of them; worst cases of decoded text reserved before any is decoded. Races on the counters of the budget, whose peak is raised in a
second atomic step; failures that are cached and replayed, some of which stem from
another block; state read in one critical section and used in the next; a value
built at most once, by threads that may fail on the way; an external merge whose
fan-in and buffers depend on memory; an index file that a crash or an error leaves
half written; a source edited while it is indexed, or while it is queried, with or
without a change of its modification time; pages of a result that is in two
groups. `PROJECT.json` lists each of these as a hazard at its line with the
properties that watch it.

**What makes each part correct.** Opening: what is accepted tiles the file, a file as
written is accepted, and what is allocated was reserved. Budget: what is charged is what is owed and never
above the ceiling. Caches: whatever is replayed is what a fresh decode would give
or has a cause in the file. Reads: exactly the record's bytes, or an error with a
cause. Locator: a write-once value, decided by the file and the limits. Lookup: the
rows that the raw keys define, in their order, on each page. Index: what opens is
complete and of its source; what it answers is right, and what it returns is in the
source.

## 2. Modules

* **MemoryBudget** - one action per atomic operation: `Load`, `ExchangeOk` /
  `ExchangeFail` (`compare_exchange_weak`, which may fail spuriously), `RaisePeak`,
  `Refuse`, `Drop`, and the two loads of `memory_usage`. A token is one
  `MemoryReservation` with the thread that claims for it. `highWater` is a history.
  Atomics are sequentially consistent in the model; the code uses relaxed
  orderings, on which each counter is still totally ordered, but the report reads
  two of them.
* **BlockCache** - a file is reduced to its record offsets and to the fault that
  each block has: `none`, `format` (a failure cached without text), `data` (a failure
  with text, whose copying may itself run out of memory). `DecodeKeyBlock(b)`
  is the set of outcomes of one critical section: the caller's result and the
  slot afterwards, transient errors included. `CacheSpec` is what any callers
  may do with the two slots.
* **DictReader** - extends BlockCache with the calls, cut at every unlock. A
  reader's record bytes are stream positions, so order, gaps and repetitions show.
  `UsesCaches == CacheSpec` carries the theorems of BlockCache over.
* **OnceValue**, **KeyLocator** - the abstract write-once value and the double-checked
  construction that implements it (`ImplementsOnce`). The limits are those of the options
  and the width of a count and of an offset into the text, u32::MAX. The truth is computed from the
  file and the limits alone, at Init.
* **Header**, **Layout** - `MdictFile::open`, one action per stage: the source, the
  header, the choice of the grammar, then for each section its header, its index, a row
  of it, and what is checked behind the last row; at last `ValidatedLayout::verify`. The
  early returns of a stage are a list of checks in the order of the code
  (`FirstError`). A file is what a writer put there (`written`, computed in `MCLayout`
  from the blocks alone), of which up to `MaxDamage` fields read back as something
  else, any number that fits their width included. `kept` and `temp` are what
  `RetainedBudget` and the reservations of the stage hold.
* **KeyRows** - extends Layout with the decoding of a key block's rows, byte by byte: where a
  key ends depends on the alignment of its units, and what is a character on the bytes next
  to it (surrogate pairs, the sequences of UTF-8, the pairs of GBK). The descriptor is one Layout
  accepted.
* **Lookup** - the built locator as sequences, normalization character by character
  (it is the conversion the properties are about) in each of its three copies, `Normalize`
  of code points, `NormalizeBytes` of UTF-8 and `NormalizedLen`, binary search,
  `select_page`. Limits on a text count bytes.
  `located` is the published `KeyLocator`. What `char::to_lowercase` gives is a parameter;
  TLC's table has ASCII, Latin-1, two of the characters whose lower case is of another
  length or class, and one of four bytes. The reference is stated over raw keys with quantifiers.
* **IndexSort** - the row loop with its arenas, the flush of a run, the choice of fan-in
  and read buffer, the merge with a heap, the last pass, and what arena, read and write
  buffers take of the memory. Sizes are those of a 64-bit
  build; texts are ranks with lengths.
* **IndexLayout** - the arithmetic of the header with the real field sizes, written by
  the builder and read by `open`, and changes of its fields in between. `MaxOrdinal`, the
  largest count of rows, is u32::MAX in the code and small in the run.
* **ChunkCache** - reads of ranges over chunks with one slot per section and a page of
  checksums, while bytes and checksums on disk are damaged and restored.
* **KeyIndex** - composes the above: there a complete file answers by the rows it was
  built from, and a damaged one is rejected in `Verify` mode and answers anything in
  `Skip` mode. A query takes one step per row and one handle has one query at a time; a
  prefix search for no rows returns before it looks at the stamp.
  Edits replace a block's keys, with a new stamp or the old one.
* **MC...** - instances for TLC. **..._proofs** - theorems about MemoryBudget,
  BlockCache, DictReader, KeyLocator, IndexSort, ChunkCache, KeyIndex and Layout.

Operators whose name has an underscore and whose comment starts with "Bug:" are
variants of a definition with a plausible mistake; each property is known to
fail under one of them.

## 3. Runs

| run | instance | what it shows |
|---|---|---|
| `budget` | 3 tokens, ceiling 2, requests 1 to 3, usize up to 3 | counter = what is owed, ceiling, no lost peak |
| `reader_entries` | 2 threads, 3 key blocks with 4 keys, 3 record blocks (one empty), 10 files | reads are exact or fail with a cause; the defensive errors are unreachable; the caches are used as BlockCache says |
| `reader_scans` | a key iterator, a record iterator and a batch on one handle, the same files | batches, key scans and record scans are exact and complete, or end in an error with a cause |
| `reader_replay` | as `reader_entries` | **violated**: see finding 1 |
| `locator` | 2 callers with 3 calls each, any other reader, 6 files, 6 limits, the widths of a count and of a text offset among them | one build at a time; a write-once value; every lookup returns |
| `opening` | 7 files: both versions and kinds, three encodings, the legacy variant, a passcode, no entries; up to 2 damaged fields, file lengths off by one; several options | what opens is tiled, nothing behind a parse rejects it, allocations are reserved, files as written open, the order of aliases is irrelevant, a key block decodes to exactly its rows |
| `lookup` | every table of 3 keys over 6 texts, 10 queries, 16 windows, 3 headers | exact, normalized and case-variant answers and their pages agree with the reference; pages fit their reservation and only long queries are refused; the three copies of the normalization loop agree |
| `index_sort` | up to 7 rows of two texts, 5 of any kind, four longer shapes, 5 memory ceilings | sorted permutation, a bound on the memory of arena, merge and write buffers, no consistency check fires, a record that fits is refused only by an arena that was used before, termination |
| `index_layout` | row counts and text lengths around chunk boundaries, 8 options, up to 2 damaged fields | the plan is exact, the writer fills what it declares and it opens again, what opens tiles the file |
| `chunk_cache` | sections of 5, 0 and 4 bytes, chunks of 2, pages of 3 checksums, 5 damages | reads are exact from slots that are sound after half-failed loads, a rejection has a cause |
| `key_index` | one handle, 3 rows in 2 blocks, 2 versions, one edit of any kind, crash at any step | see below |
| `key_index_silent_edit` | edits may keep the stamp | **violated**: finding 2 |

`key_index` allows everything at once: edits that move the stamp and edits that do
not, builds by a handle older than its source, crashes, damaged files, both checksum
policies. Two histories separate what the code can promise: `source.shown` (each
edit so far moved length or modification time) and `fresh` (the builder's handle was
opened under the stamp it built with: `build.rs:583` compares only the length with what
the handle was opened on, so a handle older than its source stamps old rows as new;
section 4).
Given both, a build that reports success is
of its source, an index that opens is of the source under its stamp, and a query
that no edit overtakes answers completely. Without either, what a query
returns was in the source since the handle was opened and matches the question
(`FoundIsInSource`), and what opens is complete. The last two properties also ask that
the handle is as new as the index it queries (`AsNew`): a handle that was opened before an
edit may hold a block from before it in its cache, and compares the rows of the newer index
with that. One handle in one run does not reach this; the attempt to prove the properties
for any number of handles did.

**Bounds.** Three tokens are the fewest with which two race while a third holds a
charge; the ceiling is met, missed by one and exceeded by the requests. Three key
blocks are the fewest in which a block has a predecessor that has one: the cross-block
check and the replay of a predecessor's failure are about such triples. The
record blocks include an empty one, and the records empty ones, ones inside a block
and ones that cross blocks. Three keys over these texts contain raw matches, case
variants and other normalized matches together, and offsets and limits lie below, at
and beyond the totals and at the end of the integers. Seven rows under
these ceilings give one run, a final merge and several passes. Two damaged header
fields can compensate for each other, in an index as in a dictionary. The seven
dictionaries have blocks next to one another, an empty record block, summaries long
enough that their worst case is felt, and limits and memory met exactly and missed by
one; without key blocks to decode `opening` was also run with three damaged fields
(3.4 million states). One edit between any two steps is enough
to make two versions meet in one index or one query. `MaxCalls`, `MaxEdits`,
`MaxDamage`, `MaxRows` and `MaxGarbled` are the bounds on repetition.

**Fairness.** `KeyLocator`: weak fairness for each thread that is inside
`key_locator`. The operating system runs every runnable thread, the critical section
has no wait inside, and `MaxCalls` keeps other threads from taking the mutex
for ever; the code does not promise more of a `std::sync::Mutex`. No fairness
for starting a call, nor for other readers. `IndexSort`: weak fairness of the one step
of a sequential loop. Nothing else assumes fairness. Deadlock checking is off
where a run ends by itself (the sort, the layout of an index).

## 4. Findings

1. *Cached failures do not always replay.* `core/keys.rs:182`: a failure that block
   b - 1 took over from block b - 2 is handed on to block b. When the slot has been
   used for another block, b - 1 is decoded afresh for b's sake without its own
   predecessor, and b can be read. The tests that say "failures must replay
   identically" repeat the read at once.
2. *An edit that keeps the stamp can go unnoticed.* `core/persistent/query.rs:303`: source
   verification takes the key from the cached block when it is that block. The README of
   the library says of scans that such a mutation "rejects the index", and of lookups and
   prefix searches that a row is checked "against the corresponding current MDX source
   row". `RowsAreCurrent` fails for each of the two alone; what holds without a condition
   is `FoundIsInSource`, a row the source had since the handle was opened.

Two more disagreements with the library's documentation have no run of their own; the
properties state what holds instead.

* *A merge holds more than the build-memory ceiling.* `core/persistent/sort.rs:367-388`
  divides all of the memory among the runs of a group, and the buffer of the output
  (`sort.rs:394`), up to a sixteenth of it, comes on top; the four scratch writers of the
  row loop (`build.rs:281-302`) likewise live beside an arena that may fill the memory.
  `index.rs:30` says that the ceiling "covers the additional sort buffers owned by the index
  builder". With 4096 bytes, chunks of 1024 and two runs of keys of 900 bytes, heap keys,
  cursors and buffers take 4136. `BuildMemoryBounded` is by how much it can be exceeded.
* *An old handle builds an old index under a new stamp.* `core/persistent/build.rs:585`:
  `source_identity` compares the length with the one that was parsed, and takes the
  modification time from the file as it is. After an edit of equal length a key block
  that is still cached is indexed under the stamp of the edited file, and the build
  succeeds, although it "returns an error if source data ... changes" (`mdx.rs:331`); the
  stamp, which "detects ordinary staleness" (`index.rs:148`), then accepts the index.
  `BuildIsOfItsSource` fails for this alone, with edits that all move the stamp;
  `FreshBuildIsOfItsSource` leaves the case out. Each row of such an index is still
  compared with the source when it is returned (`FoundIsInSource`); rows can be missing.

## 5. Proofs

Every safety invariant, action property and refinement that a passing run checks is a
theorem for all values of the constants, except two invariants of `opening` and one of
`lookup` named at the end of this section.

**Layout_proofs**: for all files, limits, widths and memory ceilings (`LayoutAssumption`:
they are numbers). `OpenTiles` speaks of the end of open only; `LayoutInv` says for each
stage what the ones before have established. The section ranges follow one another
and end in the file (`Prefix`); the blocks so far form a chain from the start of
their section to `run.offset`, numbered from 0 to `run.start` (`KeyChain`,
`RecordChain`), which a row prolongs by one; the sums behind the last row
make the end of the chain the end of the section. For `ParsedIsKept` it adds that what
will be kept fitted beside everything the parse held. `AllChecked` turns "no early
return" into the conditions of the checks; `VerifySound` is the fact that
`verify` repeats what the grammars have proved. `AllocationsCovered` compares what
decoding has allocated with what was reserved before anything was decoded. `MemoryInv`
says what `kept` and `temp` are at each stage, and of a key index in progress that the
texts decoded so far are at most what the bytes read so far may decode to (`TextBound`:
three bytes for every two of UTF-16 or GBK). The reservation is the worst case of the
whole index decoded at once, while each text is decoded for itself, a GBK one with
`CodecSlack` bytes more. It suffices because a row has at least 14 bytes beside its two
texts, which pay for a slack of up to 10; `LayoutAssumption` asks for that
(`encoding_rs` adds two or three) and that header texts have the shape of `HeaderText`.
`AliasOrderIrrelevant` needs that the header was accepted (`HeaderInv`). `Resolve` compares
each alias only with the one before it, and the last one stays; when no comparison fails
all are equal (`AliasesAgree`, by the least place that differs), and equal in any order.
Theorems: `OpenIsTiled`, which is what BlockCache assumes of a layout,
`ParsedStays`, `OpenWithinMemory`, `AliasesCommute`.

**MemoryBudget_proofs**: for any number of tokens, ceiling and request sizes
(`BudgetAssumption`: there is a token, and the sizes are of type usize).
`WithinBudget` alone is not inductive: that `Drop` does not wrap needs the counter to be
the sum of the parts. `LedgerBalances` states that sum with a witness, a function of
running totals that ends in the counter. `LedgerShift` moves a ledger by one token's
change; each action is then a change of one token (`OneTokenStep`) or of none
(`NoTokenStep`). `IInv` adds that the counter stays below the high-water mark, that
claims about to raise the peak stay below it too, and what a report in the making has
read. Theorems: `TypeCorrect`, `Accounting` (with it that no drop wraps, which no run
needs to repeat), `Ceiling`, `PeakIsExact`, `ReportsAreConsistent` (proved only: no run
checks it).

**BlockCache_proofs**: for any layout and any set of files (`LayoutAssumption`) and
any callers. The library's induction rules take an operator as parameter and cannot be
used; `LeastNumber` (any set of numbers that is not empty has a least one, from the
well-foundedness of `<`) replaces them, by way of a least counterexample. With it
`Starts` is shown to be the running totals of the block sizes for any number of blocks,
and `SearchFinds` that the binary search finds the block of every position: the
invariant of its loop is that the block lies between `low` and `high`. `CacheInv` says
of each slot what it may hold: a key block that is its own
decode and was checked against the offsets of its predecessor; a record block that a
fresh decode gives; a failure that is not transient and has a cause at or before the
block. `DecodeKeyBlockSound` proves it of every way through `decode_key_block` (hit,
predecessor in the slot, predecessor decoded, failure captured or not), from lemmas on
each part; `CachesSound` is the invariant.

**DictReader_proofs**: `ReaderImplementsCaches`, that the readers refine `CacheSpec`
(the mapping is the identity on the file and the two slots), and `ReaderCachesSound`,
that `CachesSound` therefore holds of a dictionary in use, for any layout, files and
threads (`ReaderAssumption`: a thread runs one kind of iterator). The steps need
`ReaderInv`: a call or an iterator that is to decode a block in a later critical
section names one that exists. On top of both, `ExactInv` says for every result what it
may be (`ResultOK`), for every call between two critical sections what it has established
so far (`PendingOK`: the start of the span, the stretch of bytes handed on, the prefix of
a batch), and for every iterator where it stands and that what it has yielded is a prefix
of the entries (`KeyIterOK`, `RecordIterOK`, `EndOK`); each says why it may have failed. No
step of another thread touches these, and what another thread leaves in the slots is
sound. Theorems: `ReadsAreExact`, `BatchesAreExact`, `KeyScansAreExact`,
`RecordScansAreExact`, `InternalErrorsUnreachable`, `FailuresHaveACause`.

**KeyLocator_proofs**: `BuildIsSingleFlight` and `PublishedIsFinal`, for any number of
callers. `SingleFlight` lacks what `Acquire` needs: that a free mutex means no one
builds, and that who does not build holds no rows (`BuildInv`).
`LocatorAssumption` has that the name of the free mutex is not a thread's.
`LocatorImplementsOnce` is that this implements the write-once value whose truth is
computed from the file and the limits at Init. `LocatorInv` says of a build under way that
its rows are those of the blocks before its next one, and that none of these stops a build;
what the next block gives is then the next rows, or the failure that the file decides. It rests on `KeyCacheSound`, which had to be made stronger: a block in
the slot is not only its own decode but neither it nor its predecessor is faulty, or else
a build could go on over a fault that another reader's block had hidden.

The same module proves lookup in the published locator (`AnswersAreExact`,
`BasisIsTruthful`, `PagesFit`, `PrefixesAreExact`) for any dictionary, header, query,
window and digest function. Of `char::to_lowercase` it takes `LowercaseAssumption`: an
ASCII character that is neither letter nor digit is its own lower case, and occurs in the
lower case of no other character; that holds of the Unicode tables, where the only
characters with ASCII in their lower case give letters (the Kelvin sign gives k, the dotted
capital I gives i and a combining dot). The argument: the locator is the list of the rows in a
strict order (normalized text, then ordinal), and a list in a strict order is determined by
its members. A partition point of a predicate that holds on a beginning of the order
is the number of rows that satisfy it, so `EqualRange` is exactly the rows with the query's
normalized text. Normalization sees only the lower case of a text when case is folded, so
every case variant of the query lies in the equal range and filtering it loses none; the
rows with a given normalized prefix are a convex region that starts at the partition point.
A page over exact and variant rows is the window of their concatenation, split where
the first group ends. `ServedInv` says that `located` is the locator of the dictionary and
that the last answer is the right one; no step changes the dictionary.

**IndexSort_proofs**: from `SortAssumption` (sizes are numbers, the largest fan-in is at
least two, an ArenaRecord is smaller than a RunRecord) and, for the first of these, from
`BufferAssumption` (what a chunk, a run's read buffer and a cursor take).
`BuildMemoryIsBounded`: arena and scratch buffers together take at most five quarters of
the memory ceiling, a group and its output buffer at most seventeen sixteenths. The arena
is never reserved beyond the memory (`ArenaFits`), and a write buffer is at most a
sixteenth of it. What the code counts of a group does fit (`GroupFits`): the read buffer
is sized once, before the first pass, for the runs there are then or for the
fan-in if that is less. `BufferFits` keeps that number as a witness, and says that the
fan-in or the runs left do not exceed it; `ReadBufferFits` is the arithmetic of
`merge_runs`, and the rest that no step of a pass adds a run. `OrderIsExact` and
`NoMismatches`: `OrderInv` says where the rows are, always each in one place. Before the
merge, in the runs and the arena (`RowsOK`); in it, in the runs to read, the runs written
and the group between them (`MergeOK`); of a group, what is written comes before what is
left, and of each run that has rows left the first is in the heap (`GroupOK`), so that the
least of the heap is the least of all (`PopGroup`). `SortSound` is that `sort_records`
gives a run of the same rows: the place of a row, the number of rows before it, is a
bijection (`Places`). `RefusalsHaveAReason`: `ArenaOK` bounds the two capacities by twice
the planned text and records of the rows in the first arena or, where all rows are
planned alike, of the most rows an arena ever held; `RoomToDouble` is the arithmetic that
half of the memory leaves room for this. The attempt to prove it showed that a row may be
refused just after it had the first arena written out, which `RefuseRow` had left out; the
run has that case now.

**ChunkCache_proofs**: for any sections, chunk and page sizes. `CacheInv`: a slot that is
valid holds the bytes its chunk had on disk at some time, and in `Verify` mode undamaged
ones; a read in progress has exactly the bytes up to its position (`ReadInv`). A load
clears the slot before it reads, so that a half-failed one leaves nothing. Theorems:
`ReadsAreExact` and, as a property of steps, `RejectionsHaveACause`.

**KeyIndex_proofs**: for any number of handles, blocks, versions and edits, from
`KeyIndexAssumption` (there are finitely many rows, a window is two numbers) and
`KeyTextAssumption` (keys of the same bytes have the same folded text, normalized text
and digest; normalized texts are compared by their rank, a number). `IInv` has one part per component: the stamps the source had and what it held
under them (`SourceInv`), what a handle has seen since it was opened (`HandleInv`), that a
build holds rows of blocks as they were since it started (`BuildInv`), that a file is
complete only if it was written to the end (`FileInv`), that an open index is a complete
file's (`IndexInv`), and that what a query has found so far is in the source
(`CallInv`), of returned results the properties themselves. Theorems: `BuildsAreOfTheirSource`, `OpenIndexesAreOfTheirSource`,
`FoundRowsAreInTheSource`, `StampedAnswersAreCurrent`.
`AnswersAreComplete` has an invariant of its own beside these. As long as the query runs on
the source that its index and its handle are of (`Undisturbed`), `ProgressInv` says that
what it has found is what there is to find among the rows it has looked at, in the order of
the index. The sorted rows are unique, since the order (normalized text, then
ordinal) is strict, and the rows of one normalized text are next to each other in it; so
the range that the query walks holds every match, and at its end nothing is missing.

The same module proves the layout of the index file (`PlansAreExact`, `IndexesReopen`,
`AcceptedIndexesTile`) for any row counts, text lengths, options and any damage of the header
fields. Module IndexLayout names its specification `LayoutSpec` so that both can be
extended. `FormatInv` says of the builder that the header is the planned one and that the
sections written so far, behind the header and the checksums, end at the write position;
of the reader that its verdict is what `open` computes from the fields. Each section
starts at the next multiple of eight behind the end of the one before it; the checks of
`open` on a header that was damaged are enough to make the sections follow one another
like that to the end of the file all the same.

**Model-checked only**:
* liveness (`EveryLookupReturns`, `BuildEnds`): fairness and ENABLED are out of the
  prover's reach;
* the rows of a key block (`RowsExact`): KeyRows has RECURSIVE operators, and what a
  recursion computes needs an induction that the provers cannot instantiate;
* that the three copies of the normalization loop agree (`CopiesAgree`): two of them carry
  a flag and a sum through their recursion, for which it would take an induction of its own;
* that files as written open (`WrittenFilesOpen`): what a writer puts into a file is a sum
  over its blocks, computed by folds in `MCLayout` for the seven files of the run; for
  the proof, `Written` would have to become an abstract relation.

## 6. Not modelled

* Panics and poisoned mutexes, the weak memory orderings, allocation inside the
  standard library.
* The codecs and the ciphers (zlib, LZO, GBK and its relatives, Adler-32, Salsa20,
  RIPEMD-128, the keyword index cipher): pure transformations of a buffer without
  state, out of TLC's reach. A stream, a sum or a text is good or not, all combinations
  occur, and a collision of a checksum counts as good. When each is applied, with which
  lengths, limits and passcode, is in `Layout`.
* The scan of the XML header for its tag, quotes and entities: `Header` starts from the
  attributes in their order, and the text around them is well formed or not. In a row
  of an index with two faults, which one is reported.
* In `KeyRows`, the pairs that GBK and its relatives leave unassigned and the four-byte
  characters of GB18030. In the memory of a build, the checksums of the sections, four
  bytes for a chunk, which `IndexLayout` bounds as metadata.
* `key_summary_matches`: a block that disagrees with its summary is one of the faults of
  BlockCache. A dictionary without blocks opens in `Layout`; BlockCache leaves it out,
  as no read gets past the bounds check of its ordinal.
* `scan_normalized_keys`, which walks the built locator and changes nothing; the types
  and their formatting, file URLs, the fuzzing entry points, examples and benches.

## 7. Plan

Done, in order: MemoryBudget, BlockCache, DictReader, KeyLocator, Lookup, IndexSort,
IndexLayout, ChunkCache, KeyIndex, each after the modules it builds on; then Header,
Layout and KeyRows, which justify what BlockCache assumes of a layout; then the proofs of
section 5.

Left to do: a proof of `CopiesAgree`; an abstract description of the files a writer makes (each sum as a function of
running totals, as in `LedgerBalances`), from which `WrittenFilesOpen` could be proved; an
abstract key index, a relation between stamps and rows, that KeyIndex implements; and an
iterative form of `decode_key_rows` with an invariant, for `RowsExact`.
