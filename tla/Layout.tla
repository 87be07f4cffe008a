------------------------------- MODULE Layout -------------------------------
(***************************************************************************)
(* Opening a dictionary: MdictFile::open and open_layout with the two wire *)
(* grammars (src/core/mod.rs, src/format/mod.rs, v1/ and v2/), up to the   *)
(* validated layout that BlockCache takes for granted.                     *)
(*                                                                         *)
(* Open is one sequential call.  A step is one stage of it: the header,    *)
(* the choice of the grammar, the header of a section, its index, a row of *)
(* the index, the checks behind the last row, the final verification.  The *)
(* early returns of a stage are listed in the order of the code.           *)
(*                                                                         *)
(* The file is `written`, what a writer put there, except that up to       *)
(* MaxDamage fields read back differently.  A field holds any number that  *)
(* fits its width: HalfMax stands for u32::MAX, WordMax for u64::MAX and,  *)
(* on a 64-bit build, usize::MAX.  Keys are their lengths.  In a row of an *)
(* index that is malformed in two ways at once, which of the two is        *)
(* reported is not modelled.                                               *)
(***************************************************************************)
EXTENDS Header, FiniteSets

CONSTANTS
    Written,        \* the files writers produce
    HeaderTexts,    \* what else the header text may be
    FieldReads(_, _), \* what may be read where a record was written, n fields off
    FileDeltas,     \* how much longer the file is than what was written
    MaxDamage,      \* bound: the fields that do not read as written
    Options,        \* OpenOptions: kind, verify, passcode, memory
    WordMax, HalfMax,
    Lzo,            \* is the feature `lzo` enabled
    HeaderLimit, KeyIndexLimit, RecordIndexLimit, CompressedLimit,
    DecompressedLimit, MetadataLimit, EntriesLimit,      \* Limits
    KeyDescriptorBytes, RecordDescriptorBytes,           \* size_of
    CodecSlack      \* what encoding_rs adds to its bound on decoded text

ASSUME LayoutAssumption ==
    /\ MaxDamage \in Nat /\ WordMax \in Nat /\ HalfMax \in 0..WordMax
    /\ HeaderLimit \in Nat /\ KeyIndexLimit \in Nat /\ RecordIndexLimit \in Nat
    /\ CompressedLimit \in Nat /\ DecompressedLimit \in Nat
    /\ MetadataLimit \in Nat /\ EntriesLimit \in Nat
    /\ KeyDescriptorBytes \in Nat /\ RecordDescriptorBytes \in Nat
    /\ CodecSlack \in 0..10   \* encoding_rs adds two or three
    /\ Lzo \in BOOLEAN
    /\ HeaderTexts \subseteq HeaderText
    /\ \A w \in Written : w.text \in HeaderText /\ \A d \in FileDeltas : w.len + d \in Nat
    /\ \A o \in Options : o.memory \in Nat

VARIABLES
    opts, written, fileLen,
    damage,     \* how many fields have not read as written so far
    phase,      \* the stage to come, "open" or "rejected"
    why,        \* where and with which error open returned
    text,       \* the header text while it is parsed
    hdr,        \* what is left of it: version, encoding, bits
    sections,   \* the section ranges so far
    decl,       \* the fields of the section header being parsed
    run,        \* locals of the loop over the rows of an index
    keys, records,                 \* the block descriptors
    entries,    \* num_entries of the keyword section
    kept, temp  \* bytes reserved: by RetainedBudget, and until the stage returns

input == <<opts, written, fileLen>>
vars == <<input, damage, phase, why, text, hdr, sections, decl, run, keys, records,
          entries, kept, temp>>

-----------------------------------------------------------------------------

\* What one open is about: the values a call starts with and drops on an error.
NoText == [attrs |-> <<>>]
NoHeader == [version |-> 0]
NoFields == [numBlocks |-> 0]
NoRun == [cursor |-> 0, offset |-> 0, start |-> 0, total |-> 0, texts |-> 0]
NoError == [at |-> "nowhere", error |-> "ok"]

Init ==
    /\ opts \in Options /\ written \in Written
    /\ \E d \in FileDeltas : fileLen = written.len + d
    /\ damage = 0 /\ phase = "start" /\ why = NoError
    /\ text = NoText /\ hdr = NoHeader
    /\ sections = <<>> /\ decl = NoFields /\ run = NoRun
    /\ keys = <<>> /\ records = <<>> /\ entries = 0
    /\ kept = 0 /\ temp = 0

\* Open returns an error; everything it holds is dropped.
Reject(at, error) ==
    /\ phase' = "rejected"
    /\ why' = [at |-> at, error |-> error]
    /\ text' = NoText /\ hdr' = NoHeader
    /\ sections' = <<>> /\ decl' = NoFields /\ run' = NoRun
    /\ keys' = <<>> /\ records' = <<>> /\ entries' = 0
    /\ kept' = 0 /\ temp' = 0

\* `read` is found where `there` was written.
Differences(read, there) == Cardinality({x \in DOMAIN there : read[x] # there[x]})

Finds(differences) ==
    /\ damage + differences <= MaxDamage
    /\ damage' = damage + differences

\* MemoryBudget::reserve, with these bytes reserved by this call before
Reserve(before, bytes) == Need(before + bytes <= opts.memory, "memory")

\* checked_add and checked_mul, add_u64 and mul_u64: the result fits.
Checked(x) == Need(x <= WordMax, "format")

\* ensure_range, also of read_exact_at
EnsureRange(offset, len) ==
    IF offset + len > WordMax THEN "format"
    ELSE IF offset + len > fileLen THEN "truncated" ELSE "ok"

\* Bug: UTF-16 text is taken not to grow when it becomes UTF-8.
MaxDecodedLen_Same(encoding, n) ==
    CASE encoding \in {"utf8", "utf16"} -> n
      [] encoding = "gbk" -> n + (n + 1) \div 2 + CodecSlack

\* TextEncoding::max_decoded_len
MaxDecodedLen(encoding, n) ==
    CASE encoding = "utf8" -> n
      [] encoding = "utf16" -> ((n + 1) \div 2) * 3
      [] encoding = "gbk" -> n + (n + 1) \div 2 + CodecSlack

-----------------------------------------------------------------------------

\* FileSource::open
OpenSource ==
    /\ phase = "start"
    /\ UNCHANGED <<input, damage>>
    /\ IF fileLen = 0 THEN Reject("source", "format")
       ELSE /\ phase' = "source"
            /\ UNCHANGED <<why, text, hdr, sections, decl, run, keys, records, entries, kept, temp>>

\* parse_header, parse_header_bytes_with_limits.  The second copies of the checks
\* of the length cannot fail.
ParseHeaderError(t) ==
    LET total == 4 + t.xmlLen + 4
        estimate == HeaderMemoryEstimate(t.xmlLen)
    IN  FirstError(<<
            Reserve(0, 4),
            EnsureRange(0, 4),
            Need(t.xmlLen <= HeaderLimit, "limit"),
            Need(t.xmlLen % 2 = 0, "format"),
            EnsureRange(0, total),
            Reserve(4, total),
            Checked(estimate),
            Reserve(4 + total, estimate),
            Need(t.sum = "good" \/ ~opts.verify, "checksum"),
            Need(t.utf16 = "good", "decode"),
            ParseSingleTag(t),
            BuildHeader(opts.kind, t.tag, t.attrs).error>>)

ReadHeader ==
    /\ phase = "source"
    /\ \E t \in HeaderTexts \cup {written.text} :
          LET error == ParseHeaderError(t) IN
          /\ t.xmlLen \in 0..HalfMax
          /\ Finds(IF t = written.text THEN 0 ELSE 1)
          /\ UNCHANGED input
          /\ IF error # "ok" THEN Reject("header", error)
             ELSE /\ phase' = "dispatch"
                  /\ text' = t
                  /\ sections' = <<[offset |-> 0, len |-> 4 + t.xmlLen + 4]>>
                  /\ UNCHANGED <<why, hdr, decl, run, keys, records, entries, kept, temp>>

\* open_layout and the first lines of parse_layout: the grammar, the memory of
\* the header, the encodings.
Dispatch ==
    LET h == BuildHeader(opts.kind, text.tag, text.attrs)
        estimate == HeaderMemoryEstimate(text.xmlLen)
        encoding == ForKeys(opts.kind, h.label)
    IN
    /\ phase = "dispatch"
    /\ UNCHANGED <<input, damage>>
    /\ CASE DispatchError(h) # "ok" -> Reject("dispatch", DispatchError(h))
         [] DispatchError(h) = "ok" /\ Reserve(kept, estimate) # "ok" ->
                Reject("retain header", "memory")
         [] DispatchError(h) = "ok" /\ Reserve(kept, estimate) = "ok" /\ encoding = None ->
                Reject("encoding", "unsupported")
         [] OTHER ->
                /\ phase' = "keyword"
                /\ text' = NoText
                /\ hdr' = [version |-> DeclaredMajorVersion(h.generated[1])[1],
                           encoding |-> encoding[1],
                           bits |-> h.encrypted]
                /\ kept' = kept + estimate
                /\ UNCHANGED <<why, sections, decl, run, keys, records, entries, temp>>

-----------------------------------------------------------------------------

\* The width of a field, and of the length of a summary.
Width == IF hdr.version = 1 THEN HalfMax ELSE WordMax
UnitsMax == IF hdr.version = 1 THEN 255 ELSE 65535

SectionEnd == sections[Len(sections)].offset + sections[Len(sections)].len

\* detect_keyword_index_layout: summaries have terminators unless the checksum
\* is good in the legacy byte order only.
Terminated(f) == f.sum # "le"

\* Bug: the legacy variant is taken to have terminators too.
MinIndexRow_Terminated(f) ==
    IF hdr.version = 1 THEN 14 ELSE 28 + 2 * UnitSize(hdr.encoding)

\* minimum_keyword_index_entry_bytes and MIN_KEY_INFO_ROW_LEN: a row of the
\* keyword index with empty summaries.
MinIndexRow(f) ==
    IF hdr.version = 1 THEN 14
    ELSE 28 + (IF Terminated(f) THEN 2 * UnitSize(hdr.encoding) ELSE 0)

\* The length of the keyword index as it is parsed.
IndexLen(f) == IF hdr.version = 1 THEN f.compLen ELSE f.decompLen

\* validate_keyword_header_counts
KeywordCountsError(f) ==
    FirstError(<<
        Need(f.numBlocks <= f.numEntries, "data"),
        Checked(f.numBlocks * MinIndexRow(f)),
        Need(f.numBlocks * MinIndexRow(f) <= IndexLen(f), "data"),
        Checked(f.numBlocks * KeyDescriptorBytes),
        Need(f.numBlocks * KeyDescriptorBytes <= MetadataLimit, "limit")>>)

KeywordHeaderLen == IF hdr.version = 1 THEN 16 ELSE 44

\* What parse_keyword_section of version 1 checks of its header fields.
V1KeywordError(f) ==
    FirstError(<<
        Need(~HasKeywordHeader(hdr.bits) /\ ~HasKeywordIndex(hdr.bits), "unsupported"),
        Reserve(kept, 16),
        EnsureRange(SectionEnd, 16),
        Need(f.compLen <= KeyIndexLimit, "limit")>>)

\* The same of version 2, from the passcode on.
V2KeywordError(f) ==
    FirstError(<<
        Reserve(kept, 44),
        EnsureRange(SectionEnd, 44),
        Need(HasKeywordHeader(hdr.bits) => opts.passcode # "none", "passcode"),
        Need(HasKeywordHeader(hdr.bits) => opts.passcode # "malformed", "data"),
        Need(f.sum # "bad" \/ ~opts.verify, "checksum"),
        Need(f.decompLen <= KeyIndexLimit, "limit"),
        Need(f.compLen <= KeyIndexLimit, "limit"),
        Need(f.compLen >= 8, "data")>>)

\* Where the index, the blocks and the record section are.
KeywordRangesError(f) ==
    LET index == SectionEnd + KeywordHeaderLen IN
    FirstError(<<
        Checked(index), Checked(index + f.compLen), Checked(index + f.compLen + f.blocksLen),
        EnsureRange(index, f.compLen),
        EnsureRange(index + f.compLen, f.blocksLen)>>)

KeywordFields ==
    [numBlocks : 0..Width, numEntries : 0..Width, decompLen : 0..Width, compLen : 0..Width,
     blocksLen : 0..Width, sum : {"be", "le", "bad"}]

\* parse_keyword_section up to the read of the index
KeywordHeaderError(f) ==
    FirstError(<<
        IF hdr.version = 1 THEN V1KeywordError(f) ELSE V2KeywordError(f),
        KeywordCountsError(f),
        KeywordRangesError(f)>>)

KeywordHeader ==
    /\ phase = "keyword"
    /\ \E f \in FieldReads(written.keyword, MaxDamage - damage) :
          LET error == KeywordHeaderError(f)
              index == SectionEnd + KeywordHeaderLen
          IN
          /\ f \in KeywordFields
          /\ Finds(Differences(f, written.keyword))
          /\ UNCHANGED input
          /\ IF error # "ok" THEN Reject("keyword header", error)
             ELSE /\ phase' = "index"
                  /\ decl' = f
                  /\ sections' = sections \o
                        <<[offset |-> SectionEnd, len |-> KeywordHeaderLen],
                          [offset |-> index, len |-> f.compLen],
                          [offset |-> index + f.compLen, len |-> f.blocksLen]>>
                  /\ temp' = KeywordHeaderLen
                  /\ UNCHANGED <<why, text, hdr, run, keys, records, entries, kept>>

\* decode_block of the keyword index: a good stream of a compressed block ends
\* with its last byte and gives as many bytes as declared.
DecodeBlockError(env, compLen, decompLen) ==
    FirstError(<<
        Need(compLen >= 8, "truncated"),
        Need(compLen <= CompressedLimit, "limit"),
        Need(decompLen <= DecompressedLimit, "limit"),
        Need(env.tag # "unknown", "data"),
        Need(env.tag = "lzo" => Lzo, "unsupported"),
        Need(env.tag = "none" => compLen - 8 = decompLen, "data"),
        Need(env.tag # "none" => env.stream = "good", "data"),
        Need(env.tag = "zlib" /\ opts.verify => env.inner = "good", "data"),
        Need(opts.verify => env.sum = "good", "checksum")>>)

\* What open will keep of the keyword section.
RetainedKeys(f) ==
    MaxDecodedLen(hdr.encoding, IndexLen(f)) + f.numBlocks * KeyDescriptorBytes

\* The bytes reserved while the index is parsed, besides the header of the section.
IndexBytes(f) ==
    IF hdr.version = 1 THEN f.compLen ELSE f.compLen + f.decompLen

\* The index is read, decoded, and the descriptors are allocated.
KeywordIndexError(f, env) ==
    FirstError(<<
        Reserve(kept + temp, f.compLen),
        Reserve(kept + temp, IndexBytes(f)),
        Checked(RetainedKeys(f)),
        Reserve(kept + temp + IndexBytes(f), RetainedKeys(f)),
        IF hdr.version = 1 THEN "ok" ELSE DecodeBlockError(env, f.compLen, f.decompLen),
        Need(f.numBlocks * MinIndexRow(f) <= IndexLen(f), "data")>>)

KeywordIndex ==
    /\ phase = "index"
    /\ \E env \in FieldReads(written.env, MaxDamage - damage) :
          LET error == KeywordIndexError(decl, env) IN
          /\ Finds(Differences(env, written.env))
          /\ UNCHANGED input
          /\ IF error # "ok" THEN Reject("keyword index", error)
             ELSE /\ phase' = "key rows"
                  /\ run' = [NoRun EXCEPT !.offset = sections[4].offset]
                  /\ temp' = temp + IndexBytes(decl) + RetainedKeys(decl)
                  /\ UNCHANGED <<why, text, hdr, sections, decl, keys, records, entries, kept>>

-----------------------------------------------------------------------------

\* The bytes of a summary: length, text, terminator.
SummaryLen(units) ==
    LET unit == UnitSize(hdr.encoding) IN
    IF hdr.version = 1 THEN 1 + units * unit
    ELSE 2 + units * unit + (IF Terminated(decl) THEN unit ELSE 0)

KeyRowLen(r) ==
    SummaryLen(r.first) + SummaryLen(r.last) + (IF hdr.version = 1 THEN 4 + 8 ELSE 8 + 16)

\* The capacity TextEncoding::decode gives the two strings.
SummaryBytes(r) ==
    LET unit == UnitSize(hdr.encoding)
        Bytes(n) == IF hdr.encoding = "utf16" THEN (n \div 2) * 3
                    ELSE MaxDecodedLen(hdr.encoding, n)
    IN  Bytes(r.first * unit) + Bytes(r.last * unit)

\* validate_key_block_sizes
KeyBlockError(r) ==
    LET least == r.count * ((IF hdr.version = 1 THEN 4 ELSE 8) + UnitSize(hdr.encoding)) IN
    FirstError(<<
        Need(r.count # 0, "data"),
        Need(r.count <= EntriesLimit, "limit"),
        Need(r.comp <= CompressedLimit, "limit"),
        Need(r.decomp <= DecompressedLimit, "limit"),
        Need(r.comp >= 8, "data"),
        Checked(least),
        Need(least <= r.decomp, "data")>>)

\* What is written where row i of an index is read.
RowAt(rows, i, stray) ==
    IF i <= Len(rows) THEN rows[i] ELSE IF rows # <<>> THEN rows[Len(rows)] ELSE stray

StrayKeyRow == [count |-> 0, first |-> 0, last |-> 0, comp |-> 0, decomp |-> 0, text |-> "good"]

KeyRows ==
    [count : 0..Width, first : 0..UnitsMax, last : 0..UnitsMax,
     comp : 0..Width, decomp : 0..Width, text : {"good", "undecodable", "unterminated"}]

\* One round of the loop of parse_keyword_index_entries
KeywordRowError(r) ==
    FirstError(<<
        Need(run.cursor + KeyRowLen(r) <= IndexLen(decl), "truncated"),
        Need(r.text # "undecodable", "decode"),
        Need(hdr.version = 2 /\ Terminated(decl) => r.text # "unterminated", "format"),
        KeyBlockError(r),
        Checked(run.offset + r.comp),
        Checked(run.start + r.count)>>)

KeywordRow ==
    LET there == RowAt(written.keyRows, Len(keys) + 1, StrayKeyRow) IN
    /\ phase = "key rows" /\ Len(keys) < decl.numBlocks
    /\ \E r \in FieldReads(there, MaxDamage - damage) :
          LET error == KeywordRowError(r) IN
          /\ r \in KeyRows
          /\ Finds(Differences(r, there))
          /\ UNCHANGED input
          /\ IF error # "ok" THEN Reject("keyword row", error)
             ELSE /\ keys' = Append(keys, [count |-> r.count, start |-> run.start, at |-> run.offset,
                                           comp |-> r.comp, decomp |-> r.decomp])
                  /\ run' = [cursor |-> run.cursor + KeyRowLen(r),
                             offset |-> run.offset + r.comp,
                             start |-> run.start + r.count,
                             total |-> run.total + r.comp,
                             texts |-> run.texts + SummaryBytes(r)]
                  /\ UNCHANGED <<phase, why, text, hdr, sections, decl, records, entries, kept, temp>>

\* Bug: the lengths of the blocks are not compared with the section's.
KeywordSumsError_NoTotal ==
    FirstError(<<
        Need(run.cursor = IndexLen(decl), "data"),
        Need(run.start = decl.numEntries, "data")>>)

\* Bug: the entries of the blocks are not compared with the declared count.
KeywordSumsError_NoEntries ==
    FirstError(<<
        Need(run.cursor = IndexLen(decl), "data"),
        Need(run.total = decl.blocksLen, "data")>>)

\* Behind the last row: nothing trails, the sums agree with the header, and the
\* blocks are in the file.
KeywordSumsError ==
    FirstError(<<
        Need(run.cursor = IndexLen(decl), "data"),
        Need(run.start = decl.numEntries, "data"),
        Checked(run.total),
        Need(run.total = decl.blocksLen, "data"),
        IF \A i \in DOMAIN keys : EnsureRange(keys[i].at, keys[i].comp) = "ok"
        THEN "ok" ELSE "truncated">>)

\* parse_keyword_section returns, which drops its reservations, and parse_layout
\* reserves again what is kept.
KeywordDone ==
    /\ phase = "key rows" /\ Len(keys) = decl.numBlocks
    /\ UNCHANGED <<input, damage>>
    /\ CASE KeywordSumsError # "ok" -> Reject("keyword sums", KeywordSumsError)
         [] KeywordSumsError = "ok" /\ Reserve(kept, RetainedKeys(decl)) # "ok" ->
                Reject("retain keys", "memory")
         [] OTHER ->
                /\ phase' = "record"
                /\ entries' = decl.numEntries
                /\ kept' = kept + RetainedKeys(decl)
                /\ temp' = 0
                /\ decl' = NoFields
                /\ run' = [NoRun EXCEPT !.texts = run.texts]
                /\ UNCHANGED <<why, text, hdr, sections, keys, records>>

-----------------------------------------------------------------------------

RecordHeaderLen == IF hdr.version = 1 THEN 16 ELSE 32
RecordRowLen == IF hdr.version = 1 THEN 8 ELSE 16

\* validate_record_header
RecordCountsError(f) ==
    FirstError(<<
        Checked(f.numBlocks * RecordRowLen),
        Need(f.indexLen = f.numBlocks * RecordRowLen, "data"),
        Need(f.indexLen <= RecordIndexLimit, "limit"),
        Checked(f.numBlocks * RecordDescriptorBytes),
        Need(f.numBlocks * RecordDescriptorBytes <= MetadataLimit, "limit")>>)

RetainedRecords(f) == f.numBlocks * RecordDescriptorBytes

RecordFields ==
    [numBlocks : 0..Width, numEntries : 0..Width, indexLen : 0..Width, blocksLen : 0..Width]

\* parse_record_section up to its loop
RecordHeaderError(f) ==
    LET index == SectionEnd + RecordHeaderLen IN
    FirstError(<<
        Reserve(kept, RecordHeaderLen),
        EnsureRange(SectionEnd, RecordHeaderLen),
        RecordCountsError(f),
        Checked(index), Checked(index + f.indexLen),
        EnsureRange(index, f.indexLen),
        EnsureRange(index + f.indexLen, f.blocksLen),
        Reserve(kept + RecordHeaderLen, f.indexLen),
        Reserve(kept + RecordHeaderLen + f.indexLen, RetainedRecords(f))>>)

RecordHeader ==
    /\ phase = "record"
    /\ \E f \in FieldReads(written.record, MaxDamage - damage) :
          LET error == RecordHeaderError(f)
              index == SectionEnd + RecordHeaderLen
          IN
          /\ f \in RecordFields
          /\ Finds(Differences(f, written.record))
          /\ UNCHANGED input
          /\ IF error # "ok" THEN Reject("record header", error)
             ELSE /\ phase' = "record rows"
                  /\ decl' = f
                  /\ sections' = sections \o
                        <<[offset |-> SectionEnd, len |-> RecordHeaderLen],
                          [offset |-> index, len |-> f.indexLen],
                          [offset |-> index + f.indexLen, len |-> f.blocksLen]>>
                  /\ run' = [run EXCEPT !.offset = index + f.indexLen]
                  /\ temp' = RecordHeaderLen + f.indexLen + RetainedRecords(f)
                  /\ UNCHANGED <<why, text, hdr, keys, records, entries, kept>>

\* validate_record_block_sizes
RecordBlockError(r) ==
    FirstError(<<
        Need(r.comp <= CompressedLimit, "limit"),
        Need(r.decomp <= DecompressedLimit, "limit"),
        Need(r.comp >= 8, "data")>>)

StrayRecordRow == [comp |-> 0, decomp |-> 0]

RecordRows == [comp : 0..Width, decomp : 0..Width]

\* One round of the loop of parse_record_section
RecordRowError(r) ==
    FirstError(<<
        Need(run.cursor + RecordRowLen <= decl.indexLen, "truncated"),
        RecordBlockError(r),
        EnsureRange(run.offset, r.comp),
        Checked(run.start + r.decomp),
        Checked(run.total + r.comp)>>)

RecordRow ==
    LET there == RowAt(written.recordRows, Len(records) + 1, StrayRecordRow) IN
    /\ phase = "record rows" /\ Len(records) < decl.numBlocks
    /\ \E r \in FieldReads(there, MaxDamage - damage) :
          LET error == RecordRowError(r) IN
          /\ r \in RecordRows
          /\ Finds(Differences(r, there))
          /\ UNCHANGED input
          /\ IF error # "ok" THEN Reject("record row", error)
             ELSE /\ records' = Append(records, [at |-> run.offset, comp |-> r.comp,
                                                 start |-> run.start, decomp |-> r.decomp])
                  /\ run' = [run EXCEPT !.cursor = @ + RecordRowLen, !.offset = @ + r.comp,
                                        !.start = @ + r.decomp, !.total = @ + r.comp]
                  /\ UNCHANGED <<phase, why, text, hdr, sections, decl, keys, entries, kept, temp>>

RecordSumsError ==
    FirstError(<<
        Need(run.total = decl.blocksLen, "data"),
        Need(run.cursor = decl.indexLen, "data"),
        Checked(sections[7].offset + decl.blocksLen),
        Need(run.offset = sections[7].offset + decl.blocksLen, "data")>>)

\* parse_record_section returns; parse_layout reserves what is kept and compares
\* the entry counts of the two sections.
RecordDone ==
    /\ phase = "record rows" /\ Len(records) = decl.numBlocks
    /\ UNCHANGED <<input, damage>>
    /\ CASE RecordSumsError # "ok" -> Reject("record sums", RecordSumsError)
         [] RecordSumsError = "ok" /\ Reserve(kept, RetainedRecords(decl)) # "ok" ->
                Reject("retain records", "memory")
         [] /\ RecordSumsError = "ok" /\ Reserve(kept, RetainedRecords(decl)) = "ok"
            /\ entries # decl.numEntries -> Reject("entry counts", "data")
         [] OTHER ->
                /\ phase' = "verify"
                /\ kept' = kept + RetainedRecords(decl)
                /\ temp' = 0
                /\ decl' = NoFields
                /\ run' = [NoRun EXCEPT !.start = run.start, !.texts = run.texts]
                /\ UNCHANGED <<why, text, hdr, sections, keys, records, entries>>

-----------------------------------------------------------------------------

\* A sequence of parts covers from..to without a gap.
Covers(parts, Start(_), Size(_), from, to) ==
    LET n == Len(parts) IN
    IF n = 0 THEN from = to
    ELSE /\ Start(parts[1]) = from
         /\ \A i \in 1..(n - 1) : Start(parts[i + 1]) = Start(parts[i]) + Size(parts[i])
         /\ Start(parts[n]) + Size(parts[n]) = to

SectionsContiguous ==
    \A i \in 1..6 : sections[i + 1].offset = sections[i].offset + sections[i].len

OrdinalsCovered ==
    LET Start(k) == k.start
        Size(k) == k.count
    IN  Covers(keys, Start, Size, 0, entries)

RecordsCovered ==
    LET Start(r) == r.start
        Size(r) == r.decomp
    IN  Covers(records, Start, Size, 0, run.start)

\* ValidatedLayout::verify.  run.start is total_decoded_record_len.
VerifyError ==
    FirstError(<<
        Need(SectionsContiguous, "data"),
        Checked(SectionEnd),
        Need(OrdinalsCovered, "data"),
        Need(RecordsCovered, "data")>>)

Verify ==
    /\ phase = "verify"
    /\ UNCHANGED <<input, damage>>
    /\ IF VerifyError # "ok" THEN Reject("verify", VerifyError)
       ELSE /\ phase' = "open"
            /\ UNCHANGED <<why, text, hdr, sections, decl, run, keys, records, entries, kept, temp>>

\* A read or an allocation may fail in every stage that does one.
Fails ==
    /\ UNCHANGED <<input, damage>>
    /\ \/ /\ phase \in {"start", "source", "keyword", "index", "record"}
          /\ Reject(phase, "io")
       \/ /\ phase \in {"source", "keyword", "index", "key rows", "record"}
          /\ Reject(phase, "allocation")

\* Open has returned.
Returned ==
    /\ phase \in {"open", "rejected"}
    /\ UNCHANGED vars

Next ==
    \/ OpenSource \/ ReadHeader \/ Dispatch
    \/ KeywordHeader \/ KeywordIndex \/ KeywordRow \/ KeywordDone
    \/ RecordHeader \/ RecordRow \/ RecordDone
    \/ Verify \/ Fails \/ Returned

Spec == Init /\ [][Next]_vars

-----------------------------------------------------------------------------

TypeOK ==
    /\ phase \in {"start", "source", "dispatch", "keyword", "index", "key rows", "record",
                  "record rows", "verify", "open", "rejected"}
    /\ kept \in Nat /\ temp \in Nat /\ entries \in Nat
    /\ run \in [{"cursor", "offset", "start", "total", "texts"} -> Nat]
    /\ sections \in Seq([offset : Nat, len : Nat])
    /\ keys \in Seq([count : Nat, start : Nat, at : Nat, comp : Nat, decomp : Nat])
    /\ records \in Seq([at : Nat, comp : Nat, start : Nat, decomp : Nat])

KeyBlocksTile ==
    LET At(b) == b.at
        Size(b) == b.comp
    IN  Covers(keys, At, Size, sections[4].offset, sections[4].offset + sections[4].len)

RecordBlocksTile ==
    LET At(b) == b.at
        Size(b) == b.comp
    IN  Covers(records, At, Size, sections[7].offset, sections[7].offset + sections[7].len)

\* What a dictionary relies on once it is open, whatever numbers the file holds:
\* the seven sections follow one another from the start of the file and end in it
\* ("only ever constructed after the producing grammar has proven containment"),
\* the blocks of either kind tile their section, and the ordinals and the decoded
\* record stream are covered without gap or overlap, by key blocks of which none is
\* empty.  BlockCache takes this for granted.
OpenTiles ==
    phase = "open" =>
        /\ Len(sections) = 7 /\ sections[1].offset = 0
        /\ SectionsContiguous
        /\ SectionEnd <= fileLen
        /\ KeyBlocksTile /\ RecordBlocksTile
        /\ OrdinalsCovered /\ RecordsCovered
        /\ \A i \in DOMAIN keys : keys[i].count > 0

\* "Grammars validate as they parse": once a section is parsed, nothing behind the
\* parse rejects it.  The verification at the end never has anything left to find,
\* and the metadata, reserved once for the parse and, after that reservation is
\* dropped, once more for the life of the dictionary, is not refused then.
ParsedIsKept == why.at \notin {"verify", "retain header", "retain keys", "retain records"}

\* What open allocates is reserved: while the keyword index is parsed, its bytes,
\* the descriptors and every summary string decoded so far, each with the
\* capacity its own decoder asks for; afterwards what it keeps.  And no more is
\* reserved than working_memory_bytes.
AllocationsCovered ==
    /\ kept + temp <= opts.memory
    /\ phase = "key rows" =>
          KeywordHeaderLen + IndexBytes(decl) + decl.numBlocks * KeyDescriptorBytes
              + run.texts <= temp
    /\ phase \in {"record", "record rows", "verify", "open"} =>
          HeaderMemoryEstimate(sections[1].len - 8) + Len(keys) * KeyDescriptorBytes
              + run.texts <= kept

\* The memory an undamaged file needs: the largest of the three stages.
PeakOf(w) ==
    LET estimate == HeaderMemoryEstimate(w.text.xmlLen)
        indexLen == IF w.version = 1 THEN w.keyword.compLen ELSE w.keyword.decompLen
        keyMetadata == MaxDecodedLen(w.encoding, indexLen)
                       + w.keyword.numBlocks * KeyDescriptorBytes
        recordMetadata == w.record.numBlocks * RecordDescriptorBytes
        atHeader == 4 + (w.text.xmlLen + 8) + estimate
        atKeys == estimate + keyMetadata + w.keyword.compLen
                  + (IF w.version = 1 THEN 16 ELSE 44 + w.keyword.decompLen)
        atRecords == estimate + keyMetadata + recordMetadata + w.record.indexLen
                     + (IF w.version = 1 THEN 16 ELSE 32)
    IN  CHOOSE m \in {atHeader, atKeys, atRecords} :
            m >= atHeader /\ m >= atKeys /\ m >= atRecords

\* A file that reads as it was written opens, with exactly the blocks written,
\* unless it is not the kind asked for, is cut short, needs a passcode it is not
\* given, or needs more memory than there is; a read or an allocation may fail.
WrittenFilesOpen ==
    /\ phase = "rejected" /\ damage = 0 =>
          \/ why.error \in {"io", "allocation"}
          \/ opts.kind # written.kind
          \/ fileLen < written.len
          \/ HasKeywordHeader(written.bits) /\ opts.passcode # "given"
          \/ opts.memory < PeakOf(written)
    /\ phase = "open" /\ damage = 0 =>
          /\ hdr = [version |-> written.version, encoding |-> written.encoding,
                    bits |-> written.bits]
          /\ opts.memory >= PeakOf(written)
          /\ [i \in DOMAIN keys |-> <<keys[i].count, keys[i].comp, keys[i].decomp>>]
                = [i \in DOMAIN written.keyRows |-> <<written.keyRows[i].count,
                      written.keyRows[i].comp, written.keyRows[i].decomp>>]
          /\ [i \in DOMAIN records |-> <<records[i].comp, records[i].decomp>>]
                = [i \in DOMAIN written.recordRows |-> <<written.recordRows[i].comp,
                      written.recordRows[i].decomp>>]

\* Aliases of an attribute count the same wherever they stand: a header that is
\* accepted is accepted, with the same fields, in every order of its attributes.
AliasOrderIrrelevant ==
    phase = "dispatch" =>
        LET n == Len(text.attrs) IN
        \A p \in {q \in [1..n -> 1..n] : \A i, j \in 1..n : q[i] = q[j] => i = j} :
            LET other == [text EXCEPT !.attrs = [i \in 1..n |-> text.attrs[p[i]]]] IN
            /\ ParseSingleTag(other) = "ok"
            /\ BuildHeader(opts.kind, text.tag, other.attrs)
                  = BuildHeader(opts.kind, text.tag, text.attrs)

=============================================================================
