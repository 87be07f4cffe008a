----------------------------- MODULE IndexLayout -----------------------------
(***************************************************************************)
(* Where everything in a persistent key index is, as the builder computes  *)
(* and writes it and as open checks it (validate_options, build_header,    *)
(* write_built_index, parse_header and validate_section_layout in          *)
(* src/core/persistent/format.rs, build_metadata_plan in build.rs and      *)
(* open_file in cache.rs).                                                 *)
(*                                                                         *)
(* The file is a fixed header, one checksum per chunk of each of the four  *)
(* sections, and the sections, each aligned to eight bytes.  Numbers are   *)
(* natural: where the code uses checked u64 arithmetic an overflow is      *)
(* refused, and so is the same header here, by a later check of a bound.   *)
(* Magic, endian marker, revisions, section count and zero padding are     *)
(* abstracted to one flag, the header's own checksum to whether it is      *)
(* right for the header.  The bytes of the sections are in ChunkCache.     *)
(***************************************************************************)
EXTENDS Integers, Sequences

CONSTANTS
    RowCounts,      \* key_count of a dictionary
    TextLens,       \* the length of all its normalized keys
    MaxOrdinal,     \* u32::MAX
    Options,        \* KeyIndexOptions: chunk, maxMetadata, maxIndex, buildMemory, verify
    FieldDeltas,    \* bound: by how much damage changes a header field
    MaxDamage       \* bound: how many fields it changes

ASSUME LayoutConstants ==
    /\ RowCounts \subseteq Nat /\ TextLens \subseteq Nat /\ MaxOrdinal \in Nat
    /\ Options \subseteq [chunk : Nat, maxMetadata : Nat, maxIndex : Nat,
                          buildMemory : Nat, verify : BOOLEAN]
    /\ FieldDeltas \subseteq Int
    /\ MaxDamage \in Nat

HeaderBytes == 224
MinChunkBytes == 64
MinBuildMemory == 256

Sections == 1..4   \* Text, Bounds, Raw, Order

-----------------------------------------------------------------------------

Align8(x) == ((x + 7) \div 8) * 8

\* chunk_count: the last chunk may be short, an empty section has none.
ChunkCount(len, chunk) == (len + chunk - 1) \div chunk

\* is_power_of_two: no odd divisor but 1
IsPowerOfTwo(n) == n > 0 /\ \A d \in 2..n : n % d = 0 => d % 2 = 0

\* validate_options
ValidOptions(opt) ==
    /\ opt.buildMemory >= MinBuildMemory
    /\ opt.chunk \in MinChunkBytes..opt.buildMemory /\ IsPowerOfTwo(opt.chunk)
    /\ opt.maxMetadata >= HeaderBytes

SectionLens(rows, text) == <<text, 8 * (rows + 1), 4 * rows, 4 * rows>>

\* How many checksums the sections before section i have.
StartOf(counts, i) ==
    CASE i = 1 -> 0
      [] i = 2 -> counts[1]
      [] i = 3 -> counts[1] + counts[2]
      [] i = 4 -> counts[1] + counts[2] + counts[3]

Total(counts) == counts[1] + counts[2] + counts[3] + counts[4]

\* Bug: the bounds section is taken to have one slot per row.
PlanAllows_NoLastBound(rows, text, opt) ==
    LET slots == (opt.maxMetadata - HeaderBytes) \div 4
        fixed == 2 * ChunkCount(4 * rows, opt.chunk) + ChunkCount(8 * rows, opt.chunk)
    IN  fixed <= slots /\ text <= (slots - fixed) * opt.chunk

\* build_metadata_plan and the check of it after every row: the checksums of all
\* sections must fit, which leaves the text so many chunks.
PlanAllows(rows, text, opt) ==
    LET slots == (opt.maxMetadata - HeaderBytes) \div 4
        fixed == 2 * ChunkCount(4 * rows, opt.chunk) + ChunkCount(8 * (rows + 1), opt.chunk)
    IN  fixed <= slots /\ text <= (slots - fixed) * opt.chunk

\* build_header, before its two limits
Header(rows, text, opt) ==
    LET lens == SectionLens(rows, text)
        counts == [i \in Sections |-> ChunkCount(lens[i], opt.chunk)]
        o1 == Align8(HeaderBytes + 4 * Total(counts))
        o2 == Align8(o1 + lens[1])
        o3 == Align8(o2 + lens[2])
        o4 == Align8(o3 + lens[3])
        offsets == <<o1, o2, o3, o4>>
    IN  [headerLen |-> HeaderBytes,
         total |-> o4 + lens[4],
         chunk |-> opt.chunk,
         keyCount |-> rows,
         textLen |-> text,
         sections |-> [i \in Sections |-> [offset |-> offsets[i], len |-> lens[i],
                                           start |-> StartOf(counts, i), count |-> counts[i]]],
         marks |-> TRUE,
         summed |-> opt.verify]

\* A header as its bytes can be read: every field is unsigned.
HeaderType ==
    [headerLen : Nat, total : Nat, chunk : Nat, keyCount : Nat, textLen : Nat,
     sections : [Sections -> [offset : Nat, len : Nat, start : Nat, count : Nat]],
     marks : BOOLEAN, summed : BOOLEAN]

MetadataBytes(h) ==
    HeaderBytes + 4 * Total([i \in Sections |-> h.sections[i].count])

-----------------------------------------------------------------------------

\* parse_header, for a file that is actualLen bytes long
ParseHeader(h, actualLen, opt) ==
    /\ h.marks
    /\ h.headerLen = HeaderBytes /\ HeaderBytes <= actualLen
    /\ opt.verify => h.summed
    /\ h.total = actualLen /\ h.total <= opt.maxIndex
    /\ h.chunk >= MinChunkBytes /\ IsPowerOfTwo(h.chunk) /\ h.chunk <= opt.chunk
    /\ h.keyCount <= MaxOrdinal
    /\ \A i \in Sections :
          /\ h.sections[i].start = StartOf([j \in Sections |-> h.sections[j].count], i)
          /\ h.sections[i].count = ChunkCount(h.sections[i].len, h.chunk)
    /\ MetadataBytes(h) <= opt.maxMetadata
    /\ \A i \in Sections : h.sections[i].len = SectionLens(h.keyCount, h.textLen)[i]

\* Bug: a section may start anywhere after its predecessor.
SectionLayout_Gaps(h, actualLen) ==
    LET s == h.sections IN
    /\ s[1].offset >= Align8(MetadataBytes(h))
    /\ \A i \in 2..4 : s[i].offset >= s[i - 1].offset
    /\ \A i \in Sections : s[i].offset % 8 = 0 /\ s[i].offset + s[i].len <= actualLen
    /\ s[4].offset + s[4].len = h.total

\* Bug: the first section is looked for right behind the checksum table.
SectionLayout_Unaligned(h, actualLen) ==
    LET s == h.sections IN
    /\ s[1].offset = MetadataBytes(h)
    /\ \A i \in 2..4 : s[i].offset = Align8(s[i - 1].offset + s[i - 1].len)
    /\ \A i \in Sections : s[i].offset + s[i].len <= actualLen
    /\ s[4].offset + s[4].len = h.total

\* validate_section_layout
SectionLayout(h, actualLen) ==
    LET s == h.sections IN
    /\ s[1].offset = Align8(MetadataBytes(h))
    /\ \A i \in 2..4 : s[i].offset = Align8(s[i - 1].offset + s[i - 1].len)
    /\ \A i \in Sections : s[i].offset + s[i].len <= actualLen
    /\ s[4].offset + s[4].len = h.total

\* open_file, as far as it is about the layout
Accepts(h, actualLen, opt) ==
    /\ ValidOptions(opt)
    /\ actualLen <= opt.maxIndex
    /\ ParseHeader(h, actualLen, opt)
    /\ SectionLayout(h, actualLen)

-----------------------------------------------------------------------------

VARIABLES
    rowCount,  \* what is indexed
    text,
    options,   \* the builder's options
    phase,     \* how far the build is, or how it ended
    header,    \* the header written
    position,  \* the write position in the destination
    section,   \* the section to be written next
    length,    \* the length of the file a reader finds
    damage,    \* how often the file was damaged
    reader,    \* the options a reader opened it with
    accepted   \* and whether that succeeded

layoutVars == <<rowCount, text, options, phase, header, position, section, length, damage,
                reader, accepted>>

NoHeader == [marks |-> FALSE]
NoReader == [verify |-> FALSE]

LayoutInit ==
    /\ rowCount \in RowCounts
    /\ text \in TextLens
    /\ rowCount = 0 => text = 0
    /\ options \in Options
    /\ phase = "start"
    /\ header = NoHeader
    /\ position = 0
    /\ section = 1
    /\ length = 0
    /\ damage = 0
    /\ reader = NoReader
    /\ accepted = FALSE

reading == <<length, damage, reader, accepted>>

\* An ordinal has 32 bits.
TooManyRows == rowCount > MaxOrdinal

\* The build up to its last row.
ScanRows ==
    /\ phase = "start"
    /\ phase' = IF ~ValidOptions(options) THEN "options"
                ELSE IF TooManyRows THEN "entries"
                ELSE IF PlanAllows(rowCount, text, options) THEN "scanned"
                ELSE "limit"
    /\ UNCHANGED <<rowCount, text, options, header, position, section, reading>>

\* build_header with its limits on the metadata and on the file.
BuildHeader ==
    LET h == Header(rowCount, text, options) IN
    /\ phase = "scanned"
    /\ phase' = IF MetadataBytes(h) > options.maxMetadata THEN "limitLate"
                ELSE IF h.total > options.maxIndex THEN "indexLimit"
                ELSE "built"
    /\ header' = h
    /\ UNCHANGED <<rowCount, text, options, position, section, reading>>

\* write_built_index: the header and the checksum table.
WriteTable ==
    /\ phase = "built"
    /\ phase' = "sections"
    /\ position' = MetadataBytes(header)
    /\ UNCHANGED <<rowCount, text, options, header, section, reading>>

\* Padding, then the section; pad_to refuses to go back or to pad a whole word.
WriteSection ==
    LET s == header.sections[section]
        padding == s.offset - position
    IN
    /\ phase = "sections" /\ section <= 4
    /\ phase' = IF padding \in 0..7 THEN "sections" ELSE "invalid"
    /\ position' = position + padding + s.len
    /\ section' = section + 1
    /\ UNCHANGED <<rowCount, text, options, header, reading>>

\* What was written must be as long as the header says.
FinishWrite ==
    /\ phase = "sections" /\ section > 4
    /\ phase' = IF position = header.total THEN "written" ELSE "invalid"
    /\ length' = position
    /\ UNCHANGED <<rowCount, text, options, header, position, section, damage, reader, accepted>>

\* Headers that differ from h in one field.
OtherHeaders(h) ==
    UNION {{[h EXCEPT !.sections[i].offset = @ + d], [h EXCEPT !.sections[i].len = @ + d],
            [h EXCEPT !.sections[i].start = @ + d], [h EXCEPT !.sections[i].count = @ + d],
            [h EXCEPT !.total = @ + d], [h EXCEPT !.keyCount = @ + d],
            [h EXCEPT !.textLen = @ + d]} : i \in Sections, d \in FieldDeltas}
    \cup {[h EXCEPT !.chunk = 2 * @], [h EXCEPT !.marks = FALSE],
          [h EXCEPT !.summed = ~@]}

\* The file on disk is not the one written: a field of the header or the length
\* of the file differs.  The header's checksum may have been made to fit again.
Damage ==
    /\ phase = "written" /\ reader = NoReader /\ damage < MaxDamage
    /\ damage' = damage + 1
    /\ \/ header' \in OtherHeaders(header) \cap HeaderType /\ UNCHANGED length
       \/ \E d \in FieldDeltas : /\ length + d \in Nat
                                /\ length' = length + d
                                /\ UNCHANGED header
    /\ UNCHANGED <<rowCount, text, options, phase, position, section, reader, accepted>>

\* open_key_index, with any options.
Open(opt) ==
    /\ phase = "written" /\ reader = NoReader
    /\ reader' = opt
    /\ accepted' = Accepts(header, length, opt)
    /\ UNCHANGED <<rowCount, text, options, phase, header, position, section, length, damage>>

LayoutNext ==
    \/ ScanRows \/ BuildHeader \/ WriteTable \/ WriteSection \/ FinishWrite
    \/ Damage
    \/ \E opt \in Options : Open(opt)

LayoutSpec == LayoutInit /\ [][LayoutNext]_layoutVars

-----------------------------------------------------------------------------

\* The early check of build_metadata_plan and the late one of build_header are
\* the same limit: no build is stopped after its sort for metadata that its plan
\* allowed, and none is stopped early that would have fitted.
PlanExact ==
    /\ phase # "limitLate"
    /\ phase = "limit" => MetadataBytes(Header(rowCount, text, options)) > options.maxMetadata

\* The offsets computed and the bytes written agree (padding stays below a word,
\* no section overlaps its predecessor, the file ends where the header says), an
\* index file opens again with the options it was built with, and "such an
\* artifact must be reopened with Skip" holds of one without checksums.
RoundTrip ==
    /\ phase # "invalid"
    /\ damage = 0 /\ reader # NoReader =>
        /\ reader = options => accepted
        /\ reader.verify /\ ~options.verify => ~accepted

\* The bytes of chunk c of section s.
ChunkBytes(h, s, c) ==
    LET from == h.sections[s].offset + c * h.chunk
        end == h.sections[s].offset + h.sections[s].len
    IN  [from |-> from, to |-> IF from + h.chunk <= end THEN from + h.chunk ELSE end]

Chunks(h) == UNION {{<<s, c>> : c \in 0..(h.sections[s].count - 1)} : s \in Sections}

\* Whatever header a file has, once it is accepted every chunk is a nonempty
\* range of the file behind the checksum table, no two chunks share a byte, and
\* each has a checksum of its own in the table.
AcceptedTiles ==
    accepted =>
        LET h == header
            range(k) == ChunkBytes(h, k[1], k[2])
            slot(k) == h.sections[k[1]].start + k[2]
        IN
        /\ h.total = length
        /\ \A k \in Chunks(h) :
              /\ HeaderBytes + 4 * (slot(k) + 1) <= range(k).from
              /\ MetadataBytes(h) <= range(k).from
              /\ range(k).from < range(k).to /\ range(k).to <= length
        /\ \A k, l \in Chunks(h) : k # l =>
              /\ slot(k) # slot(l)
              /\ range(k).to <= range(l).from \/ range(l).to <= range(k).from
        /\ \A s \in Sections :   \* the chunks of a section make up all of it
              h.sections[s].len > 0 =>
                  \E c \in 0..(h.sections[s].count - 1) :
                      ChunkBytes(h, s, c).to = h.sections[s].offset + h.sections[s].len

=============================================================================
