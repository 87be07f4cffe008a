----------------------------- MODULE ChunkCache -----------------------------
(***************************************************************************)
(* How an open persistent key index reads its sections: one cached chunk   *)
(* per section and one cached page of the checksum table (IndexSource,     *)
(* load_verified_chunk, expected_checksum and read_section in              *)
(* src/core/persistent/cache.rs).                                          *)
(*                                                                         *)
(* A read holds the mutex of the chunk cache from its first chunk to its   *)
(* last, so there is one read at a time; what changes between two chunks   *)
(* of it is the file, which is not locked: bytes may be damaged, or be     *)
(* restored.  A byte is abstracted to the position it was written for, or  *)
(* to Garbage if the disk no longer holds what was written there.  A       *)
(* checksum fits exactly the bytes it was computed of: that two contents   *)
(* share an Adler-32 is not modelled.                                      *)
(***************************************************************************)
EXTENDS Integers, Sequences

CONSTANTS
    SectionLens,  \* length of each section, as validated by open
    ChunkBytes,   \* IndexHeader.chunk_bytes
    PageSlots,    \* how many checksums a page of the table holds
    Policies,     \* KeyIndexOptions.checksum_policy: TRUE to verify
    Damages       \* which bytes and which checksums may be damaged at a time

Sections == DOMAIN SectionLens
ChunkCount(s) == (SectionLens[s] + ChunkBytes - 1) \div ChunkBytes
Positions(s) == 0..(SectionLens[s] - 1)

\* SectionDescriptor.checksum_start, and checksum_count at the end
ChecksumStart[s \in 1..(Len(SectionLens) + 1)] ==
    IF s = 1 THEN 0 ELSE ChecksumStart[s - 1] + ChunkCount(s - 1)
TableSlots == ChecksumStart[Len(SectionLens) + 1]

Undamaged == [bytes |-> {}, slots |-> {}]

ASSUME ChunkAssumption ==
    /\ SectionLens \in Seq(Nat)
    /\ ChunkBytes \in Nat \ {0} /\ PageSlots \in Nat \ {0}
    /\ Policies \subseteq BOOLEAN
    /\ \A d \in Damages :
          /\ d.bytes \subseteq UNION {{s} \X Positions(s) : s \in Sections}
          /\ d.slots \subseteq 0..(TableSlots - 1)

VARIABLES
    verify,   \* the policy of this handle
    disk,     \* what is damaged in the file now
    ever,     \* history: what has been damaged at some time
    slots,    \* chunk_cache: the chunk each section has, if its number is not None
    page,     \* checksum_cache
    read,     \* the read in progress
    result    \* what the last read returned

vars == <<verify, disk, ever, slots, page, read, result>>

None == -1
Garbage == -1
NoRead == [section |-> 0]
NoResult == [tag |-> "none"]
IoError == [tag |-> "io"]
Rejected == [tag |-> "rejected"]

Least(a, b) == IF a <= b THEN a ELSE b
Greatest(a, b) == IF a >= b THEN a ELSE b

ChunkLen(s, c) == Least(SectionLens[s] - c * ChunkBytes, ChunkBytes)

\* The bytes that were written for chunk c of section s, and those there now.
Written(s, c) == [i \in 1..ChunkLen(s, c) |-> c * ChunkBytes + i - 1]
OnDisk(s, c) ==
    [i \in 1..ChunkLen(s, c) |->
        IF <<s, c * ChunkBytes + i - 1>> \in disk.bytes THEN Garbage
        ELSE c * ChunkBytes + i - 1]

EmptySlot == [number |-> None, bytes |-> <<>>]

Init ==
    /\ verify \in Policies
    /\ disk \in Damages
    /\ ever = disk
    /\ slots = [s \in Sections |-> EmptySlot]
    /\ page = [number |-> None, bad |-> {}]
    /\ read = NoRead
    /\ result = NoResult

-----------------------------------------------------------------------------

\* The page of the table that holds checksum number index.
PageOf(index) == index \div PageSlots

PageRange(p) == (p * PageSlots)..(Least((p + 1) * PageSlots, TableSlots) - 1)

\* expected_checksum: the page afterwards, and whether it could be read.  The
\* page is disowned before it is overwritten.
ExpectedChecksum(index) ==
    LET p == PageOf(index) IN
    IF page.number = p THEN {[ok |-> TRUE, page |-> page]}
    ELSE {[ok |-> TRUE, page |-> [number |-> p, bad |-> disk.slots \cap PageRange(p)]],
          [ok |-> FALSE, page |-> [number |-> None, bad |-> {}]]}

\* What a slot is left with when a read into it fails half way.
Overwritten(s, c) ==
    [number |-> None, bytes |-> [i \in 1..ChunkLen(s, c) |-> Garbage]]

\* A chunk that is not cached: the slot is disowned, overwritten, compared with
\* the checksum expected (FALSE: it cannot fit), and only then given its number.
ReadChunk(s, c, expected) ==
    {IF verify /\ ~(expected /\ OnDisk(s, c) = Written(s, c))
     THEN [tag |-> "rejected", slot |-> EmptySlot]
     ELSE [tag |-> "ok", slot |-> [number |-> c, bytes |-> OnDisk(s, c)]],
     [tag |-> "io", slot |-> Overwritten(s, c)]}

\* Bug: every section is taken to start the table.
ChecksumIndex_NoStart(s, c) == c

\* Which checksum of the table is that of chunk c of section s.
ChecksumIndex(s, c) == ChecksumStart[s] + c

\* load_verified_chunk: first the checksum, also for a chunk that is cached.
LoadVerifiedChunk(s, c) ==
    LET index == ChecksumIndex(s, c)
        hit == slots[s].number = c /\ Len(slots[s].bytes) = ChunkLen(s, c)
        chunk(expected) ==
            IF hit THEN {[tag |-> "ok", slot |-> slots[s]]} ELSE ReadChunk(s, c, expected)
    IN
    IF ~verify
    THEN {[tag |-> d.tag, slot |-> d.slot, page |-> page] : d \in chunk(TRUE)}
    ELSE UNION {
           IF ~e.ok THEN {[tag |-> "io", slot |-> slots[s], page |-> e.page]}
           ELSE {[tag |-> d.tag, slot |-> d.slot, page |-> e.page] :
                    d \in chunk(index \notin e.page.bad)} :
             e \in ExpectedChecksum(index)}

-----------------------------------------------------------------------------

\* read_section and the readers of one array element: a read of len bytes at
\* offset begins; one that leaves the section is refused.  (The memory for the
\* result may be refused before anything is read.)
BeginRead(s, offset, len) ==
    /\ read = NoRead
    /\ IF offset + len > SectionLens[s] THEN read' = read /\ result' = Rejected
       ELSE IF len = 0 THEN read' = read /\ result' = [tag |-> "ok", bytes |-> <<>>,
                                                       section |-> s, offset |-> offset, len |-> 0]
       ELSE /\ read' = [section |-> s, offset |-> offset, end |-> offset + len,
                        chunk |-> offset \div ChunkBytes,
                        output |-> [i \in 1..len |-> 0]]
            /\ result' = NoResult
    /\ UNCHANGED <<verify, disk, ever, slots, page>>

\* Bug: a chunk is copied from its first byte on.
CopyChunk_FromStart(r, bytes) ==
    LET chunkStart == r.chunk * ChunkBytes
        copyEnd == Least(r.end, chunkStart + Len(bytes))
        copyStart == Greatest(r.offset, chunkStart)
    IN  [i \in DOMAIN r.output |->
            LET at == r.offset + i - 1 IN
            IF copyStart <= at /\ at < copyEnd THEN bytes[at - copyStart + 1] ELSE r.output[i]]

\* The part of the chunk that is in the range, copied to its place in the output.
CopyChunk(r, bytes) ==
    LET chunkStart == r.chunk * ChunkBytes
        copyStart == Greatest(r.offset, chunkStart)
        copyEnd == Least(r.end, chunkStart + Len(bytes))
    IN  [i \in DOMAIN r.output |->
            LET at == r.offset + i - 1 IN
            IF copyStart <= at /\ at < copyEnd THEN bytes[at - chunkStart + 1] ELSE r.output[i]]

\* The last chunk of a read.
LastChunk(r) == (r.end - 1) \div ChunkBytes

\* One turn of the loop of read_section_into_cached.
ReadNext ==
    LET s == read.section IN
    /\ read # NoRead
    /\ \E d \in LoadVerifiedChunk(s, read.chunk) :
          /\ slots' = [slots EXCEPT ![s] = d.slot]
          /\ page' = d.page
          /\ IF d.tag # "ok" THEN read' = NoRead /\ result' = [tag |-> d.tag]
             ELSE LET output == CopyChunk(read, d.slot.bytes) IN
                  IF read.chunk < LastChunk(read)
                  THEN /\ read' = [read EXCEPT !.chunk = @ + 1, !.output = output]
                       /\ result' = result
                  ELSE /\ read' = NoRead
                       /\ result' = [tag |-> "ok", bytes |-> output, section |-> s,
                                     offset |-> read.offset, len |-> read.end - read.offset]
    /\ UNCHANGED <<verify, disk, ever>>

\* The file changes under the reader.
Change(d) ==
    /\ d # disk
    /\ disk' = d
    /\ ever' = [bytes |-> ever.bytes \cup d.bytes, slots |-> ever.slots \cup d.slots]
    /\ UNCHANGED <<verify, slots, page, read, result>>

Next ==
    \/ \E s \in Sections : \E offset, len \in 0..(SectionLens[s] + 1) : BeginRead(s, offset, len)
    \/ ReadNext
    \/ \E d \in Damages : Change(d)

Spec == Init /\ [][Next]_vars

-----------------------------------------------------------------------------

\* chunk_cache: a slot with a number holds a whole chunk of that number, and in
\* Verify mode exactly what was written, whatever failed while it was loaded
\* ("The verified bytes stay in the bounded per-section cache and are the bytes
\* interpreted").
SlotsSound ==
    \A s \in Sections :
        LET n == slots[s].number IN
        n # None =>
            /\ Len(slots[s].bytes) = ChunkLen(s, n)
            /\ verify => slots[s].bytes = Written(s, n)
            /\ \A i \in 1..ChunkLen(s, n) :
                  \/ slots[s].bytes[i] = n * ChunkBytes + i - 1
                  \/ <<s, n * ChunkBytes + i - 1>> \in ever.bytes

\* read_section: a read that returns has exactly the bytes of its range, over
\* any number of chunks, cached or loaded between other reads and while the file
\* changes.  In Verify mode no damaged byte is among them; with Skip one is only
\* where the file was damaged.  And what stays cached for the next read is sound.
ReadExact ==
    /\ SlotsSound
    /\ result.tag = "ok" =>
        /\ Len(result.bytes) = result.len
        /\ \A i \in 1..result.len :
              LET at == result.offset + i - 1 IN
              \/ result.bytes[i] = at
              \/ ~verify /\ result.bytes[i] = Garbage /\ <<result.section, at>> \in ever.bytes

\* A section that is and was intact, checksums included, is never rejected: a
\* failed load leaves nothing behind that would make a later one fail.
RejectionHasCause ==
    [][ read # NoRead /\ result' = Rejected =>
            LET s == read.section
                c == read.chunk
            IN  /\ verify
                /\ \/ ChecksumStart[s] + c \in ever.slots
                   \/ \E i \in 1..ChunkLen(s, c) : <<s, c * ChunkBytes + i - 1>> \in ever.bytes
      ]_vars

=============================================================================
