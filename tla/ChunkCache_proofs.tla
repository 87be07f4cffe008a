-------------------------- MODULE ChunkCache_proofs -------------------------
(***************************************************************************)
(* A read through the chunk cache of an open index returns exactly the     *)
(* bytes of its range, and is only rejected where the file is or was       *)
(* damaged: for any sections, any chunk and page size, any damage, and any *)
(* sequence of reads, failures and changes of the file.                    *)
(***************************************************************************)
EXTENDS ChunkCache, TLAPS

\* A byte delivered for position at of section s: what was written there or,
\* where nothing is verified, something else if the file was damaged there.
ByteSound(s, at, b) ==
    \/ b = at
    \/ ~verify /\ b = Garbage /\ <<s, at>> \in ever.bytes

\* Chunk c of section s exists.
IsChunk(s, c) == s \in Sections /\ c \in Nat /\ c * ChunkBytes < SectionLens[s]

ChunkSound(s, c, bytes) ==
    /\ bytes \in [1..ChunkLen(s, c) -> Int]
    /\ \A i \in 1..ChunkLen(s, c) : ByteSound(s, c * ChunkBytes + i - 1, bytes[i])

\* What is damaged now was damaged at some time, and so was every checksum that
\* the cached page has wrong.
HistoryInv ==
    /\ disk.bytes \subseteq ever.bytes /\ disk.slots \subseteq ever.slots
    /\ page.bad \subseteq ever.slots

SlotSound(s, slot) ==
    slot.number # None => IsChunk(s, slot.number) /\ ChunkSound(s, slot.number, slot.bytes)

SlotsInv ==
    /\ slots = [s \in Sections |-> slots[s]]
    /\ \A s \in Sections : SlotSound(s, slots[s])

\* The read in progress: its chunk is in its range, its range in the section, and
\* all output before the chunk is in place.
ReadRange(r) ==
    /\ r = [section |-> r.section, offset |-> r.offset, end |-> r.end, chunk |-> r.chunk,
            output |-> r.output]
    /\ r.section \in Sections /\ r.offset \in Nat /\ r.end \in Nat /\ r.chunk \in Nat
    /\ r.offset < r.end /\ r.end <= SectionLens[r.section]
    /\ r.chunk * ChunkBytes < r.end
    /\ r.output \in [1..(r.end - r.offset) -> Int]

OutputSound(s, offset, n, output, upto) ==
    \A i \in 1..n : offset + i - 1 < upto => ByteSound(s, offset + i - 1, output[i])

ReadInv ==
    read # NoRead =>
        /\ ReadRange(read) /\ result = NoResult
        /\ OutputSound(read.section, read.offset, read.end - read.offset, read.output,
                       read.chunk * ChunkBytes)

ResultInv ==
    result.tag = "ok" =>
        /\ result.len \in Nat /\ result.offset \in Nat
        /\ result.bytes \in [1..result.len -> Int]
        /\ \A i \in 1..result.len :
              ByteSound(result.section, result.offset + i - 1, result.bytes[i])

CacheInv == HistoryInv /\ SlotsInv /\ ReadInv /\ ResultInv /\ verify \in BOOLEAN

-----------------------------------------------------------------------------

\* An offset is in the chunk that division by the chunk size gives.
LEMMA DivChunk ==
    ASSUME NEW n \in Nat
    PROVE  /\ n \div ChunkBytes \in Nat
           /\ (n \div ChunkBytes) * ChunkBytes <= n
           /\ n < (n \div ChunkBytes) * ChunkBytes + ChunkBytes
  BY ChunkAssumption

LEMMA MultipleMonotone ==
    ASSUME NEW a \in Nat, NEW b \in Nat, a <= b
    PROVE  a * ChunkBytes <= b * ChunkBytes
  <1>1. PICK d \in Nat : b = a + d
    <2> WITNESS b - a \in Nat
    <2> QED OBVIOUS
  <1>2. b * ChunkBytes = a * ChunkBytes + d * ChunkBytes
    BY <1>1, ChunkAssumption
  <1>3. d * ChunkBytes \in Nat /\ a * ChunkBytes \in Nat
    BY ChunkAssumption
  <1> QED BY <1>2, <1>3

\* A chunk of a section has a length, and ends where the next begins or where the
\* section ends.
LEMMA ChunkLenOf ==
    ASSUME NEW s, NEW c, IsChunk(s, c)
    PROVE  /\ ChunkLen(s, c) \in Nat \ {0}
           /\ c * ChunkBytes \in Nat
           /\ SectionLens[s] \in Nat
           /\ \/ c * ChunkBytes + ChunkLen(s, c) = (c + 1) * ChunkBytes
              \/ c * ChunkBytes + ChunkLen(s, c) = SectionLens[s]
           /\ c * ChunkBytes + ChunkLen(s, c) <= SectionLens[s]
  <1>1. SectionLens[s] \in Nat /\ c \in Nat /\ c * ChunkBytes < SectionLens[s]
    BY ChunkAssumption DEF IsChunk, Sections
  <1>2. ChunkBytes \in Nat \ {0} /\ c * ChunkBytes \in Nat /\ (c + 1) * ChunkBytes = c * ChunkBytes + ChunkBytes
    BY <1>1, ChunkAssumption
  <1> QED BY <1>1, <1>2 DEF ChunkLen, Least

\* The bytes on the disk are those written, or were damaged at some time.
LEMMA OnDiskSound ==
    ASSUME NEW s, NEW c, IsChunk(s, c), HistoryInv,
           ~verify \/ OnDisk(s, c) = Written(s, c)
    PROVE  ChunkSound(s, c, OnDisk(s, c))
  <1>1. ChunkLen(s, c) \in Nat \ {0} /\ c * ChunkBytes \in Nat
    BY ChunkLenOf
  <1>2. OnDisk(s, c) \in [1..ChunkLen(s, c) -> Int]
    BY <1>1 DEF OnDisk, Garbage
  <1>3. ASSUME NEW i \in 1..ChunkLen(s, c)
        PROVE  ByteSound(s, c * ChunkBytes + i - 1, OnDisk(s, c)[i])
    <2>1. CASE ~verify
      BY <2>1, <1>1 DEF OnDisk, ByteSound, HistoryInv
    <2>2. CASE OnDisk(s, c) = Written(s, c)
      <3>1. Written(s, c)[i] = c * ChunkBytes + i - 1
        BY <1>1 DEF Written
      <3> QED BY ONLY <3>1, <2>2 DEF ByteSound
    <2> QED BY <2>1, <2>2
  <1> QED BY <1>2, <1>3 DEF ChunkSound

\* A chunk is only rejected in Verify mode, and only if its checksum or one of its
\* bytes is not as it was written.
Excused(s, c, expected) ==
    /\ verify
    /\ \/ ~expected
       \/ \E i \in 1..ChunkLen(s, c) : <<s, c * ChunkBytes + i - 1>> \in ever.bytes

\* A load leaves a slot that is sound for whatever number it has, an empty one if
\* the load failed.
LEMMA ReadChunkSound ==
    ASSUME NEW s, NEW c, IsChunk(s, c), HistoryInv, verify \in BOOLEAN,
           NEW expected \in BOOLEAN, NEW d \in ReadChunk(s, c, expected)
    PROVE  /\ SlotSound(s, d.slot)
           /\ d.tag = "ok" => d.slot.number = c
           /\ d.tag = "rejected" => Excused(s, c, expected)
           /\ d.tag \in {"ok", "io", "rejected"}
  <1>0. None \notin Nat /\ c # None
    BY DEF None, IsChunk
  <1>1. CASE d = [tag |-> "io", slot |-> Overwritten(s, c)]
    BY <1>1 DEF Overwritten, SlotSound
  <1>2. CASE /\ verify /\ ~(expected /\ OnDisk(s, c) = Written(s, c))
             /\ d = [tag |-> "rejected", slot |-> EmptySlot]
    <2>1. ASSUME \A i \in 1..ChunkLen(s, c) : <<s, c * ChunkBytes + i - 1>> \notin ever.bytes
          PROVE  OnDisk(s, c) = Written(s, c)
      BY <2>1 DEF OnDisk, Written, HistoryInv
    <2> QED BY <1>2, <2>1 DEF EmptySlot, SlotSound, Excused
  <1>3. CASE /\ ~(verify /\ ~(expected /\ OnDisk(s, c) = Written(s, c)))
             /\ d = [tag |-> "ok", slot |-> [number |-> c, bytes |-> OnDisk(s, c)]]
    <2>1. ChunkSound(s, c, OnDisk(s, c))
      BY <1>3, OnDiskSound
    <2> QED BY <1>3, <2>1 DEF SlotSound
  <1> QED BY <1>1, <1>2, <1>3 DEF ReadChunk

\* The same for load_verified_chunk: the page it leaves has wrong only what was
\* damaged.
LEMMA LoadVerifiedChunkSound ==
    ASSUME NEW s, NEW c, IsChunk(s, c), CacheInv, NEW d \in LoadVerifiedChunk(s, c)
    PROVE  /\ SlotSound(s, d.slot)
           /\ d.tag = "ok" => d.slot.number = c
           /\ d.tag = "rejected" => Excused(s, c, ChecksumStart[s] + c \notin ever.slots)
           /\ d.tag \in {"ok", "io", "rejected"}
           /\ d.page.bad \subseteq ever.slots
  <1> DEFINE index == ChecksumIndex(s, c)
             hit == slots[s].number = c /\ Len(slots[s].bytes) = ChunkLen(s, c)
             chunk(expected) ==
                 IF hit THEN {[tag |-> "ok", slot |-> slots[s]]} ELSE ReadChunk(s, c, expected)
  <1>0. s \in Sections /\ HistoryInv /\ SlotSound(s, slots[s]) /\ verify \in BOOLEAN
    BY DEF CacheInv, SlotsInv, IsChunk
  <1>1. ASSUME NEW expected \in BOOLEAN, NEW e \in chunk(expected)
        PROVE  /\ SlotSound(s, e.slot)
               /\ e.tag = "ok" => e.slot.number = c
               /\ e.tag = "rejected" => Excused(s, c, expected)
               /\ e.tag \in {"ok", "io", "rejected"}
    <2>1. CASE hit
      BY <1>0, <1>1, <2>1
    <2>2. CASE ~hit
      BY <1>0, <1>1, <2>2, ReadChunkSound
    <2> QED BY <2>1, <2>2
  <1>2. CASE ~verify
    <2>1. PICK e \in chunk(TRUE) : d = [tag |-> e.tag, slot |-> e.slot, page |-> page]
      BY <1>2 DEF LoadVerifiedChunk
    <2>2. ~Excused(s, c, TRUE)
      BY <1>2 DEF Excused
    <2> HIDE DEF chunk
    <2> QED BY <1>0, <1>1, <2>1, <2>2 DEF HistoryInv
  <1>3. CASE verify
    <2>1. PICK e \in ExpectedChecksum(index) :
              d \in IF ~e.ok THEN {[tag |-> "io", slot |-> slots[s], page |-> e.page]}
                    ELSE {[tag |-> f.tag, slot |-> f.slot, page |-> e.page] :
                              f \in chunk(index \notin e.page.bad)}
      BY <1>3 DEF LoadVerifiedChunk
    <2>2. e.page.bad \subseteq ever.slots
      BY <1>0, <2>1 DEF ExpectedChecksum, HistoryInv
    <2>3. CASE ~e.ok
      BY <1>0, <2>1, <2>2, <2>3
    <2>4. CASE e.ok
      <3>1. PICK f \in chunk(index \notin e.page.bad) :
                d = [tag |-> f.tag, slot |-> f.slot, page |-> e.page]
        BY <2>1, <2>4
      <3>2. Excused(s, c, index \notin e.page.bad)
            => Excused(s, c, ChecksumStart[s] + c \notin ever.slots)
        BY <2>2 DEF Excused, ChecksumIndex
      <3> HIDE DEF chunk, index
      <3> QED BY <1>1, <2>2, <3>1, <3>2
    <2> QED BY <2>3, <2>4
  <1> QED BY <1>0, <1>2, <1>3

\* read_section_into_cached: after a chunk is copied, everything up to its end is
\* in place.
LEMMA CopyChunkSound ==
    ASSUME NEW r, ReadRange(r), NEW bytes, ChunkSound(r.section, r.chunk, bytes),
           OutputSound(r.section, r.offset, r.end - r.offset, r.output, r.chunk * ChunkBytes)
    PROVE  /\ CopyChunk(r, bytes) \in [1..(r.end - r.offset) -> Int]
           /\ OutputSound(r.section, r.offset, r.end - r.offset, CopyChunk(r, bytes),
                          (r.chunk + 1) * ChunkBytes)
  <1> DEFINE s == r.section
             n == r.end - r.offset
             start == r.chunk * ChunkBytes
             len == ChunkLen(s, r.chunk)
             copied == CopyChunk(r, bytes)
  <1>0. /\ r.offset \in Nat /\ r.end \in Nat /\ r.offset < r.end /\ r.end <= SectionLens[s]
        /\ r.output \in [1..n -> Int] /\ r.chunk \in Nat
    BY DEF ReadRange
  <1>1. IsChunk(s, r.chunk)
    BY ChunkAssumption DEF ReadRange, IsChunk, Sections
  <1>2. /\ len \in Nat \ {0} /\ start \in Nat /\ SectionLens[s] \in Nat
        /\ start + len = (r.chunk + 1) * ChunkBytes \/ start + len = SectionLens[s]
        /\ start + len <= SectionLens[s]
    BY <1>1, ChunkLenOf
  <1>3. bytes \in [1..len -> Int] /\ Len(bytes) = len
    BY <1>2 DEF ChunkSound
  <1> HIDE DEF start, len
  <1>4. /\ copied = [i \in 1..n |-> copied[i]]
        /\ \A i \in 1..n :
              copied[i] =
                  IF /\ Greatest(r.offset, start) <= r.offset + i - 1
                     /\ r.offset + i - 1 < Least(r.end, start + len)
                  THEN bytes[(r.offset + i - 1) - start + 1] ELSE r.output[i]
    <2>1. DOMAIN r.output = 1..n
      BY <1>0
    <2>2. copied = [i \in DOMAIN r.output |->
                       IF /\ Greatest(r.offset, start) <= r.offset + i - 1
                          /\ r.offset + i - 1 < Least(r.end, start + Len(bytes))
                       THEN bytes[(r.offset + i - 1) - start + 1] ELSE r.output[i]]
      BY DEF CopyChunk, start, copied
    <2> HIDE DEF copied
    <2> QED BY ONLY <1>3, <2>1, <2>2
  <1>5. ASSUME NEW i \in 1..n
        PROVE  /\ copied[i] \in Int
               /\ r.offset + i - 1 < (r.chunk + 1) * ChunkBytes
                  => ByteSound(s, r.offset + i - 1, copied[i])
    <2> DEFINE at == r.offset + i - 1
    <2>1. at \in Nat /\ at < r.end /\ r.offset <= at
      BY <1>0
    <2>2. CASE start <= at /\ at < start + len
      <3>0. Greatest(r.offset, start) <= at /\ at < Least(r.end, start + len)
        BY <1>0, <1>2, <2>1, <2>2 DEF Greatest, Least
      <3>1. copied[i] = bytes[at - start + 1]
        BY <1>4, <3>0
      <3>2. at - start + 1 \in 1..len /\ start + (at - start + 1) - 1 = at
        BY <1>2, <2>1, <2>2
      <3>3. ByteSound(s, start + (at - start + 1) - 1, bytes[at - start + 1])
        BY <3>2 DEF ChunkSound, start, len
      <3>4. bytes[at - start + 1] \in Int
        BY <1>3, <3>2
      <3> QED BY <3>1, <3>2, <3>3, <3>4
    <2>3. CASE ~(start <= at /\ at < start + len)
      <3>0. ~(Greatest(r.offset, start) <= at /\ at < Least(r.end, start + len))
        BY <1>0, <1>2, <2>1, <2>3 DEF Greatest, Least
      <3>1. copied[i] = r.output[i]
        BY <1>4, <3>0
      <3>2. at < start => ByteSound(s, at, r.output[i])
        BY DEF OutputSound, start
      <3>3. at < (r.chunk + 1) * ChunkBytes => at < start
        BY <1>0, <1>2, <2>1, <2>3, ChunkAssumption
      <3> QED BY <1>0, <3>1, <3>2, <3>3
    <2> QED BY <2>2, <2>3
  <1>6. copied \in [1..n -> Int]
    BY <1>4, <1>5
  <1> HIDE DEF copied
  <1> QED BY <1>5, <1>6 DEF OutputSound, copied

-----------------------------------------------------------------------------

LEMMA SectionsAreNumbers == 0 \notin Sections /\ \A s \in Sections : SectionLens[s] \in Nat
  BY ChunkAssumption DEF Sections

LEMMA InitSound == Init => CacheInv
  <1> SUFFICES ASSUME Init PROVE CacheInv
    OBVIOUS
  <1>1. HistoryInv
    BY DEF Init, HistoryInv
  <1>2. SlotsInv
    BY DEF Init, SlotsInv, SlotSound, EmptySlot
  <1>3. ReadInv /\ ResultInv
    BY DEF Init, ReadInv, ResultInv, NoResult
  <1>4. verify \in BOOLEAN
    BY ChunkAssumption DEF Init
  <1> QED BY <1>1, <1>2, <1>3, <1>4 DEF CacheInv

\* What is sound stays sound: the policy of a handle is fixed, and damage that was
\* once there is remembered.
LEMMA SoundnessKept ==
    ASSUME verify' = verify, ever.bytes \subseteq ever'.bytes
    PROVE  /\ \A s, at, b : ByteSound(s, at, b) => ByteSound(s, at, b)'
           /\ \A s, c, bytes : ChunkSound(s, c, bytes) => ChunkSound(s, c, bytes)'
           /\ \A s, slot : SlotSound(s, slot) => SlotSound(s, slot)'
           /\ \A s, offset, n, output, upto :
                 OutputSound(s, offset, n, output, upto) => OutputSound(s, offset, n, output, upto)'
  <1>1. ASSUME NEW s, NEW at, NEW b, ByteSound(s, at, b) PROVE ByteSound(s, at, b)'
    BY <1>1 DEF ByteSound
  <1>2. ASSUME NEW s, NEW c, NEW bytes, ChunkSound(s, c, bytes) PROVE ChunkSound(s, c, bytes)'
    BY <1>1, <1>2 DEF ChunkSound, ChunkLen, Least
  <1>3. ASSUME NEW s, NEW slot, SlotSound(s, slot) PROVE SlotSound(s, slot)'
    BY <1>2, <1>3 DEF SlotSound, IsChunk
  <1>4. ASSUME NEW s, NEW offset, NEW n, NEW output, NEW upto,
               OutputSound(s, offset, n, output, upto)
        PROVE  OutputSound(s, offset, n, output, upto)'
    BY <1>1, <1>4 DEF OutputSound
  <1> QED BY <1>1, <1>2, <1>3, <1>4

\* A read begins: nothing of its output is claimed yet.
LEMMA BeginReadSound ==
    ASSUME CacheInv, NEW s \in Sections, NEW offset \in Nat, NEW len \in Nat,
           BeginRead(s, offset, len)
    PROVE  CacheInv'
  <1>0. SectionLens[s] \in Nat /\ s # 0
    BY SectionsAreNumbers
  <1>1. UNCHANGED <<verify, disk, ever, slots, page>> /\ read = NoRead
    BY DEF BeginRead
  <1>2. HistoryInv' /\ SlotsInv' /\ verify' \in BOOLEAN
    BY <1>1, SoundnessKept DEF CacheInv, HistoryInv, SlotsInv
  <1>3. CASE offset + len > SectionLens[s]
    <2>1. read' = read /\ result' = Rejected
      BY <1>3 DEF BeginRead
    <2> QED BY <1>1, <1>2, <2>1 DEF CacheInv, ReadInv, ResultInv, Rejected
  <1>4. CASE ~(offset + len > SectionLens[s]) /\ len = 0
    <2>1. /\ read' = read
          /\ result' = [tag |-> "ok", bytes |-> <<>>, section |-> s, offset |-> offset, len |-> 0]
      BY <1>4 DEF BeginRead
    <2>2. ResultInv'
      BY <2>1 DEF ResultInv
    <2> QED BY <1>1, <1>2, <2>1, <2>2 DEF CacheInv, ReadInv
  <1>5. CASE ~(offset + len > SectionLens[s]) /\ len # 0
    <2>1. /\ read' = [section |-> s, offset |-> offset, end |-> offset + len,
                      chunk |-> offset \div ChunkBytes, output |-> [i \in 1..len |-> 0]]
          /\ result' = NoResult
      BY <1>5 DEF BeginRead
    <2>2. /\ offset \div ChunkBytes \in Nat
          /\ (offset \div ChunkBytes) * ChunkBytes <= offset
      BY DivChunk
    <2>3. (offset \div ChunkBytes) * ChunkBytes \in Nat
      BY <2>2, ChunkAssumption
    <2> DEFINE first == (offset \div ChunkBytes) * ChunkBytes
    <2> HIDE DEF first
    <2>4. first \in Nat /\ first <= offset
      BY <2>2, <2>3 DEF first
    <2>5. /\ first < offset + len /\ offset < offset + len /\ offset + len <= SectionLens[s]
          /\ offset + len - offset = len /\ offset + len \in Nat
      BY <1>0, <1>5, <2>4
    <2>6. ReadRange(read)'
      BY <2>1, <2>2, <2>5 DEF ReadRange, first
    <2>7. OutputSound(s, offset, offset + len - offset, [i \in 1..len |-> 0], first)'
      BY <2>4, <2>5 DEF OutputSound
    <2>8. OutputSound(read.section, read.offset, read.end - read.offset, read.output,
                      read.chunk * ChunkBytes)'
      BY <2>1, <2>7 DEF first
    <2>9. ReadInv'
      BY <2>1, <2>6, <2>8 DEF ReadInv, NoResult
    <2> QED BY <1>2, <2>1, <2>9 DEF CacheInv, ResultInv, NoResult
  <1> QED BY <1>3, <1>4, <1>5

\* A turn of the loop of read_section_into_cached.
LEMMA ReadNextSound ==
    ASSUME CacheInv, ReadNext
    PROVE  CacheInv'
  <1>r. PICK r : r = read
    OBVIOUS
  <1> DEFINE s == r.section
             c == r.chunk
             n == r.end - r.offset
  <1>0. /\ ReadRange(r)
        /\ OutputSound(s, r.offset, n, r.output, c * ChunkBytes)
        /\ HistoryInv /\ SlotsInv /\ ResultInv /\ verify \in BOOLEAN
    BY <1>r DEF CacheInv, ReadInv, ReadNext
  <1>1. s \in Sections /\ c \in Nat /\ SectionLens[s] \in Nat /\ c * ChunkBytes \in Nat /\ IsChunk(s, c)
    <2>1. s \in Sections /\ c \in Nat /\ SectionLens[s] \in Nat
      BY <1>0, SectionsAreNumbers DEF ReadRange
    <2> QED BY <1>0, <2>1, ChunkAssumption DEF ReadRange, IsChunk
  <1>2. UNCHANGED <<verify, disk, ever>>
    BY DEF ReadNext
  <1>3. PICK d \in LoadVerifiedChunk(s, c) :
          /\ slots' = [slots EXCEPT ![s] = d.slot]
          /\ page' = d.page
          /\ IF d.tag # "ok" THEN read' = NoRead /\ result' = [tag |-> d.tag]
             ELSE LET output == CopyChunk(r, d.slot.bytes) IN
                  IF r.chunk < LastChunk(r)
                  THEN /\ read' = [r EXCEPT !.chunk = @ + 1, !.output = output]
                       /\ result' = result
                  ELSE /\ read' = NoRead
                       /\ result' = [tag |-> "ok", bytes |-> output, section |-> s,
                                     offset |-> r.offset, len |-> r.end - r.offset]
    BY <1>r DEF ReadNext
  <1>4. /\ SlotSound(s, d.slot)
        /\ d.tag = "ok" => d.slot.number = c
        /\ d.page.bad \subseteq ever.slots
    BY <1>1, LoadVerifiedChunkSound
  <1>5. HistoryInv'
    BY <1>0, <1>2, <1>3, <1>4 DEF HistoryInv
  <1>6. SlotsInv'
    <2>1. /\ slots' = [t \in Sections |-> slots'[t]]
          /\ \A t \in Sections : slots'[t] = IF t = s THEN d.slot ELSE slots[t]
      BY <1>0, <1>3 DEF SlotsInv
    <2>2. \A t \in Sections : SlotSound(t, slots'[t])
      BY <1>0, <1>4, <2>1 DEF SlotsInv
    <2>3. \A t \in Sections : SlotSound(t, slots[t])'
      BY <1>2, <2>2, SoundnessKept
    <2> QED BY <2>1, <2>3 DEF SlotsInv
  <1>7. CASE d.tag # "ok"
    BY <1>0, <1>2, <1>3, <1>5, <1>6, <1>7 DEF CacheInv, ReadInv, ResultInv
  <1>8. CASE d.tag = "ok"
    <2> DEFINE output == CopyChunk(r, d.slot.bytes)
    <2>1. ChunkSound(s, c, d.slot.bytes)
      BY <1>1, <1>4, <1>8 DEF SlotSound, None
    <2>2. /\ output \in [1..n -> Int]
          /\ OutputSound(s, r.offset, n, output, (c + 1) * ChunkBytes)
      BY <1>0, <2>1, CopyChunkSound
    <2>3. OutputSound(s, r.offset, n, output, (c + 1) * ChunkBytes)'
      BY <1>2, <2>2, SoundnessKept
    <2> HIDE DEF output
    <2>4. r.offset \in Nat /\ r.end \in Nat /\ r.offset < r.end
      BY <1>0 DEF ReadRange
    <2>5. LastChunk(r) \in Nat /\ LastChunk(r) * ChunkBytes <= r.end - 1
          /\ r.end - 1 < LastChunk(r) * ChunkBytes + ChunkBytes
      BY <2>4, DivChunk, r.end - 1 \in Nat DEF LastChunk
    <2>6. CASE c < LastChunk(r)
      <3>1. read' = [r EXCEPT !.chunk = @ + 1, !.output = output] /\ result' = result
        BY <1>3, <1>8, <2>6 DEF output
      <3>2. (c + 1) * ChunkBytes <= LastChunk(r) * ChunkBytes /\ (c + 1) * ChunkBytes \in Nat
        <4>1. c + 1 \in Nat /\ c + 1 <= LastChunk(r)
          BY <1>1, <2>5, <2>6
        <4> HIDE DEF c
        <4> QED BY <2>5, <4>1, MultipleMonotone, ChunkAssumption
      <3>3. (c + 1) * ChunkBytes < r.end
        BY <2>4, <2>5, <3>2, ChunkAssumption
      <3>4. ReadInv'
        <4>1. /\ read'.section = s /\ read'.offset = r.offset /\ read'.end = r.end
              /\ read'.chunk = c + 1 /\ read'.output = output
          BY <1>0, <3>1 DEF ReadRange
        <4>2. read' = [section |-> s, offset |-> r.offset, end |-> r.end, chunk |-> c + 1,
                       output |-> output]
          BY <1>0, <3>1 DEF ReadRange
        <4>3. ReadRange(read)'
          BY <1>0, <1>1, <2>2, <3>3, <4>1, <4>2 DEF ReadRange
        <4>4. OutputSound(read.section, read.offset, read.end - read.offset, read.output,
                          read.chunk * ChunkBytes)'
          BY <2>3, <4>1
        <4>5. result' = NoResult
          BY <1>r, <3>1 DEF CacheInv, ReadInv, ReadNext
        <4> QED BY <4>3, <4>4, <4>5 DEF ReadInv
      <3>5. ResultInv'
        BY <1>0, <1>2, <3>1, SoundnessKept DEF ResultInv
      <3> QED BY <1>0, <1>2, <1>5, <1>6, <3>4, <3>5 DEF CacheInv
    <2>7. CASE ~(c < LastChunk(r))
      <3>1. /\ read' = NoRead
            /\ result' = [tag |-> "ok", bytes |-> output, section |-> s,
                          offset |-> r.offset, len |-> n]
        BY <1>3, <1>8, <2>7 DEF output
      <3>2. LastChunk(r) * ChunkBytes <= c * ChunkBytes
        BY <1>1, <2>5, <2>7, MultipleMonotone
      <3>3. r.end <= (c + 1) * ChunkBytes
        <4>1. (c + 1) * ChunkBytes = c * ChunkBytes + ChunkBytes
          BY <1>1, ChunkAssumption
        <4> QED BY <1>1, <2>4, <2>5, <3>2, <4>1, ChunkAssumption
      <3>4. \A i \in 1..n : ByteSound(s, r.offset + i - 1, output[i])'
        <4>1. ASSUME NEW i \in 1..n PROVE r.offset + i - 1 < (c + 1) * ChunkBytes
          <5>1. (c + 1) * ChunkBytes \in Nat
            BY <1>1, ChunkAssumption
          <5> QED BY <2>4, <3>3, <5>1
        <4> QED BY <2>3, <4>1 DEF OutputSound
      <3>5. ResultInv'
        BY <2>2, <2>4, <3>1, <3>4 DEF ResultInv
      <3> QED BY <1>0, <1>2, <1>5, <1>6, <3>1, <3>5 DEF CacheInv, ReadInv
    <2> QED BY <2>6, <2>7
  <1> QED BY <1>7, <1>8

\* The file changes, between two reads or two chunks of one.
LEMMA ChangeSound ==
    ASSUME CacheInv, NEW d, Change(d)
    PROVE  CacheInv'
  <1>1. /\ UNCHANGED <<verify, slots, page, read, result>> /\ disk' = d
        /\ ever' = [bytes |-> ever.bytes \cup d.bytes, slots |-> ever.slots \cup d.slots]
    BY DEF Change
  <1>2. ever.bytes \subseteq ever'.bytes
    BY <1>1
  <1>3. HistoryInv'
    BY <1>1 DEF CacheInv, HistoryInv
  <1>4. SlotsInv' /\ ReadInv' /\ ResultInv'
    BY <1>1, <1>2, SoundnessKept
       DEF CacheInv, SlotsInv, ReadInv, ResultInv, ReadRange
  <1> QED BY <1>1, <1>3, <1>4 DEF CacheInv

\* Every step keeps the caches, the read in progress and the last result sound.
LEMMA StepSound == CacheInv /\ [Next]_vars => CacheInv'
  <1> SUFFICES ASSUME CacheInv, [Next]_vars PROVE CacheInv'
    OBVIOUS
  <1>1. ASSUME NEW s \in Sections, NEW offset \in 0..(SectionLens[s] + 1),
               NEW len \in 0..(SectionLens[s] + 1), BeginRead(s, offset, len)
        PROVE  CacheInv'
    <2>1. offset \in Nat /\ len \in Nat
      BY <1>1, SectionsAreNumbers
    <2> QED BY <1>1, <2>1, BeginReadSound
  <1>2. CASE ReadNext
    BY <1>2, ReadNextSound
  <1>3. ASSUME NEW d \in Damages, Change(d) PROVE CacheInv'
    BY <1>3, ChangeSound
  <1>4. CASE UNCHANGED vars
    <2>1. UNCHANGED <<verify, disk, ever, slots, page, read, result>>
      BY <1>4 DEF vars
    <2> QED BY <2>1, SoundnessKept
            DEF CacheInv, HistoryInv, SlotsInv, ReadInv, ResultInv, ReadRange
  <1> QED BY <1>1, <1>2, <1>3, <1>4 DEF Next

LEMMA CacheInvImplies == CacheInv => ReadExact
  <1> SUFFICES ASSUME CacheInv PROVE ReadExact
    OBVIOUS
  <1>1. ASSUME NEW s \in Sections, slots[s].number # None
        PROVE  LET n == slots[s].number IN
               /\ Len(slots[s].bytes) = ChunkLen(s, n)
               /\ verify => slots[s].bytes = Written(s, n)
               /\ \A i \in 1..ChunkLen(s, n) :
                     \/ slots[s].bytes[i] = n * ChunkBytes + i - 1
                     \/ <<s, n * ChunkBytes + i - 1>> \in ever.bytes
    <2> DEFINE n == slots[s].number
               bytes == slots[s].bytes
    <2>1. IsChunk(s, n) /\ ChunkSound(s, n, bytes)
      BY <1>1 DEF CacheInv, SlotsInv, SlotSound
    <2> HIDE DEF n, bytes
    <2>2. ChunkLen(s, n) \in Nat
      BY <2>1, ChunkLenOf
    <2>3. bytes \in [1..ChunkLen(s, n) -> Int]
      BY <2>1 DEF ChunkSound
    <2>4. Len(bytes) = ChunkLen(s, n)
      BY <2>2, <2>3
    <2>5. ASSUME verify PROVE bytes = Written(s, n)
      BY <2>1, <2>3, <2>5 DEF ChunkSound, ByteSound, Written
    <2>6. \A i \in 1..ChunkLen(s, n) :
             \/ bytes[i] = n * ChunkBytes + i - 1
             \/ <<s, n * ChunkBytes + i - 1>> \in ever.bytes
      BY <2>1 DEF ChunkSound, ByteSound
    <2> QED BY <2>4, <2>5, <2>6 DEF n, bytes
  <1>2. SlotsSound
    BY <1>1 DEF SlotsSound
  <1>3. ASSUME result.tag = "ok"
        PROVE  /\ Len(result.bytes) = result.len
               /\ \A i \in 1..result.len : ByteSound(result.section, result.offset + i - 1, result.bytes[i])
    BY <1>3 DEF CacheInv, ResultInv
  <1> QED BY <1>2, <1>3 DEF ReadExact, ByteSound

\* read_section and load_verified_chunk: for any sections and chunk size, a read that
\* returns has exactly the bytes of its range, whatever failed or changed before and
\* meanwhile, and in Verify mode none of them is damaged.
THEOREM ReadsAreExact == Spec => []ReadExact
  BY InitSound, StepSound, CacheInvImplies, PTL DEF Spec

\* What RejectionHasCause says of a step.
RejectionStep ==
    \/ UNCHANGED vars
    \/ read # NoRead /\ result' = Rejected =>
         LET s == read.section
             c == read.chunk
         IN  /\ verify
             /\ \/ ChecksumStart[s] + c \in ever.slots
                \/ \E i \in 1..ChunkLen(s, c) : <<s, c * ChunkBytes + i - 1>> \in ever.bytes

\* A chunk is rejected only in Verify mode and only if its checksum, or a byte of it,
\* is or was damaged: no load that failed makes a later one fail.
THEOREM RejectionsHaveACause == Spec => RejectionHasCause
  <1>1. ASSUME CacheInv, [Next]_vars, read # NoRead, result' = Rejected
        PROVE  \/ UNCHANGED vars
               \/ LET s == read.section
                      c == read.chunk
                  IN  /\ verify
                      /\ \/ ChecksumStart[s] + c \in ever.slots
                         \/ \E i \in 1..ChunkLen(s, c) : <<s, c * ChunkBytes + i - 1>> \in ever.bytes
    <2>1. CASE ReadNext
      <3> DEFINE s == read.section
                 c == read.chunk
      <3>1. IsChunk(s, c)
        <4>1. ReadRange(read)
          BY <1>1 DEF CacheInv, ReadInv
        <4>2. s \in Sections /\ c \in Nat /\ SectionLens[s] \in Nat
          BY <4>1, SectionsAreNumbers DEF ReadRange
        <4>3. c * ChunkBytes \in Nat
          BY <4>2, ChunkAssumption
        <4> QED BY <4>1, <4>2, <4>3 DEF ReadRange, IsChunk
      <3>2. result = NoResult /\ NoResult # Rejected
        BY <1>1 DEF CacheInv, ReadInv, NoResult, Rejected
      <3>3. PICK d \in LoadVerifiedChunk(s, c) : result' = result \/ result'.tag = "ok" \/ result'.tag = d.tag
        BY <2>1 DEF ReadNext
      <3>4. d.tag = "rejected"
        BY <1>1, <3>2, <3>3 DEF Rejected
      <3>5. Excused(s, c, ChecksumStart[s] + c \notin ever.slots)
        BY <1>1, <3>1, <3>4, LoadVerifiedChunkSound
      <3> QED BY <3>5 DEF Excused
    <2>2. ASSUME NEW s \in Sections, NEW offset, NEW len, BeginRead(s, offset, len) PROVE FALSE
      BY <1>1, <2>2 DEF BeginRead
    <2>3. ASSUME NEW d \in Damages, Change(d) PROVE FALSE
      BY <1>1, <2>3 DEF Change, CacheInv, ReadInv, NoResult, Rejected
    <2> QED BY <1>1, <2>1, <2>2, <2>3 DEF Next
  <1>2. CacheInv /\ [Next]_vars => RejectionStep
    BY <1>1 DEF RejectionStep
  <1>3. [][CacheInv /\ [Next]_vars => RejectionStep]_vars
    BY <1>2, PTL
  <1> QED BY InitSound, StepSound, <1>3, PTL DEF Spec, RejectionHasCause, RejectionStep

=============================================================================
