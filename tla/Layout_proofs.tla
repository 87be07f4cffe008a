--------------------------- MODULE Layout_proofs ---------------------------
(***************************************************************************)
(* Every dictionary that opens is tiled, and nothing behind the parse of a *)
(* section rejects it, for all files, limits and widths of the fields.     *)
(*                                                                         *)
(* LayoutInv says for each stage what the ones before it have established: *)
(* the section ranges so far follow one another and end in the file        *)
(* (Prefix), and the blocks so far form a chain from the start of their    *)
(* section to run.offset, numbered from 0 to run.start.  The sums behind   *)
(* the last row then make the end of the chain the end of the section.     *)
(* Of the memory it says only that what the section will keep fitted       *)
(* beside everything the parse held; what is reserved at each stage, and   *)
(* that the texts decoded so far are paid for by the bytes of the index    *)
(* read so far, is MemoryInv.  HeaderInv says that a header behind         *)
(* parse_header was accepted, which makes its aliases commute.             *)
(***************************************************************************)
EXTENDS Layout, FiniteSetTheorems, SequenceTheorems, WellFoundedInduction, TLAPS

\* A set of numbers that is not empty has a least element.
LEMMA LeastExists ==
  ASSUME NEW S, S \subseteq Nat, S # {}
  PROVE  \E i \in S : \A j \in S : i <= j
<1> DEFINE R == OpToRel(<, Nat)
<1>1. IsWellFoundedOn(R, Nat)
  BY NatLessThanWellFounded
<1>2. PICK i \in S : \A j \in S : ~(<<j, i>> \in R)
  <2> HIDE DEF R
  <2> QED BY <1>1, WFMin
<1>3. ASSUME NEW j \in S PROVE i <= j
  <2>1. i \in Nat /\ j \in Nat OBVIOUS
  <2>2. ~(j < i)
    BY <1>2, <2>1 DEF OpToRel
  <2> QED BY <2>1, <2>2
<1> QED BY <1>3

\* FirstError is "ok" only where none of the checks returned.
LEMMA AllChecked ==
  ASSUME NEW errors, DOMAIN errors \subseteq Nat, FirstError(errors) = "ok"
  PROVE  \A i \in DOMAIN errors : errors[i] = "ok"
<1> DEFINE failed == {i \in DOMAIN errors : errors[i] # "ok"}
<1>1. SUFFICES ASSUME failed # {} PROVE FALSE
  OBVIOUS
<1>2. \E i \in failed : \A j \in failed : i <= j
  BY <1>1, LeastExists
<1>3. (CHOOSE i \in failed : \A j \in failed : i <= j) \in failed
  BY <1>2
<1> QED BY <1>1, <1>3 DEF FirstError

-----------------------------------------------------------------------------

\* What the stages of open build.
Ranges == [offset : Nat, len : Nat]
KeyDescriptors == [count : Nat, start : Nat, at : Nat, comp : Nat, decomp : Nat]
RecordDescriptors == [at : Nat, comp : Nat, start : Nat, decomp : Nat]

\* n ranges that follow one another from the start of a file of len bytes and end in it.
Contained(s, n, len) ==
    /\ s \in Seq(Ranges) /\ Len(s) = n
    /\ s[1].offset = 0
    /\ \A i \in 1..(n - 1) : s[i + 1].offset = s[i].offset + s[i].len
    /\ s[n].offset + s[n].len <= len
    /\ s[n].offset + s[n].len <= WordMax

Prefix(n) == Contained(sections, n, fileLen)

\* The three ranges of a section that starts at end.
Parts(more, end, a, b, c) ==
    more = <<[offset |-> end, len |-> a], [offset |-> end + a, len |-> b],
             [offset |-> end + a + b, len |-> c]>>

\* What is used of all = s \o more.
Joined(all, s, more) ==
    /\ all \in Seq(Ranges) /\ Len(all) = Len(s) + Len(more)
    /\ \A i \in 1..(Len(s) + Len(more)) :
          all[i] = IF i <= Len(s) THEN s[i] ELSE more[i - Len(s)]

\* Three ranges that continue s and end in the file.
Follows(more, s, n, len) ==
    /\ more \in Seq(Ranges) /\ Len(more) = 3
    /\ more[1].offset = s[n].offset + s[n].len
    /\ more[2].offset = more[1].offset + more[1].len
    /\ more[3].offset = more[2].offset + more[2].len
    /\ more[3].offset + more[3].len <= len
    /\ more[3].offset + more[3].len <= WordMax

\* Key blocks without a gap, in the file from..to, with the ordinals 0..n-1.
KeyChain(ks, from, to, n) ==
    /\ ks \in Seq(KeyDescriptors)
    /\ \A i \in 1..Len(ks) : ks[i].count > 0
    /\ Len(ks) = 0 => to = from /\ n = 0
    /\ Len(ks) # 0 =>
          /\ ks[1].at = from /\ ks[1].start = 0
          /\ ks[Len(ks)].at + ks[Len(ks)].comp = to
          /\ ks[Len(ks)].start + ks[Len(ks)].count = n
    /\ \A i \in 1..(Len(ks) - 1) :
          /\ ks[i + 1].at = ks[i].at + ks[i].comp
          /\ ks[i + 1].start = ks[i].start + ks[i].count

\* Record blocks without a gap, in the file from..to, n bytes when decoded.
RecordChain(rs, from, to, n) ==
    /\ rs \in Seq(RecordDescriptors)
    /\ Len(rs) = 0 => to = from /\ n = 0
    /\ Len(rs) # 0 =>
          /\ rs[1].at = from /\ rs[1].start = 0
          /\ rs[Len(rs)].at + rs[Len(rs)].comp = to
          /\ rs[Len(rs)].start + rs[Len(rs)].decomp = n
    /\ \A i \in 1..(Len(rs) - 1) :
          /\ rs[i + 1].at = rs[i].at + rs[i].comp
          /\ rs[i + 1].start = rs[i].start + rs[i].decomp

\* The inductive invariant, by what it is about.
Numbers ==
    /\ fileLen \in Nat /\ opts.memory \in Nat
    /\ kept \in Nat /\ temp \in Nat /\ entries \in Nat
    /\ run \in [cursor : Nat, offset : Nat, start : Nat, total : Nat, texts : Nat]

BeforeKeys ==
    /\ phase \in {"start", "source", "dispatch"} => kept = 0
    /\ phase \in {"start", "source", "dispatch", "keyword", "index"} => keys = <<>>
    /\ phase \in {"start", "source", "dispatch", "keyword", "index", "key rows", "record"} =>
          records = <<>>
    /\ phase = "dispatch" =>
          text.xmlLen \in Nat /\ HeaderMemoryEstimate(text.xmlLen) <= opts.memory
    /\ phase \in {"keyword", "index", "key rows"} => hdr.encoding \in {"utf8", "utf16", "gbk"}

SectionsSound ==
    /\ phase \in {"dispatch", "keyword"} => Prefix(1)
    /\ phase \in {"index", "key rows", "record"} => Prefix(4)
    /\ phase \in {"record rows", "verify", "open"} => Prefix(7)

KeysSound ==
    /\ phase \in {"index", "key rows"} =>
          decl \in KeywordFields /\ sections[4].len = decl.blocksLen
    /\ phase = "key rows" =>
          /\ KeyChain(keys, sections[4].offset, run.offset, run.start)
          /\ run.offset = sections[4].offset + run.total
          /\ kept + RetainedKeys(decl) <= opts.memory
    /\ phase \in {"record", "record rows", "verify", "open"} =>
          KeyChain(keys, sections[4].offset, sections[4].offset + sections[4].len, entries)

RecordsSound ==
    /\ phase = "record" => run.start = 0 /\ run.total = 0
    /\ phase = "record rows" =>
          /\ decl \in RecordFields /\ sections[7].len = decl.blocksLen
          /\ RecordChain(records, sections[7].offset, run.offset, run.start)
          /\ kept + RetainedRecords(decl) <= opts.memory
    /\ phase \in {"verify", "open"} =>
          RecordChain(records, sections[7].offset, sections[7].offset + sections[7].len, run.start)

LayoutInv ==
    /\ Numbers /\ BeforeKeys /\ SectionsSound /\ KeysSound /\ RecordsSound
    /\ ParsedIsKept

-----------------------------------------------------------------------------

\* The limits and the sizes the code uses as numbers.
LEMMA LimitsAreNumbers ==
  /\ WordMax \in Nat /\ HalfMax \in Nat /\ HalfMax <= WordMax
  /\ KeyDescriptorBytes \in Nat /\ RecordDescriptorBytes \in Nat /\ CodecSlack \in Nat
  /\ AttributeLimit \in Nat /\ AttributeBytes \in Nat /\ HeaderBytes \in Nat
BY LayoutAssumption, HeaderAssumption

\* HeaderMemoryEstimate is a number of bytes.
LEMMA EstimateIsNumber ==
  ASSUME NEW n \in Nat
  PROVE  HeaderMemoryEstimate(n) \in Nat
BY LimitsAreNumbers DEF HeaderMemoryEstimate

\* TextEncoding::max_decoded_len is a number of bytes.
LEMMA MaxDecodedLenIsNumber ==
  ASSUME NEW e \in {"utf8", "utf16", "gbk"}, NEW n \in Nat
  PROVE  MaxDecodedLen(e, n) \in Nat
<1>1. ((n + 1) \div 2) * 3 \in Nat /\ n + (n + 1) \div 2 + CodecSlack \in Nat
  BY LimitsAreNumbers
<1>2. CASE e = "utf8"
  BY <1>2 DEF MaxDecodedLen
<1>3. CASE e = "utf16"
  BY <1>1, <1>3 DEF MaxDecodedLen
<1>4. CASE e = "gbk"
  BY <1>1, <1>4 DEF MaxDecodedLen
<1> QED BY <1>2, <1>3, <1>4

\* The fields read from a keyword section header are numbers.
LEMMA KeywordFieldsAreNumbers ==
  ASSUME NEW f \in KeywordFields
  PROVE  /\ f.numBlocks \in Nat /\ f.numEntries \in Nat /\ f.decompLen \in Nat
         /\ f.compLen \in Nat /\ f.blocksLen \in Nat
         /\ IndexLen(f) \in Nat /\ IndexBytes(f) \in Nat
<1>1. Width \in Nat
  BY LimitsAreNumbers DEF Width
<1> QED BY <1>1 DEF KeywordFields, IndexLen, IndexBytes

\* What open keeps of the keyword section is a number of bytes.
LEMMA RetainedKeysIsNumber ==
  ASSUME NEW f \in KeywordFields, hdr.encoding \in {"utf8", "utf16", "gbk"}
  PROVE  RetainedKeys(f) \in Nat
<1>1. f.numBlocks * KeyDescriptorBytes \in Nat
  BY KeywordFieldsAreNumbers, LimitsAreNumbers
<1>2. MaxDecodedLen(hdr.encoding, IndexLen(f)) \in Nat
  BY KeywordFieldsAreNumbers, MaxDecodedLenIsNumber
<1> QED BY <1>1, <1>2 DEF RetainedKeys

\* The fields read from a record section header are numbers.
LEMMA RecordFieldsAreNumbers ==
  ASSUME NEW f \in RecordFields
  PROVE  /\ f.numBlocks \in Nat /\ f.numEntries \in Nat /\ f.indexLen \in Nat
         /\ f.blocksLen \in Nat /\ RetainedRecords(f) \in Nat
<1>1. Width \in Nat
  BY LimitsAreNumbers DEF Width
<1>2. f.numBlocks \in Nat /\ f.numEntries \in Nat /\ f.indexLen \in Nat /\ f.blocksLen \in Nat
  BY <1>1 DEF RecordFields
<1>3. f.numBlocks * RecordDescriptorBytes \in Nat
  BY <1>2, LimitsAreNumbers
<1> QED BY <1>2, <1>3 DEF RetainedRecords

\* ensure_range proves containment.
LEMMA InFile ==
  ASSUME NEW offset \in Nat, NEW n \in Nat, fileLen \in Nat, EnsureRange(offset, n) = "ok"
  PROVE  offset + n <= fileLen /\ offset + n <= WordMax
BY LimitsAreNumbers DEF EnsureRange

\* MemoryBudget::reserve succeeds only within working_memory_bytes.
LEMMA Reserved ==
  ASSUME NEW before \in Nat, NEW bytes \in Nat, opts.memory \in Nat, Reserve(before, bytes) = "ok"
  PROVE  before + bytes <= opts.memory
BY DEF Reserve, Need

-----------------------------------------------------------------------------

\* One key block more, behind the last one.
LEMMA KeyChainGrows ==
  ASSUME NEW ks, NEW from \in Nat, NEW to \in Nat, NEW n \in Nat, KeyChain(ks, from, to, n),
         NEW d \in KeyDescriptors, d.at = to, d.start = n, d.count > 0
  PROVE  KeyChain(Append(ks, d), from, to + d.comp, n + d.count)
<1> DEFINE all == Append(ks, d)
<1>1. ks \in Seq(KeyDescriptors) /\ Len(ks) \in Nat
  BY DEF KeyChain
<1>2. all \in Seq(KeyDescriptors) /\ Len(all) = Len(ks) + 1
  BY <1>1
<1>3. /\ \A i \in 1..Len(ks) : all[i] = ks[i]
      /\ all[Len(ks) + 1] = d
  BY <1>1
<1>4. \A i \in 1..Len(all) : all[i].count > 0
  <2>1. ASSUME NEW i \in 1..Len(all) PROVE all[i].count > 0
    <3>1. CASE i = Len(ks) + 1
      BY <1>3, <3>1
    <3>2. CASE i \in 1..Len(ks)
      <4> HIDE DEF all
      <4> QED BY <1>3, <3>2 DEF KeyChain
    <3> QED BY <1>1, <1>2, <2>1, <3>1, <3>2
  <2> QED BY <2>1
<1>5. all[1].at = from /\ all[1].start = 0
  <2> HIDE DEF all
  <2>1. CASE Len(ks) = 0
    BY <1>3, <2>1 DEF KeyChain
  <2>2. CASE Len(ks) # 0
    BY <1>1, <1>3, <2>2 DEF KeyChain
  <2> QED BY <2>1, <2>2
<1>6. \A i \in 1..(Len(all) - 1) :
         /\ all[i + 1].at = all[i].at + all[i].comp
         /\ all[i + 1].start = all[i].start + all[i].count
  <2> HIDE DEF all
  <2> SUFFICES ASSUME NEW i \in 1..(Len(all) - 1)
               PROVE  /\ all[i + 1].at = all[i].at + all[i].comp
                      /\ all[i + 1].start = all[i].start + all[i].count
    OBVIOUS
  <2>1. i \in 1..Len(ks)
    BY <1>1, <1>2
  <2>2. CASE i = Len(ks)
    BY <1>1, <1>3, <2>1, <2>2 DEF KeyChain
  <2>3. CASE i # Len(ks)
    <3>1. i \in 1..(Len(ks) - 1) /\ i + 1 \in 1..Len(ks)
      BY <1>1, <2>1, <2>3
    <3> QED BY <1>3, <2>1, <3>1 DEF KeyChain
  <2> QED BY <2>2, <2>3
<1>7. all[Len(all)].at + all[Len(all)].comp = to + d.comp /\ all[Len(all)].start + all[Len(all)].count = n + d.count
  <2> HIDE DEF all
  <2> QED BY <1>2, <1>3
<1>8. Len(all) # 0
  <2> HIDE DEF all
  <2> QED BY <1>1, <1>2
<1> HIDE DEF all
<1>9. KeyChain(all, from, to + d.comp, n + d.count)
  BY <1>2, <1>4, <1>5, <1>6, <1>7, <1>8 DEF KeyChain
<1> QED BY <1>9 DEF all

\* One record block more, behind the last one.
LEMMA RecordChainGrows ==
  ASSUME NEW rs, NEW from \in Nat, NEW to \in Nat, NEW n \in Nat, RecordChain(rs, from, to, n),
         NEW d \in RecordDescriptors, d.at = to, d.start = n
  PROVE  RecordChain(Append(rs, d), from, to + d.comp, n + d.decomp)
<1> DEFINE all == Append(rs, d)
<1>1. rs \in Seq(RecordDescriptors) /\ Len(rs) \in Nat
  BY DEF RecordChain
<1>2. all \in Seq(RecordDescriptors) /\ Len(all) = Len(rs) + 1
  BY <1>1
<1>3. /\ \A i \in 1..Len(rs) : all[i] = rs[i]
      /\ all[Len(rs) + 1] = d
  BY <1>1
<1>5. all[1].at = from /\ all[1].start = 0
  <2> HIDE DEF all
  <2>1. CASE Len(rs) = 0
    BY <1>3, <2>1 DEF RecordChain
  <2>2. CASE Len(rs) # 0
    BY <1>1, <1>3, <2>2 DEF RecordChain
  <2> QED BY <2>1, <2>2
<1>6. \A i \in 1..(Len(all) - 1) :
         /\ all[i + 1].at = all[i].at + all[i].comp
         /\ all[i + 1].start = all[i].start + all[i].decomp
  <2> HIDE DEF all
  <2> SUFFICES ASSUME NEW i \in 1..(Len(all) - 1)
               PROVE  /\ all[i + 1].at = all[i].at + all[i].comp
                      /\ all[i + 1].start = all[i].start + all[i].decomp
    OBVIOUS
  <2>1. i \in 1..Len(rs)
    BY <1>1, <1>2
  <2>2. CASE i = Len(rs)
    BY <1>1, <1>3, <2>1, <2>2 DEF RecordChain
  <2>3. CASE i # Len(rs)
    <3>1. i \in 1..(Len(rs) - 1) /\ i + 1 \in 1..Len(rs)
      BY <1>1, <2>1, <2>3
    <3> QED BY <1>3, <2>1, <3>1 DEF RecordChain
  <2> QED BY <2>2, <2>3
<1>7. all[Len(all)].at + all[Len(all)].comp = to + d.comp /\ all[Len(all)].start + all[Len(all)].decomp = n + d.decomp
  <2> HIDE DEF all
  <2> QED BY <1>2, <1>3
<1>8. Len(all) # 0
  <2> HIDE DEF all
  <2> QED BY <1>1, <1>2
<1> HIDE DEF all
<1>9. RecordChain(all, from, to + d.comp, n + d.decomp)
  BY <1>2, <1>5, <1>6, <1>7, <1>8 DEF RecordChain
<1> QED BY <1>9 DEF all

-----------------------------------------------------------------------------

\* An error that is not one of those behind a parse leaves nothing to hold.
LEMMA RejectKeeps ==
  ASSUME LayoutInv, NEW at, NEW error, Reject(at, error), UNCHANGED input,
         at \notin {"verify", "retain header", "retain keys", "retain records"}
  PROVE  LayoutInv'
<1>1. Numbers'
  BY DEF LayoutInv, Numbers, Reject, input, NoRun
<1>2. BeforeKeys' /\ SectionsSound' /\ KeysSound' /\ RecordsSound'
  BY DEF Reject, BeforeKeys, SectionsSound, KeysSound, RecordsSound
<1>3. ParsedIsKept'
  BY DEF Reject, ParsedIsKept
<1> QED BY <1>1, <1>2, <1>3 DEF LayoutInv

\* Nothing is parsed when open starts.
LEMMA InitSound == Init => LayoutInv
<1> SUFFICES ASSUME Init PROVE LayoutInv
  OBVIOUS
<1>1. Numbers
  BY LayoutAssumption DEF Init, Numbers, NoRun
<1>2. BeforeKeys /\ SectionsSound /\ KeysSound /\ RecordsSound
  BY DEF Init, BeforeKeys, SectionsSound, KeysSound, RecordsSound
<1>3. ParsedIsKept
  BY DEF Init, NoError, ParsedIsKept
<1> QED BY <1>1, <1>2, <1>3 DEF LayoutInv

\* FileSource::open adds nothing to what is parsed.
LEMMA OpenSourceSound == LayoutInv /\ OpenSource => LayoutInv'
<1> SUFFICES ASSUME LayoutInv, OpenSource PROVE LayoutInv'
  OBVIOUS
<1>1. CASE fileLen = 0
  BY <1>1, RejectKeeps DEF OpenSource
<1>2. CASE fileLen # 0
  <2>1. /\ phase = "start" /\ phase' = "source"
        /\ UNCHANGED <<input, why, text, hdr, sections, decl, run, keys, records, entries, kept, temp>>
    BY <1>2 DEF OpenSource
  <2>2. Numbers'
    BY <2>1 DEF LayoutInv, Numbers, input
  <2>3. BeforeKeys' /\ SectionsSound' /\ KeysSound' /\ RecordsSound' /\ ParsedIsKept'
    BY <2>1 DEF LayoutInv, BeforeKeys, SectionsSound, KeysSound, RecordsSound, ParsedIsKept
  <2> QED BY <2>2, <2>3 DEF LayoutInv
<1> QED BY <1>1, <1>2

\* The header was read with a reservation that included its estimate, so that
\* reserving the estimate alone is not refused.
LEMMA HeaderReserved ==
  ASSUME NEW t, t.xmlLen \in Nat, Numbers, ParseHeaderError(t) = "ok"
  PROVE  /\ 4 + t.xmlLen + 4 <= fileLen /\ 4 + t.xmlLen + 4 <= WordMax
         /\ HeaderMemoryEstimate(t.xmlLen) <= opts.memory
<1> DEFINE total == 4 + t.xmlLen + 4
           estimate == HeaderMemoryEstimate(t.xmlLen)
           e == <<
            Reserve(0, 4),
            EnsureRange(0, 4),
            Need(t.xmlLen <= HeaderLimit, "limit"),
            Need(t.xmlLen % 2 = 0, "format"),
            EnsureRange(0, total),
            Reserve(4, total),
            Checked(estimate),
            Reserve(4 + total, estimate),
            Need(t.sum = "good" \/ ~opts.verify, "checksum"),
            Need(t.utf16 = "good", "decode"),
            ParseSingleTag(t),
            BuildHeader(opts.kind, t.tag, t.attrs).error>>
<1>1. DOMAIN e = 1..12 /\ e[5] = EnsureRange(0, total) /\ e[8] = Reserve(4 + total, estimate)
  OBVIOUS
<1>2. FirstError(e) = "ok"
  BY DEF ParseHeaderError
<1>3. estimate \in Nat /\ total \in Nat
  BY EstimateIsNumber
<1> HIDE DEF e, total, estimate
<1>4. e[5] = "ok" /\ e[8] = "ok"
  BY <1>1, <1>2, AllChecked
<1>5. 0 + total <= fileLen /\ 0 + total <= WordMax
  BY <1>1, <1>3, <1>4, InFile DEF Numbers
<1>6. 4 + total + estimate <= opts.memory
  BY <1>1, <1>3, <1>4, Reserved DEF Numbers
<1>7. total <= fileLen /\ total <= WordMax /\ estimate <= opts.memory
  BY <1>3, <1>5, <1>6, LimitsAreNumbers DEF Numbers
<1> QED BY <1>7 DEF total, estimate

\* The header that parse_header accepts is in the file.
LEMMA ReadHeaderSound == LayoutInv /\ ReadHeader => LayoutInv'
<1> SUFFICES ASSUME LayoutInv, ReadHeader PROVE LayoutInv'
  OBVIOUS
<1>1. PICK t \in HeaderTexts \cup {written.text} :
          LET error == ParseHeaderError(t) IN
          /\ t.xmlLen \in 0..HalfMax
          /\ UNCHANGED input
          /\ IF error # "ok" THEN Reject("header", error)
             ELSE /\ phase' = "dispatch"
                  /\ text' = t
                  /\ sections' = <<[offset |-> 0, len |-> 4 + t.xmlLen + 4]>>
                  /\ UNCHANGED <<why, hdr, decl, run, keys, records, entries, kept, temp>>
  BY DEF ReadHeader
<1>2. CASE ParseHeaderError(t) # "ok"
  BY <1>1, <1>2, RejectKeeps
<1>3. CASE ParseHeaderError(t) = "ok"
  <2>1. phase = "source" /\ t.xmlLen \in Nat
    BY <1>1, LimitsAreNumbers DEF ReadHeader
  <2>2. /\ phase' = "dispatch" /\ text' = t
        /\ sections' = <<[offset |-> 0, len |-> 4 + t.xmlLen + 4]>>
        /\ UNCHANGED <<input, why, hdr, decl, run, keys, records, entries, kept, temp>>
    BY <1>1, <1>3
  <2>3. /\ 4 + t.xmlLen + 4 <= fileLen /\ 4 + t.xmlLen + 4 <= WordMax
        /\ HeaderMemoryEstimate(t.xmlLen) <= opts.memory
    BY <1>3, <2>1, HeaderReserved DEF LayoutInv
  <2>4. Numbers'
    BY <2>2 DEF LayoutInv, Numbers, input
  <2>5. BeforeKeys'
    BY <2>1, <2>2, <2>3 DEF LayoutInv, BeforeKeys, input
  <2>6. Prefix(1)'
    BY <2>1, <2>2, <2>3 DEF Prefix, Contained, Ranges, input
  <2>7. SectionsSound' /\ KeysSound' /\ RecordsSound'
    BY <2>2, <2>6 DEF SectionsSound, KeysSound, RecordsSound
  <2>8. ParsedIsKept'
    BY <2>2 DEF LayoutInv, ParsedIsKept
  <2> QED BY <2>4, <2>5, <2>7, <2>8 DEF LayoutInv
<1> QED BY <1>2, <1>3

\* Keys have one of the encodings that MaxDecodedLen bounds.
LEMMA KeyEncodings ==
  ASSUME NEW kind, NEW label, ForKeys(kind, label) # None
  PROVE  ForKeys(kind, label)[1] \in {"utf8", "utf16", "gbk"}
BY DEF ForKeys, FromLabel, Some

\* The choice of the grammar keeps the header, whose memory is not refused.
LEMMA DispatchSound == LayoutInv /\ Dispatch => LayoutInv'
<1> SUFFICES ASSUME LayoutInv, Dispatch PROVE LayoutInv'
  OBVIOUS
<1> DEFINE h == BuildHeader(opts.kind, text.tag, text.attrs)
           estimate == HeaderMemoryEstimate(text.xmlLen)
           encoding == ForKeys(opts.kind, h.label)
<1>1. phase = "dispatch" /\ UNCHANGED input
  BY DEF Dispatch
<1>2. estimate \in Nat /\ estimate <= opts.memory /\ kept = 0 /\ opts.memory \in Nat
  BY <1>1, EstimateIsNumber DEF LayoutInv, BeforeKeys, Numbers
<1>3. Reserve(kept, estimate) = "ok"
  <2> HIDE DEF estimate
  <2> QED BY <1>2 DEF Reserve, Need
<1>4. CASE DispatchError(h) # "ok"
  BY <1>1, <1>4, RejectKeeps DEF Dispatch
<1>5. CASE DispatchError(h) = "ok" /\ encoding = None
  BY <1>1, <1>3, <1>5, RejectKeeps DEF Dispatch
<1>6. CASE DispatchError(h) = "ok" /\ encoding # None
  <2>1. /\ phase' = "keyword" /\ kept' = kept + estimate
        /\ hdr' = [version |-> DeclaredMajorVersion(h.generated[1])[1],
                   encoding |-> encoding[1], bits |-> h.encrypted]
        /\ UNCHANGED <<why, sections, decl, run, keys, records, entries, temp>>
    BY <1>3, <1>6 DEF Dispatch
  <2>2. hdr'.encoding \in {"utf8", "utf16", "gbk"}
    BY <1>6, <2>1, KeyEncodings
  <2> HIDE DEF h, estimate, encoding
  <2>3. Numbers'
    BY <1>1, <1>2, <2>1 DEF LayoutInv, Numbers, input
  <2>4. BeforeKeys'
    BY <1>1, <2>1, <2>2 DEF LayoutInv, BeforeKeys
  <2>5. SectionsSound'
    BY <1>1, <2>1 DEF LayoutInv, SectionsSound, Prefix, Contained, input
  <2>6. KeysSound' /\ RecordsSound' /\ ParsedIsKept'
    BY <2>1 DEF LayoutInv, KeysSound, RecordsSound, ParsedIsKept
  <2> QED BY <2>3, <2>4, <2>5, <2>6 DEF LayoutInv
<1> QED BY <1>4, <1>5, <1>6

-----------------------------------------------------------------------------

\* The end of the sections parsed so far is an offset in the file.
LEMMA EndIsNumber ==
  ASSUME NEW n \in Nat \ {0}, Prefix(n)
  PROVE  /\ \A i \in 1..n : sections[i] \in Ranges
         /\ SectionEnd \in Nat
         /\ sections \in Seq(Ranges) /\ Len(sections) = n
         /\ SectionEnd = sections[n].offset + sections[n].len
<1>1. /\ sections \in Seq(Ranges) /\ Len(sections) = n
      /\ SectionEnd = sections[n].offset + sections[n].len
  BY DEF Prefix, Contained, SectionEnd
<1>2. \A i \in 1..n : sections[i] \in Ranges
  BY <1>1
<1>3. sections[n].offset \in Nat /\ sections[n].len \in Nat
  BY <1>2 DEF Ranges
<1> QED BY <1>1, <1>2, <1>3

\* Three ranges that follow the ones before and end in the file.
LEMMA RangesGrow ==
  ASSUME NEW n \in Nat \ {0}, NEW len \in Nat, NEW s, Contained(s, n, len),
         NEW more, Follows(more, s, n, len), NEW all, Joined(all, s, more)
  PROVE  /\ Contained(all, n + 3, len)
         /\ \A i \in 1..n : all[i] = s[i]
         /\ all[n + 3] = more[3]
<1>0. more \in Seq(Ranges) /\ Len(more) = 3
  BY DEF Follows
<1>1. s \in Seq(Ranges) /\ Len(s) = n
  BY DEF Contained
<1>2. /\ all \in Seq(Ranges) /\ Len(all) = Len(s) + Len(more)
      /\ \A i \in 1..(Len(s) + Len(more)) :
            all[i] = IF i <= Len(s) THEN s[i] ELSE more[i - Len(s)]
  BY DEF Joined
<1>3. /\ Len(all) = n + 3
      /\ \A i \in 1..n : all[i] = s[i]
      /\ all[n + 1] = more[1] /\ all[n + 2] = more[2] /\ all[n + 3] = more[3]
  <2>1. \A i \in 1..(n + 3) : all[i] = IF i <= n THEN s[i] ELSE more[i - n]
    BY ONLY <1>0, <1>1, <1>2
  <2>2. Len(all) = n + 3
    BY ONLY <1>0, <1>1, <1>2
  <2>3. \A i \in 1..n : all[i] = s[i]
    BY ONLY <2>1, n \in Nat
  <2>4. all[n + 1] = more[1] /\ all[n + 2] = more[2] /\ all[n + 3] = more[3]
    BY ONLY <2>1, n \in Nat
  <2> QED BY ONLY <2>2, <2>3, <2>4
<1>4. all[1].offset = 0
  BY <1>3 DEF Contained
<1>5. ASSUME NEW i \in 1..(n + 3 - 1)
      PROVE  all[i + 1].offset = all[i].offset + all[i].len
  <2>1. CASE i \in 1..(n - 1)
    <3>1. i \in 1..n /\ i + 1 \in 1..n
      BY <2>1
    <3>2. s[i + 1].offset = s[i].offset + s[i].len
      BY <2>1 DEF Contained
    <3> QED BY <1>3, <3>1, <3>2
  <2>2. CASE i = n
    BY <1>3, <2>2 DEF Follows
  <2>3. CASE i = n + 1
    <3>1. i + 1 = n + 2
      BY <2>3
    <3> QED BY <1>3, <2>3, <3>1 DEF Follows
  <2>4. CASE i = n + 2
    <3>1. i + 1 = n + 3
      BY <2>4
    <3> QED BY <1>3, <2>4, <3>1 DEF Follows
  <2>5. i \in 1..(n - 1) \/ i = n \/ i = n + 1 \/ i = n + 2
    OBVIOUS
  <2> QED BY <2>1, <2>2, <2>3, <2>4, <2>5
<1>6. Contained(all, n + 3, len)
  <2>1. all[n + 3].offset + all[n + 3].len <= len /\ all[n + 3].offset + all[n + 3].len <= WordMax
    BY <1>3 DEF Follows
  <2> QED BY <1>2, <1>3, <1>4, <1>5, <2>1 DEF Contained
<1> QED BY <1>3, <1>6

\* The three parts of a section are appended behind the sections before it.
LEMMA PartsFollow ==
  ASSUME NEW n \in Nat \ {0}, NEW len \in Nat, NEW s, Contained(s, n, len),
         NEW end \in Nat, end = s[n].offset + s[n].len,
         NEW a \in Nat, NEW b \in Nat, NEW c \in Nat, NEW more, Parts(more, end, a, b, c),
         end + a + b + c <= len, end + a + b + c <= WordMax
  PROVE  /\ Follows(more, s, n, len) /\ Joined(s \o more, s, more)
         /\ more[3].offset = end + a + b /\ more[3].len = c
<1>1. /\ more \in Seq(Ranges) /\ Len(more) = 3
      /\ more[1].offset = end /\ more[1].len = a
      /\ more[2].offset = end + a /\ more[2].len = b
      /\ more[3].offset = end + a + b /\ more[3].len = c
  BY ONLY Parts(more, end, a, b, c), end \in Nat, a \in Nat, b \in Nat, c \in Nat
  DEF Parts, Ranges
<1>2. more[3].offset + more[3].len <= len /\ more[3].offset + more[3].len <= WordMax
  BY ONLY <1>1, end + a + b + c <= len, end + a + b + c <= WordMax
<1>3. /\ more[1].offset = s[n].offset + s[n].len
      /\ more[2].offset = more[1].offset + more[1].len
      /\ more[3].offset = more[2].offset + more[2].len
  BY ONLY <1>1, end = s[n].offset + s[n].len
<1>4. Follows(more, s, n, len)
  BY ONLY <1>1, <1>2, <1>3 DEF Follows
<1>5. s \in Seq(Ranges)
  BY DEF Contained
<1>6. Joined(s \o more, s, more)
  BY ONLY <1>1, <1>5, ConcatProperties DEF Joined
<1> QED BY ONLY <1>1, <1>4, <1>6

\* A keyword header that passes has its index and its blocks in the file.
LEMMA KeywordRangesInFile ==
  ASSUME NEW f \in KeywordFields, SectionEnd \in Nat, fileLen \in Nat,
         KeywordHeaderError(f) = "ok"
  PROVE  /\ SectionEnd + KeywordHeaderLen + f.compLen + f.blocksLen <= fileLen
         /\ SectionEnd + KeywordHeaderLen + f.compLen + f.blocksLen <= WordMax
<1> DEFINE e == <<IF hdr.version = 1 THEN V1KeywordError(f) ELSE V2KeywordError(f),
                  KeywordCountsError(f), KeywordRangesError(f)>>
<1>1. DOMAIN e = 1..3 /\ e[3] = KeywordRangesError(f) /\ FirstError(e) = "ok"
  BY DEF KeywordHeaderError
<1> HIDE DEF e
<1>2. KeywordRangesError(f) = "ok"
  BY <1>1, AllChecked
<1> DEFINE index == SectionEnd + KeywordHeaderLen
           r == <<Checked(index), Checked(index + f.compLen),
                  Checked(index + f.compLen + f.blocksLen),
                  EnsureRange(index, f.compLen),
                  EnsureRange(index + f.compLen, f.blocksLen)>>
<1>3. /\ DOMAIN r = 1..5 /\ r[5] = EnsureRange(index + f.compLen, f.blocksLen)
      /\ FirstError(r) = "ok"
  BY <1>2 DEF KeywordRangesError
<1>4. index \in Nat /\ f.compLen \in Nat /\ f.blocksLen \in Nat /\ index + f.compLen \in Nat
  BY KeywordFieldsAreNumbers DEF KeywordHeaderLen
<1> HIDE DEF r, index
<1>5. EnsureRange(index + f.compLen, f.blocksLen) = "ok"
  BY <1>3, AllChecked
<1>6. index + f.compLen + f.blocksLen <= fileLen /\ index + f.compLen + f.blocksLen <= WordMax
  BY <1>4, <1>5, InFile
<1> QED BY <1>6 DEF index

\* The ranges of a keyword section that passes its header checks are in the file.
LEMMA KeywordHeaderSound == LayoutInv /\ KeywordHeader => LayoutInv'
<1> SUFFICES ASSUME LayoutInv, KeywordHeader PROVE LayoutInv'
  OBVIOUS
<1>1. PICK f \in FieldReads(written.keyword, MaxDamage - damage) :
          LET error == KeywordHeaderError(f)
              index == SectionEnd + KeywordHeaderLen
          IN
          /\ f \in KeywordFields
          /\ UNCHANGED input
          /\ IF error # "ok" THEN Reject("keyword header", error)
             ELSE /\ phase' = "index"
                  /\ decl' = f
                  /\ sections' = sections \o
                        <<[offset |-> SectionEnd, len |-> KeywordHeaderLen],
                          [offset |-> index, len |-> f.compLen],
                          [offset |-> index + f.compLen, len |-> f.blocksLen]>>
                  /\ temp' = KeywordHeaderLen
                  /\ UNCHANGED <<why, text, hdr, run, keys, records, entries, kept>>
  BY DEF KeywordHeader
<1>2. CASE KeywordHeaderError(f) # "ok"
  BY <1>1, <1>2, RejectKeeps
<1>3. CASE KeywordHeaderError(f) = "ok"
  <2>1. phase = "keyword" /\ Prefix(1) /\ f \in KeywordFields /\ fileLen \in Nat
    BY <1>1 DEF KeywordHeader, LayoutInv, SectionsSound, Numbers
  <2>2. /\ phase' = "index" /\ decl' = f /\ temp' = KeywordHeaderLen
        /\ sections' = sections \o
              <<[offset |-> SectionEnd, len |-> KeywordHeaderLen],
                [offset |-> SectionEnd + KeywordHeaderLen, len |-> f.compLen],
                [offset |-> SectionEnd + KeywordHeaderLen + f.compLen, len |-> f.blocksLen]>>
        /\ UNCHANGED <<input, why, text, hdr, run, keys, records, entries, kept>>
    BY <1>1, <1>3
  <2>3. KeywordHeaderLen \in Nat /\ f.compLen \in Nat /\ f.blocksLen \in Nat
    BY <2>1, KeywordFieldsAreNumbers DEF KeywordHeaderLen
  <2>4. /\ SectionEnd + KeywordHeaderLen + f.compLen + f.blocksLen <= fileLen
        /\ SectionEnd + KeywordHeaderLen + f.compLen + f.blocksLen <= WordMax
    BY <1>3, <2>1, EndIsNumber, KeywordRangesInFile
  <2>5. UNCHANGED fileLen
    BY <2>2 DEF input
  <2>6. Prefix(4)' /\ sections'[4].len = f.blocksLen
    <3> DEFINE end == SectionEnd
               more == <<[offset |-> end, len |-> KeywordHeaderLen],
                         [offset |-> end + KeywordHeaderLen, len |-> f.compLen],
                         [offset |-> end + KeywordHeaderLen + f.compLen,
                          len |-> f.blocksLen]>>
    <3>1. Parts(more, end, KeywordHeaderLen, f.compLen, f.blocksLen)
      BY DEF Parts
    <3>2. sections' = sections \o more
      BY <2>2
    <3>3. /\ end \in Nat /\ end = sections[1].offset + sections[1].len
          /\ Contained(sections, 1, fileLen)
      BY <2>1, EndIsNumber DEF Prefix
    <3>4. /\ end + KeywordHeaderLen + f.compLen + f.blocksLen <= fileLen
          /\ end + KeywordHeaderLen + f.compLen + f.blocksLen <= WordMax
      BY <2>4
    <3> HIDE DEF more, end
    <3>5. 1 \in Nat \ {0} /\ 1 + 3 = 4
      OBVIOUS
    <3>6. /\ Follows(more, sections, 1, fileLen) /\ Joined(sections \o more, sections, more)
          /\ more[3].len = f.blocksLen
      BY ONLY <2>1, <2>3, <3>1, <3>3, <3>4, <3>5, PartsFollow
    <3>7. Joined(sections', sections, more)
      BY ONLY <3>2, <3>6
    <3>8. Contained(sections', 1 + 3, fileLen) /\ sections'[1 + 3] = more[3]
      BY ONLY <2>1, <3>3, <3>5, <3>6, <3>7, RangesGrow
    <3>9. Contained(sections', 4, fileLen') /\ sections'[4].len = f.blocksLen
      BY ONLY <2>5, <3>5, <3>6, <3>8
    <3> QED BY ONLY <3>9 DEF Prefix, Contained
  <2>7. Numbers'
    BY <2>2, <2>3 DEF LayoutInv, Numbers, input
  <2>8. BeforeKeys'
    BY <2>1, <2>2 DEF LayoutInv, BeforeKeys
  <2>9. SectionsSound'
    BY <2>2, <2>6 DEF SectionsSound
  <2>10. KeysSound'
    <3>1. KeywordFields' = KeywordFields
      BY <2>2 DEF KeywordFields, Width
    <3>2. sections'[4].len = f.blocksLen
      BY <2>6
    <3> QED BY <2>1, <2>2, <3>1, <3>2 DEF KeysSound
  <2>11. RecordsSound' /\ ParsedIsKept'
    BY <2>2 DEF LayoutInv, RecordsSound, ParsedIsKept
  <2> QED BY <2>7, <2>8, <2>9, <2>10, <2>11 DEF LayoutInv
<1> QED BY <1>2, <1>3

\* The reservation for the parse of the index includes what will be kept.
LEMMA KeysReserved ==
  ASSUME NEW f \in KeywordFields, NEW env, Numbers, hdr.encoding \in {"utf8", "utf16", "gbk"},
         KeywordIndexError(f, env) = "ok"
  PROVE  /\ kept + RetainedKeys(f) <= opts.memory
         /\ kept + temp + IndexBytes(f) + RetainedKeys(f) <= opts.memory
<1> DEFINE held == kept + temp + IndexBytes(f)
           e == <<Reserve(kept + temp, f.compLen),
                  Reserve(kept + temp, IndexBytes(f)),
                  Checked(RetainedKeys(f)),
                  Reserve(held, RetainedKeys(f)),
                  IF hdr.version = 1 THEN "ok" ELSE DecodeBlockError(env, f.compLen, f.decompLen),
                  Need(f.numBlocks * MinIndexRow(f) <= IndexLen(f), "data")>>
<1>1. DOMAIN e = 1..6 /\ e[4] = Reserve(held, RetainedKeys(f)) /\ FirstError(e) = "ok"
  BY DEF KeywordIndexError
<1> HIDE DEF e
<1>2. Reserve(held, RetainedKeys(f)) = "ok"
  BY <1>1, AllChecked
<1>3. RetainedKeys(f) \in Nat /\ IndexBytes(f) \in Nat
  BY RetainedKeysIsNumber, KeywordFieldsAreNumbers
<1>4. held \in Nat /\ held >= kept
  BY <1>3 DEF Numbers
<1> HIDE DEF held
<1>5. held + RetainedKeys(f) <= opts.memory
  BY <1>2, <1>3, <1>4, Reserved DEF Numbers
<1>6. kept + RetainedKeys(f) <= opts.memory
  BY <1>3, <1>4, <1>5 DEF Numbers
<1> QED BY <1>5, <1>6 DEF held

\* Before the first row of the keyword index the chain of key blocks is empty.
LEMMA KeywordIndexSound == LayoutInv /\ KeywordIndex => LayoutInv'
<1> SUFFICES ASSUME LayoutInv, KeywordIndex PROVE LayoutInv'
  OBVIOUS
<1>1. PICK env \in FieldReads(written.env, MaxDamage - damage) :
          LET error == KeywordIndexError(decl, env) IN
          /\ UNCHANGED input
          /\ IF error # "ok" THEN Reject("keyword index", error)
             ELSE /\ phase' = "key rows"
                  /\ run' = [NoRun EXCEPT !.offset = sections[4].offset]
                  /\ temp' = temp + IndexBytes(decl) + RetainedKeys(decl)
                  /\ UNCHANGED <<why, text, hdr, sections, decl, keys, records, entries, kept>>
  BY DEF KeywordIndex
<1>2. CASE KeywordIndexError(decl, env) # "ok"
  BY <1>1, <1>2, RejectKeeps
<1>3. CASE KeywordIndexError(decl, env) = "ok"
  <2>1. /\ phase = "index" /\ Prefix(4) /\ decl \in KeywordFields /\ keys = <<>>
        /\ hdr.encoding \in {"utf8", "utf16", "gbk"}
    BY DEF KeywordIndex, LayoutInv, SectionsSound, KeysSound, BeforeKeys
  <2>0. run' = [NoRun EXCEPT !.offset = sections[4].offset]
    BY <1>1, <1>3
  <2>2. /\ phase' = "key rows"
        /\ temp' = temp + IndexBytes(decl) + RetainedKeys(decl)
        /\ UNCHANGED <<input, why, text, hdr, sections, decl, keys, records, entries, kept>>
    BY <1>1, <1>3
  <2>3. sections[4] \in Ranges
    BY <2>1, EndIsNumber
  <2>4. /\ run' = [cursor |-> 0, offset |-> sections[4].offset, start |-> 0, total |-> 0,
                   texts |-> 0]
        /\ sections[4].offset \in Nat
    BY <2>0, <2>3 DEF NoRun, Ranges
  <2>5. IndexBytes(decl) \in Nat /\ RetainedKeys(decl) \in Nat
    BY <2>1, KeywordFieldsAreNumbers, RetainedKeysIsNumber
  <2>6. Numbers'
    <3>1. run' \in [cursor : Nat, offset : Nat, start : Nat, total : Nat, texts : Nat]
      BY <2>4
    <3>2. temp' \in Nat
      <4>1. temp \in Nat /\ temp' = temp + IndexBytes(decl) + RetainedKeys(decl)
        BY <2>2 DEF LayoutInv, Numbers
      <4> QED BY ONLY <2>5, <4>1
    <3>3. UNCHANGED <<opts, fileLen, kept, entries>>
      BY <2>2 DEF input
    <3> QED BY <3>1, <3>2, <3>3 DEF LayoutInv, Numbers
  <2>7. BeforeKeys'
    BY <2>1, <2>2 DEF LayoutInv, BeforeKeys
  <2>8. SectionsSound'
    BY <2>1, <2>2 DEF SectionsSound, Prefix, Contained, input
  <2>9. KeysSound'
    <3>1. decl' \in KeywordFields' /\ sections'[4].len = decl'.blocksLen
      BY <2>1, <2>2 DEF LayoutInv, KeysSound, KeywordFields, Width
    <3>2. KeyChain(<<>>, sections[4].offset, sections[4].offset, 0)
      BY DEF KeyChain
    <3>3. kept + RetainedKeys(decl) <= opts.memory
      BY <1>3, <2>1, KeysReserved DEF LayoutInv
    <3>4. RetainedKeys(decl)' = RetainedKeys(decl)
      BY <2>2 DEF RetainedKeys, IndexLen
    <3>5. KeyChain(keys, sections[4].offset, run.offset, run.start)'
      BY <2>1, <2>2, <2>4, <3>2 DEF KeyChain
    <3>6. (run.offset = sections[4].offset + run.total)'
      <4>1. sections' = sections
        BY <2>2
      <4>2. run'.offset = sections[4].offset /\ run'.total = 0
        BY <2>4
      <4> QED BY <2>4, <4>1, <4>2
    <3>7. (kept + RetainedKeys(decl) <= opts.memory)'
      BY <2>2, <3>3, <3>4 DEF input
    <3> QED BY <2>2, <3>1, <3>5, <3>6, <3>7 DEF KeysSound
  <2>10. RecordsSound' /\ ParsedIsKept'
    BY <2>2 DEF LayoutInv, RecordsSound, ParsedIsKept
  <2> QED BY <2>6, <2>7, <2>8, <2>9, <2>10 DEF LayoutInv
<1> QED BY <1>2, <1>3

-----------------------------------------------------------------------------

\* The fields of a row of the keyword index are numbers, as are the bytes it takes.
LEMMA KeyRowIsNumbers ==
  ASSUME NEW r \in KeyRows, hdr.encoding \in {"utf8", "utf16", "gbk"}
  PROVE  /\ r.count \in Nat /\ r.comp \in Nat /\ r.decomp \in Nat
         /\ KeyRowLen(r) \in Nat /\ SummaryBytes(r) \in Nat
<1>1. Width \in Nat /\ UnitsMax \in Nat
  BY LimitsAreNumbers DEF Width, UnitsMax
<1>2. /\ r.count \in Nat /\ r.comp \in Nat /\ r.decomp \in Nat
      /\ r.first \in Nat /\ r.last \in Nat
  BY <1>1 DEF KeyRows
<1> DEFINE unit == UnitSize(hdr.encoding)
<1>3. unit \in {1, 2}
  BY DEF UnitSize
<1> HIDE DEF unit
<1>4. r.first * unit \in Nat /\ r.last * unit \in Nat
  BY <1>2, <1>3
<1>5. ASSUME NEW n \in Nat, n * unit \in Nat PROVE SummaryLen(n) \in Nat
  BY <1>3, <1>5 DEF SummaryLen, unit
<1>6. KeyRowLen(r) \in Nat
  <2>1. SummaryLen(r.first) \in Nat /\ SummaryLen(r.last) \in Nat
    BY <1>2, <1>4, <1>5
  <2> QED BY <2>1 DEF KeyRowLen
<1>7. ASSUME NEW n \in Nat
      PROVE  (IF hdr.encoding = "utf16" THEN (n \div 2) * 3
              ELSE MaxDecodedLen(hdr.encoding, n)) \in Nat
  <2>1. (n \div 2) * 3 \in Nat
    OBVIOUS
  <2>2. MaxDecodedLen(hdr.encoding, n) \in Nat
    BY MaxDecodedLenIsNumber
  <2> QED BY <2>1, <2>2
<1>8. SummaryBytes(r) \in Nat
  BY <1>4, <1>7 DEF SummaryBytes, unit
<1> QED BY <1>2, <1>6, <1>8

\* A row that passes has at least one entry.
LEMMA KeyRowCounted ==
  ASSUME NEW r \in KeyRows, r.count \in Nat, KeywordRowError(r) = "ok"
  PROVE  r.count > 0
<1> DEFINE e == <<
        Need(run.cursor + KeyRowLen(r) <= IndexLen(decl), "truncated"),
        Need(r.text # "undecodable", "decode"),
        Need(hdr.version = 2 /\ Terminated(decl) => r.text # "unterminated", "format"),
        KeyBlockError(r),
        Checked(run.offset + r.comp),
        Checked(run.start + r.count)>>
<1>1. DOMAIN e = 1..6 /\ e[4] = KeyBlockError(r) /\ FirstError(e) = "ok"
  BY DEF KeywordRowError
<1> HIDE DEF e
<1>2. KeyBlockError(r) = "ok"
  BY <1>1, AllChecked
<1> DEFINE least == r.count * ((IF hdr.version = 1 THEN 4 ELSE 8) + UnitSize(hdr.encoding))
           b == <<
        Need(r.count # 0, "data"),
        Need(r.count <= EntriesLimit, "limit"),
        Need(r.comp <= CompressedLimit, "limit"),
        Need(r.decomp <= DecompressedLimit, "limit"),
        Need(r.comp >= 8, "data"),
        Checked(least),
        Need(least <= r.decomp, "data")>>
<1>3. DOMAIN b = 1..7 /\ b[1] = Need(r.count # 0, "data") /\ FirstError(b) = "ok"
  BY <1>2 DEF KeyBlockError
<1> HIDE DEF b
<1>4. Need(r.count # 0, "data") = "ok"
  BY <1>3, AllChecked
<1>5. r.count # 0
  BY <1>4 DEF Need
<1> QED BY <1>5

\* A row of the keyword index continues the chain of key blocks.
LEMMA KeywordRowSound == LayoutInv /\ KeywordRow => LayoutInv'
<1> SUFFICES ASSUME LayoutInv, KeywordRow PROVE LayoutInv'
  OBVIOUS
<1> DEFINE there == RowAt(written.keyRows, Len(keys) + 1, StrayKeyRow)
<1>1. PICK r \in FieldReads(there, MaxDamage - damage) :
          LET error == KeywordRowError(r) IN
          /\ r \in KeyRows
          /\ UNCHANGED input
          /\ IF error # "ok" THEN Reject("keyword row", error)
             ELSE /\ keys' = Append(keys, [count |-> r.count, start |-> run.start, at |-> run.offset,
                                           comp |-> r.comp, decomp |-> r.decomp])
                  /\ run' = [cursor |-> run.cursor + KeyRowLen(r),
                             offset |-> run.offset + r.comp,
                             start |-> run.start + r.count,
                             total |-> run.total + r.comp,
                             texts |-> run.texts + SummaryBytes(r)]
                  /\ UNCHANGED <<phase, why, text, hdr, sections, decl, records, entries, kept, temp>>
  BY DEF KeywordRow
<1>2. CASE KeywordRowError(r) # "ok"
  BY <1>1, <1>2, RejectKeeps
<1>3. CASE KeywordRowError(r) = "ok"
  <2> DEFINE d == [count |-> r.count, start |-> run.start, at |-> run.offset,
                   comp |-> r.comp, decomp |-> r.decomp]
             cursor == run.cursor + KeyRowLen(r)
             texts == run.texts + SummaryBytes(r)
  <2>1. /\ phase = "key rows" /\ Prefix(4) /\ decl \in KeywordFields
        /\ sections[4].len = decl.blocksLen
        /\ hdr.encoding \in {"utf8", "utf16", "gbk"}
        /\ KeyChain(keys, sections[4].offset, run.offset, run.start)
        /\ run.offset = sections[4].offset + run.total
        /\ kept + RetainedKeys(decl) <= opts.memory
    BY DEF KeywordRow, LayoutInv, SectionsSound, KeysSound, BeforeKeys
  <2>2. keys' = Append(keys, d)
    BY <1>1, <1>3
  <2>3. run' = [cursor |-> cursor, offset |-> run.offset + r.comp, start |-> run.start + r.count,
                total |-> run.total + r.comp, texts |-> texts]
    BY <1>1, <1>3
  <2>4. UNCHANGED <<input, phase, why, text, hdr, sections, decl, records, entries, kept, temp>>
    BY <1>1, <1>3
  <2>5. /\ run.cursor \in Nat /\ run.offset \in Nat /\ run.start \in Nat
        /\ run.total \in Nat /\ run.texts \in Nat
    BY DEF LayoutInv, Numbers
  <2>6. /\ r.count \in Nat /\ r.comp \in Nat /\ r.decomp \in Nat
        /\ KeyRowLen(r) \in Nat /\ SummaryBytes(r) \in Nat
    BY <1>1, <2>1, KeyRowIsNumbers
  <2>7. cursor \in Nat /\ texts \in Nat
    BY <2>5, <2>6
  <2>8. sections[4].offset \in Nat
    <3>1. Prefix(4)
      BY <2>1
    <3>2. 4 \in Nat \ {0} /\ 4 \in 1..4
      OBVIOUS
    <3>3. sections[4] \in Ranges
      BY ONLY <3>1, <3>2, EndIsNumber
    <3> QED BY ONLY <3>3 DEF Ranges
  <2> HIDE DEF cursor, texts
  <2>9. Numbers'
    <3>1. run' \in [cursor : Nat, offset : Nat, start : Nat, total : Nat, texts : Nat]
      <4>1. /\ run.offset + r.comp \in Nat /\ run.start + r.count \in Nat
            /\ run.total + r.comp \in Nat
        <5>1. r.count \in Nat /\ r.comp \in Nat
          BY <2>6
        <5> QED BY ONLY <2>5, <5>1
      <4> QED BY ONLY <2>3, <2>7, <4>1
    <3>2. UNCHANGED <<opts, fileLen, kept, temp, entries>>
      BY <2>4 DEF input
    <3> QED BY <3>1, <3>2 DEF LayoutInv, Numbers
  <2>10. BeforeKeys'
    BY <2>1, <2>4 DEF LayoutInv, BeforeKeys, input
  <2>11. SectionsSound'
    BY <2>1, <2>4 DEF SectionsSound, Prefix, Contained, input
  <2>12. KeysSound'
    <3>1. d \in KeyDescriptors /\ d.at = run.offset /\ d.start = run.start /\ d.count = r.count
          /\ d.comp = r.comp
      BY <2>5, <2>6 DEF KeyDescriptors
    <3>2. d.count > 0
      BY <1>1, <1>3, <2>6, <3>1, KeyRowCounted
    <3> HIDE DEF d
    <3>3. KeyChain(Append(keys, d), sections[4].offset, run.offset + d.comp, run.start + d.count)
      BY <2>1, <2>5, <2>8, <3>1, <3>2, KeyChainGrows
    <3>4. sections' = sections /\ run'.offset = run.offset + d.comp
          /\ run'.start = run.start + d.count /\ run'.total = run.total + d.comp
      BY <2>3, <2>4, <3>1
    <3>5. KeyChain(keys', sections'[4].offset, run'.offset, run'.start)
      BY <2>2, <3>3, <3>4
    <3>6. KeyChain(keys, sections[4].offset, run.offset, run.start)'
      BY <3>5 DEF KeyChain
    <3>7. (run.offset = sections[4].offset + run.total)'
      <4>1. /\ run.offset = sections[4].offset + run.total /\ run.total \in Nat
            /\ sections[4].offset \in Nat /\ d.comp \in Nat
        BY <2>1, <2>5, <2>6, <2>8, <3>1
      <4>2. run'.offset = sections[4].offset + run'.total
        BY ONLY <3>4, <4>1
      <4> QED BY <3>4, <4>2
    <3>8. RetainedKeys(decl)' = RetainedKeys(decl)
      BY <2>4 DEF RetainedKeys, IndexLen
    <3>9. (kept + RetainedKeys(decl) <= opts.memory)'
      BY <2>1, <2>4, <3>8 DEF input
    <3>10. (decl \in KeywordFields /\ sections[4].len = decl.blocksLen)'
      BY <2>1, <2>4 DEF KeywordFields, Width
    <3>11. phase' = "key rows"
      BY <2>1, <2>4
    <3> QED BY <3>6, <3>7, <3>9, <3>10, <3>11 DEF KeysSound
  <2>13. RecordsSound' /\ ParsedIsKept'
    BY <2>1, <2>4 DEF LayoutInv, RecordsSound, ParsedIsKept
  <2> QED BY <2>9, <2>10, <2>11, <2>12, <2>13 DEF LayoutInv
<1> QED BY <1>2, <1>3

\* The sums of the rows are the declared ones.
LEMMA KeywordSumsAgree ==
  ASSUME KeywordSumsError = "ok"
  PROVE  run.start = decl.numEntries /\ run.total = decl.blocksLen
<1> DEFINE e == <<
        Need(run.cursor = IndexLen(decl), "data"),
        Need(run.start = decl.numEntries, "data"),
        Checked(run.total),
        Need(run.total = decl.blocksLen, "data"),
        IF \A i \in DOMAIN keys : EnsureRange(keys[i].at, keys[i].comp) = "ok"
        THEN "ok" ELSE "truncated">>
<1>1. /\ DOMAIN e = 1..5 /\ e[2] = Need(run.start = decl.numEntries, "data")
      /\ e[4] = Need(run.total = decl.blocksLen, "data") /\ FirstError(e) = "ok"
  BY DEF KeywordSumsError
<1> HIDE DEF e
<1>2. e[2] = "ok" /\ e[4] = "ok"
  BY <1>1, AllChecked
<1> QED BY <1>1, <1>2 DEF Need

\* Behind the last row the key blocks reach the end of their section, and the
\* memory to keep them is not refused.
LEMMA KeywordDoneSound == LayoutInv /\ KeywordDone => LayoutInv'
<1> SUFFICES ASSUME LayoutInv, KeywordDone PROVE LayoutInv'
  OBVIOUS
<1>1. /\ phase = "key rows" /\ Prefix(4) /\ decl \in KeywordFields
      /\ sections[4].len = decl.blocksLen
      /\ hdr.encoding \in {"utf8", "utf16", "gbk"}
      /\ KeyChain(keys, sections[4].offset, run.offset, run.start)
      /\ run.offset = sections[4].offset + run.total
      /\ kept + RetainedKeys(decl) <= opts.memory
      /\ UNCHANGED input
  BY DEF KeywordDone, LayoutInv, SectionsSound, KeysSound, BeforeKeys
<1>2. Reserve(kept, RetainedKeys(decl)) = "ok"
  BY <1>1 DEF Reserve, Need
<1>3. CASE KeywordSumsError # "ok"
  BY <1>1, <1>3, RejectKeeps DEF KeywordDone
<1>4. CASE KeywordSumsError = "ok"
  <2>1. run' = [NoRun EXCEPT !.texts = run.texts]
    BY <1>2, <1>4 DEF KeywordDone
  <2>2. /\ phase' = "record" /\ entries' = decl.numEntries /\ temp' = 0
        /\ kept' = kept + RetainedKeys(decl)
        /\ UNCHANGED <<why, text, hdr, sections, keys, records>>
    BY <1>2, <1>4 DEF KeywordDone
  <2>3. run.start = decl.numEntries /\ run.total = decl.blocksLen
    BY <1>4, KeywordSumsAgree
  <2>4. run' = [cursor |-> 0, offset |-> 0, start |-> 0, total |-> 0, texts |-> run.texts]
        /\ run.texts \in Nat
    BY <2>1 DEF LayoutInv, Numbers, NoRun
  <2>5. Numbers'
    <3>1. run' \in [cursor : Nat, offset : Nat, start : Nat, total : Nat, texts : Nat]
      BY <2>4
    <3>2. RetainedKeys(decl) \in Nat /\ decl.numEntries \in Nat /\ kept \in Nat
      BY <1>1, RetainedKeysIsNumber, KeywordFieldsAreNumbers DEF LayoutInv, Numbers
    <3>3. kept' \in Nat /\ entries' \in Nat /\ temp' \in Nat
      BY <2>2, <3>2
    <3>4. UNCHANGED <<opts, fileLen>>
      BY <1>1 DEF input
    <3> QED BY <3>1, <3>3, <3>4 DEF LayoutInv, Numbers
  <2>6. BeforeKeys'
    BY <1>1, <2>2 DEF LayoutInv, BeforeKeys
  <2>7. SectionsSound'
    BY <1>1, <2>2 DEF SectionsSound, Prefix, Contained, input
  <2>8. KeysSound'
    <3>1. run.offset = sections[4].offset + sections[4].len
      BY <1>1, <2>3
    <3>2. KeyChain(keys, sections[4].offset, sections[4].offset + sections[4].len, decl.numEntries)
      BY <1>1, <2>3, <3>1
    <3>3. KeyChain(keys, sections[4].offset, sections[4].offset + sections[4].len, entries)'
      BY <2>2, <3>2 DEF KeyChain
    <3> QED BY <2>2, <3>3 DEF KeysSound
  <2>9. RecordsSound'
    BY <2>2, <2>4 DEF RecordsSound
  <2>10. ParsedIsKept'
    BY <2>2 DEF LayoutInv, ParsedIsKept
  <2> QED BY <2>5, <2>6, <2>7, <2>8, <2>9, <2>10 DEF LayoutInv
<1> QED BY <1>3, <1>4

-----------------------------------------------------------------------------

\* A record header that passes has its index and its blocks in the file, and what
\* will be kept of it was reserved with the rest.
LEMMA RecordHeaderFits ==
  ASSUME NEW f \in RecordFields, SectionEnd \in Nat, Numbers, RecordHeaderError(f) = "ok"
  PROVE  /\ SectionEnd + RecordHeaderLen + f.indexLen + f.blocksLen <= fileLen
         /\ SectionEnd + RecordHeaderLen + f.indexLen + f.blocksLen <= WordMax
         /\ kept + RetainedRecords(f) <= opts.memory
         /\ kept + RecordHeaderLen + f.indexLen + RetainedRecords(f) <= opts.memory
<1> DEFINE index == SectionEnd + RecordHeaderLen
           held == kept + RecordHeaderLen + f.indexLen
           e == <<
        Reserve(kept, RecordHeaderLen),
        EnsureRange(SectionEnd, RecordHeaderLen),
        RecordCountsError(f),
        Checked(index), Checked(index + f.indexLen),
        EnsureRange(index, f.indexLen),
        EnsureRange(index + f.indexLen, f.blocksLen),
        Reserve(kept + RecordHeaderLen, f.indexLen),
        Reserve(held, RetainedRecords(f))>>
<1>1. /\ DOMAIN e = 1..9 /\ e[7] = EnsureRange(index + f.indexLen, f.blocksLen)
      /\ e[9] = Reserve(held, RetainedRecords(f)) /\ FirstError(e) = "ok"
  BY DEF RecordHeaderError
<1> HIDE DEF e
<1>2. EnsureRange(index + f.indexLen, f.blocksLen) = "ok" /\ Reserve(held, RetainedRecords(f)) = "ok"
  BY <1>1, AllChecked
<1>3. f.indexLen \in Nat /\ f.blocksLen \in Nat /\ RetainedRecords(f) \in Nat
  BY RecordFieldsAreNumbers
<1>4. RecordHeaderLen \in Nat
  BY DEF RecordHeaderLen
<1>5. index \in Nat /\ index + f.indexLen \in Nat /\ held \in Nat /\ held >= kept
  BY <1>3, <1>4 DEF Numbers
<1> HIDE DEF index, held
<1>6. index + f.indexLen + f.blocksLen <= fileLen /\ index + f.indexLen + f.blocksLen <= WordMax
  BY <1>2, <1>3, <1>5, InFile DEF Numbers
<1>7. held + RetainedRecords(f) <= opts.memory
  BY <1>2, <1>3, <1>5, Reserved DEF Numbers
<1>8. kept + RetainedRecords(f) <= opts.memory
  BY <1>3, <1>5, <1>7 DEF Numbers
<1> QED BY <1>6, <1>7, <1>8 DEF index, held

\* The ranges of a record section that passes its header checks are in the file.
LEMMA RecordHeaderSound == LayoutInv /\ RecordHeader => LayoutInv'
<1> SUFFICES ASSUME LayoutInv, RecordHeader PROVE LayoutInv'
  OBVIOUS
<1>1. PICK f \in FieldReads(written.record, MaxDamage - damage) :
          LET error == RecordHeaderError(f)
              index == SectionEnd + RecordHeaderLen
          IN
          /\ f \in RecordFields
          /\ UNCHANGED input
          /\ IF error # "ok" THEN Reject("record header", error)
             ELSE /\ phase' = "record rows"
                  /\ decl' = f
                  /\ sections' = sections \o
                        <<[offset |-> SectionEnd, len |-> RecordHeaderLen],
                          [offset |-> index, len |-> f.indexLen],
                          [offset |-> index + f.indexLen, len |-> f.blocksLen]>>
                  /\ run' = [run EXCEPT !.offset = index + f.indexLen]
                  /\ temp' = RecordHeaderLen + f.indexLen + RetainedRecords(f)
                  /\ UNCHANGED <<why, text, hdr, keys, records, entries, kept>>
  BY DEF RecordHeader
<1>2. CASE RecordHeaderError(f) # "ok"
  BY <1>1, <1>2, RejectKeeps
<1>3. CASE RecordHeaderError(f) = "ok"
  <2> DEFINE end == SectionEnd
             index == end + RecordHeaderLen
             more == <<[offset |-> end, len |-> RecordHeaderLen],
                       [offset |-> end + RecordHeaderLen, len |-> f.indexLen],
                       [offset |-> end + RecordHeaderLen + f.indexLen, len |-> f.blocksLen]>>
  <2>1. phase = "record" /\ Prefix(4) /\ f \in RecordFields /\ Numbers /\ records = <<>>
        /\ run.start = 0
        /\ KeyChain(keys, sections[4].offset, sections[4].offset + sections[4].len, entries)
    BY <1>1 DEF RecordHeader, LayoutInv, SectionsSound, KeysSound, RecordsSound, BeforeKeys
  <2>2. /\ phase' = "record rows" /\ decl' = f
        /\ temp' = RecordHeaderLen + f.indexLen + RetainedRecords(f)
        /\ UNCHANGED <<input, why, text, hdr, keys, records, entries, kept>>
    BY <1>1, <1>3
  <2>3. run' = [run EXCEPT !.offset = index + f.indexLen]
    BY <1>1, <1>3
  <2>4. sections' = sections \o more /\ Parts(more, end, RecordHeaderLen, f.indexLen, f.blocksLen)
    BY <1>1, <1>3 DEF Parts
  <2>5. RecordHeaderLen \in Nat
    BY DEF RecordHeaderLen
  <2>6. f.indexLen \in Nat /\ f.blocksLen \in Nat /\ RetainedRecords(f) \in Nat
    BY <2>1, RecordFieldsAreNumbers
  <2>7. 4 \in Nat \ {0} /\ 4 + 3 = 7 /\ 4 \in 1..4
    OBVIOUS
  <2>8. end \in Nat /\ end = sections[4].offset + sections[4].len
    BY <2>1, <2>7, EndIsNumber
  <2>9. Contained(sections, 4, fileLen)
    BY <2>1 DEF Prefix
  <2>10. fileLen \in Nat
    BY <2>1 DEF Numbers
  <2>11. /\ end + RecordHeaderLen + f.indexLen + f.blocksLen <= fileLen
         /\ end + RecordHeaderLen + f.indexLen + f.blocksLen <= WordMax
         /\ kept + RetainedRecords(f) <= opts.memory
    BY <1>3, <2>1, <2>8, RecordHeaderFits
  <2> HIDE DEF more, end
  <2>12. /\ Follows(more, sections, 4, fileLen) /\ Joined(sections \o more, sections, more)
         /\ more[3].offset = index + f.indexLen /\ more[3].len = f.blocksLen
    <3>1. Parts(more, end, RecordHeaderLen, f.indexLen, f.blocksLen)
      BY <2>4
    <3>2. /\ end + RecordHeaderLen + f.indexLen + f.blocksLen <= fileLen
          /\ end + RecordHeaderLen + f.indexLen + f.blocksLen <= WordMax
      BY <2>11
    <3>3. f.indexLen \in Nat /\ f.blocksLen \in Nat
      BY <2>6
    <3>4. 4 \in Nat \ {0}
      BY <2>7
    <3> QED BY ONLY <2>5, <2>8, <2>9, <2>10, <3>1, <3>2, <3>3, <3>4, PartsFollow
  <2>13. Joined(sections', sections, more)
    BY ONLY <2>4, <2>12
  <2>14. /\ Contained(sections', 4 + 3, fileLen) /\ sections'[4 + 3] = more[3]
         /\ \A i \in 1..4 : sections'[i] = sections[i]
    BY ONLY <2>7, <2>9, <2>10, <2>12, <2>13, RangesGrow
  <2>15. /\ Contained(sections', 7, fileLen) /\ sections'[4] = sections[4]
         /\ sections'[7].offset = index + f.indexLen /\ sections'[7].len = f.blocksLen
    BY ONLY <2>7, <2>12, <2>14
  <2>16. UNCHANGED <<opts, fileLen, kept, entries>>
    BY <2>2 DEF input
  <2>17. index + f.indexLen \in Nat
    BY <2>5, <2>6, <2>8
  <2> HIDE DEF index
  <2>18. /\ run' \in [cursor : Nat, offset : Nat, start : Nat, total : Nat, texts : Nat]
         /\ run'.offset = index + f.indexLen /\ run'.start = 0
    BY <2>1, <2>3, <2>17 DEF Numbers
  <2>19. Numbers'
    <3>1. temp' \in Nat
      <4>1. temp' = RecordHeaderLen + f.indexLen + RetainedRecords(f)
        BY <2>2
      <4> QED BY ONLY <2>5, <2>6, <4>1
    <3> QED BY <2>16, <2>18, <3>1 DEF LayoutInv, Numbers
  <2>20. BeforeKeys'
    BY <2>2 DEF BeforeKeys
  <2>21. SectionsSound'
    <3>1. Contained(sections', 7, fileLen')
      BY <2>15, <2>16
    <3>2. Prefix(7)'
      BY ONLY <3>1 DEF Prefix, Contained
    <3> QED BY <2>2, <3>2 DEF SectionsSound
  <2>22. KeysSound'
    <3>1. KeyChain(keys', sections'[4].offset, sections'[4].offset + sections'[4].len, entries')
      BY <2>1, <2>2, <2>15
    <3>2. KeyChain(keys, sections[4].offset, sections[4].offset + sections[4].len, entries)'
      BY ONLY <3>1 DEF KeyChain
    <3> QED BY <2>2, <3>2 DEF KeysSound
  <2>23. RecordsSound'
    <3>1. (decl \in RecordFields)'
      BY <2>1, <2>2 DEF RecordFields, Width
    <3>2. RecordChain(<<>>, index + f.indexLen, index + f.indexLen, 0)
      BY DEF RecordChain
    <3>3. RecordChain(records', sections'[7].offset, run'.offset, run'.start)
      BY <2>1, <2>2, <2>15, <2>18, <3>2
    <3>4. RecordChain(records, sections[7].offset, run.offset, run.start)'
      BY ONLY <3>3 DEF RecordChain
    <3>5. (sections[7].len = decl.blocksLen)'
      BY <2>2, <2>15
    <3>6. (kept + RetainedRecords(decl) <= opts.memory)'
      BY <2>2, <2>11, <2>16 DEF RetainedRecords
    <3> QED BY <2>2, <3>1, <3>4, <3>5, <3>6 DEF RecordsSound
  <2>24. ParsedIsKept'
    BY <2>2 DEF LayoutInv, ParsedIsKept
  <2> QED BY <2>19, <2>20, <2>21, <2>22, <2>23, <2>24 DEF LayoutInv
<1> QED BY <1>2, <1>3

-----------------------------------------------------------------------------

\* A row of the record index continues the chain of record blocks.
LEMMA RecordRowSound == LayoutInv /\ RecordRow => LayoutInv'
<1> SUFFICES ASSUME LayoutInv, RecordRow PROVE LayoutInv'
  OBVIOUS
<1> DEFINE there == RowAt(written.recordRows, Len(records) + 1, StrayRecordRow)
<1>1. PICK r \in FieldReads(there, MaxDamage - damage) :
          LET error == RecordRowError(r) IN
          /\ r \in RecordRows
          /\ UNCHANGED input
          /\ IF error # "ok" THEN Reject("record row", error)
             ELSE /\ records' = Append(records, [at |-> run.offset, comp |-> r.comp,
                                                 start |-> run.start, decomp |-> r.decomp])
                  /\ run' = [run EXCEPT !.cursor = @ + RecordRowLen, !.offset = @ + r.comp,
                                        !.start = @ + r.decomp, !.total = @ + r.comp]
                  /\ UNCHANGED <<phase, why, text, hdr, sections, decl, keys, entries, kept, temp>>
  BY DEF RecordRow
<1>2. CASE RecordRowError(r) # "ok"
  BY <1>1, <1>2, RejectKeeps
<1>3. CASE RecordRowError(r) = "ok"
  <2> DEFINE d == [at |-> run.offset, comp |-> r.comp, start |-> run.start, decomp |-> r.decomp]
  <2>1. /\ phase = "record rows" /\ Prefix(7) /\ decl \in RecordFields
        /\ sections[7].len = decl.blocksLen
        /\ RecordChain(records, sections[7].offset, run.offset, run.start)
        /\ kept + RetainedRecords(decl) <= opts.memory
        /\ KeyChain(keys, sections[4].offset, sections[4].offset + sections[4].len, entries)
    BY DEF RecordRow, LayoutInv, SectionsSound, KeysSound, RecordsSound
  <2>2. records' = Append(records, d)
    BY <1>1, <1>3
  <2>3. run' = [run EXCEPT !.cursor = @ + RecordRowLen, !.offset = @ + r.comp,
                           !.start = @ + r.decomp, !.total = @ + r.comp]
    BY <1>1, <1>3
  <2>4. UNCHANGED <<input, phase, why, text, hdr, sections, decl, keys, entries, kept, temp>>
    BY <1>1, <1>3
  <2>5. run \in [cursor : Nat, offset : Nat, start : Nat, total : Nat, texts : Nat]
    BY DEF LayoutInv, Numbers
  <2>6. r.comp \in Nat /\ r.decomp \in Nat
    <3>1. Width \in Nat
      BY LimitsAreNumbers DEF Width
    <3>2. r \in RecordRows
      BY <1>1
    <3> QED BY ONLY <3>1, <3>2 DEF RecordRows
  <2>7. RecordRowLen \in Nat
    BY DEF RecordRowLen
  <2>8. sections[7].offset \in Nat
    <3>1. Prefix(7)
      BY <2>1
    <3>2. 7 \in Nat \ {0} /\ 7 \in 1..7
      OBVIOUS
    <3>3. sections[7] \in Ranges
      BY ONLY <3>1, <3>2, EndIsNumber
    <3> QED BY ONLY <3>3 DEF Ranges
  <2>9. /\ run' \in [cursor : Nat, offset : Nat, start : Nat, total : Nat, texts : Nat]
        /\ run'.offset = run.offset + r.comp /\ run'.start = run.start + r.decomp
    <3>1. run' = [cursor |-> run.cursor + RecordRowLen, offset |-> run.offset + r.comp,
                  start |-> run.start + r.decomp, total |-> run.total + r.comp,
                  texts |-> run.texts]
      BY ONLY <2>3, <2>5
    <3>2. /\ run.cursor + RecordRowLen \in Nat /\ run.offset + r.comp \in Nat
          /\ run.start + r.decomp \in Nat /\ run.total + r.comp \in Nat /\ run.texts \in Nat
      BY ONLY <2>5, <2>6, <2>7
    <3> QED BY ONLY <3>1, <3>2
  <2>10. Numbers'
    <3>1. UNCHANGED <<opts, fileLen, kept, temp, entries>>
      BY <2>4 DEF input
    <3> QED BY <2>9, <3>1 DEF LayoutInv, Numbers
  <2>11. BeforeKeys'
    BY <2>1, <2>4 DEF BeforeKeys
  <2>12. SectionsSound'
    BY <2>1, <2>4 DEF SectionsSound, Prefix, Contained, input
  <2>13. KeysSound'
    <3>1. KeyChain(keys, sections[4].offset, sections[4].offset + sections[4].len, entries)'
      BY <2>1, <2>4 DEF KeyChain
    <3> QED BY <2>1, <2>4, <3>1 DEF KeysSound
  <2>14. RecordsSound'
    <3>1. run.offset \in Nat /\ run.start \in Nat
      BY <2>5
    <3>2. d \in RecordDescriptors /\ d.at = run.offset /\ d.start = run.start
          /\ d.comp = r.comp /\ d.decomp = r.decomp
      BY <2>6, <3>1 DEF RecordDescriptors
    <3> HIDE DEF d
    <3>3. RecordChain(Append(records, d), sections[7].offset, run.offset + d.comp, run.start + d.decomp)
      BY <2>1, <2>8, <3>1, <3>2, RecordChainGrows
    <3>4. sections' = sections
      BY <2>4
    <3>5. RecordChain(records', sections'[7].offset, run'.offset, run'.start)
      BY <2>2, <2>9, <3>2, <3>3, <3>4
    <3>6. RecordChain(records, sections[7].offset, run.offset, run.start)'
      BY ONLY <3>5 DEF RecordChain
    <3>7. (decl \in RecordFields /\ sections[7].len = decl.blocksLen)'
      BY <2>1, <2>4 DEF RecordFields, Width
    <3>8. (kept + RetainedRecords(decl) <= opts.memory)'
      BY <2>1, <2>4 DEF input, RetainedRecords
    <3>9. phase' = "record rows"
      BY <2>1, <2>4
    <3> QED BY <3>6, <3>7, <3>8, <3>9 DEF RecordsSound
  <2>15. ParsedIsKept'
    BY <2>4 DEF LayoutInv, ParsedIsKept
  <2> QED BY <2>10, <2>11, <2>12, <2>13, <2>14, <2>15 DEF LayoutInv
<1> QED BY <1>2, <1>3

\* The blocks end where the section does.
LEMMA RecordSumsAgree ==
  ASSUME RecordSumsError = "ok"
  PROVE  run.offset = sections[7].offset + decl.blocksLen
<1> DEFINE e == <<
        Need(run.total = decl.blocksLen, "data"),
        Need(run.cursor = decl.indexLen, "data"),
        Checked(sections[7].offset + decl.blocksLen),
        Need(run.offset = sections[7].offset + decl.blocksLen, "data")>>
<1>1. /\ DOMAIN e = 1..4 /\ e[4] = Need(run.offset = sections[7].offset + decl.blocksLen, "data")
      /\ FirstError(e) = "ok"
  BY DEF RecordSumsError
<1> HIDE DEF e
<1>2. Need(run.offset = sections[7].offset + decl.blocksLen, "data") = "ok"
  BY <1>1, AllChecked
<1> QED BY <1>2 DEF Need

\* Behind the last row the record blocks reach the end of their section, and the
\* memory to keep them is not refused.
LEMMA RecordDoneSound == LayoutInv /\ RecordDone => LayoutInv'
<1> SUFFICES ASSUME LayoutInv, RecordDone PROVE LayoutInv'
  OBVIOUS
<1>1. /\ phase = "record rows" /\ Prefix(7) /\ decl \in RecordFields
      /\ sections[7].len = decl.blocksLen
      /\ RecordChain(records, sections[7].offset, run.offset, run.start)
      /\ kept + RetainedRecords(decl) <= opts.memory
      /\ KeyChain(keys, sections[4].offset, sections[4].offset + sections[4].len, entries)
      /\ UNCHANGED input
  BY DEF RecordDone, LayoutInv, SectionsSound, KeysSound, RecordsSound
<1>2. Reserve(kept, RetainedRecords(decl)) = "ok"
  BY <1>1 DEF Reserve, Need
<1>3. CASE RecordSumsError # "ok"
  BY <1>1, <1>3, RejectKeeps DEF RecordDone
<1>4. CASE RecordSumsError = "ok" /\ entries # decl.numEntries
  BY <1>1, <1>2, <1>4, RejectKeeps DEF RecordDone
<1>5. CASE RecordSumsError = "ok" /\ entries = decl.numEntries
  <2>1. run' = [NoRun EXCEPT !.start = run.start, !.texts = run.texts]
    BY <1>2, <1>5 DEF RecordDone
  <2>2. /\ phase' = "verify" /\ temp' = 0 /\ kept' = kept + RetainedRecords(decl)
        /\ UNCHANGED <<why, text, hdr, sections, keys, records, entries>>
    BY <1>2, <1>5 DEF RecordDone
  <2>3. run.offset = sections[7].offset + sections[7].len
    BY <1>1, <1>5, RecordSumsAgree
  <2>4. run.start \in Nat /\ run.texts \in Nat
    BY DEF LayoutInv, Numbers
  <2>5. run' = [cursor |-> 0, offset |-> 0, start |-> run.start, total |-> 0, texts |-> run.texts]
    BY <2>1 DEF NoRun
  <2>6. /\ run' \in [cursor : Nat, offset : Nat, start : Nat, total : Nat, texts : Nat]
        /\ run'.start = run.start
    BY <2>4, <2>5
  <2>7. Numbers'
    <3>1. RetainedRecords(decl) \in Nat /\ kept \in Nat
      BY <1>1, RecordFieldsAreNumbers DEF LayoutInv, Numbers
    <3>2. kept' \in Nat /\ temp' \in Nat
      BY <2>2, <3>1
    <3>3. UNCHANGED <<opts, fileLen, entries>>
      BY <1>1, <2>2 DEF input
    <3> QED BY <2>6, <3>2, <3>3 DEF LayoutInv, Numbers
  <2>8. BeforeKeys'
    BY <2>2 DEF BeforeKeys
  <2>9. SectionsSound'
    BY <1>1, <2>2 DEF SectionsSound, Prefix, Contained, input
  <2>10. KeysSound'
    <3>1. KeyChain(keys, sections[4].offset, sections[4].offset + sections[4].len, entries)'
      BY <1>1, <2>2 DEF KeyChain
    <3> QED BY <2>2, <3>1 DEF KeysSound
  <2>11. RecordsSound'
    <3>1. RecordChain(records, sections[7].offset, sections[7].offset + sections[7].len, run.start)
      BY <1>1, <2>3
    <3>2. RecordChain(records', sections'[7].offset, sections'[7].offset + sections'[7].len, run'.start)
      BY <2>2, <2>6, <3>1
    <3>3. RecordChain(records, sections[7].offset, sections[7].offset + sections[7].len, run.start)'
      BY ONLY <3>2 DEF RecordChain
    <3> QED BY <2>2, <3>3 DEF RecordsSound
  <2>12. ParsedIsKept'
    BY <2>2 DEF LayoutInv, ParsedIsKept
  <2> QED BY <2>7, <2>8, <2>9, <2>10, <2>11, <2>12 DEF LayoutInv
<1> QED BY <1>3, <1>4, <1>5

-----------------------------------------------------------------------------

\* Where no check returns, FirstError is "ok".
LEMMA NoneFailed ==
  ASSUME NEW errors, \A i \in DOMAIN errors : errors[i] = "ok"
  PROVE  FirstError(errors) = "ok"
BY DEF FirstError

\* What the chains say is what ValidatedLayout::verify looks for.
LEMMA ChainsCover ==
  ASSUME Numbers, Prefix(7),
         KeyChain(keys, sections[4].offset, sections[4].offset + sections[4].len, entries),
         RecordChain(records, sections[7].offset, sections[7].offset + sections[7].len, run.start)
  PROVE  /\ SectionsContiguous /\ SectionEnd <= fileLen /\ SectionEnd <= WordMax
         /\ KeyBlocksTile /\ RecordBlocksTile /\ OrdinalsCovered /\ RecordsCovered
<1>1. SectionsContiguous
  BY DEF Prefix, Contained, SectionsContiguous
<1>2. SectionEnd <= fileLen /\ SectionEnd <= WordMax
  BY DEF Prefix, Contained, SectionEnd
<1>3. KeyBlocksTile
  BY DEF KeyBlocksTile, Covers, KeyChain
<1>4. OrdinalsCovered
  BY DEF OrdinalsCovered, Covers, KeyChain
<1>5. RecordBlocksTile
  BY DEF RecordBlocksTile, Covers, RecordChain
<1>6. RecordsCovered
  BY DEF RecordsCovered, Covers, RecordChain
<1> QED BY <1>1, <1>2, <1>3, <1>4, <1>5, <1>6

\* ValidatedLayout::verify finds nothing.
LEMMA VerifySound == LayoutInv /\ Verify => LayoutInv'
<1> SUFFICES ASSUME LayoutInv, Verify PROVE LayoutInv'
  OBVIOUS
<1>1. /\ phase = "verify" /\ Numbers /\ Prefix(7)
      /\ KeyChain(keys, sections[4].offset, sections[4].offset + sections[4].len, entries)
      /\ RecordChain(records, sections[7].offset, sections[7].offset + sections[7].len, run.start)
  BY DEF Verify, LayoutInv, SectionsSound, KeysSound, RecordsSound
<1>2. SectionsContiguous /\ SectionEnd <= WordMax /\ OrdinalsCovered /\ RecordsCovered
  BY <1>1, ChainsCover
<1>3. VerifyError = "ok"
  <2> DEFINE e == <<Need(SectionsContiguous, "data"), Checked(SectionEnd),
                    Need(OrdinalsCovered, "data"), Need(RecordsCovered, "data")>>
  <2>1. /\ Need(SectionsContiguous, "data") = "ok" /\ Checked(SectionEnd) = "ok"
        /\ Need(OrdinalsCovered, "data") = "ok" /\ Need(RecordsCovered, "data") = "ok"
    BY <1>2 DEF Need, Checked
  <2>2. \A i \in DOMAIN e : e[i] = "ok"
    BY <2>1
  <2>3. VerifyError = FirstError(e)
    BY DEF VerifyError
  <2> HIDE DEF e
  <2> QED BY <2>2, <2>3, NoneFailed
<1>4. /\ phase' = "open"
      /\ UNCHANGED <<input, why, text, hdr, sections, decl, run, keys, records, entries, kept, temp>>
  BY <1>3 DEF Verify
<1>5. Numbers'
  BY <1>1, <1>4 DEF Numbers, input
<1>6. BeforeKeys' /\ ParsedIsKept'
  BY <1>4 DEF LayoutInv, BeforeKeys, ParsedIsKept
<1>7. SectionsSound'
  BY <1>1, <1>4 DEF SectionsSound, Prefix, Contained, input
<1>8. KeysSound'
  <2>1. KeyChain(keys, sections[4].offset, sections[4].offset + sections[4].len, entries)'
    BY <1>1, <1>4 DEF KeyChain
  <2> QED BY <1>4, <2>1 DEF KeysSound
<1>9. RecordsSound'
  <2>1. RecordChain(records, sections[7].offset, sections[7].offset + sections[7].len, run.start)'
    BY <1>1, <1>4 DEF RecordChain
  <2> QED BY <1>4, <2>1 DEF RecordsSound
<1> QED BY <1>5, <1>6, <1>7, <1>8, <1>9 DEF LayoutInv

\* A failed read or allocation leaves nothing parsed.
LEMMA FailsSound == LayoutInv /\ Fails => LayoutInv'
<1> SUFFICES ASSUME LayoutInv, Fails PROVE LayoutInv'
  OBVIOUS
<1>1. UNCHANGED input
  BY DEF Fails
<1>2. CASE /\ phase \in {"start", "source", "keyword", "index", "record"}
           /\ Reject(phase, "io")
  BY <1>1, <1>2, RejectKeeps
<1>3. CASE /\ phase \in {"source", "keyword", "index", "key rows", "record"}
           /\ Reject(phase, "allocation")
  BY <1>1, <1>3, RejectKeeps
<1> QED BY <1>2, <1>3 DEF Fails

\* A step of something else changes nothing here.
LEMMA UnchangedSound == LayoutInv /\ UNCHANGED vars => LayoutInv'
<1> SUFFICES ASSUME LayoutInv, UNCHANGED vars PROVE LayoutInv'
  OBVIOUS
<1>1. UNCHANGED <<opts, fileLen, phase, why, text, hdr, sections, decl, run, keys, records,
                  entries, kept, temp>>
  BY DEF vars, input
<1>2. Numbers' /\ BeforeKeys' /\ ParsedIsKept'
  BY <1>1 DEF LayoutInv, Numbers, BeforeKeys, ParsedIsKept
<1>3. SectionsSound'
  BY <1>1 DEF LayoutInv, SectionsSound, Prefix, Contained
<1>4. KeysSound'
  <2>1. RetainedKeys(decl)' = RetainedKeys(decl) /\ KeywordFields' = KeywordFields
    BY <1>1 DEF RetainedKeys, IndexLen, KeywordFields, Width
  <2>2. KeyChain(keys, sections[4].offset, run.offset, run.start)'
           = KeyChain(keys, sections[4].offset, run.offset, run.start)
    BY <1>1 DEF KeyChain
  <2>3. KeyChain(keys, sections[4].offset, sections[4].offset + sections[4].len, entries)'
           = KeyChain(keys, sections[4].offset, sections[4].offset + sections[4].len, entries)
    BY <1>1 DEF KeyChain
  <2> QED BY <1>1, <2>1, <2>2, <2>3 DEF LayoutInv, KeysSound
<1>5. RecordsSound'
  <2>1. RetainedRecords(decl)' = RetainedRecords(decl) /\ RecordFields' = RecordFields
    BY <1>1 DEF RetainedRecords, RecordFields, Width
  <2>2. RecordChain(records, sections[7].offset, run.offset, run.start)'
           = RecordChain(records, sections[7].offset, run.offset, run.start)
    BY <1>1 DEF RecordChain
  <2>3. RecordChain(records, sections[7].offset, sections[7].offset + sections[7].len, run.start)'
           = RecordChain(records, sections[7].offset, sections[7].offset + sections[7].len, run.start)
    BY <1>1 DEF RecordChain
  <2> QED BY <1>1, <2>1, <2>2, <2>3 DEF LayoutInv, RecordsSound
<1> QED BY <1>2, <1>3, <1>4, <1>5 DEF LayoutInv

-----------------------------------------------------------------------------

(***************************************************************************)
(* The memory.  A summary string is given the capacity its decoder asks    *)
(* for, and the reservation is made once for the whole index.  TextBound   *)
(* is what makes the one cover the other whatever the rows are: the bytes  *)
(* of the strings are bounded by the bytes of the index they come from.    *)
(* MemoryInv adds what is reserved in each stage.                          *)
(***************************************************************************)

\* `bytes` of strings come from n bytes of the index.
TextBound(encoding, bytes, n) ==
    IF encoding = "utf8" THEN bytes <= n ELSE 2 * bytes <= 3 * n

MemoryInv ==
    /\ kept + temp <= opts.memory
    /\ phase \in {"start", "source", "dispatch", "keyword", "record", "verify", "open"} => temp = 0
    /\ phase = "dispatch" => sections[1].len = 4 + text.xmlLen + 4
    /\ phase \in {"keyword", "index", "key rows"} =>
          kept = HeaderMemoryEstimate(sections[1].len - 8)
    /\ phase = "index" => temp = KeywordHeaderLen
    /\ phase = "key rows" =>
          /\ temp = KeywordHeaderLen + IndexBytes(decl) + RetainedKeys(decl)
          /\ run.cursor <= IndexLen(decl)
          /\ TextBound(hdr.encoding, run.texts, run.cursor)
    /\ phase \in {"record", "record rows", "verify", "open"} =>
          HeaderMemoryEstimate(sections[1].len - 8) + Len(keys) * KeyDescriptorBytes
              + run.texts <= kept

\* The two strings of a row are bounded by its bytes: what encoding_rs adds to each
\* is less than the numbers of the row give.
LEMMA RowTextBound ==
  ASSUME NEW r \in KeyRows, hdr.encoding \in {"utf8", "utf16", "gbk"}
  PROVE  TextBound(hdr.encoding, SummaryBytes(r), KeyRowLen(r))
<1>1. Width \in Nat /\ UnitsMax \in Nat
  BY LimitsAreNumbers DEF Width, UnitsMax
<1>2. r.first \in Nat /\ r.last \in Nat
  BY <1>1 DEF KeyRows
<1> DEFINE a == r.first
           b == r.last
           unit == UnitSize(hdr.encoding)
<1>3. KeyRowLen(r) \in Nat /\ KeyRowLen(r) >= a * unit + b * unit + 14
  <2>1. unit \in {1, 2}
    BY DEF UnitSize
  <2> DEFINE x == a * unit
             y == b * unit
  <2>2. x \in Nat /\ y \in Nat
    BY <1>2, <2>1
  <2>3. KeyRowLen(r) = IF hdr.version = 1 THEN (1 + x) + (1 + y) + (4 + 8)
                       ELSE (2 + x + (IF Terminated(decl) THEN unit ELSE 0))
                            + (2 + y + (IF Terminated(decl) THEN unit ELSE 0)) + (8 + 16)
    BY DEF KeyRowLen, SummaryLen
  <2> HIDE DEF x, y, unit
  <2>4. KeyRowLen(r) \in Nat /\ KeyRowLen(r) >= x + y + 14
    BY <2>1, <2>2, <2>3
  <2> QED BY <2>4 DEF x, y
<1>4. CASE hdr.encoding = "utf8"
  <2>1. SummaryBytes(r) = a * 1 + b * 1
    BY <1>4 DEF SummaryBytes, MaxDecodedLen, UnitSize
  <2>2. KeyRowLen(r) >= a * 1 + b * 1 + 14
    BY <1>3, <1>4 DEF UnitSize
  <2> HIDE DEF a, b
  <2>3. a \in Nat /\ b \in Nat
    BY <1>2 DEF a, b
  <2>4. SummaryBytes(r) <= KeyRowLen(r)
    BY <1>3, <2>1, <2>2, <2>3
  <2> QED BY <1>4, <2>4 DEF TextBound
<1>5. CASE hdr.encoding = "utf16"
  <2>1. SummaryBytes(r) = ((a * 2) \div 2) * 3 + ((b * 2) \div 2) * 3
    BY <1>5 DEF SummaryBytes, UnitSize
  <2>2. KeyRowLen(r) >= a * 2 + b * 2 + 14
    BY <1>3, <1>5 DEF UnitSize
  <2> HIDE DEF a, b
  <2>3. a \in Nat /\ b \in Nat
    BY <1>2 DEF a, b
  <2>4. 2 * SummaryBytes(r) <= 3 * KeyRowLen(r)
    BY <1>3, <2>1, <2>2, <2>3
  <2> QED BY <1>5, <2>4 DEF TextBound
<1>6. CASE hdr.encoding = "gbk"
  <2>1. SummaryBytes(r) = (a * 1 + (a * 1 + 1) \div 2 + CodecSlack)
                          + (b * 1 + (b * 1 + 1) \div 2 + CodecSlack)
    BY <1>6 DEF SummaryBytes, MaxDecodedLen, UnitSize
  <2>2. KeyRowLen(r) >= a * 1 + b * 1 + 14
    BY <1>3, <1>6 DEF UnitSize
  <2> HIDE DEF a, b
  <2>3. a \in Nat /\ b \in Nat /\ CodecSlack \in 0..10
    BY <1>2, LayoutAssumption DEF a, b
  <2>4. 2 * SummaryBytes(r) <= 3 * KeyRowLen(r)
    BY <1>3, <2>1, <2>2, <2>3
  <2> QED BY <1>6, <2>4 DEF TextBound
<1> QED BY <1>4, <1>5, <1>6

\* Bounds of two parts of the index add up.
LEMMA TextBoundAdds ==
  ASSUME NEW e, NEW x \in Nat, NEW m \in Nat, NEW y \in Nat, NEW n \in Nat,
         TextBound(e, x, m), TextBound(e, y, n)
  PROVE  TextBound(e, x + y, m + n)
BY DEF TextBound

\* What the rows decode to is no more than max_decoded_len of the whole index.
LEMMA TextsFit ==
  ASSUME NEW e \in {"utf8", "utf16", "gbk"}, NEW x \in Nat, NEW m \in Nat, NEW n \in Nat,
         m <= n, TextBound(e, x, m)
  PROVE  x <= MaxDecodedLen(e, n)
<1>1. CASE e = "utf8"
  BY <1>1 DEF MaxDecodedLen, TextBound
<1>2. CASE e = "utf16"
  <2>1. MaxDecodedLen(e, n) = ((n + 1) \div 2) * 3 /\ 2 * x <= 3 * m
    BY <1>2 DEF MaxDecodedLen, TextBound
  <2> QED BY <2>1
<1>3. CASE e = "gbk"
  <2>1. MaxDecodedLen(e, n) = n + (n + 1) \div 2 + CodecSlack /\ 2 * x <= 3 * m
    BY <1>3 DEF MaxDecodedLen, TextBound
  <2> QED BY <2>1, LimitsAreNumbers
<1> QED BY <1>1, <1>2, <1>3

\* A rejected open holds nothing.
LEMMA RejectFrees ==
  ASSUME LayoutInv', NEW at, NEW error, Reject(at, error)
  PROVE  MemoryInv'
<1>1. phase' = "rejected" /\ kept' = 0 /\ temp' = 0 /\ opts.memory' \in Nat
  BY DEF Reject, LayoutInv, Numbers
<1> QED BY <1>1 DEF MemoryInv

\* A keyword header that passes had its bytes reserved.
LEMMA KeywordHeaderReserved ==
  ASSUME NEW f, Numbers, KeywordHeaderError(f) = "ok"
  PROVE  kept + KeywordHeaderLen <= opts.memory
<1> DEFINE e == <<IF hdr.version = 1 THEN V1KeywordError(f) ELSE V2KeywordError(f),
                  KeywordCountsError(f), KeywordRangesError(f)>>
<1>1. /\ DOMAIN e = 1..3 /\ FirstError(e) = "ok"
      /\ e[1] = IF hdr.version = 1 THEN V1KeywordError(f) ELSE V2KeywordError(f)
  BY DEF KeywordHeaderError
<1> HIDE DEF e
<1>2. (IF hdr.version = 1 THEN V1KeywordError(f) ELSE V2KeywordError(f)) = "ok"
  BY <1>1, AllChecked
<1>3. CASE hdr.version = 1
  <2> DEFINE c == <<
        Need(~HasKeywordHeader(hdr.bits) /\ ~HasKeywordIndex(hdr.bits), "unsupported"),
        Reserve(kept, 16),
        EnsureRange(SectionEnd, 16),
        Need(f.compLen <= KeyIndexLimit, "limit")>>
  <2>1. DOMAIN c = 1..4 /\ c[2] = Reserve(kept, 16) /\ FirstError(c) = "ok"
    BY <1>2, <1>3 DEF V1KeywordError
  <2> HIDE DEF c
  <2>2. Reserve(kept, 16) = "ok"
    BY <2>1, AllChecked
  <2> QED BY <1>3, <2>2, Reserved DEF Numbers, KeywordHeaderLen
<1>4. CASE hdr.version # 1
  <2> DEFINE c == <<
        Reserve(kept, 44),
        EnsureRange(SectionEnd, 44),
        Need(HasKeywordHeader(hdr.bits) => opts.passcode # "none", "passcode"),
        Need(HasKeywordHeader(hdr.bits) => opts.passcode # "malformed", "data"),
        Need(f.sum # "bad" \/ ~opts.verify, "checksum"),
        Need(f.decompLen <= KeyIndexLimit, "limit"),
        Need(f.compLen <= KeyIndexLimit, "limit"),
        Need(f.compLen >= 8, "data")>>
  <2>1. DOMAIN c = 1..8 /\ c[1] = Reserve(kept, 44) /\ FirstError(c) = "ok"
    BY <1>2, <1>4 DEF V2KeywordError
  <2> HIDE DEF c
  <2>2. Reserve(kept, 44) = "ok"
    BY <2>1, AllChecked
  <2> QED BY <1>4, <2>2, Reserved DEF Numbers, KeywordHeaderLen
<1> QED BY <1>3, <1>4

\* A row that passes is in the index.
LEMMA KeyRowInIndex ==
  ASSUME NEW r, KeywordRowError(r) = "ok"
  PROVE  run.cursor + KeyRowLen(r) <= IndexLen(decl)
<1> DEFINE e == <<
        Need(run.cursor + KeyRowLen(r) <= IndexLen(decl), "truncated"),
        Need(r.text # "undecodable", "decode"),
        Need(hdr.version = 2 /\ Terminated(decl) => r.text # "unterminated", "format"),
        KeyBlockError(r),
        Checked(run.offset + r.comp),
        Checked(run.start + r.count)>>
<1>1. /\ DOMAIN e = 1..6 /\ e[1] = Need(run.cursor + KeyRowLen(r) <= IndexLen(decl), "truncated")
      /\ FirstError(e) = "ok"
  BY DEF KeywordRowError
<1> HIDE DEF e
<1>2. Need(run.cursor + KeyRowLen(r) <= IndexLen(decl), "truncated") = "ok"
  BY <1>1, AllChecked
<1> QED BY <1>2 DEF Need

\* Nothing is held when open starts.
LEMMA InitMemory == Init => MemoryInv
<1> SUFFICES ASSUME Init PROVE MemoryInv
  OBVIOUS
<1>1. phase = "start" /\ kept = 0 /\ temp = 0 /\ opts.memory \in Nat
  BY LayoutAssumption DEF Init
<1> QED BY <1>1 DEF MemoryInv

\* Up to the choice of the grammar: the header is kept with its estimate.
LEMMA HeaderMemory ==
  ASSUME LayoutInv, LayoutInv', MemoryInv, OpenSource \/ ReadHeader \/ Dispatch
  PROVE  MemoryInv'
<1>1. CASE OpenSource
  <2>1. CASE fileLen = 0
    BY <1>1, <2>1, RejectFrees DEF OpenSource
  <2>2. CASE fileLen # 0
    <3>1. phase = "start" /\ phase' = "source" /\ UNCHANGED <<opts, kept, temp>>
      BY <1>1, <2>2 DEF OpenSource, input
    <3> QED BY <3>1 DEF MemoryInv
  <2> QED BY <2>1, <2>2
<1>2. CASE ReadHeader
  <2>1. PICK t \in HeaderTexts \cup {written.text} :
            LET error == ParseHeaderError(t) IN
            /\ UNCHANGED input
            /\ IF error # "ok" THEN Reject("header", error)
               ELSE /\ phase' = "dispatch"
                    /\ text' = t
                    /\ sections' = <<[offset |-> 0, len |-> 4 + t.xmlLen + 4]>>
                    /\ UNCHANGED <<why, hdr, decl, run, keys, records, entries, kept, temp>>
    BY <1>2 DEF ReadHeader
  <2>2. CASE ParseHeaderError(t) # "ok"
    BY <2>1, <2>2, RejectFrees
  <2>3. CASE ParseHeaderError(t) = "ok"
    <3>1. /\ phase = "source" /\ phase' = "dispatch" /\ text' = t
          /\ sections' = <<[offset |-> 0, len |-> 4 + t.xmlLen + 4]>>
          /\ UNCHANGED <<opts, kept, temp>>
      BY <1>2, <2>1, <2>3 DEF ReadHeader, input
    <3>2. sections'[1].len = 4 + text'.xmlLen + 4
      BY <3>1
    <3> QED BY <3>1, <3>2 DEF MemoryInv
  <2> QED BY <2>2, <2>3
<1>3. CASE Dispatch
  <2> DEFINE h == BuildHeader(opts.kind, text.tag, text.attrs)
             estimate == HeaderMemoryEstimate(text.xmlLen)
             encoding == ForKeys(opts.kind, h.label)
  <2>1. /\ phase = "dispatch" /\ UNCHANGED input
        /\ CASE DispatchError(h) # "ok" -> Reject("dispatch", DispatchError(h))
             [] DispatchError(h) = "ok" /\ Reserve(kept, estimate) # "ok" ->
                    Reject("retain header", "memory")
             [] DispatchError(h) = "ok" /\ Reserve(kept, estimate) = "ok" /\ encoding = None ->
                    Reject("encoding", "unsupported")
             [] OTHER ->
                    /\ phase' = "keyword" /\ kept' = kept + estimate
                    /\ UNCHANGED <<sections, temp>>
    BY <1>3 DEF Dispatch
  <2> HIDE DEF h, encoding
  <2>2. CASE \E at, error : Reject(at, error)
    BY <2>2, RejectFrees
  <2>3. CASE ~\E at, error : Reject(at, error)
    <3>1. /\ phase' = "keyword" /\ kept' = kept + estimate /\ UNCHANGED <<opts, sections, temp>>
      BY <2>1, <2>3 DEF input
    <3>2. /\ text.xmlLen \in Nat /\ estimate <= opts.memory /\ kept = 0 /\ temp = 0
          /\ sections[1].len = 4 + text.xmlLen + 4
      BY <2>1 DEF LayoutInv, BeforeKeys, MemoryInv
    <3>3. sections[1].len - 8 = text.xmlLen /\ estimate \in Nat
      BY <3>2, EstimateIsNumber
    <3>4. kept' = HeaderMemoryEstimate(sections'[1].len - 8)
      BY <3>1, <3>2, <3>3
    <3> HIDE DEF estimate
    <3>5. kept' + temp' <= opts'.memory /\ temp' = 0
      BY <3>1, <3>2, <3>3
    <3> QED BY <3>1, <3>4, <3>5 DEF MemoryInv
  <2> QED BY <2>2, <2>3
<1> QED BY <1>1, <1>2, <1>3

\* The keyword section: its header, then its index with what will be kept of it.
LEMMA KeywordMemory ==
  ASSUME LayoutInv, LayoutInv', MemoryInv, KeywordHeader \/ KeywordIndex
  PROVE  MemoryInv'
<1>1. CASE KeywordHeader
  <2>1. PICK f \in FieldReads(written.keyword, MaxDamage - damage) :
          LET error == KeywordHeaderError(f)
              index == SectionEnd + KeywordHeaderLen
          IN
          /\ UNCHANGED input
          /\ IF error # "ok" THEN Reject("keyword header", error)
             ELSE /\ phase' = "index"
                  /\ sections' = sections \o
                        <<[offset |-> SectionEnd, len |-> KeywordHeaderLen],
                          [offset |-> index, len |-> f.compLen],
                          [offset |-> index + f.compLen, len |-> f.blocksLen]>>
                  /\ temp' = KeywordHeaderLen
                  /\ UNCHANGED <<hdr, kept>>
    BY <1>1 DEF KeywordHeader
  <2>2. CASE KeywordHeaderError(f) # "ok"
    BY <2>1, <2>2, RejectFrees
  <2>3. CASE KeywordHeaderError(f) = "ok"
    <3> DEFINE more == <<[offset |-> SectionEnd, len |-> KeywordHeaderLen],
                         [offset |-> SectionEnd + KeywordHeaderLen, len |-> f.compLen],
                         [offset |-> SectionEnd + KeywordHeaderLen + f.compLen,
                          len |-> f.blocksLen]>>
    <3>1. /\ phase = "keyword" /\ phase' = "index" /\ temp' = KeywordHeaderLen
          /\ sections' = sections \o more /\ UNCHANGED <<opts, hdr, kept>>
      BY <1>1, <2>1, <2>3 DEF KeywordHeader, input
    <3>2. sections'[1] = sections[1]
      <4>1. sections \in Seq(Ranges) /\ Len(sections) = 1
        BY <3>1 DEF LayoutInv, SectionsSound, Prefix, Contained
      <4>2. more \in Seq([offset : {more[1].offset, more[2].offset, more[3].offset},
                           len : {more[1].len, more[2].len, more[3].len}])
            /\ Len(more) = 3
        OBVIOUS
      <4> HIDE DEF more
      <4> QED BY <3>1, <4>1, <4>2, ConcatProperties
    <3>3. kept + KeywordHeaderLen <= opts.memory
      BY <2>3, KeywordHeaderReserved DEF LayoutInv
    <3>4. temp' = KeywordHeaderLen' /\ kept' + temp' <= opts'.memory
      BY <3>1, <3>3 DEF KeywordHeaderLen
    <3>5. kept' = HeaderMemoryEstimate(sections'[1].len - 8)
      BY <3>1, <3>2 DEF MemoryInv
    <3> QED BY <3>1, <3>4, <3>5 DEF MemoryInv
  <2> QED BY <2>2, <2>3
<1>2. CASE KeywordIndex
  <2>1. PICK env \in FieldReads(written.env, MaxDamage - damage) :
          LET error == KeywordIndexError(decl, env) IN
          /\ UNCHANGED input
          /\ IF error # "ok" THEN Reject("keyword index", error)
             ELSE /\ phase' = "key rows"
                  /\ run' = [NoRun EXCEPT !.offset = sections[4].offset]
                  /\ temp' = temp + IndexBytes(decl) + RetainedKeys(decl)
                  /\ UNCHANGED <<why, text, hdr, sections, decl, keys, records, entries, kept>>
    BY <1>2 DEF KeywordIndex
  <2>2. CASE KeywordIndexError(decl, env) # "ok"
    BY <2>1, <2>2, RejectFrees
  <2>3. CASE KeywordIndexError(decl, env) = "ok"
    <3>1. /\ phase = "index" /\ phase' = "key rows"
          /\ temp' = temp + IndexBytes(decl) + RetainedKeys(decl)
          /\ run' = [NoRun EXCEPT !.offset = sections[4].offset]
          /\ UNCHANGED <<opts, hdr, sections, decl, kept>>
      BY <1>2, <2>1, <2>3 DEF KeywordIndex, input
    <3>2. decl \in KeywordFields /\ hdr.encoding \in {"utf8", "utf16", "gbk"}
      BY <3>1 DEF LayoutInv, KeysSound, BeforeKeys
    <3>3. kept + temp + IndexBytes(decl) + RetainedKeys(decl) <= opts.memory
      BY <2>3, <3>2, KeysReserved DEF LayoutInv
    <3>4. IndexBytes(decl) \in Nat /\ RetainedKeys(decl) \in Nat /\ IndexLen(decl) \in Nat
      BY <3>2, KeywordFieldsAreNumbers, RetainedKeysIsNumber
    <3>5. kept \in Nat /\ temp \in Nat /\ opts.memory \in Nat
      BY DEF LayoutInv, Numbers
    <3>6. kept' + temp' <= opts'.memory
      <4>1. /\ temp' = temp + IndexBytes(decl) + RetainedKeys(decl)
            /\ kept' = kept /\ opts' = opts
        BY <3>1
      <4> QED BY ONLY <3>3, <3>4, <3>5, <4>1
    <3>7. temp' = (KeywordHeaderLen + IndexBytes(decl) + RetainedKeys(decl))'
      BY <3>1 DEF MemoryInv, KeywordHeaderLen, IndexBytes, RetainedKeys, IndexLen
    <3>8. run'.cursor = 0 /\ run'.texts = 0
      BY <3>1 DEF NoRun
    <3>9. (run.cursor <= IndexLen(decl))' /\ TextBound(hdr.encoding, run.texts, run.cursor)'
      <4>1. IndexLen(decl)' = IndexLen(decl)
        BY <3>1 DEF IndexLen
      <4> QED BY <3>4, <3>8, <4>1 DEF TextBound
    <3>10. kept' = HeaderMemoryEstimate(sections'[1].len - 8)
      BY <3>1 DEF MemoryInv
    <3> QED BY <3>1, <3>6, <3>7, <3>9, <3>10 DEF MemoryInv
  <2> QED BY <2>2, <2>3
<1> QED BY <1>1, <1>2

\* The strings of the rows stay within the reservation of the index.
LEMMA KeyRowMemory ==
  ASSUME LayoutInv, LayoutInv', MemoryInv, KeywordRow
  PROVE  MemoryInv'
<1> DEFINE there == RowAt(written.keyRows, Len(keys) + 1, StrayKeyRow)
<1>1. PICK r \in FieldReads(there, MaxDamage - damage) :
          LET error == KeywordRowError(r) IN
          /\ r \in KeyRows
          /\ UNCHANGED input
          /\ IF error # "ok" THEN Reject("keyword row", error)
             ELSE /\ run' = [cursor |-> run.cursor + KeyRowLen(r),
                             offset |-> run.offset + r.comp,
                             start |-> run.start + r.count,
                             total |-> run.total + r.comp,
                             texts |-> run.texts + SummaryBytes(r)]
                  /\ UNCHANGED <<phase, why, text, hdr, sections, decl, records, entries, kept, temp>>
  BY DEF KeywordRow
<1>2. CASE KeywordRowError(r) # "ok"
  BY <1>1, <1>2, RejectFrees
<1>3. CASE KeywordRowError(r) = "ok"
  <2>0. run' = [cursor |-> run.cursor + KeyRowLen(r), offset |-> run.offset + r.comp,
                start |-> run.start + r.count, total |-> run.total + r.comp,
                texts |-> run.texts + SummaryBytes(r)]
    BY <1>1, <1>3
  <2>1. /\ phase = "key rows" /\ UNCHANGED <<opts, phase, hdr, sections, decl, kept, temp>>
        /\ run'.cursor = run.cursor + KeyRowLen(r) /\ run'.texts = run.texts + SummaryBytes(r)
    <3>1. run'.cursor = run.cursor + KeyRowLen(r) /\ run'.texts = run.texts + SummaryBytes(r)
      BY ONLY <2>0
    <3>2. phase = "key rows" /\ UNCHANGED <<opts, phase, hdr, sections, decl, kept, temp>>
      BY <1>1, <1>3 DEF KeywordRow, input
    <3> QED BY <3>1, <3>2
  <2>2. hdr.encoding \in {"utf8", "utf16", "gbk"} /\ r \in KeyRows
    BY <1>1, <2>1 DEF LayoutInv, BeforeKeys
  <2>3. /\ run.cursor \in Nat /\ run.texts \in Nat
        /\ KeyRowLen(r) \in Nat /\ SummaryBytes(r) \in Nat
    BY <2>2, KeyRowIsNumbers DEF LayoutInv, Numbers
  <2>4. TextBound(hdr.encoding, SummaryBytes(r), KeyRowLen(r))
    BY <2>2, RowTextBound
  <2>5. TextBound(hdr.encoding, run.texts, run.cursor)
    BY <2>1 DEF MemoryInv
  <2>6. TextBound(hdr.encoding, run.texts + SummaryBytes(r), run.cursor + KeyRowLen(r))
    BY <2>3, <2>4, <2>5, TextBoundAdds
  <2>7. TextBound(hdr.encoding, run.texts, run.cursor)'
    BY <2>1, <2>6 DEF TextBound
  <2>8. run.cursor + KeyRowLen(r) <= IndexLen(decl)
    BY <1>3, KeyRowInIndex
  <2>9. (run.cursor <= IndexLen(decl))'
    BY <2>1, <2>8 DEF IndexLen
  <2>10. temp' = (KeywordHeaderLen + IndexBytes(decl) + RetainedKeys(decl))'
    BY <2>1 DEF MemoryInv, KeywordHeaderLen, IndexBytes, RetainedKeys, IndexLen
  <2>11. kept' = HeaderMemoryEstimate(sections'[1].len - 8) /\ kept' + temp' <= opts'.memory
    BY <2>1 DEF MemoryInv
  <2> QED BY <2>1, <2>7, <2>9, <2>10, <2>11 DEF MemoryInv
<1> QED BY <1>2, <1>3

\* What the keyword section keeps covers its descriptors and its strings.
LEMMA KeysMemory ==
  ASSUME LayoutInv, LayoutInv', MemoryInv, KeywordDone
  PROVE  MemoryInv'
<1>1. CASE \E at, error : Reject(at, error)
  BY <1>1, RejectFrees
<1>2. CASE ~\E at, error : Reject(at, error)
  <2>1. /\ phase = "key rows" /\ Len(keys) = decl.numBlocks /\ phase' = "record"
        /\ kept' = kept + RetainedKeys(decl) /\ temp' = 0
        /\ run' = [NoRun EXCEPT !.texts = run.texts]
        /\ UNCHANGED <<opts, hdr, sections, keys>>
    BY <1>2 DEF KeywordDone, input
  <2>2. /\ decl \in KeywordFields /\ hdr.encoding \in {"utf8", "utf16", "gbk"}
        /\ kept + RetainedKeys(decl) <= opts.memory
    BY <2>1 DEF LayoutInv, KeysSound, BeforeKeys
  <2>3. /\ kept = HeaderMemoryEstimate(sections[1].len - 8)
        /\ run.cursor <= IndexLen(decl) /\ TextBound(hdr.encoding, run.texts, run.cursor)
    BY <2>1 DEF MemoryInv
  <2>4. kept \in Nat /\ run.cursor \in Nat /\ run.texts \in Nat /\ opts.memory \in Nat
    BY DEF LayoutInv, Numbers
  <2>5. IndexLen(decl) \in Nat /\ RetainedKeys(decl) \in Nat /\ decl.numBlocks \in Nat
    BY <2>2, KeywordFieldsAreNumbers, RetainedKeysIsNumber
  <2>6. run.texts <= MaxDecodedLen(hdr.encoding, IndexLen(decl))
    BY <2>2, <2>3, <2>4, <2>5, TextsFit
  <2> DEFINE decoded == MaxDecodedLen(hdr.encoding, IndexLen(decl))
             descriptors == decl.numBlocks * KeyDescriptorBytes
  <2>7. decoded \in Nat /\ descriptors \in Nat /\ RetainedKeys(decl) = decoded + descriptors
    BY <2>2, <2>5, MaxDecodedLenIsNumber, LimitsAreNumbers DEF RetainedKeys
  <2>8. /\ Len(keys)' * KeyDescriptorBytes = descriptors
        /\ HeaderMemoryEstimate(sections'[1].len - 8) = kept
        /\ run'.texts = run.texts
    BY <2>1, <2>3 DEF NoRun
  <2> HIDE DEF decoded, descriptors
  <2>9. kept + descriptors + run.texts <= kept'
    <3>1. kept' = kept + RetainedKeys(decl) /\ run.texts <= decoded
      BY <2>1, <2>6 DEF decoded
    <3>2. kept \in Nat /\ run.texts \in Nat
      BY <2>4
    <3> QED BY ONLY <2>7, <3>1, <3>2
  <2>10. kept' + temp' <= opts'.memory
    <3>1. kept' = kept + RetainedKeys(decl) /\ temp' = 0 /\ opts' = opts
      BY <2>1
    <3>2. kept + RetainedKeys(decl) <= opts.memory
      BY <2>2
    <3>3. kept \in Nat /\ RetainedKeys(decl) \in Nat /\ opts.memory \in Nat
      BY <2>4, <2>5
    <3> QED BY ONLY <3>1, <3>2, <3>3
  <2> QED BY <2>1, <2>8, <2>9, <2>10 DEF MemoryInv
<1> QED BY <1>1, <1>2

\* The record section: what the reader keeps of it was reserved with the rest.
LEMMA RecordMemory ==
  ASSUME LayoutInv, LayoutInv', MemoryInv, RecordHeader
  PROVE  MemoryInv'
<1>1. PICK f \in FieldReads(written.record, MaxDamage - damage) :
          LET error == RecordHeaderError(f)
              index == SectionEnd + RecordHeaderLen
          IN
          /\ f \in RecordFields
          /\ UNCHANGED input
          /\ IF error # "ok" THEN Reject("record header", error)
             ELSE /\ phase' = "record rows"
                  /\ sections' = sections \o
                        <<[offset |-> SectionEnd, len |-> RecordHeaderLen],
                          [offset |-> index, len |-> f.indexLen],
                          [offset |-> index + f.indexLen, len |-> f.blocksLen]>>
                  /\ run' = [run EXCEPT !.offset = index + f.indexLen]
                  /\ temp' = RecordHeaderLen + f.indexLen + RetainedRecords(f)
                  /\ UNCHANGED <<why, text, hdr, keys, records, entries, kept>>
  BY DEF RecordHeader
<1>2. CASE RecordHeaderError(f) # "ok"
  BY <1>1, <1>2, RejectFrees
<1>3. CASE RecordHeaderError(f) = "ok"
  <2> DEFINE more == <<[offset |-> SectionEnd, len |-> RecordHeaderLen],
                       [offset |-> SectionEnd + RecordHeaderLen, len |-> f.indexLen],
                       [offset |-> SectionEnd + RecordHeaderLen + f.indexLen,
                        len |-> f.blocksLen]>>
  <2>1. /\ phase = "record" /\ phase' = "record rows"
        /\ temp' = RecordHeaderLen + f.indexLen + RetainedRecords(f)
        /\ UNCHANGED <<opts, keys, kept>>
    BY <1>1, <1>3 DEF RecordHeader, input
  <2>2. sections' = sections \o more
    BY <1>1, <1>3
  <2>3. run'.texts = run.texts
    BY <1>1, <1>3 DEF LayoutInv, Numbers
  <2>4. sections \in Seq(Ranges) /\ Len(sections) = 4 /\ Prefix(4)
    BY <2>1 DEF LayoutInv, SectionsSound, Prefix, Contained
  <2>5. sections'[1] = sections[1]
    <3>1. more \in Seq([offset : {more[1].offset, more[2].offset, more[3].offset},
                        len : {more[1].len, more[2].len, more[3].len}])
          /\ Len(more) = 3
      OBVIOUS
    <3> HIDE DEF more
    <3> QED BY <2>2, <2>4, <3>1, ConcatProperties
  <2>6. SectionEnd \in Nat
    BY <2>4, EndIsNumber
  <2>7. kept + RecordHeaderLen + f.indexLen + RetainedRecords(f) <= opts.memory
    BY <1>1, <1>3, <2>6, RecordHeaderFits DEF LayoutInv
  <2>8. /\ f.indexLen \in Nat /\ RetainedRecords(f) \in Nat /\ RecordHeaderLen \in Nat
        /\ kept \in Nat /\ opts.memory \in Nat
    BY <1>1, RecordFieldsAreNumbers DEF LayoutInv, Numbers, RecordHeaderLen
  <2>9. kept' + temp' <= opts'.memory
    <3>1. /\ temp' = RecordHeaderLen + f.indexLen + RetainedRecords(f)
          /\ kept' = kept /\ opts' = opts
      BY <2>1
    <3> QED BY ONLY <2>7, <2>8, <3>1
  <2>10. HeaderMemoryEstimate(sections[1].len - 8) + Len(keys) * KeyDescriptorBytes
            + run.texts <= kept
    BY <2>1 DEF MemoryInv
  <2>11. HeaderMemoryEstimate(sections'[1].len - 8) + Len(keys') * KeyDescriptorBytes
            + run'.texts <= kept'
    BY <2>1, <2>3, <2>5, <2>10
  <2> QED BY <2>1, <2>9, <2>11 DEF MemoryInv
<1> QED BY <1>2, <1>3

\* The rows of the record index, the end of the section and the verification.
LEMMA RestMemory ==
  ASSUME LayoutInv, LayoutInv', MemoryInv, RecordRow \/ RecordDone \/ Verify
  PROVE  MemoryInv'
<1>1. CASE \E at, error : Reject(at, error)
  BY <1>1, RejectFrees
<1>2. CASE ~\E at, error : Reject(at, error)
  <2>1. CASE RecordRow
    <3>1. /\ phase = "record rows" /\ UNCHANGED <<opts, phase, sections, keys, kept, temp>>
      BY <1>2, <2>1 DEF RecordRow, input
    <3>2. \E r : run' = [run EXCEPT !.cursor = @ + RecordRowLen, !.offset = @ + r.comp,
                                    !.start = @ + r.decomp, !.total = @ + r.comp]
      BY <1>2, <2>1 DEF RecordRow
    <3>3. run'.texts = run.texts
      BY <3>2 DEF LayoutInv, Numbers
    <3> QED BY <3>1, <3>3 DEF MemoryInv
  <2>2. CASE RecordDone
    <3>1. /\ phase = "record rows" /\ phase' = "verify" /\ temp' = 0
          /\ kept' = kept + RetainedRecords(decl)
          /\ run' = [NoRun EXCEPT !.start = run.start, !.texts = run.texts]
          /\ UNCHANGED <<opts, sections, keys>>
      BY <1>2, <2>2 DEF RecordDone, input
    <3>2. decl \in RecordFields /\ kept + RetainedRecords(decl) <= opts.memory
      BY <3>1 DEF LayoutInv, RecordsSound
    <3>3. RetainedRecords(decl) \in Nat /\ kept \in Nat /\ opts.memory \in Nat
      BY <3>2, RecordFieldsAreNumbers DEF LayoutInv, Numbers
    <3>4. run'.texts = run.texts
      BY <3>1 DEF NoRun
    <3>5. kept' + temp' <= opts'.memory /\ kept' \in Nat /\ kept <= kept'
      <4>1. temp' = 0 /\ kept' = kept + RetainedRecords(decl) /\ opts' = opts
        BY <3>1
      <4>2. kept + RetainedRecords(decl) <= opts.memory
        BY <3>2
      <4> QED BY ONLY <3>3, <4>1, <4>2
    <3> DEFINE held == HeaderMemoryEstimate(sections[1].len - 8) + Len(keys) * KeyDescriptorBytes
                          + run.texts
    <3>6. held <= kept /\ held \in Int
      <4>1. held <= kept
        BY <3>1 DEF MemoryInv
      <4>2. Prefix(7)
        BY <3>1 DEF LayoutInv, SectionsSound
      <4>3. sections[1] \in Ranges
        <5>1. 7 \in Nat \ {0} /\ 1 \in 1..7
          OBVIOUS
        <5> QED BY ONLY <4>2, <5>1, EndIsNumber
      <4>4. HeaderMemoryEstimate(sections[1].len - 8) \in Int
        <5>1. sections[1].len - 8 \in Int
          BY <4>3 DEF Ranges
        <5> DEFINE n == sections[1].len - 8
        <5> HIDE DEF n
        <5>2. HeaderMemoryEstimate(n) \in Int
          BY <5>1, LimitsAreNumbers DEF HeaderMemoryEstimate, n
        <5> QED BY <5>2 DEF n
      <4>5. keys \in Seq(KeyDescriptors) /\ run.texts \in Nat
        BY <3>1 DEF LayoutInv, KeysSound, KeyChain, Numbers
      <4>6. Len(keys) * KeyDescriptorBytes \in Int
        BY <4>5, LimitsAreNumbers
      <4> QED BY <4>1, <4>4, <4>5, <4>6
    <3>7. held' = held
      BY <3>1, <3>4
    <3> HIDE DEF held
    <3>8. held' <= kept'
      BY <3>3, <3>5, <3>6, <3>7
    <3> QED BY <3>1, <3>5, <3>8 DEF MemoryInv, held
  <2>3. CASE Verify
    <3>1. phase = "verify" /\ phase' = "open" /\ UNCHANGED <<opts, sections, run, keys, kept, temp>>
      BY <1>2, <2>3 DEF Verify, input
    <3> QED BY <3>1 DEF MemoryInv
  <2> QED BY <2>1, <2>2, <2>3
<1> QED BY <1>1, <1>2

-----------------------------------------------------------------------------

(***************************************************************************)
(* The header.  Resolve compares an alias only with its predecessor; the   *)
(* order of the attributes does not matter because a chain of equal        *)
(* neighbours has one value throughout.                                    *)
(***************************************************************************)

\* A set of numbers with an upper bound that is not empty has a largest element.
LEMMA GreatestExists ==
  ASSUME NEW n \in Nat, NEW S, S \subseteq 0..n, S # {}
  PROVE  \E i \in S : \A j \in S : j <= i
<1> DEFINE D == {n - i : i \in S}
<1>1. D \subseteq Nat /\ D # {}
  <2>1. \A i \in S : n - i \in Nat
    OBVIOUS
  <2>2. PICK i \in S : TRUE
    OBVIOUS
  <2>3. n - i \in D
    OBVIOUS
  <2> QED BY <2>1, <2>3
<1>2. PICK d \in D : \A e \in D : d <= e
  BY <1>1, LeastExists
<1>3. PICK i \in S : d = n - i
  OBVIOUS
<1>4. ASSUME NEW j \in S PROVE j <= i
  <2>1. n - j \in D
    OBVIOUS
  <2>2. d <= n - j /\ i \in Int /\ j \in Int
    BY <1>2, <2>1
  <2> QED BY <1>3, <2>2
<1> QED BY <1>4

\* Where no two neighbours differ, no two aliases do.
LEMMA AliasesAgree ==
  ASSUME NEW n \in Nat, NEW f, DOMAIN f \subseteq 1..n, Resolve(f).error = "ok"
  PROVE  \A i, j \in DOMAIN f : f[i] = f[j] /\ f[i] # None
<1> DEFINE Adjacent(i, j) == i < j /\ \A k \in DOMAIN f : k <= i \/ k >= j
<1>1. /\ \A i \in DOMAIN f : f[i] # None
      /\ \A i, j \in DOMAIN f : Adjacent(i, j) => f[i] = f[j]
  BY DEF Resolve
<1>2. ASSUME NEW i \in DOMAIN f, NEW j \in DOMAIN f, i < j, f[i] # f[j] PROVE FALSE
  <2> DEFINE D == {k \in DOMAIN f : i < k /\ f[k] # f[i]}
  <2>1. D \subseteq Nat /\ D # {}
    BY <1>2
  <2>2. PICK k \in D : \A m \in D : k <= m
    BY <2>1, LeastExists
  <2> DEFINE E == {m \in DOMAIN f : m < k}
  <2>3. E \subseteq 0..n /\ E # {}
    BY <2>2
  <2>4. PICK m \in E : \A l \in E : l <= m
    BY <2>3, GreatestExists
  <2>5. m \in DOMAIN f /\ k \in DOMAIN f /\ m < k /\ i <= m
    BY <2>2, <2>4
  <2>6. \A l \in DOMAIN f : l <= m \/ l >= k
    BY <2>4, <2>5
  <2>7. f[m] = f[k]
    BY <1>1, <2>5, <2>6
  <2>8. f[m] = f[i]
    <3>1. CASE m = i
      BY <3>1
    <3>2. CASE m # i
      <4>1. i < m /\ ~(k <= m)
        BY <2>5, <3>2
      <4>2. m \notin D
        BY <2>2, <4>1
      <4> QED BY <2>5, <4>1, <4>2
    <3> QED BY <3>1, <3>2
  <2> QED BY <2>2, <2>7, <2>8
<1>3. ASSUME NEW i \in DOMAIN f, NEW j \in DOMAIN f PROVE f[i] = f[j]
  <2>1. i \in Int /\ j \in Int
    OBVIOUS
  <2> QED BY <1>2, <2>1
<1> QED BY <1>1, <1>3

\* The same aliases at other places resolve to the same.
LEMMA ResolveMoved ==
  ASSUME NEW n \in Nat, NEW f, NEW g, DOMAIN f \subseteq 1..n, DOMAIN g \subseteq 1..n,
         Resolve(f).error = "ok", NEW p,
         \A i \in DOMAIN g : p[i] \in DOMAIN f /\ g[i] = f[p[i]],
         DOMAIN g = {} => DOMAIN f = {}
  PROVE  Resolve(g) = Resolve(f)
<1>1. \A i, j \in DOMAIN f : f[i] = f[j] /\ f[i] # None
  BY AliasesAgree
<1>2. \A i, j \in DOMAIN g : g[i] = g[j] /\ g[i] # None
  BY <1>1
<1> DEFINE last(h) == CHOOSE i \in DOMAIN h : \A j \in DOMAIN h : j <= i
<1>3. /\ Resolve(f) = [error |-> "ok", value |-> IF DOMAIN f = {} THEN None ELSE f[last(f)]]
      /\ Resolve(g) = [error |-> "ok", value |-> IF DOMAIN g = {} THEN None ELSE g[last(g)]]
  BY <1>1, <1>2 DEF Resolve
<1>4. ASSUME NEW h, DOMAIN h \subseteq 1..n, DOMAIN h # {} PROVE last(h) \in DOMAIN h
  <2>1. DOMAIN h \subseteq 0..n
    BY <1>4
  <2>2. \E i \in DOMAIN h : \A j \in DOMAIN h : j <= i
    BY <1>4, <2>1, GreatestExists
  <2> QED BY <2>2
<1> HIDE DEF last
<1>5. CASE DOMAIN g = {}
  BY <1>3, <1>5
<1>6. CASE DOMAIN g # {}
  <2>1. DOMAIN f # {}
    BY <1>6
  <2>2. last(f) \in DOMAIN f /\ last(g) \in DOMAIN g
    BY <1>4, <1>6, <2>1
  <2>3. g[last(g)] = f[last(f)]
    BY <1>1, <2>2
  <2> QED BY <1>3, <1>6, <2>1, <2>3
<1> QED BY <1>5, <1>6

\* A permutation of 1..n reaches every place.
LEMMA PermutationOnto ==
  ASSUME NEW n \in Nat, NEW p \in [1..n -> 1..n], \A i, j \in 1..n : p[i] = p[j] => i = j
  PROVE  \A j \in 1..n : \E i \in 1..n : p[i] = j
<1> DEFINE T == {p[i] : i \in 1..n}
<1>1. IsFiniteSet(1..n) /\ Cardinality(1..n) = n
  BY FS_Interval
<1>2. T \subseteq 1..n
  OBVIOUS
<1>3. p \in Surjection(1..n, T) /\ p \in Injection(1..n, T)
  BY DEF Surjection, Injection, IsInjective
<1>4. Cardinality(T) = Cardinality(1..n)
  BY <1>1, <1>3, FS_Surjection
<1>5. T = 1..n
  BY <1>1, <1>2, <1>4, FS_Subset
<1> QED BY <1>5

\* What parse_single_tag accepts, without the order of the attributes.
LEMMA TagAccepted ==
  ASSUME NEW t, t.attrs \in Seq(Attributes)
  PROVE  ParseSingleTag(t) = "ok" <=>
            /\ \A i \in DOMAIN t.attrs :
                  /\ i <= AttributeLimit
                  /\ \A j \in 1..(i - 1) : \/ t.attrs[j].name # t.attrs[i].name
                                           \/ t.attrs[j].spelling # t.attrs[i].spelling
                  /\ t.attrs[i].escape = "good"
            /\ t.syntax = "good"
<1> DEFINE n == Len(t.attrs)
           Good(i) == /\ i <= AttributeLimit
                      /\ \A j \in 1..(i - 1) : \/ t.attrs[j].name # t.attrs[i].name
                                               \/ t.attrs[j].spelling # t.attrs[i].spelling
                      /\ t.attrs[i].escape = "good"
           errors == [i \in DOMAIN t.attrs |-> AttributeError(t.attrs, i)]
           last == Need(t.syntax = "good", "format")
           all == Append(errors, last)
<1>1. n \in Nat /\ DOMAIN t.attrs = 1..n
  OBVIOUS
<1>2. ASSUME NEW i \in 1..n PROVE AttributeError(t.attrs, i) = "ok" <=> Good(i)
  <2> DEFINE a == Need(i <= AttributeLimit, "limit")
             b == Need(\A j \in 1..(i - 1) : \/ t.attrs[j].name # t.attrs[i].name
                                             \/ t.attrs[j].spelling # t.attrs[i].spelling, "data")
             c == Need(t.attrs[i].escape = "good", "format")
  <2>1. AttributeError(t.attrs, i) = FirstError(<<a, b, c>>)
    BY DEF AttributeError
  <2>2. Good(i) <=> a = "ok" /\ b = "ok" /\ c = "ok"
    BY DEF Need
  <2> HIDE DEF a, b, c, Good
  <2> DEFINE e == <<a, b, c>>
  <2>3. DOMAIN e = 1..3 /\ e[1] = a /\ e[2] = b /\ e[3] = c
    OBVIOUS
  <2>4. AttributeError(t.attrs, i) = FirstError(e)
    BY <2>1
  <2> HIDE DEF e
  <2>5. DOMAIN e \subseteq Nat
    BY <2>3
  <2>6. FirstError(e) = "ok" => Good(i)
    BY <2>2, <2>3, <2>5, AllChecked
  <2>7. Good(i) => FirstError(e) = "ok"
    <3>1. Good(i) => \A k \in DOMAIN e : e[k] = "ok"
      BY <2>2, <2>3
    <3> QED BY <3>1, NoneFailed
  <2> QED BY <2>4, <2>6, <2>7
<1>3. errors = [i \in 1..n |-> AttributeError(t.attrs, i)]
  BY <1>1
<1>4. /\ DOMAIN all = 1..(n + 1) /\ all[n + 1] = last
      /\ \A i \in 1..n : all[i] = AttributeError(t.attrs, i)
  <2> DEFINE S == {AttributeError(t.attrs, i) : i \in 1..n} \cup {last}
  <2>1. errors \in Seq(S) /\ Len(errors) = n /\ last \in S
    BY <1>1, <1>3
  <2> HIDE DEF S, last
  <2>2. \A i \in 1..n : errors[i] = AttributeError(t.attrs, i)
    BY <1>1
  <2> HIDE DEF errors
  <2> QED BY <1>1, <2>1, <2>2
<1>5. ParseSingleTag(t) = FirstError(all)
  BY DEF ParseSingleTag
<1>6. last = "ok" <=> t.syntax = "good"
  BY DEF Need
<1> HIDE DEF all, last, errors, n
<1>7. ParseSingleTag(t) = "ok" => (\A i \in 1..n : Good(i)) /\ t.syntax = "good"
  <2> HAVE ParseSingleTag(t) = "ok"
  <2>1. DOMAIN all \subseteq Nat /\ n + 1 \in 1..(n + 1)
    BY <1>1, <1>4
  <2>2. \A i \in 1..(n + 1) : all[i] = "ok"
    BY <1>4, <1>5, <2>1, AllChecked
  <2>3. \A i \in 1..n : AttributeError(t.attrs, i) = "ok"
    BY <1>1, <1>4, <2>2
  <2>4. last = "ok"
    BY <1>4, <2>1, <2>2
  <2> QED BY <1>2, <1>6, <2>3, <2>4
<1>8. (\A i \in 1..n : Good(i)) /\ t.syntax = "good" => ParseSingleTag(t) = "ok"
  <2> HAVE (\A i \in 1..n : Good(i)) /\ t.syntax = "good"
  <2>1. \A i \in 1..n : all[i] = "ok"
    BY <1>2, <1>4
  <2>2. \A i \in DOMAIN all : all[i] = "ok"
    BY <1>1, <1>4, <1>6, <2>1
  <2> QED BY <1>5, <2>2, NoneFailed
<1> QED BY <1>1, <1>7, <1>8

\* The attributes of a header in another order.
Permuted(attrs, other, n, p) ==
    /\ n \in Nat /\ attrs \in Seq(Attributes) /\ Len(attrs) = n
    /\ p \in [1..n -> 1..n]
    /\ \A i, j \in 1..n : p[i] = p[j] => i = j
    /\ other = [i \in 1..n |-> attrs[p[i]]]

\* The places of a name move with the attributes.
LEMMA AliasesMove ==
  ASSUME NEW attrs, NEW other, NEW n, NEW p, Permuted(attrs, other, n, p), NEW name
  PROVE  /\ Aliases(attrs, name) \subseteq 1..n /\ Aliases(other, name) \subseteq 1..n
         /\ \A i \in Aliases(other, name) :
               p[i] \in Aliases(attrs, name) /\ other[i] = attrs[p[i]]
         /\ Aliases(other, name) = {} => Aliases(attrs, name) = {}
<1>1. DOMAIN attrs = 1..n /\ DOMAIN other = 1..n /\ \A i \in 1..n : other[i] = attrs[p[i]]
  BY DEF Permuted
<1>2. Aliases(attrs, name) \subseteq 1..n /\ Aliases(other, name) \subseteq 1..n
  BY <1>1 DEF Aliases
<1>3. \A i \in Aliases(other, name) :
               p[i] \in Aliases(attrs, name) /\ other[i] = attrs[p[i]]
  BY <1>1 DEF Aliases, Permuted
<1>4. Aliases(other, name) = {} => Aliases(attrs, name) = {}
  <2>1. \A j \in 1..n : \E i \in 1..n : p[i] = j
    BY PermutationOnto DEF Permuted
  <2> QED BY <1>1, <2>1 DEF Aliases
<1> QED BY <1>2, <1>3, <1>4

\* An attribute that is copied.
LEMMA KnownAttributeMoves ==
  ASSUME NEW attrs, NEW other, NEW n, NEW p, Permuted(attrs, other, n, p), NEW name,
         KnownAttribute(attrs, name).error = "ok"
  PROVE  KnownAttribute(other, name) = KnownAttribute(attrs, name)
<1> DEFINE f == [i \in Aliases(attrs, name) |-> Some(attrs[i].value)]
           g == [i \in Aliases(other, name) |-> Some(other[i].value)]
<1>1. /\ DOMAIN f \subseteq 1..n /\ DOMAIN g \subseteq 1..n /\ n \in Nat
      /\ \A i \in DOMAIN g : p[i] \in DOMAIN f /\ g[i] = f[p[i]]
      /\ DOMAIN g = {} => DOMAIN f = {}
  <2>1. DOMAIN f = Aliases(attrs, name) /\ DOMAIN g = Aliases(other, name) /\ n \in Nat
    BY DEF Permuted
  <2>2. /\ Aliases(attrs, name) \subseteq 1..n /\ Aliases(other, name) \subseteq 1..n
        /\ Aliases(other, name) = {} => Aliases(attrs, name) = {}
    BY AliasesMove
  <2>3. ASSUME NEW i \in Aliases(other, name)
        PROVE  p[i] \in Aliases(attrs, name) /\ g[i] = f[p[i]]
    <3>1. p[i] \in Aliases(attrs, name) /\ other[i] = attrs[p[i]]
      BY AliasesMove
    <3> QED BY <3>1
  <2> HIDE DEF f, g
  <2> QED BY <2>1, <2>2, <2>3
<1>2. KnownAttribute(attrs, name) = Resolve(f) /\ KnownAttribute(other, name) = Resolve(g)
  BY DEF KnownAttribute
<1> HIDE DEF f, g
<1> QED BY <1>1, <1>2, ResolveMoved

\* An attribute that is a Boolean.
LEMMA KnownBoolMoves ==
  ASSUME NEW attrs, NEW other, NEW n, NEW p, Permuted(attrs, other, n, p), NEW name, NEW default,
         KnownBool(attrs, name, default).error = "ok"
  PROVE  KnownBool(other, name, default) = KnownBool(attrs, name, default)
<1> DEFINE f == [i \in Aliases(attrs, name) |-> ParseBool(attrs[i].value)]
           g == [i \in Aliases(other, name) |-> ParseBool(other[i].value)]
<1>1. /\ DOMAIN f \subseteq 1..n /\ DOMAIN g \subseteq 1..n /\ n \in Nat
      /\ \A i \in DOMAIN g : p[i] \in DOMAIN f /\ g[i] = f[p[i]]
      /\ DOMAIN g = {} => DOMAIN f = {}
  <2>1. DOMAIN f = Aliases(attrs, name) /\ DOMAIN g = Aliases(other, name) /\ n \in Nat
    BY DEF Permuted
  <2>2. /\ Aliases(attrs, name) \subseteq 1..n /\ Aliases(other, name) \subseteq 1..n
        /\ Aliases(other, name) = {} => Aliases(attrs, name) = {}
    BY AliasesMove
  <2>3. ASSUME NEW i \in Aliases(other, name)
        PROVE  p[i] \in Aliases(attrs, name) /\ g[i] = f[p[i]]
    <3>1. p[i] \in Aliases(attrs, name) /\ other[i] = attrs[p[i]]
      BY AliasesMove
    <3> QED BY <3>1
  <2> HIDE DEF f, g
  <2> QED BY <2>1, <2>2, <2>3
<1>2. /\ KnownBool(attrs, name, default).error = Resolve(f).error
      /\ Resolve(g) = Resolve(f) => KnownBool(other, name, default) = KnownBool(attrs, name, default)
  BY DEF KnownBool
<1> HIDE DEF f, g
<1> QED BY <1>1, <1>2, ResolveMoved

\* The encryption bits.
LEMMA KnownEncryptionMoves ==
  ASSUME NEW attrs, NEW other, NEW n, NEW p, Permuted(attrs, other, n, p),
         KnownEncryption(attrs).error = "ok"
  PROVE  KnownEncryption(other) = KnownEncryption(attrs)
<1> DEFINE f == [i \in Aliases(attrs, "encrypted") |-> ParseEncryption(attrs[i].value)]
           g == [i \in Aliases(other, "encrypted") |-> ParseEncryption(other[i].value)]
<1>1. /\ DOMAIN f \subseteq 1..n /\ DOMAIN g \subseteq 1..n /\ n \in Nat
      /\ \A i \in DOMAIN g : p[i] \in DOMAIN f /\ g[i] = f[p[i]]
      /\ DOMAIN g = {} => DOMAIN f = {}
  <2>1. DOMAIN f = Aliases(attrs, "encrypted") /\ DOMAIN g = Aliases(other, "encrypted") /\ n \in Nat
    BY DEF Permuted
  <2>2. /\ Aliases(attrs, "encrypted") \subseteq 1..n /\ Aliases(other, "encrypted") \subseteq 1..n
        /\ Aliases(other, "encrypted") = {} => Aliases(attrs, "encrypted") = {}
    BY AliasesMove
  <2>3. ASSUME NEW i \in Aliases(other, "encrypted")
        PROVE  p[i] \in Aliases(attrs, "encrypted") /\ g[i] = f[p[i]]
    <3>1. p[i] \in Aliases(attrs, "encrypted") /\ other[i] = attrs[p[i]]
      BY AliasesMove
    <3> QED BY <3>1
  <2> HIDE DEF f, g
  <2> QED BY <2>1, <2>2, <2>3
<1>2. /\ KnownEncryption(attrs).error = Resolve(f).error
      /\ Resolve(g) = Resolve(f) => KnownEncryption(other) = KnownEncryption(attrs)
  BY DEF KnownEncryption
<1> HIDE DEF f, g
<1> QED BY <1>1, <1>2, ResolveMoved

\* An attribute that is absent when it is empty.
LEMMA OptionalAttributeMoves ==
  ASSUME NEW attrs, NEW other, NEW n, NEW p, Permuted(attrs, other, n, p), NEW name,
         OptionalAttribute(attrs, name).error = "ok"
  PROVE  OptionalAttribute(other, name) = OptionalAttribute(attrs, name)
<1>1. KnownAttribute(attrs, name).error = "ok"
  BY DEF OptionalAttribute, KnownAttribute, Resolve
<1>2. KnownAttribute(other, name) = KnownAttribute(attrs, name)
  BY <1>1, KnownAttributeMoves
<1> QED BY <1>2 DEF OptionalAttribute

\* build_header_section does not depend on the order of the attributes.
LEMMA BuildHeaderMoves ==
  ASSUME NEW attrs, NEW other, NEW n, NEW p, Permuted(attrs, other, n, p), NEW kind, NEW tag,
         BuildHeader(kind, tag, attrs).error = "ok"
  PROVE  BuildHeader(kind, tag, other) = BuildHeader(kind, tag, attrs)
<1> DEFINE generated == KnownAttribute(attrs, "generated")
           required == KnownAttribute(attrs, "required")
           encrypted == KnownEncryption(attrs)
           label == OptionalAttribute(attrs, "encoding")
           caseSensitive == KnownBool(attrs, "keycasesensitive", kind = "mdd")
           stripKey == KnownBool(attrs, "stripkey", FALSE)
           title == OptionalAttribute(attrs, "title")
           e == <<Need(tag = (IF kind = "mdx" THEN "Dictionary" ELSE "Library_Data"), "format"),
                  generated.error,
                  Need(generated.value # None, "format"),
                  required.error, encrypted.error, label.error,
                  caseSensitive.error, stripKey.error, title.error>>
<1>1. BuildHeader(kind, tag, attrs).error = FirstError(e)
  BY DEF BuildHeader
<1>2. /\ DOMAIN e = 1..9 /\ e[2] = generated.error /\ e[4] = required.error
      /\ e[5] = encrypted.error /\ e[6] = label.error /\ e[7] = caseSensitive.error
      /\ e[8] = stripKey.error /\ e[9] = title.error
  OBVIOUS
<1> HIDE DEF e, generated, required, encrypted, label, caseSensitive, stripKey, title
<1>3. DOMAIN e \subseteq Nat /\ FirstError(e) = "ok"
  BY <1>1, <1>2
<1>4. \A i \in 1..9 : e[i] = "ok"
  BY <1>2, <1>3, AllChecked
<1>5. /\ generated.error = "ok" /\ required.error = "ok" /\ encrypted.error = "ok"
      /\ label.error = "ok" /\ caseSensitive.error = "ok" /\ stripKey.error = "ok"
      /\ title.error = "ok"
  BY <1>2, <1>4
<1>6. /\ KnownAttribute(other, "generated") = KnownAttribute(attrs, "generated")
      /\ KnownAttribute(other, "required") = KnownAttribute(attrs, "required")
  BY <1>5, KnownAttributeMoves DEF generated, required
<1>7. KnownEncryption(other) = KnownEncryption(attrs)
  BY <1>5, KnownEncryptionMoves DEF encrypted
<1>8. /\ OptionalAttribute(other, "encoding") = OptionalAttribute(attrs, "encoding")
      /\ OptionalAttribute(other, "title") = OptionalAttribute(attrs, "title")
  BY <1>5, OptionalAttributeMoves DEF label, title
<1>9. /\ KnownBool(other, "keycasesensitive", kind = "mdd")
             = KnownBool(attrs, "keycasesensitive", kind = "mdd")
      /\ KnownBool(other, "stripkey", FALSE) = KnownBool(attrs, "stripkey", FALSE)
  <2> DEFINE default == kind = "mdd"
             off == FALSE
  <2>1. KnownBool(attrs, "keycasesensitive", default).error = "ok"
    BY <1>5 DEF caseSensitive
  <2>2. KnownBool(attrs, "stripkey", off).error = "ok"
    BY <1>5 DEF stripKey
  <2> HIDE DEF default, off
  <2>3. KnownBool(other, "stripkey", off) = KnownBool(attrs, "stripkey", off)
    BY <2>2, KnownBoolMoves
  <2>4. KnownBool(other, "keycasesensitive", default) = KnownBool(attrs, "keycasesensitive", default)
    BY <2>1, KnownBoolMoves
  <2> QED BY <2>3, <2>4 DEF default, off
<1> QED BY <1>6, <1>7, <1>8, <1>9 DEF BuildHeader

\* A tag that is accepted is accepted in every order.
LEMMA TagMoves ==
  ASSUME NEW t, NEW u, NEW n, NEW p, Permuted(t.attrs, u.attrs, n, p), u.syntax = t.syntax,
         ParseSingleTag(t) = "ok"
  PROVE  ParseSingleTag(u) = "ok"
<1> DEFINE a == t.attrs
           b == u.attrs
<1>1. /\ a \in Seq(Attributes) /\ n \in Nat /\ DOMAIN a = 1..n /\ p \in [1..n -> 1..n]
      /\ \A i, j \in 1..n : p[i] = p[j] => i = j
      /\ b = [i \in 1..n |-> a[p[i]]]
  BY DEF Permuted
<1>2. b \in Seq(Attributes) /\ DOMAIN b = 1..n /\ \A i \in 1..n : b[i] = a[p[i]]
  BY <1>1
<1>3. /\ \A i \in 1..n :
            /\ i <= AttributeLimit
            /\ \A j \in 1..(i - 1) : a[j].name # a[i].name \/ a[j].spelling # a[i].spelling
            /\ a[i].escape = "good"
      /\ t.syntax = "good"
  BY <1>1, TagAccepted
<1> HIDE DEF a, b
<1>4. ASSUME NEW i \in 1..n, NEW j \in 1..n, i # j
      PROVE  a[j].name # a[i].name \/ a[j].spelling # a[i].spelling
  <2>1. CASE j < i
    <3>1. j \in 1..(i - 1)
      BY <1>1, <2>1
    <3> QED BY <1>3, <3>1
  <2>2. CASE i < j
    <3>1. i \in 1..(j - 1)
      BY <1>1, <2>2
    <3> QED BY <1>3, <3>1
  <2> QED BY <1>1, <1>4, <2>1, <2>2
<1>5. ASSUME NEW i \in 1..n
      PROVE  /\ i <= AttributeLimit
             /\ \A j \in 1..(i - 1) : b[j].name # b[i].name \/ b[j].spelling # b[i].spelling
             /\ b[i].escape = "good"
  <2>1. p[i] \in 1..n /\ b[i] = a[p[i]]
    BY <1>1, <1>2
  <2>2. ASSUME NEW j \in 1..(i - 1)
        PROVE  b[j].name # b[i].name \/ b[j].spelling # b[i].spelling
    <3>1. j \in 1..n /\ j # i
      BY <1>1
    <3>2. p[j] \in 1..n /\ p[j] # p[i] /\ b[j] = a[p[j]]
      BY <1>1, <1>2, <3>1
    <3> QED BY <1>4, <2>1, <3>2
  <2> QED BY <1>3, <2>1, <2>2
<1>6. \A i \in DOMAIN b :
            /\ i <= AttributeLimit
            /\ \A j \in 1..(i - 1) : b[j].name # b[i].name \/ b[j].spelling # b[i].spelling
            /\ b[i].escape = "good"
  BY <1>2, <1>5
<1> QED BY <1>2, <1>3, <1>6, TagAccepted DEF b

\* A header behind parse_header was accepted.
HeaderInv ==
    /\ written \in Written
    /\ phase = "dispatch" =>
          /\ text \in HeaderText
          /\ ParseSingleTag(text) = "ok"
          /\ BuildHeader(opts.kind, text.tag, text.attrs).error = "ok"

\* parse_header accepts a text only if its tag and its attributes are.
LEMMA HeaderAccepted ==
  ASSUME NEW t, ParseHeaderError(t) = "ok"
  PROVE  ParseSingleTag(t) = "ok" /\ BuildHeader(opts.kind, t.tag, t.attrs).error = "ok"
<1> DEFINE total == 4 + t.xmlLen + 4
           estimate == HeaderMemoryEstimate(t.xmlLen)
           e == <<
            Reserve(0, 4),
            EnsureRange(0, 4),
            Need(t.xmlLen <= HeaderLimit, "limit"),
            Need(t.xmlLen % 2 = 0, "format"),
            EnsureRange(0, total),
            Reserve(4, total),
            Checked(estimate),
            Reserve(4 + total, estimate),
            Need(t.sum = "good" \/ ~opts.verify, "checksum"),
            Need(t.utf16 = "good", "decode"),
            ParseSingleTag(t),
            BuildHeader(opts.kind, t.tag, t.attrs).error>>
<1>1. /\ DOMAIN e = 1..12 /\ e[11] = ParseSingleTag(t)
      /\ e[12] = BuildHeader(opts.kind, t.tag, t.attrs).error
  OBVIOUS
<1>2. FirstError(e) = "ok"
  BY DEF ParseHeaderError
<1> HIDE DEF e
<1>3. e[11] = "ok" /\ e[12] = "ok"
  BY <1>1, <1>2, AllChecked
<1> QED BY <1>1, <1>3

-----------------------------------------------------------------------------

\* Every stage of open, however it ends, leaves what the next one relies on.
THEOREM StagesSound == Spec => []LayoutInv
<1>1. LayoutInv /\ [Next]_vars => LayoutInv'
  BY OpenSourceSound, ReadHeaderSound, DispatchSound, KeywordHeaderSound, KeywordIndexSound,
     KeywordRowSound, KeywordDoneSound, RecordHeaderSound, RecordRowSound, RecordDoneSound,
     VerifySound, FailsSound, UnchangedSound DEF Next, Returned
<1> QED BY <1>1, InitSound, PTL DEF Spec

\* A dictionary that is open has its sections in the file and its blocks and
\* ordinals without gap or overlap, whatever numbers the file holds: the checks of
\* the two grammars let nothing else through.
THEOREM OpenIsTiled == Spec => []OpenTiles
<1>1. LayoutInv => OpenTiles
  <2> SUFFICES ASSUME LayoutInv, phase = "open" PROVE OpenTiles
    BY DEF OpenTiles
  <2>1. /\ Numbers /\ Prefix(7)
        /\ KeyChain(keys, sections[4].offset, sections[4].offset + sections[4].len, entries)
        /\ RecordChain(records, sections[7].offset, sections[7].offset + sections[7].len, run.start)
    BY DEF LayoutInv, SectionsSound, KeysSound, RecordsSound
  <2>2. /\ SectionsContiguous /\ SectionEnd <= fileLen
        /\ KeyBlocksTile /\ RecordBlocksTile /\ OrdinalsCovered /\ RecordsCovered
    BY <2>1, ChainsCover
  <2>3. Len(sections) = 7 /\ sections[1].offset = 0
    BY <2>1 DEF Prefix, Contained
  <2>4. \A i \in DOMAIN keys : keys[i].count > 0
    BY <2>1 DEF KeyChain
  <2> QED BY <2>2, <2>3, <2>4 DEF OpenTiles
<1> QED BY <1>1, StagesSound, PTL

\* Every stage of open has reserved what it holds.
THEOREM MemoryHeld == Spec => []MemoryInv
<1>1. LayoutInv /\ LayoutInv' /\ MemoryInv /\ [Next]_vars => MemoryInv'
  <2> SUFFICES ASSUME LayoutInv, LayoutInv', MemoryInv, [Next]_vars PROVE MemoryInv'
    OBVIOUS
  <2>1. CASE Fails
    BY <2>1, RejectFrees DEF Fails
  <2>2. CASE UNCHANGED vars
    <3>1. UNCHANGED <<opts, phase, text, hdr, sections, decl, run, keys, kept, temp>>
      BY <2>2 DEF vars, input
    <3>2. /\ KeywordHeaderLen' = KeywordHeaderLen /\ IndexBytes(decl)' = IndexBytes(decl)
          /\ RetainedKeys(decl)' = RetainedKeys(decl) /\ IndexLen(decl)' = IndexLen(decl)
      BY <3>1 DEF KeywordHeaderLen, IndexBytes, RetainedKeys, IndexLen
    <3>3. TextBound(hdr.encoding, run.texts, run.cursor)'
             = TextBound(hdr.encoding, run.texts, run.cursor)
      BY <3>1 DEF TextBound
    <3> QED BY <3>1, <3>2, <3>3 DEF MemoryInv
  <2> QED BY <2>1, <2>2, HeaderMemory, KeywordMemory, KeyRowMemory, KeysMemory, RecordMemory,
             RestMemory DEF Next, Returned
<1> QED BY <1>1, InitMemory, StagesSound, PTL DEF Spec

\* Whatever the file declares and whatever its rows hold, open allocates nothing
\* it has not reserved and reserves no more than working_memory_bytes: the one
\* reservation for an index covers every summary string decoded from it.
THEOREM OpenWithinMemory == Spec => []AllocationsCovered
<1>1. LayoutInv /\ MemoryInv => AllocationsCovered
  <2> SUFFICES ASSUME LayoutInv, MemoryInv PROVE AllocationsCovered
    OBVIOUS
  <2>1. kept + temp <= opts.memory
    BY DEF MemoryInv
  <2>2. ASSUME phase = "key rows"
        PROVE  KeywordHeaderLen + IndexBytes(decl) + decl.numBlocks * KeyDescriptorBytes
                   + run.texts <= temp
    <3>1. /\ temp = KeywordHeaderLen + IndexBytes(decl) + RetainedKeys(decl)
          /\ run.cursor <= IndexLen(decl) /\ TextBound(hdr.encoding, run.texts, run.cursor)
      BY <2>2 DEF MemoryInv
    <3>2. decl \in KeywordFields /\ hdr.encoding \in {"utf8", "utf16", "gbk"}
      BY <2>2 DEF LayoutInv, KeysSound, BeforeKeys
    <3>3. /\ IndexLen(decl) \in Nat /\ IndexBytes(decl) \in Nat /\ decl.numBlocks \in Nat
          /\ run.cursor \in Nat /\ run.texts \in Nat
      BY <3>2, KeywordFieldsAreNumbers DEF LayoutInv, Numbers
    <3>4. run.texts <= MaxDecodedLen(hdr.encoding, IndexLen(decl))
      BY <3>1, <3>2, <3>3, TextsFit
    <3> DEFINE decoded == MaxDecodedLen(hdr.encoding, IndexLen(decl))
               descriptors == decl.numBlocks * KeyDescriptorBytes
               header == KeywordHeaderLen
    <3>5. /\ decoded \in Nat /\ descriptors \in Nat /\ header \in Nat
          /\ RetainedKeys(decl) = decoded + descriptors
      BY <3>2, <3>3, MaxDecodedLenIsNumber, LimitsAreNumbers DEF RetainedKeys, KeywordHeaderLen
    <3>6. temp = header + IndexBytes(decl) + RetainedKeys(decl) /\ run.texts <= decoded
      BY <3>1, <3>4
    <3> HIDE DEF decoded, descriptors, header
    <3>7. header + IndexBytes(decl) + descriptors + run.texts <= temp
      BY ONLY <3>3, <3>5, <3>6
    <3> QED BY <3>7 DEF descriptors, header
  <2>3. phase \in {"record", "record rows", "verify", "open"} =>
            HeaderMemoryEstimate(sections[1].len - 8) + Len(keys) * KeyDescriptorBytes
                + run.texts <= kept
    BY DEF MemoryInv
  <2> QED BY <2>1, <2>2, <2>3 DEF AllocationsCovered
<1> QED BY <1>1, StagesSound, MemoryHeld, PTL

\* Up to the choice of the grammar the header is one that was accepted.
THEOREM HeaderStays == Spec => []HeaderInv
<1>1. Init => HeaderInv
  BY DEF Init, HeaderInv
<1>2. HeaderInv /\ [Next]_vars => HeaderInv'
  <2> SUFFICES ASSUME HeaderInv, [Next]_vars PROVE HeaderInv'
    OBVIOUS
  <2>1. UNCHANGED <<opts, written>>
    BY DEF Next, OpenSource, ReadHeader, Dispatch, KeywordHeader, KeywordIndex, KeywordRow,
           KeywordDone, RecordHeader, RecordRow, RecordDone, Verify, Fails, Returned, vars, input
  <2>2. CASE ReadHeader
    <3>1. PICK t \in HeaderTexts \cup {written.text} :
              LET error == ParseHeaderError(t) IN
              IF error # "ok" THEN Reject("header", error)
              ELSE phase' = "dispatch" /\ text' = t
      BY <2>2 DEF ReadHeader
    <3>2. t \in HeaderText
      BY <3>1, LayoutAssumption DEF HeaderInv
    <3>3. CASE ParseHeaderError(t) # "ok"
      BY <2>1, <3>1, <3>3 DEF HeaderInv, Reject
    <3>4. CASE ParseHeaderError(t) = "ok"
      <4>1. ParseSingleTag(t) = "ok" /\ BuildHeader(opts.kind, t.tag, t.attrs).error = "ok"
        BY <3>4, HeaderAccepted
      <4> QED BY <2>1, <3>1, <3>2, <3>4, <4>1 DEF HeaderInv
    <3> QED BY <3>3, <3>4
  <2>3. CASE UNCHANGED vars
    BY <2>3 DEF vars, input, HeaderInv
  <2>4. CASE /\ ~ReadHeader /\ ~UNCHANGED vars
    <3>1. phase' # "dispatch"
      BY <2>4 DEF Next, OpenSource, Dispatch, KeywordHeader, KeywordIndex, KeywordRow,
           KeywordDone, RecordHeader, RecordRow, RecordDone, Verify, Fails, Returned, Reject
    <3> QED BY <2>1, <3>1 DEF HeaderInv
  <2> QED BY <2>2, <2>3, <2>4
<1> QED BY <1>1, <1>2, PTL DEF Spec

\* However the attributes of an accepted header are ordered, it is accepted with
\* the same fields: that known_attribute and its kin compare an alias only with the
\* one before it, and keep the last, makes no difference, for any number of
\* attributes.
THEOREM AliasesCommute == Spec => []AliasOrderIrrelevant
<1>1. HeaderInv => AliasOrderIrrelevant
  <2> SUFFICES ASSUME HeaderInv, phase = "dispatch" PROVE AliasOrderIrrelevant
    BY DEF AliasOrderIrrelevant
  <2> DEFINE n == Len(text.attrs)
  <2>1. /\ text \in HeaderText /\ ParseSingleTag(text) = "ok"
        /\ BuildHeader(opts.kind, text.tag, text.attrs).error = "ok"
    BY DEF HeaderInv
  <2>2. text.attrs \in Seq(Attributes) /\ n \in Nat
    BY <2>1 DEF HeaderText
  <2>3. ASSUME NEW p \in [1..n -> 1..n], \A i, j \in 1..n : p[i] = p[j] => i = j
        PROVE  LET other == [text EXCEPT !.attrs = [i \in 1..n |-> text.attrs[p[i]]]] IN
               /\ ParseSingleTag(other) = "ok"
               /\ BuildHeader(opts.kind, text.tag, other.attrs)
                     = BuildHeader(opts.kind, text.tag, text.attrs)
    <3> DEFINE moved == [i \in 1..n |-> text.attrs[p[i]]]
               other == [text EXCEPT !.attrs = moved]
    <3>1. Permuted(text.attrs, moved, n, p)
      BY <2>2, <2>3 DEF Permuted
    <3> HIDE DEF moved, n
    <3>2. other.attrs = moved /\ other.syntax = text.syntax
      BY <2>1 DEF HeaderText
    <3> HIDE DEF other
    <3>3. Permuted(text.attrs, other.attrs, n, p)
      BY <3>1, <3>2
    <3>4. ParseSingleTag(other) = "ok"
      BY <2>1, <3>2, <3>3, TagMoves
    <3>5. BuildHeader(opts.kind, text.tag, other.attrs)
             = BuildHeader(opts.kind, text.tag, text.attrs)
      BY <2>1, <3>3, BuildHeaderMoves
    <3> QED BY <3>4, <3>5 DEF other, moved, n
  <2> QED BY <2>3 DEF AliasOrderIrrelevant
<1> QED BY <1>1, HeaderStays, PTL

\* The verification behind the parse never rejects, and what a parse reserved is
\* never refused to the dictionary that keeps it, in whatever file and with
\* whatever memory.
THEOREM ParsedStays == Spec => []ParsedIsKept
<1>1. LayoutInv => ParsedIsKept
  BY DEF LayoutInv
<1> QED BY <1>1, StagesSound, PTL

=============================================================================
