------------------------------ MODULE MCLayout ------------------------------
(***************************************************************************)
(* Files for Layout, and what their damage may look like.  The lengths of  *)
(* the sections are computed here from the blocks, the way a writer would, *)
(* independently of how Layout reads them back.                            *)
(***************************************************************************)
EXTENDS KeyRows, SequencesExt

Deltas == {-1, 1}           \* bound: by how much a number may be off
MCFileDeltas == {-1, 0, 1}  \* bound: by how much the file is cut or longer

Attr(name, spelling, value) ==
    [name |-> name, spelling |-> spelling, value |-> value, escape |-> "good"]

Text(tag, attrs) ==
    [xmlLen |-> 20, sum |-> "good", utf16 |-> "good", tag |-> tag, attrs |-> attrs,
     syntax |-> "good"]

SumOf(f(_), s) == FoldLeft(LAMBDA total, x : total + f(x), 0, s)

\* One key block row with its count of entries and the units of its summaries.
Key(count, first, last, comp, decomp) ==
    [count |-> count, first |-> first, last |-> last, comp |-> comp, decomp |-> decomp,
     text |-> "good"]
Rec(comp, decomp) == [comp |-> comp, decomp |-> decomp]

\* The file with these blocks.  enc has the text of the header, the encoding, the
\* encryption bits, the checksum of the keyword header and the kind of its index.
File(kind, version, enc, ks, rs) ==
    LET unit == IF enc.encoding = "utf16" THEN 2 ELSE 1
        ends == IF enc.sum = "le" THEN 0 ELSE 2 * unit
        RowBytes(k) == (k.first + k.last) * unit + (IF version = 1 THEN 14 ELSE 28 + ends)
        Comp(b) == b.comp
        Count(b) == b.count
        index == SumOf(RowBytes, ks)
        packed == IF version = 1 THEN index
                  ELSE IF enc.tag = "none" THEN 8 + index ELSE 8 + index \div 2
        wide == IF version = 1 THEN 1 ELSE 2
    IN
    [kind |-> kind, version |-> version, encoding |-> enc.encoding, bits |-> enc.bits,
     text |-> enc.text,
     keyword |-> [numBlocks |-> Len(ks), numEntries |-> SumOf(Count, ks), decompLen |-> index,
                  compLen |-> packed, blocksLen |-> SumOf(Comp, ks), sum |-> enc.sum],
     env |-> [tag |-> enc.tag, stream |-> "good", inner |-> "good", sum |-> "good"],
     keyRows |-> ks,
     record |-> [numBlocks |-> Len(rs), numEntries |-> SumOf(Count, ks),
                 indexLen |-> 8 * wide * Len(rs), blocksLen |-> SumOf(Comp, rs)],
     recordRows |-> rs,
     len |-> (8 + enc.text.xmlLen) + (IF version = 1 THEN 16 ELSE 44) + packed + SumOf(Comp, ks)
             + 16 * wide + 8 * wide * Len(rs) + SumOf(Comp, rs)]

Version(v) == Attr("generated", "A", v)
Label(l) == Attr("encoding", "A", <<l>>)
Bits(b) == Attr("encrypted", "A", <<b>>)

\* Version 1: UTF-8; and a resource file with long summaries.
Mdx1 == File("mdx", 1,
    [text |-> Text("Dictionary", <<Version(<<"1", "2">>)>>),
     encoding |-> "utf8", bits |-> 0, sum |-> "be", tag |-> "none"],
    <<Key(2, 1, 1, 9, 11), Key(1, 1, 0, 8, 7)>>, <<Rec(10, 7), Rec(8, 0)>>)
Mdd1 == File("mdd", 1,
    [text |-> Text("Library_Data", <<Version(<<"1">>), Label("gbk")>>),
     encoding |-> "utf16", bits |-> 0, sum |-> "be", tag |-> "none"],
    <<Key(1, 20, 20, 8, 10)>>, <<Rec(8, 3)>>)

\* Version 2: canonical; the legacy variant, with empty summaries and an
\* encrypted index; a passcode; long summaries in GBK; no entries at all.
Mdx2 == File("mdx", 2,
    [text |-> Text("Dictionary", <<Version(<<"2", "0">>), Attr("required", "A", <<"1">>),
                                   Label("utf-16"), Attr("required", "B", <<"1">>)>>),
     encoding |-> "utf16", bits |-> 0, sum |-> "be", tag |-> "zlib"],
    <<Key(2, 1, 1, 9, 24), Key(1, 1, 0, 8, 14)>>, <<Rec(9, 12)>>)
Legacy2 == File("mdx", 2,
    [text |-> Text("Dictionary", <<Version(<<"2">>), Bits("2")>>),
     encoding |-> "utf8", bits |-> 2, sum |-> "le", tag |-> "none"],
    <<Key(1, 0, 0, 8, 9), Key(1, 0, 0, 8, 9)>>, <<Rec(8, 5), Rec(8, 5)>>)
Locked2 == File("mdd", 2,
    [text |-> Text("Library_Data", <<Version(<<"2", "0">>), Bits("Yes"),
                                     Attr("encrypted", "B", <<"1">>)>>),
     encoding |-> "utf16", bits |-> 1, sum |-> "be", tag |-> "lzo"],
    <<Key(1, 2, 2, 8, 12)>>, <<Rec(8, 1)>>)
Gbk2 == File("mdx", 2,
    [text |-> Text("Dictionary", <<Version(<<"2", "0">>), Label("gbk")>>),
     encoding |-> "gbk", bits |-> 0, sum |-> "be", tag |-> "zlib"],
    <<Key(1, 31, 31, 8, 9), Key(1, 33, 33, 8, 11)>>, <<Rec(8, 2)>>)
Empty2 == File("mdx", 2,
    [text |-> Text("Dictionary", <<Version(<<"2", "0">>)>>),
     encoding |-> "utf8", bits |-> 0, sum |-> "be", tag |-> "none"],
    <<>>, <<>>)

MCWritten == {Mdx1, Mdd1, Mdx2, Legacy2, Locked2, Gbk2, Empty2}

\* Header texts that were not written this way.
Damaged(t) ==
    {[t EXCEPT !.xmlLen = 21], [t EXCEPT !.xmlLen = 24], [t EXCEPT !.xmlLen = 1000],
     [t EXCEPT !.sum = "bad"], [t EXCEPT !.utf16 = "bad"], [t EXCEPT !.syntax = "bad"],
     [t EXCEPT !.attrs[1].escape = "bad"], [t EXCEPT !.tag = "Other"]}

Other(attrs) == Text("Dictionary", attrs)

Unusual ==
    {Other(<<>>),
     Other(<<Version(<<"1">>), Attr("generated", "B", <<"2">>)>>),
     Other(<<Version(<<"2">>), Attr("generated", "B", <<"2">>)>>),
     Other(<<Version(<<"2">>), Version(<<"2">>)>>),
     Other(<<Version(<<"2">>), Label("utf-8"), Label("utf-8"), Bits("0"), Bits("0")>>),
     Other(<<Version(<<"2">>), Label("")>>),
     Other(<<Version(<<"2">>), Label("utf-8"), Attr("encoding", "B", <<"">>)>>),
     Other(<<Version(<<"2">>), Label("latin1")>>),
     Other(<<Version(<<"2">>), Bits("4")>>),
     Other(<<Version(<<"2">>), Bits("No"), Attr("encrypted", "B", <<"1">>)>>),
     Other(<<Attr("encrypted", "B", <<"No">>), Bits("0"), Version(<<"2">>)>>),
     Other(<<Version(<<"1">>), Bits("3")>>),
     Other(<<Version(<<"2">>), Attr("stripkey", "A", <<"YES">>), Attr("stripkey", "B", <<"Yes">>)>>),
     Other(<<Version(<<"2">>), Attr("stripkey", "A", <<"no">>), Attr("stripkey", "B", <<"Yes">>)>>),
     Other(<<Version(<<"2">>), Attr("keycasesensitive", "A", <<"1">>)>>),
     Other(<<Version(<<"2">>), Attr("title", "A", <<"x">>), Attr("title", "B", <<"y">>)>>)}
    \cup {Other(<<Version(v)>>) :
             v \in {<<"0", "1">>, <<"3">>, <<"huge">>, <<"">>, <<"2", "">>, <<"2", "huge">>, <<"2", "x">>}}
    \cup {Other(<<Version(<<v>>), Attr("required", "A", w)>>) :
             v \in {"1", "2"}, w \in {<<"0">>, <<"1">>, <<"2">>, <<"3">>, <<"x">>}}

MCHeaderTexts == UNION {Damaged(w.text) : w \in MCWritten} \cup Unusual

\* A record of fields with one of them changed.
OtherValues(x, v) ==
    CASE x = "tag" -> {"none", "lzo", "zlib", "unknown"}
      [] x \in {"stream", "inner"} -> {"bad"}
      [] x = "sum" -> IF v = "good" THEN {"bad"} ELSE {"be", "le", "bad"}
      [] x = "text" -> {"undecodable", "unterminated"}
      [] OTHER -> {v + d : d \in Deltas} \cup {0, WordMax, HalfMax}

Changed(w) == UNION {{[w EXCEPT ![x] = v] : v \in OtherValues(x, w[x])} : x \in DOMAIN w}

Widen(S) == UNION {Changed(f) : f \in S} \cup S

MCFieldReads(w, n) ==
    CASE n = 0 -> {w}
      [] n = 1 -> Widen({w})
      [] n = 2 -> Widen(Widen({w}))
      [] OTHER -> Widen(Widen(Widen({w})))

\* Keys: empty, with units that have a zero byte first or last, a character of two
\* UTF-16 units, and a character of two bytes in UTF-8 and GBK.
KeySamples == {<<>>, <<97>>, <<97, 256>>, <<55357, 56832>>, <<195, 169>>}
RowSample == [key : KeySamples, start : {0, 7, 13}]
MCRowSamples == UNION {[1..n -> RowSample] : n \in 0..2}

\* The blocks these rows make, under either grammar and encoding, and blocks with
\* a byte changed.
Sixteen(u) == <<u % 256, u \div 256>>
Packed(rows, width, unit) ==
    LET Key8(k) == k \o <<0>>
        Key16(k) == FoldLeft(LAMBDA b, u : b \o Sixteen(u), <<>>, k) \o <<0, 0>>
        Row(r) == [i \in 1..(width - 1) |-> 0] \o <<r.start>>
                  \o (IF unit = 2 THEN Key16(r.key) ELSE Key8(r.key))
    IN  FoldLeft(LAMBDA b, r : b \o Row(r), <<>>, rows)
Bytes8(rows) == \A i \in DOMAIN rows : \A k \in DOMAIN rows[i].key : rows[i].key[k] < 256

Plain ==
    {Packed(rows, width, 2) : rows \in MCRowSamples, width \in {4, 8}}
    \cup {Packed(rows, width, 1) : rows \in {s \in MCRowSamples : Bytes8(s)}, width \in {4, 8}}

Corrupt(b) == {[b EXCEPT ![i] = v] : i \in DOMAIN b, v \in {0, 216, 255}}

\* By length.  Bound: only blocks of a file that is otherwise as written are
\* corrupt, and none are decoded of a file that has all its damage elsewhere.
PlainOf == [n \in 0..40 |-> {b \in Plain : Len(b) = n}]
CorruptOf == [n \in 0..40 |-> UNION {Corrupt(b) : b \in PlainOf[n]}]
MCBlockContents(len, n) ==
    IF len > 40 \/ n = 0 THEN {}
    ELSE PlainOf[len] \cup (IF n = MaxDamage THEN CorruptOf[len] ELSE {})

\* Every boundary of the memory a file needs, with the plainest other options.
MCOptions ==
    [kind : {"mdx", "mdd"}, verify : BOOLEAN, passcode : {"none", "malformed", "given"},
     memory : {100000}]
    \cup
    [kind : {"mdx", "mdd"}, verify : {TRUE}, passcode : {"given"},
     memory : UNION {{PeakOf(w), PeakOf(w) - 1} : w \in MCWritten} \cup {0, 3, 700}]

=============================================================================
