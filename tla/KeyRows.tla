------------------------------ MODULE KeyRows ------------------------------
(***************************************************************************)
(* Decoding the rows of a decompressed key block with what open chose for  *)
(* the dictionary: decode_key_rows of the two grammars, whose loops differ *)
(* in the width of an offset only (src/format/v1/keyword.rs and            *)
(* v2/keyword.rs), and split_terminated (src/format/common/encoding.rs).   *)
(* The block descriptor and the length of the record stream are those of   *)
(* the layout that module Layout accepted.                                 *)
(***************************************************************************)
EXTENDS Layout

CONSTANTS
    RowSamples,          \* rows writers put into a block: sequences of [key, start]
    BlockContents(_, _)  \* the bytes of blocks of a length, n of them damaged

VARIABLE block           \* the block decoded last: its index, bytes and result

NoBlock == [index |-> 0]

\* The bytes at offset, offset + 1, ... are bytes[offset + 1], ...
\* read_u32_be_widened, read_u64_be; a number with a high byte is beyond any stream.
BigEndian(bytes, offset, width) ==
    IF \E k \in 1..(width - 2) : bytes[offset + k] # 0 THEN WordMax
    ELSE bytes[offset + width - 1] * 256 + bytes[offset + width]

\* Bug: two zero bytes end a UTF-16 key wherever they are.
Terminators_Unaligned(bytes, from, unit) ==
    {end \in from..(Len(bytes) - unit) : \A k \in 1..unit : bytes[end + k] = 0}

\* split_terminated looks at whole units only, counted from the start of the key.
Terminators(bytes, from, unit) ==
    {end \in from..(Len(bytes) - unit) :
        (end - from) % unit = 0 /\ \A k \in 1..unit : bytes[end + k] = 0}

\* Whether these bytes are one character.  Of the encodings that "gbk" stands for, a
\* lead and a trail byte are one: the decoder's table of unassigned pairs and the
\* characters of four bytes are left out.
IsCharacter(encoding, c) ==
    LET continuation == 128..191
        second == CASE c[1] = 224 -> 160..191
                    [] c[1] = 237 -> 128..159
                    [] c[1] = 240 -> 144..191
                    [] c[1] = 244 -> 128..143
                    [] OTHER -> continuation
    IN  CASE encoding = "utf16" ->
                \/ Len(c) = 2 /\ c[2] \notin 216..223
                \/ Len(c) = 4 /\ c[2] \in 216..219 /\ c[4] \in 220..223
          [] encoding = "utf8" ->
                \/ Len(c) = 1 /\ c[1] < 128
                \/ /\ \/ Len(c) = 2 /\ c[1] \in 194..223
                      \/ Len(c) = 3 /\ c[1] \in 224..239
                      \/ Len(c) = 4 /\ c[1] \in 240..244
                   /\ c[2] \in second /\ \A k \in 3..Len(c) : c[k] \in continuation
          [] OTHER ->
                \/ Len(c) = 1 /\ c[1] <= 128
                \/ Len(c) = 2 /\ c[1] \in 129..254 /\ c[2] \in (64..254 \ {127})

\* TextEncoding::decode of a key: its bytes are characters, one after the other.
Decodes(encoding, key) ==
    LET end == Len(key) + 1
        from[i \in 1..end] ==
            \/ i = end
            \/ \E n \in 1..4 : /\ i + n <= end
                              /\ IsCharacter(encoding, SubSeq(key, i, i + n - 1))
                              /\ from[i + n]
    IN  from[1]

\* The text of the bytes of a key: its code units.
Units(encoding, key) ==
    IF encoding = "utf16"
    THEN [i \in 1..(Len(key) \div 2) |-> key[2 * i - 1] + 256 * key[2 * i]]
    ELSE key

OffsetWidth == IF hdr.version = 1 THEN 4 ELSE 8

\* The loop of decode_key_rows from this offset on, for a block of `expected`
\* entries of a record stream of `total` bytes.
RECURSIVE RowsFrom(_, _, _, _, _)
RowsFrom(bytes, expected, total, offset, rows) ==
    LET unit == UnitSize(hdr.encoding)
        from == offset + OffsetWidth
        start == BigEndian(bytes, offset, OffsetWidth)
        ends == Terminators(bytes, from, unit)
        end == CHOOSE e \in ends : \A d \in ends : e <= d
        key == SubSeq(bytes, from + 1, end)
        Error(e) == [error |-> e, rows |-> <<>>]
    IN
    IF offset = Len(bytes)
    THEN IF Len(rows) = expected THEN [error |-> "ok", rows |-> rows] ELSE Error("data")
    ELSE IF Len(rows) = expected THEN Error("data")
    ELSE IF from > Len(bytes) THEN Error("truncated")
    ELSE IF start > total \/ (rows # <<>> /\ rows[Len(rows)].start > start) THEN Error("data")
    ELSE IF ends = {} THEN Error("data")
    ELSE IF ~Decodes(hdr.encoding, key) THEN Error("decode")
    ELSE RowsFrom(bytes, expected, total, end + unit,
                  Append(rows, [key |-> Units(hdr.encoding, key), start |-> start]))

DecodeKeyRows(bytes, expected, total) == RowsFrom(bytes, expected, total, 0, <<>>)

-----------------------------------------------------------------------------

KeyRowsInit == Init /\ block = NoBlock

\* A key block of the open dictionary is decoded.
DecodeKeyBlock(i) ==
    /\ phase = "open" /\ block = NoBlock
    /\ \E bytes \in BlockContents(keys[i].decomp, MaxDamage - damage) :
          /\ Len(bytes) = keys[i].decomp
          /\ block' = [index |-> i, bytes |-> bytes,
                       result |-> DecodeKeyRows(bytes, keys[i].count, run.start)]
    /\ UNCHANGED vars

KeyRowsNext ==
    \/ Next /\ UNCHANGED block
    \/ \E i \in DOMAIN keys : DecodeKeyBlock(i)

KeyRowsSpec == KeyRowsInit /\ [][KeyRowsNext]_<<vars, block>>

-----------------------------------------------------------------------------

\* The bytes of rows, as a writer lays them out.
UnitBytes(u) == IF hdr.encoding = "utf16" THEN <<u % 256, u \div 256>> ELSE <<u>>

KeyBytes(key) ==
    LET bytes[n \in 0..Len(key)] ==
            IF n = 0 THEN <<>> ELSE bytes[n - 1] \o UnitBytes(key[n])
    IN  bytes[Len(key)] \o UnitBytes(0)

RowsBytes(rows) ==
    LET bytes[n \in 0..Len(rows)] ==
            IF n = 0 THEN <<>>
            ELSE bytes[n - 1]
                 \o [k \in 1..OffsetWidth |->
                        IF k = OffsetWidth THEN rows[n].start % 256
                        ELSE IF k = OffsetWidth - 1 THEN rows[n].start \div 256 ELSE 0]
                 \o KeyBytes(rows[n].key)
    IN  bytes[Len(rows)]

ValidRows(rows, expected, total) ==
    /\ Len(rows) = expected
    /\ \A j \in DOMAIN rows : rows[j].start <= total
    /\ \A j \in 1..(Len(rows) - 1) : rows[j].start <= rows[j + 1].start

\* A block decodes to exactly the rows whose bytes it holds, if they are as many
\* as its descriptor says and their records start in order inside the stream, and
\* to an error otherwise: no row is skipped, split or made up, whatever zero bytes
\* the text of a UTF-16 key has.
RowsExact ==
    block # NoBlock =>
        LET expected == keys[block.index].count
            result == block.result
        IN
        /\ result.error = "ok" =>
              ValidRows(result.rows, expected, run.start) /\ RowsBytes(result.rows) = block.bytes
        /\ \A rows \in RowSamples :
              ValidRows(rows, expected, run.start) /\ RowsBytes(rows) = block.bytes
                  => result = [error |-> "ok", rows |-> rows]

=============================================================================
