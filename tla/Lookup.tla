------------------------------- MODULE Lookup -------------------------------
(***************************************************************************)
(* Lookup in a dictionary whose key locator is built: locate, locate_page, *)
(* the two with a match mode, and prefix_keys (src/core/locator.rs,        *)
(* case_variants.rs, normalize.rs and the methods of src/mdx.rs).          *)
(*                                                                         *)
(* The locator is immutable once published (module KeyLocator), and a key  *)
(* block read again gives the same rows or an error (module DictReader),   *)
(* so a call is one step: a table of raw keys and a query in, an answer    *)
(* out.  A text is a sequence of code points, which orders the way UTF-8   *)
(* bytes do; what limits its length counts the bytes.                      *)
(***************************************************************************)
EXTENDS Integers, Sequences, FiniteSets, SequencesExt

CONSTANTS
    Chars,         \* the code points of a text
    ToLowercase(_), \* char::to_lowercase, which is to_ascii_lowercase on ASCII
    Tables,        \* the raw keys of a dictionary, in physical order
    Headers,       \* what KeyNormalizer::from_header takes from the header
    Queries,       \* the texts looked up
    Offsets,       \* the offsets and the limits of a page
    Limits,
    LocatorBytes,  \* Limits::locator_bytes
    UsizeMax,      \* largest usize
    Digest(_)      \* raw_digest, of which nothing is assumed

IsAscii(c) == c < 128
IsUpper(c) == c \in 65..90
IsAlphanumeric(c) == c \in 48..57 \/ IsUpper(c) \/ c \in 97..122

\* The lower case of an ASCII character that is no letter is itself, and no other
\* character has one of those in its lower case.
ASSUME LowercaseAssumption ==
    /\ 0..127 \subseteq Chars /\ Chars \subseteq Nat
    /\ \A c \in Chars :
          LET lower == ToLowercase(c)
              symbol(d) == IsAscii(d) /\ ~IsAlphanumeric(d)
          IN  /\ lower \in Seq(Chars)
              /\ IF symbol(c) THEN lower = <<c>> ELSE \A i \in DOMAIN lower : ~symbol(lower[i])

ASSUME LookupAssumption ==
    /\ Tables \subseteq Seq(Seq(Chars))
    /\ Headers \subseteq [caseSensitive : BOOLEAN, stripKey : BOOLEAN, resourcePath : BOOLEAN]
    /\ Queries \subseteq Seq(Chars)
    /\ UsizeMax \in Nat /\ LocatorBytes \in 0..UsizeMax
    /\ Offsets \subseteq 0..UsizeMax /\ Limits \subseteq 0..UsizeMax

VARIABLES
    keys,     \* the dictionary
    header,
    located,  \* the published KeyLocator
    call,     \* the last call
    answer    \* and what it returned

lookupVars == <<keys, header, located, call, answer>>

-----------------------------------------------------------------------------

Dash == 45
Slash == 47
Backslash == 92

\* KeyNormalizer::retains
Retains(c) == ~header.stripKey \/ ~IsAscii(c) \/ IsAlphanumeric(c)

Separated(c) == IF header.resourcePath /\ c = Slash THEN Backslash ELSE c

NormalizedChar(c) ==
    IF header.caseSensitive THEN <<Separated(c)>> ELSE ToLowercase(Separated(c))

\* A resource path loses all its leading separators.
PathBody(raw) ==
    IF header.resourcePath
    THEN LET body == {i \in DOMAIN raw : raw[i] \notin {Slash, Backslash}} IN
         IF body = {} THEN <<>>
         ELSE SubSeq(raw, CHOOSE i \in body : \A j \in body : i <= j, Len(raw))
    ELSE raw

\* A loop over the characters of s that appends what each of them becomes.
Expand(s, becomes) ==
    LET out[n \in 0..Len(s)] == IF n = 0 THEN <<>> ELSE out[n - 1] \o becomes[s[n]]
    IN  out[Len(s)]

\* normalize_into
Normalize(raw) ==
    Expand(PathBody(raw), [c \in Chars |-> IF Retains(c) THEN NormalizedChar(c) ELSE <<>>])

\* char::encode_utf8
EncodeUtf8(c) ==
    LET low(n) == 128 + (n % 64) IN
    IF IsAscii(c) THEN <<c>>
    ELSE IF c < 2048 THEN <<192 + c \div 64, low(c)>>
    ELSE IF c < 65536 THEN <<224 + c \div 4096, low(c \div 64), low(c)>>
    ELSE <<240 + c \div 262144, low(c \div 4096), low(c \div 64), low(c)>>

Encoded(text) == Expand(text, [c \in Chars |-> EncodeUtf8(c)])

\* A second copy of the loop, normalize_bytes_into, appends to an arena of bytes.
NormalizeBytes(raw) ==
    LET loop[n \in 0..Len(raw)] ==
            IF n = 0 THEN [out |-> <<>>, atPathStart |-> TRUE]
            ELSE LET c == raw[n]
                     was == loop[n - 1]
                     text == IF header.caseSensitive THEN <<Separated(c)>>
                             ELSE ToLowercase(Separated(c))
                 IN  IF header.resourcePath /\ was.atPathStart /\ c \in {Slash, Backslash}
                     THEN was
                     ELSE [out |-> was.out \o (IF Retains(c) THEN Encoded(text) ELSE <<>>),
                           atPathStart |-> FALSE]
    IN  loop[Len(raw)].out

\* Bug: the bytes of the character itself are counted, not of its lower case.
NormalizedLen_Unfolded(raw) ==
    LET loop[n \in 0..Len(raw)] ==
            IF n = 0 THEN [length |-> 0, atPathStart |-> TRUE]
            ELSE LET c == raw[n]
                     was == loop[n - 1]
                     bytes == Len(EncodeUtf8(Separated(c)))
                 IN  IF header.resourcePath /\ was.atPathStart /\ c \in {Slash, Backslash}
                     THEN was
                     ELSE [length |-> was.length + (IF Retains(c) THEN bytes ELSE 0),
                           atPathStart |-> FALSE]
    IN  loop[Len(raw)].length

\* The third, normalized_len, counts: an ASCII character by its own bytes.
NormalizedLen(raw) ==
    LET loop[n \in 0..Len(raw)] ==
            IF n = 0 THEN [length |-> 0, atPathStart |-> TRUE]
            ELSE LET c == raw[n]
                     was == loop[n - 1]
                     bytes == IF header.caseSensitive \/ IsAscii(Separated(c))
                              THEN Len(EncodeUtf8(Separated(c)))
                              ELSE Len(Encoded(ToLowercase(Separated(c))))
                 IN  IF header.resourcePath /\ was.atPathStart /\ c \in {Slash, Backslash}
                     THEN was
                     ELSE [length |-> was.length + (IF Retains(c) THEN bytes ELSE 0),
                           atPathStart |-> FALSE]
    IN  loop[Len(raw)].length

TextLess(s, t) ==
    \/ IsStrictPrefix(s, t)
    \/ \E i \in DOMAIN s \cap DOMAIN t :
          s[i] < t[i] /\ \A j \in 1..(i - 1) : s[j] = t[j]

-----------------------------------------------------------------------------

AllRows == DOMAIN keys   \* the physical ordinals, from 1

\* The members of S in an order, a set of pairs.
Sorted(S, order) ==
    CHOOSE rows \in [1..Cardinality(S) -> S] :
        /\ \A x \in S : \E i \in DOMAIN rows : rows[i] = x
        /\ \A i, j \in DOMAIN rows : i < j => <<rows[i], rows[j]>> \in order

Ascending(S) == Sorted(S, {p \in S \X S : p[1] < p[2]})

\* One pass over s that keeps the members of T.
Kept(s, T) ==
    LET places == Ascending({k \in DOMAIN s : s[k] \in T})
    IN  [n \in DOMAIN places |-> s[places[n]]]

\* compare_rows
CompareRows(norm, x, y) ==
    TextLess(norm[x], norm[y]) \/ (norm[x] = norm[y] /\ x < y)

LocatorOrder(norm) == {p \in AllRows \X AllRows : CompareRows(norm, p[1], p[2])}

\* build_key_locator
BuildKeyLocator ==
    LET norm == [o \in AllRows |-> Normalize(keys[o])] IN
    [norm |-> norm,
     order |-> Sorted(AllRows, LocatorOrder(norm)),
     digest |-> [o \in AllRows |-> Digest(keys[o])]]

\* slice::partition_point: the length of the beginning of the order in T
PartitionPoint(T) ==
    Cardinality({k \in DOMAIN located.order : \A j \in 1..k : located.order[j] \in T})

Below(text) == {o \in AllRows : TextLess(located.norm[o], text)}
NotAbove(text) == {o \in AllRows : TextLess(located.norm[o], text) \/ located.norm[o] = text}

\* equal_range, as the rows in it
EqualRange(text) ==
    SubSeq(located.order, PartitionPoint(Below(text)) + 1, PartitionPoint(NotAbove(text)))

Least(a, b) == IF a <= b THEN a ELSE b
SaturatingSub(a, b) == IF a >= b THEN a - b ELSE 0
SaturatingAdd(a, b) == Least(a + b, UsizeMax)

LimitExceeded == [tag |-> "limit"]
Unavailable == [tag |-> "unavailable"]
NotFound == [tag |-> "none"]

\* A match set or a page of one: how it matched, how many rows matched in all,
\* the rows, and how many of them the memory reserved for it has room for.
Found(basis, total, rows, room) ==
    [tag |-> "found", basis |-> basis, total |-> total, rows |-> rows, room |-> room]

\* The query is too long once normalized.
QueryTooLong(q) == NormalizedLen(q) > LocatorBytes

IsRaw(q) == {o \in AllRows : keys[o] = q}

\* The rows of the range whose digest makes a look at the key block necessary, and
\* whose key it then is.
RawExact(range, q) ==
    {range[k] : k \in {i \in DOMAIN range : located.digest[range[i]] = Digest(q)}}
    \cap IsRaw(q)

\* raw_exact_within: what it finds is sorted.
RawExactWithin(range, q) == Ascending(RawExact(range, q))

\* A query that is too long is refused; any other call may fail for lack of
\* memory or because a key block cannot be read.
Guarded(q, outcome) == IF QueryTooLong(q) THEN {LimitExceeded} ELSE {Unavailable, outcome}

\* locate_keys
LocateKeys(q) ==
    LET range == EqualRange(Normalize(q))
        exact == RawExactWithin(range, q)
    IN
    Guarded(q, IF range = <<>> THEN NotFound
               ELSE IF exact # <<>> THEN Found("exact", Len(exact), exact, Len(exact))
               ELSE Found("normalized", Len(range), range, Len(range)))

\* Bug: room for as many rows as the caller may ask for.
PageCapacity_Uncut(n, offset, limit) == limit

\* The room reserved for a page of candidates.
PageCapacity(n, offset, limit) == Least(limit, SaturatingSub(n, offset))

\* The positions offset, offset + 1, ... of rows, at most limit of them.
Window(rows, offset, limit) ==
    SubSeq(rows, offset + 1, Least(Len(rows), offset + limit))

\* locate_key_page
LocateKeyPage(q, offset, limit) ==
    LET range == EqualRange(Normalize(q))
        room == PageCapacity(Len(range), offset, limit)
        exact == Kept(range, RawExact(range, q))
        start == Least(offset, Len(range))
        end == Least(SaturatingAdd(start, limit), Len(range))
    IN
    Guarded(q, IF range = <<>> THEN NotFound
               ELSE IF 4 * room > LocatorBytes THEN LimitExceeded
               ELSE IF exact # <<>>
               THEN Found("exact", Len(exact), Window(exact, offset, limit), room)
               ELSE Found("normalized", Len(range), SubSeq(range, start + 1, end), room))

\* equal_ignoring_case
Folded(s) == Expand(s, [c \in Chars |-> ToLowercase(c)])
EqualIgnoringCase(s, t) == Folded(s) = Folded(t)

IsVariant(q) == {o \in AllRows : keys[o] # q /\ EqualIgnoringCase(keys[o], q)}

\* Bug: the offset is applied to the variants although the exact rows used it up.
SelectPage_OffsetTwice(range, q, offset, limit) ==
    LET exact == Kept(range, IsRaw(q))
        variants == Kept(range, IsVariant(q))
        kept == Window(exact, offset, limit)
    IN
    IF exact \o variants = <<>> THEN NotFound
    ELSE Found(IF variants = <<>> THEN "exact" ELSE "variants", Len(exact \o variants),
               kept \o Window(variants, offset, limit - Len(kept)),
               PageCapacity(Len(range), offset, limit))

\* Bug: the basis is that of the rows on the page.
SelectPage_BasisOfPage(range, q, offset, limit) ==
    LET exact == Kept(range, IsRaw(q))
        variants == Kept(range, IsVariant(q))
        page == Window(exact \o variants, offset, limit)
    IN
    IF exact \o variants = <<>> THEN NotFound
    ELSE Found(IF \A k \in DOMAIN page : keys[page[k]] = q THEN "exact" ELSE "variants",
               Len(exact \o variants), page, PageCapacity(Len(range), offset, limit))

\* select_page: one pass counts and keeps the exact rows of the page, a second
\* one adds variants until the page is full.
SelectPage(range, q, offset, limit) ==
    LET exact == Kept(range, IsRaw(q))
        variants == Kept(range, IsVariant(q))
        total == Len(exact) + Len(variants)
        kept == Window(exact, offset, limit)
        wanted == Least(limit, SaturatingSub(total, offset))
        room == PageCapacity(Len(range), offset, limit)
        more == Window(variants, SaturatingSub(offset, Len(exact)), wanted - Len(kept))
    IN
    IF 4 * room > LocatorBytes THEN LimitExceeded
    ELSE IF total = 0 THEN NotFound
    ELSE Found(IF variants = <<>> THEN "exact" ELSE "variants", total,
               IF Len(kept) < wanted THEN kept \o more ELSE kept, room)

\* MdictFile::locate_case_variants
LocateCaseVariants(q, offset, limit) ==
    LET range == EqualRange(Normalize(q)) IN
    Guarded(q, IF range = <<>> THEN NotFound ELSE SelectPage(range, q, offset, limit))

\* MdxFile::includes_case_variants
IncludesCaseVariants == ~header.caseSensitive

\* LocatedKeyPage::into_matches: an empty page is no match.
IntoMatches(page) ==
    IF page.tag = "found" /\ page.rows = <<>> THEN NotFound ELSE page

\* The fallback of the two methods with a mode.
OrElse(pages, fallback) ==
    UNION {IF p = NotFound THEN fallback ELSE {p} : p \in pages}

LocateWithMode(q) ==
    IF IncludesCaseVariants
    THEN {IntoMatches(p) :
            p \in OrElse(LocateCaseVariants(q, 0, UsizeMax), LocateKeys(q))}
    ELSE LocateKeys(q)

LocatePageWithMode(q, offset, limit) ==
    IF IncludesCaseVariants
    THEN OrElse(LocateCaseVariants(q, offset, limit), LocateKeyPage(q, offset, limit))
    ELSE LocateKeyPage(q, offset, limit)

\* Bug: the scan starts after the rows that equal the prefix.
LocatePrefix_PastEqual(q, limit) ==
    LET prefix == Normalize(q)
        start == PartitionPoint(NotAbove(prefix))
        hits == {k \in (start + 1)..Len(keys) :
                    IsPrefix(prefix, located.norm[located.order[k]])}
        rows == SubSeq(located.order, start + 1, start + Least(limit, Cardinality(hits)))
    IN  Guarded(q, Found("prefix", Len(rows), rows, Len(rows)))

\* locate_prefix: from the first row not below the prefix while rows have it.
LocatePrefix(q, limit) ==
    LET prefix == Normalize(q)
        start == PartitionPoint(Below(prefix))
        has(k) == IsPrefix(prefix, located.norm[located.order[k]])
        hits == {k \in (start + 1)..Len(keys) : \A j \in (start + 1)..k : has(j)}
        rows == SubSeq(located.order, start + 1, start + Least(limit, Cardinality(hits)))
    IN
    IF limit = 0 THEN {Found("prefix", 0, <<>>, 0)}
    ELSE Guarded(q, Found("prefix", Len(rows), rows, Len(rows)))

-----------------------------------------------------------------------------

NoCall == [op |-> "none"]

\* The locator was built within its limit: three tables and the bytes of the text.
LocatorSize(l) ==
    4 * (3 * Len(l.order) + 1) + Len(Encoded(Expand([o \in DOMAIN l.norm |-> o], l.norm)))

LookupInit ==
    /\ keys \in Tables
    /\ header \in Headers
    /\ located = BuildKeyLocator
    /\ LocatorSize(located) <= LocatorBytes
    /\ call = NoCall
    /\ answer = NotFound

Do(op, q, offset, limit, outcomes) ==
    /\ call = NoCall
    /\ call' = [op |-> op, query |-> q, offset |-> offset, limit |-> limit]
    /\ answer' \in outcomes
    /\ UNCHANGED <<keys, header, located>>

Locate(q) == Do("locate", q, 0, UsizeMax, LocateKeys(q))

LocatePage(q, offset, limit) ==
    Do("page", q, offset, limit, LocateKeyPage(q, offset, limit))

\* Only an MDX has match modes and prefix_keys.
LocateVariants(q) ==
    ~header.resourcePath /\ Do("mode", q, 0, UsizeMax, LocateWithMode(q))

LocateVariantsPage(q, offset, limit) ==
    ~header.resourcePath /\ Do("modePage", q, offset, limit, LocatePageWithMode(q, offset, limit))

PrefixKeys(q, limit) ==
    ~header.resourcePath /\ Do("prefix", q, 0, limit, LocatePrefix(q, limit))

\* The caller has taken the answer; nothing of the call stays behind.
Take ==
    /\ call # NoCall
    /\ call' = NoCall
    /\ answer' = NotFound
    /\ UNCHANGED <<keys, header, located>>

LookupNext ==
    \/ \E q \in Queries :
        \/ Locate(q)
        \/ LocateVariants(q)
        \/ \E offset \in Offsets, limit \in Limits :
              LocatePage(q, offset, limit) \/ LocateVariantsPage(q, offset, limit)
        \/ \E limit \in Limits : PrefixKeys(q, limit)
    \/ Take

LookupSpec == LookupInit /\ [][LookupNext]_lookupVars

-----------------------------------------------------------------------------

\* The rows a lookup has to find and their order, from the raw keys alone: the
\* rows whose key is the query, otherwise those that normalize like it.
ExactRows(q) == Ascending({o \in AllRows : keys[o] = q})
NormalizedRows(q) == Ascending({o \in AllRows : Normalize(keys[o]) = Normalize(q)})
PlainMatches(q) == IF ExactRows(q) # <<>> THEN ExactRows(q) ELSE NormalizedRows(q)

\* Every row that differs from the query in case only, wherever it is.
VariantRows(q) ==
    Ascending({o \in AllRows : keys[o] # q /\ EqualIgnoringCase(keys[o], q)})
ModeMatches(q) ==
    IF header.caseSensitive THEN PlainMatches(q)
    ELSE IF ExactRows(q) \o VariantRows(q) # <<>> THEN ExactRows(q) \o VariantRows(q)
    ELSE NormalizedRows(q)

Matches(op, q) == IF op \in {"locate", "page"} THEN PlainMatches(q) ELSE ModeMatches(q)

IsMatch == call.op \in {"locate", "page", "mode", "modePage"}

\* "Raw-exact matches across the entire file always win", and "Totals and match
\* basis describe the complete result": the answer is the requested window of
\* the rows that have to be found, in that order and with their number, also for
\* an empty page, a page past the end, and a limit near usize::MAX; digest
\* collisions and the split of a page over exact rows and variants do not show.
AnswersExactly ==
    IsMatch /\ answer.tag \in {"none", "found"} =>
        LET all == Matches(call.op, call.query) IN
        IF all = <<>> THEN answer = NotFound
        ELSE /\ answer.tag = "found"
             /\ answer.total = Len(all)
             /\ answer.rows = SubSeq(all, call.offset + 1,
                                     Least(Len(all), call.offset + call.limit))

\* The basis tells the caller the truth about every row of the complete result.
BasisTruthful ==
    IsMatch /\ answer.tag = "found" =>
        LET all == Matches(call.op, call.query)
            q == call.query
        IN
        CASE answer.basis = "exact" -> \A k \in DOMAIN all : keys[all[k]] = q
          [] answer.basis = "normalized" -> \A k \in DOMAIN all : keys[all[k]] # q
          [] answer.basis = "variants" ->
                /\ \E k \in DOMAIN all : keys[all[k]] # q
                /\ \A k \in DOMAIN all : EqualIgnoringCase(keys[all[k]], q)

\* The room for a page is reserved before anything is classified.  No page
\* outgrows it, nor the caller's limit; and no page is refused for its size,
\* whatever limit the caller names: the reservation is cut to the equal range, and
\* a locator that fits its limit is larger than any page of it.  Only a query that
\* is itself too long is refused.
PagesFitReservation ==
    /\ answer.tag = "found" =>
          Len(answer.rows) <= answer.room /\ Len(answer.rows) <= call.limit
    /\ answer.tag = "limit" => QueryTooLong(call.query)

\* prefix_keys: the first `limit' rows, in normalized order, of all rows whose
\* normalized key has the normalized prefix.
PrefixExact ==
    call.op = "prefix" /\ answer.tag = "found" =>
        LET prefix == Normalize(call.query)
            norm == [o \in AllRows |-> Normalize(keys[o])]
            all == Sorted({o \in AllRows : IsPrefix(prefix, norm[o])}, LocatorOrder(norm))
        IN  answer.rows = SubSeq(all, 1, Least(call.limit, Len(all)))

\* The three copies of the normalization loop agree on every key and query: what
\* the index builder appends to its arena is the text the locator and a query are
\* normalized to, and what is reserved for a text, enforced as its limit or added
\* to a bound beforehand (normalized_len, and for an ASCII key of the builder the
\* length of the key itself) is what it takes, although folding may change the
\* length of a character and stripping and separators drop some.
CopiesAgree ==
    \A raw \in IF call = NoCall THEN Range(keys) ELSE {call.query} :
        LET bytes == NormalizeBytes(raw) IN
        /\ bytes = Encoded(Normalize(raw))
        /\ NormalizedLen(raw) = Len(bytes)
        /\ (\A i \in DOMAIN raw : IsAscii(raw[i])) => Len(bytes) <= Len(raw)

=============================================================================
