------------------------------- MODULE Header -------------------------------
(***************************************************************************)
(* What the reader takes from the XML header of a dictionary file: the one *)
(* tag with its attributes (src/format/common/header.rs), the version that *)
(* selects the wire grammar (src/format/mod.rs) and the text encodings     *)
(* (src/format/common/encoding.rs).                                        *)
(*                                                                         *)
(* A header text is a record of what its scan meets: xmlLen, whether its   *)
(* checksum and its UTF-16 are good, its tag, its attributes in order and  *)
(* whether what surrounds them is well formed.  An attribute has a name in *)
(* lower case, a spelling (attributes that differ only in it are aliases), *)
(* a value, and an escape that is good or not.  A value is the sequence of *)
(* its parts between dots.  Which of several errors of one scan is met     *)
(* first matters only up to the kind of the error.                         *)
(***************************************************************************)
EXTENDS Integers, Sequences

CONSTANTS
    AttributeLimit,   \* Limits.header_attributes
    AttributeBytes,   \* size_of::<(String, String)>()
    HeaderBytes       \* size_of::<Header>()

ASSUME HeaderAssumption ==
    AttributeLimit \in Nat /\ AttributeBytes \in Nat /\ HeaderBytes \in Nat

\* The first early return of a list of checks, "ok" if none returns.
FirstError(errors) ==
    LET failed == {i \in DOMAIN errors : errors[i] # "ok"} IN
    IF failed = {} THEN "ok"
    ELSE errors[CHOOSE i \in failed : \A j \in failed : i <= j]

Need(condition, error) == IF condition THEN "ok" ELSE error

-----------------------------------------------------------------------------

Attributes == [name : STRING, spelling : STRING, value : Seq(STRING), escape : {"good", "bad"}]

HeaderText ==
    [xmlLen : Nat, sum : {"good", "bad"}, utf16 : {"good", "bad"}, tag : STRING,
     attrs : Seq(Attributes), syntax : {"good", "bad"}]

\* An upper bound of what the parsed header will hold.
HeaderMemoryEstimate(xmlLen) ==
    LET most == (xmlLen \div 4) + 1
        attributes == IF AttributeLimit <= most THEN AttributeLimit ELSE most
    IN  8 * xmlLen + attributes * AttributeBytes + HeaderBytes

\* One round of the attribute loop.
AttributeError(attrs, i) ==
    FirstError(<<
        Need(i <= AttributeLimit, "limit"),
        Need(\A j \in 1..(i - 1) : \/ attrs[j].name # attrs[i].name
                                   \/ attrs[j].spelling # attrs[i].spelling, "data"),
        Need(attrs[i].escape = "good", "format")>>)

ParseSingleTag(t) ==
    FirstError(Append([i \in DOMAIN t.attrs |-> AttributeError(t.attrs, i)],
                      Need(t.syntax = "good", "format")))

-----------------------------------------------------------------------------

\* A result is an error and a sequence of at most one value.
None == <<>>
Some(x) == <<x>>

\* The aliases parsed one after the other, indexed by their places: each is
\* compared with the one before it, and the last one stays.
Resolve(parsed) ==
    LET places == DOMAIN parsed
        Adjacent(i, j) == i < j /\ \A k \in places : k <= i \/ k >= j
    IN
    IF \/ \E i \in places : parsed[i] = None
       \/ \E i, j \in places : Adjacent(i, j) /\ parsed[i] # parsed[j]
    THEN [error |-> "data", value |-> None]
    ELSE [error |-> "ok",
          value |-> IF places = {} THEN None
                    ELSE parsed[CHOOSE i \in places : \A j \in places : j <= i]]

\* The places of the attributes that match a name, whatever their case.
Aliases(attrs, name) == {i \in DOMAIN attrs : attrs[i].name = name}

\* Bug: the first alias wins.
KnownAttribute_FirstWins(attrs, name) ==
    LET places == Aliases(attrs, name) IN
    [error |-> "ok",
     value |-> IF places = {} THEN None
               ELSE Some(attrs[CHOOSE i \in places : \A j \in places : i <= j].value)]

KnownAttribute(attrs, name) == Resolve([i \in Aliases(attrs, name) |-> Some(attrs[i].value)])

\* clone_optional_attribute: an empty value counts as absent.
OptionalAttribute(attrs, name) ==
    LET r == KnownAttribute(attrs, name) IN
    IF r.value = Some(<<"">>) THEN [r EXCEPT !.value = None] ELSE r

Yes == {<<"Yes">>, <<"YES">>}
No == {<<"No">>, <<"no">>}

ParseBool(v) == IF v \in Yes THEN Some(TRUE) ELSE IF v \in No THEN Some(FALSE) ELSE None

KnownBool(attrs, name, default) ==
    LET r == Resolve([i \in Aliases(attrs, name) |-> ParseBool(attrs[i].value)]) IN
    [error |-> r.error, value |-> IF r.value = None THEN default ELSE r.value[1]]

\* The part of a version or a number, as a number; "huge" does not fit a u32.
NumberOf == [p \in {"0", "1", "2", "3"} |->
                CASE p = "0" -> 0 [] p = "1" -> 1 [] p = "2" -> 2 [] p = "3" -> 3]
AllDigits == DOMAIN NumberOf \cup {"huge"}

\* parse_encryption_value: bit 0 is the keyword header, bit 1 the keyword index.
ParseEncryption(v) ==
    IF v \in Yes THEN Some(1)
    ELSE IF v \in No THEN Some(0)
    ELSE IF Len(v) = 1 /\ v[1] \in DOMAIN NumberOf THEN Some(NumberOf[v[1]])
    ELSE None

KnownEncryption(attrs) ==
    LET places == Aliases(attrs, "encrypted")
        r == Resolve([i \in places |-> ParseEncryption(attrs[i].value)])
    IN
    [error |-> r.error, value |-> IF r.value = None THEN 0 ELSE r.value[1]]

HasKeywordHeader(bits) == bits % 2 = 1
HasKeywordIndex(bits) == (bits \div 2) % 2 = 1

\* build_header_section.  "title" stands for the attributes that are only
\* copied: Format, RegisterBy, RegCode, Description, Title, CreationDate.
BuildHeader(kind, tag, attrs) ==
    LET generated == KnownAttribute(attrs, "generated")
        required == KnownAttribute(attrs, "required")
        encrypted == KnownEncryption(attrs)
        label == OptionalAttribute(attrs, "encoding")
        caseSensitive == KnownBool(attrs, "keycasesensitive", kind = "mdd")
        stripKey == KnownBool(attrs, "stripkey", FALSE)
    IN
    [error |-> FirstError(<<
         Need(tag = (IF kind = "mdx" THEN "Dictionary" ELSE "Library_Data"), "format"),
         generated.error,
         Need(generated.value # None, "format"),
         required.error, encrypted.error, label.error,
         caseSensitive.error, stripKey.error, OptionalAttribute(attrs, "title").error>>),
     generated |-> generated.value,
     required |-> IF required.value = None THEN generated.value ELSE required.value,
     encrypted |-> encrypted.value,
     label |-> label.value,
     caseSensitive |-> caseSensitive.value,
     stripKey |-> stripKey.value]

-----------------------------------------------------------------------------

\* Every part must be digits; only the major one must fit a u32.
DeclaredMajorVersion(v) ==
    IF v[1] \in DOMAIN NumberOf /\ \A i \in 2..Len(v) : v[i] \in AllDigits
    THEN Some(NumberOf[v[1]]) ELSE None

ResolveWireVersion(major) == Need(major \in {1, 2}, "unsupported")

ValidateVersionRelationship(generated, required) ==
    FirstError(<<
        Need(required # 0, "format"),
        Need(required <= 2, "unsupported"),
        Need(~(generated = 1 /\ required # 1), "format")>>)

\* The version checks of open_layout: the generated version selects the
\* grammar, and its errors come before those of the required one.
DispatchError(h) ==
    LET generated == DeclaredMajorVersion(h.generated[1])
        required == DeclaredMajorVersion(h.required[1])
    IN
    IF generated = None THEN "format"
    ELSE IF ResolveWireVersion(generated[1]) # "ok" THEN ResolveWireVersion(generated[1])
    ELSE IF required = None THEN "format"
    ELSE ValidateVersionRelationship(generated[1], required[1])

-----------------------------------------------------------------------------

\* TextEncoding::from_label; "gbk" stands for the encodings decoded by
\* encoding_rs (GBK, GB18030, BIG5).
FromLabel(label) ==
    IF label \in {None, Some(<<"utf-8">>)} THEN Some("utf8")
    ELSE IF label = Some(<<"utf-16">>) THEN Some("utf16")
    ELSE IF label = Some(<<"gbk">>) THEN Some("gbk")
    ELSE None

\* The keys of an MDD are UTF-16 whatever its label says.
ForKeys(kind, label) == IF kind = "mdd" THEN Some("utf16") ELSE FromLabel(label)

UnitSize(encoding) == IF encoding = "utf16" THEN 2 ELSE 1

=============================================================================
