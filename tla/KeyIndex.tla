------------------------------ MODULE KeyIndex ------------------------------
(***************************************************************************)
(* The life of a persistent key index: built from an open dictionary,      *)
(* written to a new path, opened again by this or another handle, and      *)
(* queried, while the dictionary's own file may be edited in place         *)
(* (src/core/persistent/build.rs, cache.rs and query.rs, source.rs).       *)
(*                                                                         *)
(* An edit keeps the layout the handles have parsed and replaces the keys  *)
(* of one block; it moves the modification time, or leaves it (restored,   *)
(* or within the filesystem's resolution), and may change the length.      *)
(* A key is its raw text with its digest, the raw text without case and    *)
(* the rank of its normalized text.  The sorting of the index is in        *)
(* IndexSort, its layout in IndexLayout and the reading of its chunks in   *)
(* ChunkCache: here a complete file answers a search by the keys it was    *)
(* built from, a damaged one is rejected in Verify mode and answers        *)
(* anything in Skip mode.                                                  *)
(***************************************************************************)
EXTENDS Integers, Sequences, FiniteSets, FiniteSetsExt

CONSTANTS
    Handles,       \* open MdxFile values, each shared by any number of threads
    BlockOf,       \* BlockOf[o]: the key block of ordinal o
    Keys,          \* Keys[v][o]: the key o has in version v of its block
    Queries,       \* the keys looked for
    Prefixes,      \* the prefixes looked for, each the set of ranks that have it
    Windows,       \* the pages asked for: [offset, limit]
    Policies,      \* KeyIndexOptions.checksum_policy: TRUE to verify
    SilentEdits,   \* whether an edit may leave the stamp as it is
    StaleBuilds,   \* whether a handle builds although its source was edited
                   \* since it was opened
    MaxEdits       \* bound: how often the source is edited

Ordinals == DOMAIN BlockOf
Blocks == {BlockOf[o] : o \in Ordinals}
Versions == DOMAIN Keys
Contents == [Blocks -> Versions]

AllKeys == UNION {{Keys[v][o] : o \in Ordinals} : v \in Versions}

ASSUME KeyIndexAssumption ==
    /\ IsFiniteSet(Ordinals) /\ Ordinals = 0..(Cardinality(Ordinals) - 1)
    /\ Blocks = 0..(Cardinality(Blocks) - 1)
    /\ \A v \in Versions : DOMAIN Keys[v] = Ordinals
    /\ Policies \subseteq BOOLEAN /\ SilentEdits \in BOOLEAN /\ StaleBuilds \in BOOLEAN
    /\ Windows \subseteq [offset : Nat, limit : Nat]
    /\ MaxEdits \in Nat

\* Folding the case, normalizing and digesting are functions of the raw text, and
\* normalized texts are compared by their ranks.
ASSUME KeyTextAssumption ==
    /\ \A k, q \in AllKeys \cup Queries :
          k.raw = q.raw => k.folded = q.folded /\ k.norm = q.norm /\ k.digest = q.digest
    /\ \A k \in AllKeys : k.norm \in Int

VARIABLES
    source,   \* the MDX file: the version of each block, its stamp, and a history:
              \* how often it was edited, whether each edit moved the stamp
    truth,    \* history: truth[s]: the contents the source had under stamp s
    seen,     \* history: seen[h]: the contents since h was opened
    cache,    \* cache[h]: h's key_block_cache
    opened,   \* opened[h]: the stamp of the source when h was opened, or None
    build,    \* the build in progress
    file,     \* the index file
    index,    \* index[h]: the KeyIndex h has opened
    call,     \* call[h]: a query of h through its index
    returned  \* what the last step returned to the host: a build's report, a
              \* query's answer, or None

vars == <<source, truth, seen, cache, opened, build, file, index, call, returned>>

None == [tag |-> "none"]
NoBuild == [phase |-> "idle"]
NoFile == [parts |-> 0]
AllParts == 3    \* header and checksums, some sections, all sections
EmptyCache == [block |-> -1]
MaxGarbled == 2  \* bound: the rows found by a search of a damaged index

KeyOf(o, content) == Keys[content[BlockOf[o]]][o]

Stamp == [len |-> source.len, time |-> source.time]

Init ==
    /\ \E v \in Versions :
          source = [rows |-> [b \in Blocks |-> v], len |-> 0, time |-> 0,
                    edits |-> 0, shown |-> TRUE]
    /\ truth = [s \in {Stamp} |-> {source.rows}]
    /\ seen = [h \in Handles |-> {}]
    /\ cache = [h \in Handles |-> EmptyCache]
    /\ opened = [h \in Handles |-> None]
    /\ build = NoBuild
    /\ file = NoFile
    /\ index = [h \in Handles |-> None]
    /\ call = [h \in Handles |-> None]
    /\ returned = None

-----------------------------------------------------------------------------

\* MdxFile::open
OpenSource(h) ==
    /\ opened[h] = None
    /\ opened' = [opened EXCEPT ![h] = Stamp]
    /\ seen' = [seen EXCEPT ![h] = {source.rows}]
    /\ returned' = None
    /\ UNCHANGED <<source, truth, cache, build, file, index, call>>

Edited(rows, stamp) ==
    /\ source.edits < MaxEdits
    /\ source' = [rows |-> rows, len |-> stamp.len, time |-> stamp.time,
                   edits |-> source.edits + 1, shown |-> source.shown /\ stamp # Stamp]
    /\ truth' = [s \in DOMAIN truth \cup {stamp} |->
                    (IF s \in DOMAIN truth THEN truth[s] ELSE {})
                    \cup (IF s = stamp THEN {rows} ELSE {})]
    /\ seen' = [h \in Handles |-> IF opened[h] = None THEN {} ELSE seen[h] \cup {rows}]
    /\ call' = [h \in Handles |-> IF call[h] = None THEN None
                                   ELSE [call[h] EXCEPT !.during = @ \cup {rows}]]
    /\ returned' = None
    /\ UNCHANGED <<cache, opened, build, file, index>>

\* Someone rewrites a block of the source.
Edit ==
    \E b \in Blocks, v \in Versions, grow \in {0, 1} :
        /\ source.rows[b] # v
        /\ Edited([source.rows EXCEPT ![b] = v],
                  [len |-> source.len + grow, time |-> source.time + 1])

\* The same, but the length and the modification time come out as they were.
EditSilently ==
    /\ SilentEdits
    /\ \E b \in Blocks, v \in Versions :
          /\ source.rows[b] # v
          /\ Edited([source.rows EXCEPT ![b] = v], Stamp)

\* decode_key_block of handle h: the version of the block's keys and the slot
\* afterwards.  A miss reads the source as it is now, or fails for want of memory
\* or I/O, before or after it has emptied the slot.
DecodeKeyBlock(h, b) ==
    IF cache[h].block = b THEN {[ok |-> TRUE, version |-> cache[h].version, slot |-> cache[h]]}
    ELSE {[ok |-> TRUE, version |-> source.rows[b],
           slot |-> [block |-> b, version |-> source.rows[b]]],
          [ok |-> FALSE, slot |-> EmptyCache], [ok |-> FALSE, slot |-> cache[h]]}

\* Any other use of the handle: a block is decoded into its slot.
OtherRead(h, b) ==
    /\ opened[h] # None
    /\ \E d \in DecodeKeyBlock(h, b) : cache' = [cache EXCEPT ![h] = d.slot]
    /\ returned' = None
    /\ UNCHANGED <<source, truth, seen, opened, build, file, index, call>>

-----------------------------------------------------------------------------

\* source_identity: only the length is compared with what the handle parsed.
SourceIdentity(h) == IF source.len # opened[h].len THEN None ELSE Stamp

\* build_index begins: the identity is taken before the first row.  A history: is
\* the source as the handle was opened on?
StartBuild(h) ==
    /\ opened[h] # None /\ build = NoBuild
    /\ SourceIdentity(h) # None
    /\ StaleBuilds \/ opened[h] = Stamp
    /\ build' = [phase |-> "scan", handle |-> h, before |-> Stamp, block |-> 0, rows |-> <<>>,
                 fresh |-> opened[h] = Stamp]
    /\ returned' = None
    /\ UNCHANGED <<source, truth, seen, cache, opened, file, index, call>>

\* The build returns an error; what it wrote stays where it is.
FailBuild ==
    /\ build' = NoBuild
    /\ returned' = None
    /\ UNCHANGED <<source, truth, seen, opened, file, index, call>>

\* One key block: a decode error ends the build, as SourceChanged or as itself.
BuildBlock ==
    /\ build.phase = "scan" /\ build.block \in Blocks
    /\ \E d \in DecodeKeyBlock(build.handle, build.block) :
          /\ cache' = [cache EXCEPT ![build.handle] = d.slot]
          /\ IF d.ok
             THEN /\ build' = [build EXCEPT !.block = @ + 1, !.rows = Append(@, d.version)]
                  /\ returned' = None
                  /\ UNCHANGED <<source, truth, seen, opened, file, index, call>>
             ELSE FailBuild

\* All rows are in: sections and header are ready, and the path is created.
CreateFile ==
    /\ build.phase = "scan" /\ build.block \notin Blocks
    /\ file = NoFile
    /\ build' = [build EXCEPT !.phase = "write"]
    /\ file' = [parts |-> 0, stamp |-> build.before, synced |-> FALSE, damaged |-> FALSE,
                fresh |-> build.fresh, rows |-> [b \in Blocks |-> build.rows[b + 1]]]
    /\ returned' = None
    /\ UNCHANGED <<source, truth, seen, cache, opened, index, call>>

\* write_built_index: the header and the checksum table first, then the sections.
WritePart ==
    /\ build.phase = "write" /\ file.parts < AllParts
    /\ file' = [file EXCEPT !.parts = @ + 1]
    /\ returned' = None
    /\ UNCHANGED <<source, truth, seen, cache, opened, build, index, call>>

\* sync_all
SyncFile ==
    /\ build.phase = "write" /\ file.parts = AllParts
    /\ file' = [file EXCEPT !.synced = TRUE]
    /\ build' = [build EXCEPT !.phase = "check"]
    /\ returned' = None
    /\ UNCHANGED <<source, truth, seen, cache, opened, index, call>>

\* Bug: the source is not looked at again when the file is written.
SourceUnchanged_Never == TRUE

\* ensure_source_unchanged
SourceUnchanged == SourceIdentity(build.handle) = build.before

\* The build returns its report; a history of the file it left goes with it.
EndBuild ==
    /\ build.phase = "check"
    /\ returned' = IF SourceUnchanged
                   THEN [tag |-> "built", stamp |-> build.before, rows |-> file.rows,
                         fresh |-> build.fresh,
                         durable |-> file.parts = AllParts /\ file.synced]
                   ELSE [tag |-> "source changed"]
    /\ build' = NoBuild
    /\ UNCHANGED <<source, truth, seen, cache, opened, file, index, call>>

\* Cancellation, a limit, scratch or destination I/O, or a path that exists.
AbortBuild ==
    /\ build # NoBuild
    /\ FailBuild
    /\ UNCHANGED cache

\* The process dies.  An index file that was not synced may lose its end, or
\* keep its length and lose what was in it, when the machine dies with it.
Crash ==
    /\ seen' = [h \in Handles |-> {}]
    /\ cache' = [h \in Handles |-> EmptyCache]
    /\ opened' = [h \in Handles |-> None]
    /\ build' = NoBuild
    /\ index' = [h \in Handles |-> None]
    /\ call' = [h \in Handles |-> None]
    /\ \/ file' = file
       \/ /\ file # NoFile /\ ~file.synced
          /\ \/ file' = [file EXCEPT !.damaged = TRUE]
             \/ \E p \in 0..(file.parts - 1) : file' = [file EXCEPT !.parts = p]
    /\ returned' = None
    /\ UNCHANGED <<source, truth>>

\* The host removes the file when no build is under way.
Discard ==
    /\ file # NoFile /\ build = NoBuild
    /\ file' = NoFile
    /\ index' = [h \in Handles |-> None]
    /\ call' = [h \in Handles |-> None]
    /\ returned' = None
    /\ UNCHANGED <<source, truth, seen, cache, opened, build>>

-----------------------------------------------------------------------------

\* Bug: the dictionary is compared with itself as it was opened.
DictionaryMatches_AtOpen(h, identity) == opened[h] = identity

\* validate_dictionary_identity
DictionaryMatches(h, identity) == opened[h].len = identity.len /\ Stamp = identity

\* Bug: the length of the file is not compared with the header's.
FileComplete_Header == file.parts > 0

\* The header is there, and the file is as long as it says.
FileComplete == file.parts = AllParts

\* open_key_index with an identity of any time that the host has kept.  A damaged
\* file opens if the damage is not in the header.
OpenIndex(h, verify, expected) ==
    /\ opened[h] # None /\ index[h] = None
    /\ file # NoFile /\ FileComplete
    /\ file.stamp = expected
    /\ DictionaryMatches(h, expected)
    /\ index' = [index EXCEPT ![h] = [tag |-> "index", stamp |-> file.stamp, verify |-> verify]]
    /\ returned' = None
    /\ UNCHANGED <<source, truth, seen, cache, opened, build, file, call>>

\* The rows of S in the order of the index: normalized text, then ordinal.  There is
\* one such sequence.
IndexOrder(S, content) ==
    LET before(p, o) == \/ KeyOf(p, content).norm < KeyOf(o, content).norm
                        \/ KeyOf(p, content).norm = KeyOf(o, content).norm /\ p < o
    IN  {rows \in [1..Cardinality(S) -> S] :
            \A i, j \in DOMAIN rows : i < j => before(rows[i], rows[j])}

PhysicalOrder == [k \in 1..Cardinality(Ordinals) |-> k - 1]

\* The rows whose normalized text is one of these.
Matching(norms, content) == {o \in Ordinals : KeyOf(o, content).norm \in norms}

Unreadable == [tag |-> "unreadable"]

Garbled(h) == file.damaged /\ ~index[h].verify
Refuses(h) == file.damaged /\ index[h].verify

\* row_text and raw_digest_at: what the index may have to say of row o.
IndexRow(h, o) ==
    {KeyOf(o, file.rows)}
    \cup (IF Refuses(h) THEN {Unreadable} ELSE {})
    \cup (IF Garbled(h) THEN AllKeys ELSE {})

\* equal_range, and the walk of prefix from its lower_bound: the rows found.
SearchResults(h, norms) ==
    IndexOrder(Matching(norms, file.rows), file.rows)
    \cup (IF Garbled(h) THEN UNION {[1..n -> Ordinals] : n \in 0..MaxGarbled} ELSE {})

Return(h, a) ==
    /\ call' = [call EXCEPT ![h] = None]
    /\ returned' = a

Continue(h, c) ==
    /\ call' = [call EXCEPT ![h] = c]
    /\ returned' = None

Rejected == [tag |-> "rejected"]

\* What a query returns: rows and the total that a page is of.  With it go handle
\* and question, and a history: the keys that were decoded when they were taken, the
\* contents the source had meanwhile, whether the index is a fresh handle's and
\* whether its bytes were intact or verified.
Answer(h, ask, during, total, rows, keys) ==
    [tag |-> IF total = 0 THEN "absent" ELSE "found", handle |-> h, ask |-> ask,
     during |-> during, total |-> total, rows |-> rows, keys |-> keys, fresh |-> file.fresh,
     intact |-> ~Garbled(h)]

\* locate, locate_page, locate_case_variants, prefix and scan: the stamp is
\* checked once, then the index is searched.  A prefix search for no rows returns
\* none before it looks at anything.
BeginQuery(h, ask) ==
    /\ index[h] # None /\ call[h] = None
    /\ \/ ask.op = "prefix" /\ Return(h, [tag |-> "empty"])
       \/ /\ ~DictionaryMatches(h, index[h].stamp) \/ Refuses(h)
          /\ Return(h, Rejected)
       \/ /\ DictionaryMatches(h, index[h].stamp)
          /\ \E range \in IF ask.op = "scan" THEN {PhysicalOrder} ELSE SearchResults(h, ask.norms) :
                IF range = <<>>
                THEN Return(h, Answer(h, ask, {source.rows}, 0, <<>>, <<>>))
                ELSE Continue(h, [tag |-> "call", ask |-> ask, range |-> range, pass |-> 1,
                                  at |-> 1, exact |-> <<>>, others |-> 0, picked |-> <<>>,
                                  keys |-> <<>>, during |-> {source.rows}])
    /\ UNCHANGED <<source, truth, seen, cache, opened, build, file, index>>

\* Bug: the index is compared with the query, not with the source.
Verified_IndexOnly(ask, row, key) == row.norm \in ask.norms

\* verified_source_key: the key decoded from the source has the normalized text
\* that is looked for, or that the row has, and the digest the row has.
Verified(ask, row, key) ==
    /\ ask.op \in {"locate", "variants"} => key.norm \in ask.norms
    /\ row.norm = key.norm
    /\ row.digest = key.digest

\* The first pass of locate looks only at rows with the digest of the query.
Skips(c, row) == c.ask.op = "locate" /\ c.pass = 1 /\ row.digest # c.ask.key.digest

\* Bug: a row with the digest of the query is taken for its raw match.
IsExact_Digest(c, key) == c.ask.op \in {"locate", "variants"} /\ key.digest = c.ask.key.digest

IsExact(c, key) == c.ask.op \in {"locate", "variants"} /\ key.raw = c.ask.key.raw
IsVariant(c, key) == ~IsExact(c, key) /\ key.folded = c.ask.key.folded

\* Whether the row is appended to what a scan has visited, a prefix search has
\* found, or the second pass of locate or of select_page collects.
Picks(c, key) ==
    CASE c.ask.op = "locate" -> c.pass = 2
      [] c.ask.op = "variants" -> c.pass = 2 /\ IsVariant(c, key)
      [] OTHER -> TRUE

\* c with row o, whose key is key, classified.
Classified(c, o, key) ==
    [c EXCEPT !.exact = IF c.pass = 1 /\ IsExact(c, key) THEN Append(@, o) ELSE @,
              !.others = IF c.pass = 1 /\ c.ask.op = "variants" /\ IsVariant(c, key)
                         THEN @ + 1 ELSE @,
              !.picked = IF Picks(c, key) THEN Append(@, o) ELSE @,
              !.keys = IF Picks(c, key) \/ (c.pass = 1 /\ IsExact(c, key))
                       THEN [p \in DOMAIN @ \cup {o} |-> IF p = o THEN key ELSE @[p]] ELSE @]

Last(c) == c.at = Len(c.range)

\* The end of select_page's page, when its first pass has counted the rows.
PageEnd(c) ==
    LET total == Len(c.exact) + c.others
    IN  IF total <= c.ask.window.offset THEN 0
        ELSE Min({total, c.ask.window.offset + c.ask.window.limit})

\* Whether the first pass is followed by a second: locate found no raw match;
\* the page of select_page reaches beyond the raw matches.
SecondPass(c) ==
    /\ c.pass = 1 /\ Last(c)
    /\ \/ c.ask.op = "locate" /\ c.exact = <<>>
       \/ c.ask.op = "variants" /\ c.ask.window.limit > 0 /\ PageEnd(c) > Len(c.exact)

\* Whether the query is over.  A prefix search ends at its limit and a scan when
\* its visitor says so: at any row.
Over(c) ==
    \/ c.ask.op \in {"prefix", "scan"}
    \/ Last(c) /\ ~SecondPass(c)
    \/ c.ask.op = "variants" /\ c.pass = 2 /\ Len(c.exact \o c.picked) = PageEnd(c)

Page(rows, window) ==
    SubSeq(rows, window.offset + 1, Min({Len(rows), window.offset + window.limit}))

\* What the query has found when it is over.
Found(h, c) ==
    LET rows == IF c.ask.op = "locate" /\ c.exact # <<>> THEN c.exact ELSE c.exact \o c.picked
        total == IF c.ask.op = "variants" THEN Len(c.exact) + c.others ELSE Len(rows)
    IN  Answer(h, c.ask, c.during, total, Page(rows, c.ask.window), c.keys)

\* After row c.at: the next row, the second pass, or the end.
Advance(h, c) ==
    \/ ~Last(c) /\ ~(c.pass = 2 /\ Over(c)) /\ Continue(h, [c EXCEPT !.at = @ + 1])
    \/ SecondPass(c) /\ Continue(h, [c EXCEPT !.at = 1, !.pass = 2])
    \/ Over(c) /\ Return(h, Found(h, c))

\* Row c.at of the query of h.
QueryRow(h) ==
    LET c == call[h]
        o == c.range[c.at]
    IN
    /\ c # None
    /\ \E row \in IndexRow(h, o) :
        \/ row = Unreadable /\ Return(h, Rejected) /\ UNCHANGED cache
        \/ row # Unreadable /\ Skips(c, row) /\ Advance(h, c) /\ UNCHANGED cache
        \/ /\ row # Unreadable /\ ~Skips(c, row)
           /\ \E d \in DecodeKeyBlock(h, BlockOf[o]) :
                /\ cache' = [cache EXCEPT ![h] = d.slot]
                /\ \/ ~d.ok /\ Return(h, [tag |-> "io"])
                   \/ d.ok /\ LET key == Keys[d.version][o] IN
                        IF Verified(c.ask, row, key) THEN Advance(h, Classified(c, o, key))
                        ELSE Return(h, Rejected)
    /\ UNCHANGED <<source, truth, seen, opened, build, file, index>>

Whole == [offset |-> 0, limit |-> Cardinality(Ordinals)]

\* The questions a host asks of an index.
Asks ==
    {[op |-> op, key |-> q, norms |-> {q.norm}, window |-> w] :
        op \in {"locate", "variants"}, q \in Queries, w \in Windows}
    \cup {[op |-> "prefix", norms |-> p, window |-> Whole] : p \in Prefixes}
    \cup {[op |-> "scan", norms |-> {k.norm : k \in AllKeys}, window |-> Whole]}

Next ==
    \/ Edit \/ EditSilently
    \/ \E h \in Handles :
        \/ OpenSource(h)
        \/ \E b \in Blocks : OtherRead(h, b)
        \/ StartBuild(h)
        \/ \E verify \in Policies, expected \in DOMAIN truth : OpenIndex(h, verify, expected)
        \/ \E ask \in Asks : BeginQuery(h, ask)
        \/ QueryRow(h)
    \/ BuildBlock \/ CreateFile \/ WritePart \/ SyncFile \/ EndBuild \/ AbortBuild
    \/ Crash \/ Discard

Spec == Init /\ [][Next]_vars

-----------------------------------------------------------------------------

\* build_key_index "Returns an error if source data is malformed or changes": a
\* build that reports success has left a complete, durable file with the rows the
\* source had under the stamp reported.
BuildIsOfItsSource ==
    returned.tag = "built" => returned.durable /\ returned.rows \in truth[returned.stamp]

\* That holds, although the build reads block by block through a shared cache while
\* the source is edited, where edits move the stamp and the handle is as old as the
\* source; that the file is durable holds anyway.
FreshBuildIsOfItsSource ==
    returned.tag = "built" =>
        returned.durable /\ (source.shown /\ returned.fresh => BuildIsOfItsSource)

\* An index that opens is complete and, under the same conditions, has the rows of
\* the source under the stamp that the host and the dictionary agree on: what an
\* interrupted, failed or overtaken build leaves behind does not open.
OpenIsOfItsSource ==
    \A h \in Handles : index[h] # None =>
        /\ file.parts = AllParts
        /\ source.shown /\ file.fresh => file.rows \in truth[index[h].stamp]

\* locate_with_key_index: "raw digests are only filters, and every positive row
\* is proved against source key data".  Each row returned has a key that the
\* source has had since this handle was opened and that matches the question,
\* whatever is in the index file and whatever edits there are.
FoundIsInSource ==
    returned.tag = "found" =>
        LET a == returned
            key(o) == a.keys[o]
            matches(o) == CASE a.ask.op = "variants" -> key(o).folded = a.ask.key.folded
                            [] a.ask.op = "locate" -> key(o).norm = a.ask.key.norm
                            [] OTHER -> TRUE
        IN  \A k \in DOMAIN a.rows :
                /\ \E content \in seen[a.handle] : KeyOf(a.rows[k], content) = key(a.rows[k])
                /\ matches(a.rows[k])

\* The rows a question has in these contents.
Expected(ask, content) ==
    LET S == Matching(ask.norms, content)
        key(o) == KeyOf(o, content)
        exact == {o \in S : key(o).raw = ask.key.raw}
        variants == {o \in S \ exact : key(o).folded = ask.key.folded}
        ordered(T) == CHOOSE rows \in IndexOrder(T, content) : TRUE
    IN  CASE ask.op = "scan" -> PhysicalOrder
          [] ask.op = "prefix" -> ordered(S)
          [] ask.op = "variants" -> ordered(exact) \o ordered(variants)
          [] ask.op = "locate" -> IF exact # {} THEN ordered(exact) ELSE ordered(S)

\* The handle was opened on the source that its index is of.
AsNew(h) == opened[h] = index[h].stamp

\* Of a fresh handle's index whose bytes are intact, or are verified, and as long as
\* edits move the stamp, a query of a handle as new as the index that no edit
\* overtakes answers as the source it ran on: raw matches before others, no row
\* missing or twice, the right total and page, "absent" only if there is nothing.
AnswersComplete ==
    /\ returned.tag \in {"absent", "found"}
    /\ returned.intact /\ returned.fresh /\ source.shown /\ AsNew(returned.handle)
    =>
        \A content \in returned.during :
            LET rows == Expected(returned.ask, content)
                answered == returned.rows
            IN  returned.during = {content} =>
                    CASE returned.tag = "absent" -> rows = <<>>
                      [] returned.ask.op \in {"prefix", "scan"} ->
                            answered = SubSeq(rows, 1, Len(answered))
                      [] OTHER -> /\ answered = Page(rows, returned.ask.window)
                                  /\ returned.total = Len(rows)

\* README: "an unchanged-layout source-key mutation rejects the index instead of
\* returning stale index text", and "A positive lookup or prefix result is
\* additionally checked against the corresponding current MDX source row": a scan,
\* lookup or prefix search that succeeds has keys that the source had at some time
\* while it ran.
RowsAreCurrent ==
    returned.tag = "found" =>
        \A k \in DOMAIN returned.rows :
            \E content \in returned.during :
                KeyOf(returned.rows[k], content) = returned.keys[returned.rows[k]]

\* Where edits move the stamp, that holds of a handle as new as its index, although a
\* query looks at the stamp only once and takes its keys from a cache.  An older
\* handle may have an old block in that cache: with an index that a fresh handle
\* built, it returns a key only if the source had one with its normalized text and
\* its digest.
StampedRowsAreCurrent ==
    source.shown /\ returned.tag = "found" =>
        /\ AsNew(returned.handle) => RowsAreCurrent
        /\ returned.fresh /\ returned.intact =>
              \A k \in DOMAIN returned.rows :
                  \E content \in returned.during :
                      LET now == KeyOf(returned.rows[k], content)
                          found == returned.keys[returned.rows[k]]
                      IN  now.norm = found.norm /\ now.digest = found.digest

=============================================================================
