-------------------------- MODULE DictReader_proofs -------------------------
(***************************************************************************)
(* The reads of a dictionary use its two caches as module BlockCache       *)
(* allows, for any layout, any files and any threads; what is proved of    *)
(* the caches there thus holds of every dictionary in use.                 *)
(***************************************************************************)
EXTENDS DictReader, BlockCache_proofs, SequenceTheorems

IterFields == {"pc", "block", "entry", "rows", "pending", "yielded", "done", "error"}

\* A call that will decode a block names one that exists.
CallOK(c) ==
    /\ "pc" \in DOMAIN c
    /\ c.pc = "end" => c.next \in KeyBlocks
    /\ c.pc = "batch" => "left" \in DOMAIN c /\ c.left \subseteq KeyBlocks

\* An iterator counts its blocks up and looks for the end of a record only in a
\* block that exists (a KeyIter never does).
IterOK(t, it) ==
    /\ DOMAIN it = IterFields
    /\ it.block \in Nat
    /\ t \in RecordScanners /\ it.pc = "tail" => it.block < NKey

ReaderInv ==
    /\ DOMAIN call = Callers /\ call = [t \in Callers |-> call[t]]
    /\ iter = [t \in Scanners |-> iter[t]]
    /\ \A t \in Callers : CallOK(call[t])
    /\ \A t \in Scanners : IterOK(t, iter[t])

cacheVars == <<file, keyCache, recordCache>>

-----------------------------------------------------------------------------

\* The numbers of blocks.
LEMMA KeyBlockNumbers ==
    /\ NKey \in Nat
    /\ \A b : b \in KeyBlocks <=> b \in Nat /\ b < NKey
  BY LayoutAssumption DEF NKey, KeyBlocks

\* What key_entry_at_ordinal leaves in the slot.
LEMMA EntryAccess ==
    ASSUME NEW o, NEW d \in KeyEntryAtOrdinal(o)
    PROVE  \/ d.slot = keyCache
           \/ /\ FindKeyBlock(o) \in KeyBlocks
              /\ \E e \in DecodeKeyBlock(FindKeyBlock(o)) : d.slot = e.slot
  <1> DEFINE b == FindKeyBlock(o)
  <1>1. CASE b \notin KeyBlocks
    BY <1>1 DEF KeyEntryAtOrdinal
  <1>2. CASE b \in KeyBlocks
    <2>1. PICK e \in DecodeKeyBlock(b) :
             d = IF ~IsFailure(e.result) /\ o - EntryStart[b] \notin DOMAIN e.result.rows
                 THEN [result |-> Internal, slot |-> e.slot] ELSE e
      BY <1>2 DEF KeyEntryAtOrdinal
    <2>2. d.slot = e.slot
      BY <2>1
    <2> QED BY <1>2, <2>2
  <1> QED BY <1>1, <1>2

\* A step that moves one call, or one iterator, to a sound state.
CallMoves(t) == \E c : CallOK(c) /\ call' = [call EXCEPT ![t] = c]
IterMoves(t) == \E it : IterOK(t, it) /\ iter' = [iter EXCEPT ![t] = it]

LEMMA CallStep ==
    ASSUME ReaderInv, NEW t \in Callers, CallMoves(t), UNCHANGED iter
    PROVE  ReaderInv'
  <1>1. PICK c : CallOK(c) /\ call' = [call EXCEPT ![t] = c]
    BY DEF CallMoves
  <1>2. \A u \in Callers : call'[u] = IF u = t THEN c ELSE call[u]
    BY <1>1 DEF ReaderInv
  <1>3. \A u \in Callers : CallOK(call'[u])
    BY <1>1, <1>2 DEF ReaderInv
  <1>4. DOMAIN call' = Callers /\ call' = [u \in Callers |-> call'[u]]
    BY <1>1 DEF ReaderInv
  <1> QED BY <1>3, <1>4 DEF ReaderInv, CallOK, IterOK

LEMMA IterStep ==
    ASSUME ReaderInv, NEW t \in Scanners, IterMoves(t), UNCHANGED call
    PROVE  ReaderInv'
  <1>1. PICK it : IterOK(t, it) /\ iter' = [iter EXCEPT ![t] = it]
    BY DEF IterMoves
  <1>2. \A u \in Scanners : iter'[u] = IF u = t THEN it ELSE iter[u]
    BY <1>1 DEF ReaderInv
  <1>3. \A u \in Scanners : IterOK(u, iter'[u])
    BY <1>1, <1>2 DEF ReaderInv
  <1>4. iter' = [u \in Scanners |-> iter'[u]]
    BY <1>1 DEF ReaderInv
  <1> QED BY <1>3, <1>4 DEF ReaderInv, CallOK, IterOK

\* A call that returns, or that goes on to the bytes of a span, names no block.
LEMMA ReturnMoves ==
    ASSUME NEW t, NEW r, Return(t, r)
    PROVE  CallMoves(t)
  BY DEF Return, CallMoves, CallOK, Idle

LEMMA WithSpanMoves ==
    ASSUME NEW t, NEW op, NEW o, NEW start, NEW end, WithSpan(t, op, o, start, end)
    PROVE  CallMoves(t)
  <1> DEFINE c == [pc |-> "span", op |-> op, ordinal |-> o, cursor |-> start,
                   end |-> end, out |-> <<>>]
  <1>1. CallOK(c)
    BY DEF CallOK
  <1>2. Continue(t, c) => CallMoves(t)
    BY <1>1 DEF Continue, CallMoves
  <1>3. \/ Continue(t, c)
        \/ \E r : Return(t, r)
    BY DEF WithSpan
  <1> QED BY <1>2, <1>3, ReturnMoves

\* The ways a scan step leaves its iterator.
LEMMA FailOK ==
    ASSUME NEW t, NEW it, IterOK(t, it), NEW r
    PROVE  IterOK(t, Fail(it, r))
  BY DEF IterOK, Fail, IterFields

LEMMA EmitOK ==
    ASSUME NEW t, NEW it, IterOK(t, it), NEW row, NEW end
    PROVE  IterOK(t, Emit(it, row, end))
  <1>1. CASE end < row.start
    BY <1>1, FailOK DEF Emit
  <1>2. CASE ~(end < row.start)
    BY <1>2 DEF IterOK, Emit, IterFields
  <1> QED BY <1>1, <1>2

LEMMA TakeRowOK ==
    ASSUME NEW t, NEW it, IterOK(t, it), it.pc = "idle", NEW rows
    PROVE  IterOK(t, TakeRow(it, rows))
  <1> DEFINE row == rows[it.entry]
             past == [it EXCEPT !.block = @ + 1, !.entry = 0, !.rows = NoRows]
             same == [it EXCEPT !.entry = @ + 1, !.rows = rows]
  <1>1. IterOK(t, past) /\ past.block = it.block + 1 /\ past.pc = "idle"
    BY DEF IterOK, IterFields
  <1>2. IterOK(t, same)
    BY DEF IterOK, IterFields
  <1>3. it.block + 1 < NKey => IterOK(t, [past EXCEPT !.pc = "tail", !.pending = row])
    BY <1>1 DEF IterOK, IterFields
  <1>4. IterOK(t, Emit(past, row, TotalLen))
    BY <1>1, EmitOK
  <1>5. IterOK(t, Emit(same, row, rows[it.entry + 1].start))
    BY <1>2, EmitOK
  <1> HIDE DEF past, same, row
  <1> QED BY <1>3, <1>4, <1>5 DEF TakeRow, past, same, row

-----------------------------------------------------------------------------

\* What is shown of each action: it keeps the invariant, and is one access to one
\* of the caches or to none.
StepOK == ReaderInv' /\ [CacheNext]_cacheVars

\* An access to the key cache.
LEMMA KeyAccess ==
    ASSUME NEW b \in KeyBlocks, NEW d \in DecodeKeyBlock(b), keyCache' = d.slot,
           UNCHANGED <<file, recordCache>>
    PROVE  [CacheNext]_cacheVars
  BY DEF CacheNext

\* An access through key_entry_at_ordinal.
LEMMA OrdinalAccess ==
    ASSUME NEW o, NEW d \in KeyEntryAtOrdinal(o), keyCache' = d.slot,
           UNCHANGED <<file, recordCache>>
    PROVE  [CacheNext]_cacheVars
  <1>1. CASE d.slot = keyCache
    BY <1>1 DEF cacheVars
  <1>2. ASSUME NEW e \in DecodeKeyBlock(FindKeyBlock(o)), FindKeyBlock(o) \in KeyBlocks,
               d.slot = e.slot
        PROVE  [CacheNext]_cacheVars
    BY <1>2, KeyAccess
  <1> QED BY <1>1, <1>2, EntryAccess

LEMMA KeyAtStep ==
    ASSUME ReaderInv, NEW t \in Readers, NEW o, KeyAt(t, o)
    PROVE  StepOK
  <1>1. t \in Callers
    BY DEF Callers
  <1>2. PICK d \in KeyEntryAtOrdinal(o) : keyCache' = d.slot /\ \E r : Return(t, r)
    BY DEF KeyAt
  <1>3. UNCHANGED <<file, recordCache>> /\ UNCHANGED iter
    BY DEF KeyAt
  <1>4. CallMoves(t)
    BY <1>2, ReturnMoves
  <1> QED BY <1>1, <1>2, <1>3, <1>4, CallStep, OrdinalAccess DEF StepOK

LEMMA OpenEntryStep ==
    ASSUME ReaderInv, NEW t \in Readers, NEW op, NEW o \in Ordinals, OpenEntry(t, op, o)
    PROVE  StepOK
  <1> DEFINE b == FindKeyBlock(o)
             e == o - EntryStart[b]
             wait(start) == [pc |-> "end", op |-> op, ordinal |-> o, next |-> b + 1,
                             start |-> start]
  <1>1. t \in Callers
    BY DEF Callers
  <1>2. PICK d \in KeyEntryAtOrdinal(o) :
          /\ keyCache' = d.slot
          /\ \/ \E r : Return(t, r)
             \/ \E start, end : WithSpan(t, op, o, start, end)
             \/ /\ ~IsFailure(d.result) /\ b + 1 < NKey
                /\ \E start : Continue(t, wait(start))
    BY DEF OpenEntry
  <1>3. UNCHANGED <<file, recordCache>> /\ UNCHANGED iter
    BY DEF OpenEntry
  <1>4. (\E r : Return(t, r)) => CallMoves(t)
    BY ReturnMoves
  <1>5. ASSUME ~IsFailure(d.result), b + 1 < NKey, NEW start, Continue(t, wait(start))
        PROVE  CallMoves(t)
    <2>1. b \in KeyBlocks
      <3>1. b \notin KeyBlocks => d.result = Internal
        BY DEF KeyEntryAtOrdinal
      <3> QED BY <3>1, <1>5 DEF IsFailure, Internal, Failed
    <2>2. b + 1 \in KeyBlocks
      BY <2>1, <1>5, KeyBlockNumbers
    <2>3. CallOK(wait(start))
      BY <2>2 DEF CallOK
    <2> QED BY <1>5, <2>3 DEF Continue, CallMoves
  <1>6. CallMoves(t)
    BY <1>2, <1>4, <1>5, WithSpanMoves
  <1> QED BY <1>1, <1>2, <1>3, <1>6, CallStep, OrdinalAccess DEF StepOK

LEMMA FindEndStep ==
    ASSUME ReaderInv, NEW t \in Readers, FindEnd(t)
    PROVE  StepOK
  <1>1. t \in Callers
    BY DEF Callers
  <1>2. call[t].next \in KeyBlocks
    BY <1>1 DEF FindEnd, ReaderInv, CallOK
  <1>3. PICK d \in DecodeKeyBlock(call[t].next) :
          /\ keyCache' = d.slot
          /\ \/ \E r : Return(t, r)
             \/ \E op, o, start, end : WithSpan(t, op, o, start, end)
    BY DEF FindEnd
  <1>4. UNCHANGED <<file, recordCache>> /\ UNCHANGED iter
    BY DEF FindEnd
  <1>5. CallMoves(t)
    BY <1>3, ReturnMoves, WithSpanMoves
  <1> QED BY <1>1, <1>2, <1>3, <1>4, <1>5, CallStep, KeyAccess DEF StepOK

LEMMA VisitBlockStep ==
    ASSUME ReaderInv, NEW t \in Readers, VisitBlock(t)
    PROVE  StepOK
  <1> DEFINE i == FindRecordBlock(call[t].cursor)
  <1>1. t \in Callers
    BY DEF Callers
  <1>2. UNCHANGED <<file, keyCache>> /\ UNCHANGED iter
    BY DEF VisitBlock
  <1>3. [CacheNext]_cacheVars
    <2>1. CASE i \notin RecordBlocks
      BY <2>1, <1>2 DEF VisitBlock, cacheVars
    <2>2. CASE i \in RecordBlocks
      <3>1. \E d \in DecodeRecordBlock(i) : recordCache' = d.slot
        BY <2>2 DEF VisitBlock
      <3> QED BY <2>2, <3>1, <1>2 DEF CacheNext
    <2> QED BY <2>1, <2>2
  <1>4. \/ \E r : Return(t, r)
        \/ \E out, cursor : Continue(t, [call[t] EXCEPT !.out = out, !.cursor = cursor])
    BY DEF VisitBlock
  <1>5. ASSUME NEW out, NEW cursor,
               Continue(t, [call[t] EXCEPT !.out = out, !.cursor = cursor])
        PROVE  CallMoves(t)
    <2>1. CallOK(call[t]) /\ call[t].pc = "span"
      BY <1>1 DEF VisitBlock, ReaderInv
    <2>2. CallOK([call[t] EXCEPT !.out = out, !.cursor = cursor])
      BY <2>1 DEF CallOK
    <2> QED BY <1>5, <2>2 DEF Continue, CallMoves
  <1>6. CallMoves(t)
    BY <1>4, <1>5, ReturnMoves
  <1> QED BY <1>1, <1>2, <1>3, <1>6, CallStep DEF StepOK

LEMMA BatchSteps ==
    ASSUME ReaderInv, NEW t \in Batchers,
           (\E input \in Batches : StartBatch(t, input)) \/ BatchBlock(t) \/ EndBatch(t)
    PROVE  StepOK
  <1> DEFINE c == call[t]
  <1>1. t \in Callers /\ UNCHANGED iter
    BY DEF Callers, StartBatch, BatchBlock, EndBatch
  <1>2. CallOK(c)
    BY <1>1 DEF ReaderInv
  <1>3. ASSUME NEW input \in Batches, StartBatch(t, input)
        PROVE  StepOK
    <2> DEFINE asked == {FindKeyBlock(input[k]) : k \in {k \in DOMAIN input : input[k] < NEntries}}
               first == [pc |-> "batch", input |-> input, left |-> asked,
                         got |-> [k \in DOMAIN input |-> None]]
    <2>1. \/ \E r : Return(t, r)
          \/ asked \subseteq KeyBlocks /\ Continue(t, first)
      BY <1>3 DEF StartBatch
    <2>2. asked \subseteq KeyBlocks => CallOK(first)
      BY DEF CallOK
    <2>3. CallMoves(t)
      BY <2>1, <2>2, ReturnMoves DEF Continue, CallMoves
    <2>4. UNCHANGED cacheVars
      BY <1>3 DEF StartBatch, caches, cacheVars
    <2> QED BY <1>1, <2>3, <2>4, CallStep DEF StepOK
  <1>4. ASSUME BatchBlock(t)
        PROVE  StepOK
    <2>1. PICK b \in c.left : \E d \in DecodeKeyBlock(b) :
            /\ keyCache' = d.slot
            /\ \/ \E r : Return(t, r)
               \/ \E got : Continue(t, [c EXCEPT !.left = @ \ {b}, !.got = got])
      BY <1>4 DEF BatchBlock
    <2>2. c.pc = "batch" /\ UNCHANGED <<file, recordCache>>
      BY <1>4 DEF BatchBlock
    <2>3. b \in KeyBlocks
      BY <1>2, <2>1, <2>2 DEF CallOK
    <2>4. \A got : CallOK([c EXCEPT !.left = @ \ {b}, !.got = got])
      BY <1>2, <2>2 DEF CallOK
    <2>5. CallMoves(t)
      BY <2>1, <2>4, ReturnMoves DEF Continue, CallMoves
    <2> QED BY <1>1, <2>1, <2>2, <2>3, <2>5, CallStep, KeyAccess DEF StepOK
  <1>5. ASSUME EndBatch(t)
        PROVE  StepOK
    <2>1. CallMoves(t)
      BY <1>5, ReturnMoves DEF EndBatch
    <2>2. UNCHANGED cacheVars
      BY <1>5 DEF EndBatch, caches, cacheVars
    <2> QED BY <1>1, <2>1, <2>2, CallStep DEF StepOK
  <1> QED BY <1>3, <1>4, <1>5

LEMMA KeyScanSteps ==
    ASSUME ReaderInv, NEW t \in KeyScanners, NextHeldKey(t) \/ NextKeyBlock(t)
    PROVE  StepOK
  <1> DEFINE it == iter[t]
  <1>1. t \in Scanners /\ t \notin RecordScanners /\ UNCHANGED call
    BY ReaderAssumption DEF Scanners, NextHeldKey, NextKeyBlock
  <1>2. IterOK(t, it)
    BY <1>1 DEF ReaderInv
  <1>3. ASSUME NextHeldKey(t)
        PROVE  StepOK
    <2>1. \A y : IterOK(t, [it EXCEPT !.entry = @ + 1, !.yielded = y])
      BY <1>2 DEF IterOK, IterFields
    <2>2. IterOK(t, [it EXCEPT !.entry = @ + 1])
      BY <1>2 DEF IterOK, IterFields
    <2>3. \/ \E y : Set(t, [it EXCEPT !.entry = @ + 1, !.yielded = y])
          \/ Set(t, Fail([it EXCEPT !.entry = @ + 1], Transient))
      BY <1>3 DEF NextHeldKey
    <2>4. IterMoves(t)
      BY <2>1, <2>2, <2>3, FailOK DEF Set, IterMoves
    <2>5. UNCHANGED cacheVars
      BY <1>3 DEF NextHeldKey, caches, cacheVars
    <2> QED BY <1>1, <2>4, <2>5, IterStep DEF StepOK
  <1>4. ASSUME NextKeyBlock(t)
        PROVE  StepOK
    <2> DEFINE b == IF it.rows = NoRows THEN it.block ELSE it.block + 1
               at == [it EXCEPT !.block = b, !.rows = NoRows]
    <2>a. b \in Nat /\ NKey \in Nat
      BY <1>2, KeyBlockNumbers DEF IterOK
    <2>1. b \in Nat /\ NKey \in Nat /\ UNCHANGED <<file, recordCache>>
      BY <2>a, <1>4 DEF NextKeyBlock
    <2>2. CASE b >= NKey
      <3>1. Set(t, [it EXCEPT !.block = b, !.rows = NoRows, !.done = TRUE])
            /\ UNCHANGED keyCache
        BY <1>4, <2>2 DEF NextKeyBlock
      <3>2. IterOK(t, [it EXCEPT !.block = b, !.rows = NoRows, !.done = TRUE])
        BY <1>1, <1>2, <2>1 DEF IterOK, IterFields
      <3> QED BY <1>1, <2>1, <3>1, <3>2, IterStep DEF Set, IterMoves, StepOK, cacheVars
    <2>3. CASE b < NKey
      <3>1. PICK d \in DecodeKeyBlock(b) :
              /\ keyCache' = d.slot
              /\ \/ Set(t, Fail(at, d.result))
                 \/ \E y : Set(t, [at EXCEPT !.rows = d.result.rows, !.entry = 1, !.yielded = y])
                 \/ Set(t, Fail([at EXCEPT !.entry = 1], Transient))
        <4>1. ~(b >= NKey)
          BY <2>a, <2>3
        <4> DEFINE first(d) == [at EXCEPT !.rows = d.result.rows, !.entry = 1,
                                          !.yielded = Append(@, d.result.rows[0].ordinal)]
        <4>2. PICK d \in DecodeKeyBlock(b) :
                /\ keyCache' = d.slot
                /\ \/ Set(t, Fail(at, d.result))
                   \/ Set(t, first(d))
                   \/ Set(t, Fail([at EXCEPT !.entry = 1], Transient))
          BY <1>4, <4>1, Zenon DEF NextKeyBlock
        <4> QED BY <4>2, Zenon
      <3>2. IterOK(t, at)
        BY <1>1, <1>2, <2>1 DEF IterOK, IterFields
      <3> HIDE DEF at, b
      <3>3. \A rows, y : IterOK(t, [at EXCEPT !.rows = rows, !.entry = 1, !.yielded = y])
        BY <1>1, <3>2 DEF IterOK, IterFields
      <3>4. IterOK(t, [at EXCEPT !.entry = 1])
        BY <1>1, <3>2 DEF IterOK, IterFields
      <3>5. IterMoves(t)
        BY <3>1, <3>2, <3>3, <3>4, FailOK DEF Set, IterMoves
      <3>6. b \in KeyBlocks
        BY <2>1, <2>3, KeyBlockNumbers
      <3> QED BY <1>1, <2>1, <3>1, <3>5, <3>6, IterStep, KeyAccess DEF StepOK
    <2> QED BY <2>1, <2>2, <2>3
  <1> QED BY <1>3, <1>4

LEMMA RecordScanSteps ==
    ASSUME ReaderInv, NEW t \in RecordScanners, NextRecord(t) \/ TailRecord(t)
    PROVE  StepOK
  <1> DEFINE it == iter[t]
  <1>1. t \in Scanners /\ UNCHANGED call /\ UNCHANGED <<file, recordCache>>
    BY DEF Scanners, NextRecord, TailRecord
  <1>2. IterOK(t, it)
    BY <1>1 DEF ReaderInv
  <1>3. it.block \in Nat /\ NKey \in Nat
    BY <1>2, KeyBlockNumbers DEF IterOK
  <1>4. ASSUME NextRecord(t)
        PROVE  StepOK
    <2>1. it.pc = "idle"
      BY <1>4 DEF NextRecord
    <2>2. \A rows : IterOK(t, TakeRow(it, rows))
      BY <1>2, <2>1, TakeRowOK
    <2>3. \A r : IterOK(t, Fail(it, r))
      BY <1>2, FailOK
    <2>4. IterOK(t, [it EXCEPT !.done = TRUE])
      BY <1>2 DEF IterOK, IterFields
    <2>5. /\ \/ \E rows : Set(t, TakeRow(it, rows))
             \/ \E r : Set(t, Fail(it, r))
             \/ Set(t, [it EXCEPT !.done = TRUE])
          /\ \/ UNCHANGED keyCache
             \/ it.block < NKey /\ \E d \in DecodeKeyBlock(it.block) : keyCache' = d.slot
      BY <1>3, <1>4 DEF NextRecord
    <2>6. IterMoves(t)
      BY <2>2, <2>3, <2>4, <2>5 DEF Set, IterMoves
    <2>7. [CacheNext]_cacheVars
      BY <1>1, <1>3, <2>5, KeyAccess, KeyBlockNumbers DEF cacheVars
    <2> QED BY <1>1, <2>6, <2>7, IterStep DEF StepOK
  <1>5. ASSUME TailRecord(t)
        PROVE  StepOK
    <2> DEFINE back == [it EXCEPT !.pc = "idle", !.pending = NoRows]
    <2>1. it.block \in KeyBlocks
      BY <1>2, <1>3, <1>5, KeyBlockNumbers DEF IterOK, TailRecord
    <2>2. IterOK(t, back)
      BY <1>2 DEF IterOK, IterFields
    <2>3. PICK d \in DecodeKeyBlock(it.block) :
            /\ keyCache' = d.slot
            /\ \/ \E r : Set(t, Fail(back, r))
               \/ \E row, end : Set(t, Emit(back, row, end))
      BY <1>5 DEF TailRecord
    <2> HIDE DEF back
    <2>4. IterMoves(t)
      BY <2>2, <2>3, FailOK, EmitOK DEF Set, IterMoves
    <2> QED BY <1>1, <2>1, <2>3, <2>4, IterStep, KeyAccess DEF StepOK
  <1> QED BY <1>4, <1>5

-----------------------------------------------------------------------------

LEMMA ReaderInit == Init => ReaderInv /\ CacheInit
  <1> SUFFICES ASSUME Init PROVE ReaderInv /\ CacheInit
    OBVIOUS
  <1>1. CacheInit /\ call = [t \in Callers |-> Idle] /\ iter = [t \in Scanners |-> NewIter]
    BY DEF Init
  <1>2. CallOK(Idle)
    BY DEF CallOK, Idle
  <1>3. \A t : IterOK(t, NewIter)
    BY DEF IterOK, IterFields, NewIter
  <1> QED BY <1>1, <1>2, <1>3 DEF ReaderInv

\* Every step of the readers keeps the invariant and is a step of the caches.
LEMMA ReaderStep == ReaderInv /\ [Next]_vars => StepOK
  <1> SUFFICES ASSUME ReaderInv, [Next]_vars PROVE StepOK
    OBVIOUS
  <1>1. CASE \E t \in Readers, o \in Ordinals :
               KeyAt(t, o) \/ OpenEntry(t, "read", o) \/ OpenEntry(t, "copy", o)
    BY <1>1, KeyAtStep, OpenEntryStep
  <1>2. CASE \E t \in Readers : FindEnd(t) \/ VisitBlock(t)
    BY <1>2, FindEndStep, VisitBlockStep
  <1>3. CASE \E t \in Batchers :
               (\E input \in Batches : StartBatch(t, input)) \/ BatchBlock(t) \/ EndBatch(t)
    BY <1>3, BatchSteps
  <1>4. CASE \E t \in KeyScanners : NextHeldKey(t) \/ NextKeyBlock(t)
    BY <1>4, KeyScanSteps
  <1>5. CASE \E t \in RecordScanners : NextRecord(t) \/ TailRecord(t)
    BY <1>5, RecordScanSteps
  <1>6. CASE UNCHANGED vars
    BY <1>6 DEF vars, caches, cacheVars, StepOK, ReaderInv, CallOK, IterOK
  <1> QED BY <1>1, <1>2, <1>3, <1>4, <1>5, <1>6 DEF Next

\* Single reads, batches, streaming copies and both iterators, cut at every
\* unlock, implement the cache specification: decode_key_block and
\* decode_record_block are only ever called for blocks that exist, one slot at a
\* time, whatever the interleaving.
THEOREM ReaderImplementsCaches == Spec => UsesCaches
  <1>1. ReaderInv /\ [Next]_vars => ReaderInv' /\ [CacheNext]_<<file, keyCache, recordCache>>
    BY ReaderStep DEF StepOK, cacheVars
  <1> QED BY ReaderInit, <1>1, PTL DEF Spec, UsesCaches, CacheSpec

\* What the readers of a dictionary find in its caches is sound, for any layout,
\* any files and any threads.
THEOREM ReaderCachesSound == Spec => [](KeyCacheSound /\ RecordCacheSound)
  BY ReaderImplementsCaches, CachesSound, PTL DEF UsesCaches

-----------------------------------------------------------------------------

\* A failure that a call may report: transient, a limit of the caller's, or one
\* the file is to blame for.
FailedWith(r, cause) ==
    /\ r.tag = "failed"
    /\ r.class \in {"transient", "limit", "format", "data"}
    /\ r.class \in {"format", "data"} => cause

\* The blame for a failed read of entry o.
KeyCause(o) == \E b \in KeyBlocks : b <= FindKeyBlock(o) + 1 /\ FaultyKeyBlock(b)
RecordCause(o) ==
    \E i \in RecordBlocks :
        /\ file.recordFault[i] # "none"
        /\ StartOf(o) < DecompOffset[i + 1]
        /\ DecompOffset[i] < EndOf(o)

\* What a call may have returned.
KeyResultOK(r) ==
    /\ r.ordinal \in Ordinals
    /\ \/ r.outcome.tag = "ok" /\ r.outcome.key = r.ordinal
       \/ FailedWith(r.outcome, KeyCause(r.ordinal))

EntryResultOK(r) ==
    /\ r.ordinal \in Ordinals
    /\ r.out \in Seq(Nat) /\ IsStretch(r.out, r.ordinal)
    /\ \/ r.outcome.tag = "ok" /\ Len(r.out) = EndOf(r.ordinal) - StartOf(r.ordinal)
       \/ FailedWith(r.outcome, KeyCause(r.ordinal) \/ RecordCause(r.ordinal))

BatchResultOK(r) ==
    \/ /\ r.outcome.tag = "ok"
       /\ \A k \in DOMAIN r.input :
             r.outcome.got[k] = IF r.input[k] < NEntries THEN r.input[k] ELSE None
    \/ FailedWith(r.outcome, TRUE)

ResultOK(r) ==
    \/ r = NoResult
    \/ r.op = "key" /\ KeyResultOK(r)
    \/ r.op \in {"read", "copy"} /\ EntryResultOK(r)
    \/ r.op = "batch" /\ BatchResultOK(r)

\* A record whose end is not known yet: it is the last of its block, and what
\* follows starts the next block.
EndPending(c) ==
    /\ c.op \in {"read", "copy"} /\ c.ordinal \in Ordinals
    /\ c.next \in KeyBlocks /\ c.next = FindKeyBlock(c.ordinal) + 1
    /\ c.ordinal + 1 = EntryStart[c.next]
    /\ c.start = StartOf(c.ordinal)

\* A record of which a prefix has been handed on.
SpanPending(c) ==
    /\ c = [pc |-> "span", op |-> c.op, ordinal |-> c.ordinal, cursor |-> c.cursor,
            end |-> c.end, out |-> c.out]
    /\ c.op \in {"read", "copy"} /\ c.ordinal \in Ordinals
    /\ c.out \in Seq(Nat) /\ IsStretch(c.out, c.ordinal)
    /\ c.cursor = StartOf(c.ordinal) + Len(c.out)
    /\ c.end = EndOf(c.ordinal) /\ c.cursor < c.end /\ c.end <= TotalLen

\* A batch: what is not answered is in a block that is still to be decoded.
BatchPending(c) ==
    /\ c = [pc |-> "batch", input |-> c.input, left |-> c.left, got |-> c.got]
    /\ c.input \in Seq(Nat) /\ DOMAIN c.got = DOMAIN c.input
    /\ \A k \in DOMAIN c.input :
          IF c.input[k] < NEntries
          THEN FindKeyBlock(c.input[k]) \in c.left \/ c.got[k] = c.input[k]
          ELSE c.got[k] = None

PendingOK(c) ==
    /\ c.pc \in {"idle", "end", "span", "batch"}
    /\ c.pc = "end" => EndPending(c)
    /\ c.pc = "span" => SpanPending(c)
    /\ c.pc = "batch" => BatchPending(c)

\* How an iterator may have ended.
EndOK(it) ==
    IF it.error = NoRows THEN Len(it.yielded) = NEntries
    ELSE \/ it.error.class = "transient"
         \/ \E b \in KeyBlocks : b <= it.block /\ FaultyKeyBlock(b)

\* Where a KeyIter stands: before the first block, or in a block that it holds.
KeyIterAt(it) ==
    /\ it.error = NoRows
    /\ \/ it.rows = NoRows /\ it.block = 0 /\ it.entry = 0 /\ Len(it.yielded) = 0
       \/ /\ it.block \in KeyBlocks /\ it.rows = Rows(it.block)
          /\ it.entry \in 1..EntryCount(it.block)
          /\ Len(it.yielded) = EntryStart[it.block] + it.entry

KeyIterOK(it) ==
    /\ it.yielded \in Seq(Nat) /\ \A k \in DOMAIN it.yielded : it.yielded[k] = k - 1
    /\ \A b \in KeyBlocks : Len(it.yielded) > EntryStart[b] => ~FaultyKeyBlock(b)
    /\ IF it.done THEN EndOK(it) ELSE KeyIterAt(it)

\* The descriptor of entry o.
SpanOf(o) == [ordinal |-> o, start |-> StartOf(o), end |-> EndOf(o)]

\* Where a RecordIter stands: at the start of a block that it is to decode, inside a
\* block that it holds, or at the end of a block whose last record it has yet to
\* yield.
RecordIterAt(it) ==
    /\ it.error = NoRows /\ it.block \in 0..NKey
    /\ \/ it.pc = "idle" /\ it.rows = NoRows /\ it.entry = 0
          /\ Len(it.yielded) = EntryStart[it.block]
       \/ /\ it.pc = "idle" /\ it.block \in KeyBlocks /\ it.rows = Rows(it.block)
          /\ ~IsFailure(OwnKeyResult(it.block))
          /\ it.entry \in 1..(EntryCount(it.block) - 1)
          /\ Len(it.yielded) = EntryStart[it.block] + it.entry
       \/ /\ it.pc = "tail" /\ it.rows = NoRows /\ it.entry = 0
          /\ it.block \in KeyBlocks /\ it.block > 0
          /\ it.pending = [ordinal |-> EntryStart[it.block] - 1,
                           start |-> StartOf(EntryStart[it.block] - 1)]
          /\ Len(it.yielded) = EntryStart[it.block] - 1

RecordIterOK(it) ==
    /\ it.yielded \in Seq([ordinal : Nat, start : Nat, end : Nat])
    /\ Len(it.yielded) <= NEntries
    /\ \A k \in DOMAIN it.yielded : it.yielded[k] = SpanOf(k - 1)
    /\ IF it.done THEN EndOK(it) /\ it.pc = "idle" ELSE RecordIterAt(it)

ExactInv ==
    /\ CacheInv
    /\ ReaderInv
    /\ result = [t \in Callers |-> result[t]]
    /\ \A t \in Callers : PendingOK(call[t]) /\ ResultOK(result[t])
    /\ \A t \in KeyScanners : KeyIterOK(iter[t])
    /\ \A t \in RecordScanners : RecordIterOK(iter[t])

-----------------------------------------------------------------------------

\* The entries of a file.
LEMMA Offsets ==
    ASSUME file \in Files
    PROVE  /\ \A o \in Ordinals : o \in Nat /\ o < NEntries /\ StartOf(o) \in Nat
           /\ \A o \in Ordinals : EndOf(o) \in Nat
           /\ \A o \in Nat : o < NEntries => o \in Ordinals
  <1>1. NEntries \in Nat /\ TotalLen \in Nat
    BY KeyLayout, RecordLayout
  <1>2. file.start \in [Ordinals -> Nat]
    BY LayoutAssumption
  <1>3. \A o \in Ordinals : o \in Nat /\ o < NEntries
    BY <1>1 DEF Ordinals
  <1>4. \A o \in Nat : o < NEntries => o \in Ordinals
    BY <1>1 DEF Ordinals
  <1>5. \A o \in Ordinals : StartOf(o) \in Nat
    BY <1>2 DEF StartOf
  <1>6. \A o \in Ordinals : EndOf(o) \in Nat
    <2> SUFFICES ASSUME NEW o \in Ordinals PROVE EndOf(o) \in Nat
      OBVIOUS
    <2>1. o + 1 < NEntries => o + 1 \in Ordinals
      BY <1>3, <1>4
    <2> QED BY <1>1, <1>2, <2>1 DEF EndOf
  <1> QED BY <1>3, <1>4, <1>5, <1>6

\* The rows of a block.
LEMMA RowsFacts ==
    ASSUME file \in Files, NEW b \in KeyBlocks
    PROVE  /\ DOMAIN Rows(b) = 0..(EntryCount(b) - 1)
           /\ \A e \in DOMAIN Rows(b) :
                 /\ e \in Nat /\ EntryStart[b] + e \in Ordinals
                 /\ Rows(b)[e] = [ordinal |-> EntryStart[b] + e,
                                  start |-> StartOf(EntryStart[b] + e)]
           /\ 0 \in DOMAIN Rows(b)
           /\ Rows(b) # NoRows
           /\ b \in Nat /\ b + 1 \in 0..NKey /\ EntryStart[b] \in Nat
  <1>1. DOMAIN Rows(b) = 0..(EntryCount(b) - 1)
    BY DEF Rows
  <1>2. /\ EntryCount(b) \in Nat /\ EntryCount(b) > 0 /\ NEntries \in Nat
        /\ EntryStart[b + 1] = EntryStart[b] + EntryCount(b) /\ EntryStart[b + 1] <= NEntries
    BY KeyLayout
  <1>3. b \in Nat /\ b \in 0..NKey /\ b + 1 \in 0..NKey
    BY KeyBlockNumbers
  <1>4. EntryStart[b] \in Nat
    BY <1>3, KeyLayout
  <1>5. ASSUME NEW e \in DOMAIN Rows(b)
        PROVE  e \in Nat /\ EntryStart[b] + e \in Ordinals
    BY <1>1, <1>2, <1>4, <1>5 DEF Ordinals
  <1>6. \A e \in DOMAIN Rows(b) :
           Rows(b)[e] = [ordinal |-> EntryStart[b] + e, start |-> StartOf(EntryStart[b] + e)]
    BY DEF Rows, StartOf
  <1>7. 0 \in DOMAIN Rows(b)
    BY <1>1, <1>2
  <1>8. Rows(b) # NoRows
    <2>1. DOMAIN NoRows = {}
      BY DEF NoRows
    <2> QED BY <1>7, <2>1
  <1> QED BY <1>1, <1>3, <1>4, <1>5, <1>6, <1>7, <1>8

\* The offsets inside a block that decodes.
LEMMA OwnOffsets ==
    ASSUME file \in Files, NEW b \in KeyBlocks, ~IsFailure(OwnKeyResult(b)),
           NEW o \in Nat, EntryStart[b] <= o, o < EntryStart[b + 1]
    PROVE  /\ StartOf(o) <= TotalLen
           /\ o + 1 < EntryStart[b + 1] => StartOf(o) <= StartOf(o + 1)
  <1>1. RowsValid(b)
    BY DEF OwnKeyResult, IsFailure, Failed
  <1>2. /\ EntryCount(b) \in Nat /\ EntryStart[b + 1] = EntryStart[b] + EntryCount(b)
        /\ EntryStart[b] \in Nat /\ DOMAIN Rows(b) = 0..(EntryCount(b) - 1)
    BY KeyLayout, RowsFacts
  <1>3. \A e \in DOMAIN Rows(b) : Rows(b)[e].start = StartOf(EntryStart[b] + e)
    BY RowsFacts
  <1>4. PICK e \in Nat : e \in DOMAIN Rows(b) /\ o = EntryStart[b] + e
    <2>1. o - EntryStart[b] \in Nat /\ o - EntryStart[b] \in DOMAIN Rows(b)
          /\ o = EntryStart[b] + (o - EntryStart[b])
      BY <1>2
    <2> QED BY <2>1
  <1>5. StartOf(o) <= TotalLen
    BY <1>1, <1>3, <1>4 DEF RowsValid
  <1>6. ASSUME o + 1 < EntryStart[b + 1] PROVE StartOf(o) <= StartOf(o + 1)
    <2>1. e + 1 \in DOMAIN Rows(b) /\ o + 1 = EntryStart[b] + (e + 1) /\ e + 1 > 0
          /\ (e + 1) - 1 = e
      BY <1>2, <1>4, <1>6
    <2>2. Rows(b)[(e + 1) - 1].start <= Rows(b)[e + 1].start
      BY <1>1, <2>1 DEF RowsValid
    <2> QED BY <1>3, <1>4, <2>1, <2>2
  <1> QED BY <1>5, <1>6

\* What a caller that is given block b may rely on.
LEMMA GoodBlock ==
    ASSUME file \in Files, NEW b \in KeyBlocks, NEW r, SoundKeyResult(b, r), ~IsFailure(r)
    PROVE  /\ r.rows = Rows(b) /\ ~FaultyKeyBlock(b) /\ ~IsFailure(OwnKeyResult(b))
           /\ b > 0 => StartOf(EntryStart[b] - 1) <= StartOf(EntryStart[b])
  <1>1. r = OwnKeyResult(b) /\ ~FaultyKeyBlock(b) /\ (b > 0 => ~IsFailure(OwnKeyResult(b - 1)))
    BY DEF SoundKeyResult
  <1>2. OwnKeyResult(b) = [tag |-> "ready", rows |-> Rows(b)]
    BY <1>1 DEF OwnKeyResult, IsFailure, Failed
  <1>3. ASSUME b > 0 PROVE StartOf(EntryStart[b] - 1) <= StartOf(EntryStart[b])
    <2>0. b \in Nat /\ b - 1 \in KeyBlocks /\ (b - 1) + 1 = b
      BY <1>3, KeyBlockNumbers
    <2>1. ~IsFailure(OwnKeyResult(b - 1))
      BY <1>1, <1>3
    <2>2. OwnKeyResult(b - 1) = [tag |-> "ready", rows |-> Rows(b - 1)]
      BY <2>1 DEF OwnKeyResult, IsFailure, Failed
    <2>3. ~(LastStart(b - 1, OwnKeyResult(b - 1)) > OwnKeyResult(b).rows[0].start)
      BY <1>1, <1>3, <2>1 DEF FaultyKeyBlock
    <2>4. OwnKeyResult(b).rows[0].start = StartOf(EntryStart[b])
      <3>1. 0 \in DOMAIN Rows(b) /\ EntryStart[b] \in Nat
            /\ Rows(b)[0] = [ordinal |-> EntryStart[b] + 0, start |-> StartOf(EntryStart[b] + 0)]
        BY RowsFacts
      <3>2. EntryStart[b] + 0 = EntryStart[b]
        BY <3>1
      <3> QED BY <1>2, <3>1, <3>2
    <2>5. LastStart(b - 1, OwnKeyResult(b - 1)) = StartOf(EntryStart[b] - 1)
      <3> DEFINE c == b - 1
                 e == EntryCount(c) - 1
      <3>1. /\ EntryCount(c) \in Nat /\ EntryCount(c) > 0
            /\ EntryStart[c + 1] = EntryStart[c] + EntryCount(c)
        BY <2>0, KeyLayout
      <3>2. /\ EntryStart[c] \in Nat /\ DOMAIN Rows(c) = 0..(EntryCount(c) - 1)
            /\ \A k \in DOMAIN Rows(c) : Rows(c)[k].start = StartOf(EntryStart[c] + k)
        BY <2>0, RowsFacts
      <3>3. e \in DOMAIN Rows(c) /\ EntryStart[c] + e = EntryStart[c + 1] - 1
        BY <3>1, <3>2
      <3>4. Rows(c)[e].start = StartOf(EntryStart[c + 1] - 1)
        BY <3>2, <3>3
      <3> QED BY <2>0, <2>2, <3>4 DEF LastStart
    <2>6. EntryStart[b] \in Ordinals /\ EntryStart[b] - 1 \in Ordinals
      <3>1. EntryStart[b] \in Nat /\ EntryStart[b] + 0 \in Ordinals
        BY RowsFacts
      <3>2. EntryStart[b] > 0
        <4>1. /\ EntryCount(b - 1) \in Nat /\ EntryCount(b - 1) > 0
              /\ EntryStart[(b - 1) + 1] = EntryStart[b - 1] + EntryCount(b - 1)
          BY <2>0, KeyLayout
        <4>2. EntryStart[b - 1] \in Nat
          BY <2>0, RowsFacts
        <4> QED BY <2>0, <4>1, <4>2
      <3> QED BY <3>1, <3>2, KeyLayout DEF Ordinals
    <2>7. StartOf(EntryStart[b]) \in Nat /\ StartOf(EntryStart[b] - 1) \in Nat
      BY <2>6, Offsets
    <2> QED BY <2>3, <2>4, <2>5, <2>7
  <1> QED BY <1>1, <1>2, <1>3

\* The record of entry o, which lies in block b, when b decodes: it ends where the next
\* row of b, or the first row of the next block, or the stream says.
LEMMA InnerSpan ==
    ASSUME file \in Files, NEW b \in KeyBlocks, ~IsFailure(OwnKeyResult(b)),
           NEW o \in Nat, EntryStart[b] <= o, o + 1 < EntryStart[b + 1]
    PROVE  EndOf(o) = StartOf(o + 1) /\ StartOf(o) <= EndOf(o) /\ EndOf(o) <= TotalLen
  <1>1. EntryStart[b] \in Nat /\ EntryStart[b + 1] \in Nat /\ NEntries \in Nat
        /\ EntryStart[b + 1] <= NEntries
    BY KeyLayout, RowsFacts
  <1>2. o + 1 < NEntries /\ o + 1 \in Nat /\ EntryStart[b] <= o + 1 /\ o < EntryStart[b + 1]
    BY <1>1
  <1>3. EndOf(o) = StartOf(o + 1)
    BY <1>2 DEF EndOf, StartOf
  <1>4. StartOf(o) <= StartOf(o + 1)
    BY <1>2, OwnOffsets
  <1>5. StartOf(o + 1) <= TotalLen
    BY <1>2, OwnOffsets
  <1> QED BY <1>3, <1>4, <1>5

LEMMA BoundarySpan ==
    ASSUME file \in Files, NEW c \in KeyBlocks, c > 0, NEW r, SoundKeyResult(c, r), ~IsFailure(r),
           NEW o \in Nat, o + 1 = EntryStart[c]
    PROVE  /\ EndOf(o) = r.rows[0].start
           /\ StartOf(o) <= EndOf(o) /\ EndOf(o) <= TotalLen
  <1>1. r.rows = Rows(c) /\ ~IsFailure(OwnKeyResult(c))
        /\ StartOf(EntryStart[c] - 1) <= StartOf(EntryStart[c])
    BY GoodBlock
  <1>2. /\ 0 \in DOMAIN Rows(c) /\ EntryStart[c] \in Nat /\ EntryStart[c] + 0 \in Ordinals
        /\ Rows(c)[0].start = StartOf(EntryStart[c] + 0)
    BY RowsFacts
  <1>3. EntryStart[c] + 0 = EntryStart[c] /\ EntryStart[c] - 1 = o
    BY <1>2
  <1>4. EndOf(o) = StartOf(EntryStart[c])
    <2>1. o + 1 < NEntries
      BY <1>2, <1>3, Offsets
    <2> QED BY <2>1 DEF EndOf, StartOf
  <1>5. EntryStart[c] < EntryStart[c + 1]
    BY <1>2, KeyLayout
  <1>6. StartOf(EntryStart[c]) <= TotalLen
    BY <1>1, <1>2, <1>5, OwnOffsets
  <1> QED BY <1>1, <1>2, <1>3, <1>4, <1>6

LEMMA LastSpan ==
    ASSUME file \in Files, NEW b \in KeyBlocks, ~IsFailure(OwnKeyResult(b)), b + 1 = NKey,
           NEW o \in Nat, EntryStart[b] <= o, o + 1 = EntryStart[b + 1]
    PROVE  EndOf(o) = TotalLen /\ StartOf(o) <= EndOf(o) /\ EndOf(o) <= TotalLen
  <1>1. NEntries = EntryStart[b + 1] /\ NEntries \in Nat /\ TotalLen \in Nat
    BY KeyLayout, RecordLayout
  <1>2. EndOf(o) = TotalLen
    BY <1>1 DEF EndOf
  <1>3. StartOf(o) <= TotalLen
    BY <1>1, OwnOffsets
  <1> QED BY <1>1, <1>2, <1>3

-----------------------------------------------------------------------------

\* What a step may do with a call: end it with a sound result, or go on.
CallEffect(t) ==
    \/ \E r : ResultOK(r) /\ Return(t, r)
    \/ \E c : PendingOK(c) /\ Continue(t, c)

\* The file does not change, and with it what is said of calls and iterators.
LEMMA FileKept ==
    ASSUME file' = file
    PROVE  /\ \A r : ResultOK(r)' <=> ResultOK(r)
           /\ \A c : PendingOK(c)' <=> PendingOK(c)
           /\ \A it : KeyIterOK(it)' <=> KeyIterOK(it)
           /\ \A it : RecordIterOK(it)' <=> RecordIterOK(it)
  <1>1. \A b : Rows(b)' = Rows(b)
    BY DEF Rows
  <1>2. \A b : OwnKeyResult(b)' = OwnKeyResult(b)
    BY DEF OwnKeyResult, RowsValid, Rows
  <1>3. \A b : FaultyKeyBlock(b)' <=> FaultyKeyBlock(b)
    BY <1>2 DEF FaultyKeyBlock
  <1>4. \A o : StartOf(o)' = StartOf(o) /\ EndOf(o)' = EndOf(o)
    BY DEF StartOf, EndOf
  <1>5. \A o : (KeyCause(o)' <=> KeyCause(o)) /\ (RecordCause(o)' <=> RecordCause(o))
    BY <1>3, <1>4 DEF KeyCause, RecordCause
  <1>6. \A out, o : IsStretch(out, o)' <=> IsStretch(out, o)
    BY <1>4 DEF IsStretch
  <1>7. \A r : ResultOK(r)' <=> ResultOK(r)
    <2>1. \A r : KeyResultOK(r)' <=> KeyResultOK(r)
      BY <1>5 DEF KeyResultOK, FailedWith
    <2>2. \A r : EntryResultOK(r)' <=> EntryResultOK(r)
      BY <1>4, <1>5, <1>6 DEF EntryResultOK, FailedWith
    <2>3. \A r : BatchResultOK(r)' <=> BatchResultOK(r)
      BY DEF BatchResultOK, FailedWith
    <2> QED BY <2>1, <2>2, <2>3 DEF ResultOK
  <1>8. \A c : PendingOK(c)' <=> PendingOK(c)
    <2>1. \A c : EndPending(c)' <=> EndPending(c)
      BY <1>4 DEF EndPending
    <2>2. \A c : SpanPending(c)' <=> SpanPending(c)
      BY <1>4, <1>6 DEF SpanPending
    <2>3. \A c : BatchPending(c)' <=> BatchPending(c)
      BY DEF BatchPending
    <2> QED BY <2>1, <2>2, <2>3 DEF PendingOK
  <1>9. \A it : EndOK(it)' <=> EndOK(it)
    BY <1>3 DEF EndOK
  <1>10. \A it : KeyIterOK(it)' <=> KeyIterOK(it)
    <2>1. \A it : KeyIterAt(it)' <=> KeyIterAt(it)
      BY <1>1 DEF KeyIterAt
    <2> QED BY <1>3, <1>9, <2>1 DEF KeyIterOK
  <1>11. \A it : RecordIterOK(it)' <=> RecordIterOK(it)
    <2>1. \A it : RecordIterAt(it)' <=> RecordIterAt(it)
      BY <1>1, <1>2, <1>4 DEF RecordIterAt
    <2>2. \A o : SpanOf(o)' = SpanOf(o)
      BY <1>4 DEF SpanOf
    <2> QED BY <1>9, <2>1, <2>2 DEF RecordIterOK
  <1> QED BY <1>7, <1>8, <1>10, <1>11

LEMMA CallEffectKeeps ==
    ASSUME ExactInv, StepOK, NEW t \in Callers, CallEffect(t), file' = file, iter' = iter
    PROVE  ExactInv'
  <1>1. CacheInv' /\ ReaderInv'
    BY CacheStep DEF ExactInv, StepOK, cacheVars
  <1>2. PendingOK(Idle)
    BY DEF PendingOK, Idle
  <1>3. \/ \E r, c : ResultOK(r) /\ PendingOK(c) /\ call' = [call EXCEPT ![t] = c]
                     /\ result' = [result EXCEPT ![t] = r]
        \/ \E c : PendingOK(c) /\ call' = [call EXCEPT ![t] = c] /\ result' = result
    BY <1>2 DEF CallEffect, Return, Continue
  <1>4. call = [u \in Callers |-> call[u]] /\ result = [u \in Callers |-> result[u]]
    BY DEF ExactInv, ReaderInv
  <1>5. result' = [u \in Callers |-> result'[u]]
    BY <1>3, <1>4
  <1>6. \A u \in Callers : PendingOK(call[u]) /\ ResultOK(result[u])
    BY DEF ExactInv
  <1>7. \A u \in Callers : PendingOK(call'[u])
    BY <1>3, <1>4, <1>6
  <1>8. \A u \in Callers : ResultOK(result'[u])
    BY <1>3, <1>4, <1>6
  <1>9. \A u \in Callers : PendingOK(call[u])' /\ ResultOK(result[u])'
    <2>1. \A c : PendingOK(c) => PendingOK(c)'
      BY FileKept
    <2> QED BY <1>7, <1>8, FileKept
  <1>10. (\A u \in KeyScanners : KeyIterOK(iter[u])') /\ (\A u \in RecordScanners : RecordIterOK(iter[u])')
    BY FileKept DEF ExactInv
  <1> QED BY <1>1, <1>5, <1>9, <1>10 DEF ExactInv

\* key_entry_at_ordinal finds the block of every entry there is, and the block reaches
\* that far: its defensive errors do not occur.
LEMMA EntryFound ==
    ASSUME CacheInv, NEW o \in Ordinals, NEW d \in KeyEntryAtOrdinal(o)
    PROVE  LET b == FindKeyBlock(o) IN
           /\ b \in KeyBlocks /\ EntryStart[b] <= o /\ o < EntryStart[b + 1] /\ o \in Nat
           /\ SoundKeyResult(b, d.result)
           /\ o - EntryStart[b] \in DOMAIN Rows(b)
           /\ Rows(b)[o - EntryStart[b]] = [ordinal |-> o, start |-> StartOf(o)]
  <1> DEFINE b == FindKeyBlock(o)
  <1>0. file \in Files /\ o \in Nat /\ o < NEntries
    BY Offsets DEF CacheInv
  <1>1. b \in KeyBlocks /\ EntryStart[b] <= o /\ o < EntryStart[b + 1]
    BY <1>0, KeyBlockFound
  <1> HIDE DEF b
  <1>2. /\ EntryStart[b] \in Nat /\ EntryCount(b) \in Nat
        /\ EntryStart[b + 1] = EntryStart[b] + EntryCount(b)
        /\ DOMAIN Rows(b) = 0..(EntryCount(b) - 1)
    BY <1>0, <1>1, KeyLayout, RowsFacts
  <1>3. o - EntryStart[b] \in DOMAIN Rows(b) /\ EntryStart[b] + (o - EntryStart[b]) = o
    BY <1>0, <1>1, <1>2
  <1>4. Rows(b)[o - EntryStart[b]] = [ordinal |-> o, start |-> StartOf(o)]
    BY <1>0, <1>1, <1>3, RowsFacts
  <1>5. PICK e \in DecodeKeyBlock(b) :
           d = IF ~IsFailure(e.result) /\ o - EntryStart[b] \notin DOMAIN e.result.rows
               THEN [result |-> Internal, slot |-> e.slot] ELSE e
    BY <1>1 DEF KeyEntryAtOrdinal, b
  <1>6. SoundKeyResult(b, e.result)
    BY <1>1, DecodeKeyBlockSound
  <1>7. ~IsFailure(e.result) => e.result.rows = Rows(b)
    BY <1>0, <1>1, <1>6, GoodBlock
  <1>8. d = e
    BY <1>3, <1>5, <1>7
  <1> QED BY <1>0, <1>1, <1>3, <1>4, <1>6, <1>8 DEF b

\* A failure to decode a block at or before the one that ends entry o.
LEMMA KeyFailure ==
    ASSUME NEW b \in KeyBlocks, NEW r, SoundKeyResult(b, r), IsFailure(r),
           NEW o, FindKeyBlock(o) \in KeyBlocks, b <= FindKeyBlock(o) + 1
    PROVE  FailedWith(r, KeyCause(o))
  <1>1. /\ r.class \in {"transient", "format", "data"}
        /\ r.class # "transient" => \E j \in 0..b : FaultyKeyBlock(j)
    BY DEF SoundKeyResult, Failures, Transient, Failed
  <1>2. \A j \in 0..b : j \in KeyBlocks /\ j <= FindKeyBlock(o) + 1
    BY KeyBlockNumbers
  <1> QED BY <1>1, <1>2 DEF FailedWith, KeyCause, IsFailure

LEMMA TransientFails == \A cause : FailedWith(Transient, cause)
  BY DEF FailedWith, Transient, Failed

LEMMA KeyAtExact ==
    ASSUME ExactInv, NEW t \in Readers, NEW o \in Ordinals, KeyAt(t, o)
    PROVE  ExactInv'
  <1> DEFINE b == FindKeyBlock(o)
  <1>1. t \in Callers /\ StepOK /\ file' = file /\ iter' = iter /\ CacheInv /\ file \in Files
    BY KeyAtStep DEF Callers, KeyAt, ExactInv, CacheInv
  <1>2. PICK d \in KeyEntryAtOrdinal(o) :
          \E outcome \in
             IF IsFailure(d.result) THEN {d.result}
             ELSE {Transient,
                   [tag |-> "ok", key |-> d.result.rows[o - EntryStart[FindKeyBlock(o)]].ordinal]} :
             Return(t, [op |-> "key", ordinal |-> o, outcome |-> outcome])
    BY DEF KeyAt
  <1>3. /\ b \in KeyBlocks /\ SoundKeyResult(b, d.result)
        /\ Rows(b)[o - EntryStart[b]] = [ordinal |-> o, start |-> StartOf(o)]
    BY <1>1, EntryFound
  <1>4. PICK outcome : /\ Return(t, [op |-> "key", ordinal |-> o, outcome |-> outcome])
                       /\ \/ IsFailure(d.result) /\ outcome = d.result
                          \/ outcome = Transient
                          \/ ~IsFailure(d.result) /\ outcome =
                                [tag |-> "ok", key |-> d.result.rows[o - EntryStart[b]].ordinal]
    BY <1>2
  <1>5. IsFailure(d.result) => FailedWith(d.result, KeyCause(o))
    BY <1>3, KeyFailure, KeyBlockNumbers
  <1>6. ~IsFailure(d.result) => d.result.rows = Rows(b)
    BY <1>1, <1>3, GoodBlock
  <1> DEFINE r == [op |-> "key", ordinal |-> o, outcome |-> outcome]
  <1> HIDE DEF b
  <1>7. \/ outcome.tag = "ok" /\ outcome.key = o
        \/ FailedWith(outcome, KeyCause(o))
    BY <1>3, <1>4, <1>5, <1>6, TransientFails
  <1>8. ResultOK(r)
    BY <1>7 DEF ResultOK, KeyResultOK
  <1>9. CallEffect(t)
    BY <1>4, <1>8 DEF CallEffect
  <1> QED BY <1>1, <1>9, CallEffectKeeps

\* A read that ends before it has handed anything on.
LEMMA EarlyEnd ==
    ASSUME NEW t, NEW op \in {"read", "copy"}, NEW o \in Ordinals, NEW outcome,
           FailedWith(outcome, KeyCause(o)),
           Return(t, [op |-> op, ordinal |-> o, out |-> <<>>, outcome |-> outcome])
    PROVE  CallEffect(t)
  <1> DEFINE r == [op |-> op, ordinal |-> o, out |-> <<>>, outcome |-> outcome]
  <1>1. FailedWith(outcome, KeyCause(o) \/ RecordCause(o))
    BY DEF FailedWith
  <1>2. <<>> \in Seq(Nat) /\ IsStretch(<<>>, o)
    BY DEF IsStretch
  <1>3. ResultOK(r)
    BY <1>1, <1>2 DEF ResultOK, EntryResultOK
  <1> QED BY <1>3 DEF CallEffect

\* The checks of a span do not fail on the span of an entry.
LEMMA SpanKnown ==
    ASSUME file \in Files, NEW t, NEW op \in {"read", "copy"}, NEW o \in Ordinals,
           StartOf(o) <= EndOf(o), EndOf(o) <= TotalLen,
           WithSpan(t, op, o, StartOf(o), EndOf(o))
    PROVE  CallEffect(t)
  <1> DEFINE start == StartOf(o)
             end == EndOf(o)
             c == [pc |-> "span", op |-> op, ordinal |-> o, cursor |-> start,
                   end |-> end, out |-> <<>>]
             R(outcome) == [op |-> op, ordinal |-> o, out |-> <<>>, outcome |-> outcome]
  <1>1. start \in Nat /\ end \in Nat /\ TotalLen \in Nat
    BY Offsets, RecordLayout
  <1>2. ~(end < start \/ end > TotalLen)
    BY <1>1
  <1>3. \A outcome : EntryResult(c, outcome) = R(outcome)
    BY DEF EntryResult
  <1>4. \/ Return(t, R(Failed("limit", o)))
        \/ Return(t, R(Transient))
        \/ start < end /\ Continue(t, c)
        \/ ~(start < end) /\ Return(t, R([tag |-> "ok"]))
    BY <1>2, <1>3 DEF WithSpan
  <1>5. <<>> \in Seq(Nat) /\ IsStretch(<<>>, o) /\ Len(<<>>) = 0
    BY DEF IsStretch
  <1>6. FailedWith(Failed("limit", o), KeyCause(o))
    BY DEF FailedWith, Failed
  <1>7. ASSUME start < end PROVE PendingOK(c)
    <2>1. SpanPending(c)
      BY <1>1, <1>5, <1>7 DEF SpanPending
    <2> QED BY <2>1 DEF PendingOK
  <1>8. ASSUME ~(start < end) PROVE ResultOK(R([tag |-> "ok"]))
    <2>1. 0 = end - start
      BY <1>1, <1>2, <1>8
    <2> QED BY <1>5, <2>1 DEF ResultOK, EntryResultOK
  <1> HIDE DEF start, end, c
  <1>9. CASE start < end /\ Continue(t, c)
    BY <1>7, <1>9 DEF CallEffect
  <1>10. CASE ~(start < end) /\ Return(t, R([tag |-> "ok"]))
    BY <1>8, <1>10 DEF CallEffect
  <1> QED BY <1>4, <1>6, <1>9, <1>10, TransientFails, EarlyEnd

LEMMA OpenEntryExact ==
    ASSUME ExactInv, NEW t \in Readers, NEW op \in {"read", "copy"}, NEW o \in Ordinals,
           OpenEntry(t, op, o)
    PROVE  ExactInv'
  <1> DEFINE b == FindKeyBlock(o)
             e == o - EntryStart[b]
             R(outcome) == [op |-> op, ordinal |-> o, out |-> <<>>, outcome |-> outcome]
             W(start) == [pc |-> "end", op |-> op, ordinal |-> o, next |-> b + 1,
                          start |-> start]
  <1>1. t \in Callers /\ StepOK /\ file' = file /\ iter' = iter /\ CacheInv /\ file \in Files
    BY OpenEntryStep DEF Callers, OpenEntry, ExactInv, CacheInv
  <1>2. PICK d \in KeyEntryAtOrdinal(o) :
          \/ IsFailure(d.result) /\ Return(t, R(d.result))
          \/ Return(t, R(Transient))
          \/ /\ ~IsFailure(d.result) /\ e + 1 \in DOMAIN d.result.rows
             /\ WithSpan(t, op, o, d.result.rows[e].start, d.result.rows[e + 1].start)
          \/ /\ ~IsFailure(d.result) /\ e + 1 \notin DOMAIN d.result.rows
             /\ \/ b + 1 < NKey /\ Continue(t, W(d.result.rows[e].start))
                \/ ~(b + 1 < NKey) /\ WithSpan(t, op, o, d.result.rows[e].start, TotalLen)
    BY DEF OpenEntry
  <1>3. /\ b \in KeyBlocks /\ EntryStart[b] <= o /\ o < EntryStart[b + 1] /\ o \in Nat
        /\ SoundKeyResult(b, d.result)
        /\ e \in DOMAIN Rows(b) /\ Rows(b)[e] = [ordinal |-> o, start |-> StartOf(o)]
    BY <1>1, EntryFound
  <1>4. /\ EntryStart[b] \in Nat /\ EntryCount(b) \in Nat
        /\ EntryStart[b + 1] = EntryStart[b] + EntryCount(b)
        /\ DOMAIN Rows(b) = 0..(EntryCount(b) - 1) /\ NKey \in Nat /\ b \in Nat /\ b < NKey
    BY <1>1, <1>3, KeyLayout, RowsFacts, KeyBlockNumbers
  <1>5. CASE IsFailure(d.result) /\ Return(t, R(d.result))
    <2>1. FailedWith(d.result, KeyCause(o))
      BY <1>3, <1>4, <1>5, KeyFailure
    <2>2. CallEffect(t)
      BY <1>5, <2>1, EarlyEnd
    <2> QED BY <1>1, <2>2, CallEffectKeeps
  <1>6. CASE Return(t, R(Transient))
    <2>1. CallEffect(t)
      BY <1>6, TransientFails, EarlyEnd
    <2> QED BY <1>1, <2>1, CallEffectKeeps
  <1>g. ~IsFailure(d.result) => d.result.rows = Rows(b) /\ ~IsFailure(OwnKeyResult(b))
    BY <1>1, <1>3, GoodBlock
  <1>7. CASE /\ ~IsFailure(d.result) /\ e + 1 \in DOMAIN d.result.rows
             /\ WithSpan(t, op, o, d.result.rows[e].start, d.result.rows[e + 1].start)
    <2>1. e + 1 \in DOMAIN Rows(b) /\ EntryStart[b] + (e + 1) = o + 1 /\ o + 1 < EntryStart[b + 1]
      <3>1. e + 1 \in DOMAIN Rows(b)
        BY <1>7, <1>g
      <3> QED BY <1>3, <1>4, <3>1
    <2>2. Rows(b)[e + 1].start = StartOf(EntryStart[b] + (e + 1))
      BY <1>1, <1>3, <2>1, RowsFacts
    <2>3. EndOf(o) = StartOf(o + 1) /\ StartOf(o) <= EndOf(o) /\ EndOf(o) <= TotalLen
      BY <1>1, <1>3, <1>7, <1>g, <2>1, InnerSpan
    <2>4. WithSpan(t, op, o, StartOf(o), EndOf(o))
      <3>1. d.result.rows[e].start = StartOf(o)
        BY <1>3, <1>7, <1>g
      <3>2. d.result.rows[e + 1].start = EndOf(o)
        BY <1>7, <1>g, <2>1, <2>2, <2>3
      <3> QED BY <1>7, <3>1, <3>2
    <2>5. CallEffect(t)
      BY <1>1, <2>3, <2>4, SpanKnown
    <2> QED BY <1>1, <2>5, CallEffectKeeps
  <1>8. ASSUME ~IsFailure(d.result), e + 1 \notin DOMAIN d.result.rows
        PROVE  o + 1 = EntryStart[b + 1]
    BY <1>3, <1>4, <1>8, <1>g
  <1>9. CASE /\ ~IsFailure(d.result) /\ e + 1 \notin DOMAIN d.result.rows
             /\ b + 1 < NKey /\ Continue(t, W(d.result.rows[e].start))
    <2>1. b + 1 \in KeyBlocks
      BY <1>4, <1>9, KeyBlockNumbers
    <2>2. EndPending(W(StartOf(o)))
      BY <1>8, <1>9, <2>1 DEF EndPending
    <2>3. PendingOK(W(StartOf(o)))
      BY <2>2 DEF PendingOK
    <2>4. d.result.rows[e].start = StartOf(o)
      BY <1>3, <1>9, <1>g
    <2>5. CallEffect(t)
      BY <1>9, <2>3, <2>4 DEF CallEffect
    <2> QED BY <1>1, <2>5, CallEffectKeeps
  <1>10. CASE /\ ~IsFailure(d.result) /\ e + 1 \notin DOMAIN d.result.rows
              /\ ~(b + 1 < NKey) /\ WithSpan(t, op, o, d.result.rows[e].start, TotalLen)
    <2>1. b + 1 = NKey
      BY <1>4, <1>10
    <2>2. EndOf(o) = TotalLen /\ StartOf(o) <= EndOf(o) /\ EndOf(o) <= TotalLen
      BY <1>1, <1>3, <1>8, <1>10, <1>g, <2>1, LastSpan
    <2>3. d.result.rows[e].start = StartOf(o)
      BY <1>3, <1>10, <1>g
    <2>4. WithSpan(t, op, o, StartOf(o), EndOf(o))
      BY <1>10, <2>2, <2>3
    <2>5. CallEffect(t)
      BY <1>1, <2>2, <2>4, SpanKnown
    <2> QED BY <1>1, <2>5, CallEffectKeeps
  <1> QED BY <1>2, <1>5, <1>6, <1>7, <1>9, <1>10

LEMMA FindEndExact ==
    ASSUME ExactInv, NEW t \in Readers, FindEnd(t)
    PROVE  ExactInv'
  <1>1. t \in Callers /\ StepOK /\ file' = file /\ iter' = iter /\ CacheInv /\ file \in Files
    BY FindEndStep DEF Callers, FindEnd, ExactInv, CacheInv
  <1>2. PICK c : c = call[t]
    OBVIOUS
  <1>3. c.pc = "end" /\ EndPending(c)
    BY <1>1, <1>2 DEF FindEnd, ExactInv, PendingOK
  <1>4. PICK d \in DecodeKeyBlock(c.next) :
          \/ IsFailure(d.result)
             /\ Return(t, [op |-> c.op, ordinal |-> c.ordinal, out |-> <<>>, outcome |-> d.result])
          \/ ~IsFailure(d.result)
             /\ WithSpan(t, c.op, c.ordinal, c.start, d.result.rows[0].start)
    BY <1>2 DEF FindEnd
  <1>5. /\ c.op \in {"read", "copy"} /\ c.ordinal \in Ordinals /\ c.next \in KeyBlocks
        /\ c.next = FindKeyBlock(c.ordinal) + 1 /\ c.ordinal + 1 = EntryStart[c.next]
        /\ c.start = StartOf(c.ordinal)
    BY <1>3 DEF EndPending
  <1>6. c.ordinal \in Nat /\ c.ordinal < NEntries
    BY <1>1, <1>5, Offsets
  <1>7. FindKeyBlock(c.ordinal) \in KeyBlocks
    BY <1>6, KeyBlockFound
  <1>8. SoundKeyResult(c.next, d.result)
    BY <1>1, <1>5, DecodeKeyBlockSound
  <1>9. CASE /\ IsFailure(d.result)
             /\ Return(t, [op |-> c.op, ordinal |-> c.ordinal, out |-> <<>>, outcome |-> d.result])
    <2>1. FailedWith(d.result, KeyCause(c.ordinal))
      BY <1>5, <1>7, <1>8, <1>9, KeyFailure, KeyBlockNumbers
    <2>2. CallEffect(t)
      BY <1>5, <1>9, <2>1, EarlyEnd
    <2> QED BY <1>1, <2>2, CallEffectKeeps
  <1>10. CASE ~IsFailure(d.result)
              /\ WithSpan(t, c.op, c.ordinal, c.start, d.result.rows[0].start)
    <2>1. c.next > 0
      BY <1>5, <1>7, KeyBlockNumbers
    <2>2. /\ EndOf(c.ordinal) = d.result.rows[0].start
          /\ StartOf(c.ordinal) <= EndOf(c.ordinal) /\ EndOf(c.ordinal) <= TotalLen
      BY <1>1, <1>5, <1>6, <1>8, <1>10, <2>1, BoundarySpan
    <2>3. WithSpan(t, c.op, c.ordinal, StartOf(c.ordinal), EndOf(c.ordinal))
      BY <1>5, <1>10, <2>2
    <2>4. CallEffect(t)
      BY <1>1, <1>5, <2>2, <2>3, SpanKnown
    <2> QED BY <1>1, <2>4, CallEffectKeeps
  <1> QED BY <1>4, <1>9, <1>10

\* The bytes of a record block that starts at offset base.
BlockBytes(base, size) == [j \in 0..(size - 1) |-> base + j]

\* A chunk of the bytes from..to-1.
Consecutive(chunk, from, to) ==
    /\ chunk \in Seq(Nat) /\ Len(chunk) = to - from
    /\ \A k \in 1..Len(chunk) : chunk[k] = (from + k) - 1

\* The part of a decoded record block that a chunk takes.
LEMMA SliceExact ==
    ASSUME NEW base \in Nat, NEW size \in Nat, NEW from \in Nat, NEW to \in Nat,
           base <= from, from < to, to <= base + size
    PROVE  Consecutive(Slice(BlockBytes(base, size), base, from, to), from, to)
  <1> DEFINE n == to - from
             bytes == [j \in 0..(size - 1) |-> base + j]
             f == [k \in 1..n |-> bytes[from - base + k - 1]]
  <1>1. n \in Nat
    OBVIOUS
  <1>2. ASSUME NEW k \in 1..n PROVE f[k] = (from + k) - 1 /\ f[k] \in Nat
    <2>1. from - base + k - 1 \in 0..(size - 1)
      OBVIOUS
    <2>2. f[k] = base + (from - base + k - 1)
      BY <2>1
    <2> QED BY <2>2
  <1>3. DOMAIN f = 1..n
    OBVIOUS
  <1>4. Slice(BlockBytes(base, size), base, from, to) = f
    BY DEF Slice, BlockBytes
  <1>5. f = [k \in 1..n |-> f[k]]
    OBVIOUS
  <1> HIDE DEF f, bytes
  <1>6. f \in [1..n -> Nat]
    BY <1>2, <1>5
  <1> HIDE DEF n
  <1>7. f \in Seq(Nat) /\ Len(f) = n
    BY <1>1, <1>3, <1>6
  <1>8. Consecutive(f, from, to)
    BY <1>2, <1>7 DEF n, Consecutive
  <1> QED BY <1>4, <1>8

\* A chunk, or a part of it, prolongs what was handed on.
LEMMA StretchGrows ==
    ASSUME file \in Files, NEW o \in Ordinals, NEW out \in Seq(Nat), IsStretch(out, o),
           NEW chunk \in Seq(Nat), NEW from \in Nat, from = StartOf(o) + Len(out),
           \A k \in 1..Len(chunk) : chunk[k] = (from + k) - 1
    PROVE  /\ out \o chunk \in Seq(Nat) /\ Len(out \o chunk) = Len(out) + Len(chunk)
           /\ IsStretch(out \o chunk, o)
  <1>1. /\ out \o chunk \in Seq(Nat) /\ Len(out \o chunk) = Len(out) + Len(chunk)
        /\ \A i \in 1..(Len(out) + Len(chunk)) :
              (out \o chunk)[i] = IF i <= Len(out) THEN out[i] ELSE chunk[i - Len(out)]
    BY ConcatProperties
  <1>2. StartOf(o) \in Nat /\ Len(out) \in Nat /\ Len(chunk) \in Nat
        /\ DOMAIN out = 1..Len(out)
    BY Offsets, LenProperties
  <1> DEFINE all == out \o chunk
  <1> HIDE DEF all
  <1>3. DOMAIN all = 1..(Len(out) + Len(chunk))
    BY <1>1, LenProperties DEF all
  <1>4. \A i \in 1..(Len(out) + Len(chunk)) :
              all[i] = IF i <= Len(out) THEN out[i] ELSE chunk[i - Len(out)]
    BY <1>1 DEF all
  <1>5. ASSUME NEW i \in 1..(Len(out) + Len(chunk)) PROVE all[i] = StartOf(o) + i - 1
    <2>1. CASE i <= Len(out)
      <3>1. i \in DOMAIN out /\ all[i] = out[i]
        BY <1>2, <1>4, <2>1
      <3> QED BY <3>1 DEF IsStretch
    <2>2. CASE ~(i <= Len(out))
      <3>1. i - Len(out) \in 1..Len(chunk)
        BY <1>2, <2>2
      <3>2. all[i] = (from + (i - Len(out))) - 1
        BY <1>4, <2>2, <3>1
      <3> QED BY <1>2, <3>2
    <2> QED BY <2>1, <2>2
  <1>6. IsStretch(all, o)
    BY <1>3, <1>5 DEF IsStretch
  <1> QED BY <1>1, <1>6 DEF all

LEMMA VisitBlockExact ==
    ASSUME ExactInv, NEW t \in Readers, VisitBlock(t)
    PROVE  ExactInv'
  <1>1. t \in Callers /\ StepOK /\ file' = file /\ iter' = iter /\ CacheInv /\ file \in Files
    BY VisitBlockStep DEF Callers, VisitBlock, ExactInv, CacheInv
  <1>2. PICK c : c = call[t]
    OBVIOUS
  <1> DEFINE i == FindRecordBlock(c.cursor)
             base == DecompOffset[i]
             to == Smaller(c.end, base + DecompSize(i))
             bytes == BlockBytes(base, DecompSize(i))
             chunk == Slice(bytes, base, c.cursor, to)
             n == [c EXCEPT !.out = @ \o chunk, !.cursor = to]
             R(out, outcome) == [op |-> c.op, ordinal |-> c.ordinal, out |-> out,
                                 outcome |-> outcome]
  <1>3. c.pc = "span" /\ SpanPending(c)
    BY <1>1, <1>2 DEF VisitBlock, ExactInv, PendingOK
  <1>4. /\ c = [pc |-> "span", op |-> c.op, ordinal |-> c.ordinal, cursor |-> c.cursor,
                end |-> c.end, out |-> c.out]
        /\ c.op \in {"read", "copy"} /\ c.ordinal \in Ordinals
        /\ c.out \in Seq(Nat) /\ IsStretch(c.out, c.ordinal)
        /\ c.cursor = StartOf(c.ordinal) + Len(c.out)
        /\ c.end = EndOf(c.ordinal) /\ c.cursor < c.end /\ c.end <= TotalLen
    BY <1>3 DEF SpanPending
  <1>5. /\ StartOf(c.ordinal) \in Nat /\ EndOf(c.ordinal) \in Nat /\ TotalLen \in Nat
        /\ Len(c.out) \in Nat /\ c.cursor \in Nat /\ c.end \in Nat /\ c.cursor < TotalLen
    BY <1>1, <1>4, Offsets, RecordLayout, LenProperties
  <1>6. i \in RecordBlocks /\ base <= c.cursor /\ c.cursor < DecompOffset[i + 1]
    BY <1>5, RecordBlockFound
  <1>7. base \in Nat /\ DecompSize(i) \in Nat /\ DecompOffset[i + 1] = base + DecompSize(i)
    BY <1>6, RecordLayout
  <1>8. to \in Nat /\ c.cursor < to /\ to <= c.end /\ to <= base + DecompSize(i)
        /\ (~(to < c.end) => to = c.end) /\ to - base - 1 \in 0..(DecompSize(i) - 1)
    BY <1>4, <1>5, <1>6, <1>7 DEF Smaller
  <1>9. PICK d \in DecodeRecordBlock(i) :
          IF IsFailure(d.result) THEN Return(t, EntryResult(c, d.result))
          ELSE IF to - base - 1 \notin DOMAIN d.result.bytes \/ to <= c.cursor
          THEN Return(t, EntryResult(c, Internal))
          ELSE LET part == Slice(d.result.bytes, base, c.cursor, to)
                   m == [c EXCEPT !.out = @ \o part, !.cursor = to]
               IN
               \/ IF to < c.end THEN Continue(t, m)
                  ELSE Return(t, EntryResult(m, [tag |-> "ok"]))
               \/ /\ c.op = "copy"
                  /\ \E k \in 0..(Len(part) - 1) :
                        Return(t, EntryResult([c EXCEPT !.out = @ \o SubSeq(part, 1, k)],
                                              Transient))
    BY <1>2, <1>6 DEF VisitBlock
  <1> HIDE DEF i, base, to
  <1>10. d.result = OwnRecordResult(i) \/ d.result = Transient
    BY <1>1, <1>6, DecodeRecordBlockSound
  <1>11. IsFailure(Transient)
    BY DEF Transient, IsFailure, Failed
  <1>12. ASSUME NEW out \in Seq(Nat), IsStretch(out, c.ordinal), NEW outcome,
                FailedWith(outcome, RecordCause(c.ordinal)) \/
                   (outcome.tag = "ok" /\ Len(out) = EndOf(c.ordinal) - StartOf(c.ordinal)),
                Return(t, R(out, outcome))
         PROVE  CallEffect(t)
    <2>1. FailedWith(outcome, RecordCause(c.ordinal)) =>
             FailedWith(outcome, KeyCause(c.ordinal) \/ RecordCause(c.ordinal))
      BY DEF FailedWith
    <2>2. ResultOK(R(out, outcome))
      BY <1>4, <1>12, <2>1 DEF ResultOK, EntryResultOK
    <2> QED BY <1>12, <2>2 DEF CallEffect
  <1>13. CASE IsFailure(d.result)
    <2>1. Return(t, R(c.out, d.result))
      BY <1>9, <1>13 DEF EntryResult
    <2>2. FailedWith(d.result, RecordCause(c.ordinal))
      <3>1. CASE d.result = Transient
        BY <3>1, TransientFails
      <3>2. CASE d.result = OwnRecordResult(i)
        <4>1. file.recordFault[i] # "none"
          BY <1>13, <3>2 DEF OwnRecordResult, IsFailure
        <4>2. RecordCause(c.ordinal)
          BY <1>4, <1>5, <1>6, <1>7, <4>1 DEF RecordCause, base
        <4>3. d.result.class \in {"format", "data"} /\ d.result.tag = "failed"
          BY <1>1, <1>6, <1>13, <3>2, OwnRecordResultSound DEF IsFailure
        <4> QED BY <4>2, <4>3 DEF FailedWith
      <3> QED BY <1>10, <3>1, <3>2
    <2> QED BY <1>1, <1>4, <1>12, <2>1, <2>2, CallEffectKeeps
  <1>14. CASE ~IsFailure(d.result)
    <2>1. d.result = [tag |-> "ready", bytes |-> bytes]
      BY <1>10, <1>11, <1>14 DEF OwnRecordResult, IsFailure, Failed, base, BlockBytes
    <2>2. /\ chunk \in Seq(Nat) /\ Len(chunk) = to - c.cursor
          /\ \A k \in 1..Len(chunk) : chunk[k] = (c.cursor + k) - 1
      <3>1. /\ base \in Nat /\ DecompSize(i) \in Nat /\ c.cursor \in Nat /\ to \in Nat
            /\ base <= c.cursor /\ c.cursor < to /\ to <= base + DecompSize(i)
        BY <1>5, <1>6, <1>7, <1>8
      <3>2. Consecutive(chunk, c.cursor, to)
        BY <3>1, SliceExact
      <3> HIDE DEF chunk
      <3> QED BY <3>2 DEF Consecutive
    <2>3. d.result.bytes = bytes /\ DOMAIN bytes = 0..(DecompSize(i) - 1)
      BY <2>1 DEF BlockBytes
    <2>4. \/ IF to < c.end THEN Continue(t, n) ELSE Return(t, EntryResult(n, [tag |-> "ok"]))
          \/ \E k \in 0..(Len(chunk) - 1) :
                Return(t, EntryResult([c EXCEPT !.out = @ \o SubSeq(chunk, 1, k)], Transient))
      <3>1. ~(to - base - 1 \notin DOMAIN d.result.bytes \/ to <= c.cursor)
        BY <1>5, <1>8, <2>3
      <3> HIDE DEF bytes
      <3> QED BY <1>9, <1>14, <2>3, <3>1
    <2> HIDE DEF chunk
    <2>5. /\ c.out \o chunk \in Seq(Nat) /\ Len(c.out \o chunk) = Len(c.out) + Len(chunk)
          /\ IsStretch(c.out \o chunk, c.ordinal)
      BY <1>1, <1>4, <1>5, <2>2, StretchGrows
    <2>6. PICK out : out = c.out \o chunk
      OBVIOUS
    <2>7. n = [pc |-> "span", op |-> c.op, ordinal |-> c.ordinal, cursor |-> to,
               end |-> c.end, out |-> out]
      <3>1. PICK op, o, x, end, before :
               c = [pc |-> "span", op |-> op, ordinal |-> o, cursor |-> x, end |-> end,
                    out |-> before]
        BY ONLY <1>4
      <3>a. PICK m : m = [c EXCEPT !.out = out]
        OBVIOUS
      <3>2. m = [pc |-> "span", op |-> op, ordinal |-> o, cursor |-> x, end |-> end, out |-> out]
        BY ONLY <3>1, <3>a
      <3>3. [m EXCEPT !.cursor = to] =
               [pc |-> "span", op |-> op, ordinal |-> o, cursor |-> to, end |-> end, out |-> out]
        BY ONLY <3>2
      <3>4. n = [m EXCEPT !.cursor = to]
        BY ONLY <2>6, <3>a DEF n
      <3>5. c.op = op /\ c.ordinal = o /\ c.end = end
        BY ONLY <3>1
      <3> QED BY ONLY <3>3, <3>4, <3>5
    <2>8. CASE to < c.end /\ Continue(t, n)
      <3>a. to = StartOf(c.ordinal) + Len(out)
        BY <1>4, <1>5, <1>8, <2>2, <2>5, <2>6
      <3>b. PICK m : m = n
        OBVIOUS
      <3> HIDE DEF n
      <3>c. /\ m = [pc |-> "span", op |-> c.op, ordinal |-> c.ordinal, cursor |-> to,
                    end |-> c.end, out |-> out]
            /\ m.op = c.op /\ m.ordinal = c.ordinal /\ m.cursor = to /\ m.end = c.end
            /\ m.out = out
        BY ONLY <2>7, <3>b
      <3>1. SpanPending(n)
        BY <1>4, <2>5, <2>6, <2>8, <3>a, <3>b, <3>c DEF SpanPending
      <3>2. PendingOK(n)
        BY <2>7, <3>1 DEF PendingOK
      <3>3. CallEffect(t)
        BY <2>8, <3>2 DEF CallEffect
      <3> QED BY <1>1, <3>3, CallEffectKeeps
    <2>9. CASE ~(to < c.end) /\ Return(t, EntryResult(n, [tag |-> "ok"]))
      <3>1. EntryResult(n, [tag |-> "ok"]) = R(out, [tag |-> "ok"])
        BY <2>7 DEF EntryResult
      <3>2. Len(out) = EndOf(c.ordinal) - StartOf(c.ordinal)
        BY <1>4, <1>5, <1>8, <2>2, <2>5, <2>6, <2>9
      <3>3. CallEffect(t)
        BY <1>12, <2>5, <2>6, <2>9, <3>1, <3>2
      <3> QED BY <1>1, <3>3, CallEffectKeeps
    <2>10. ASSUME NEW k \in 0..(Len(chunk) - 1),
                  Return(t, EntryResult([c EXCEPT !.out = @ \o SubSeq(chunk, 1, k)], Transient))
           PROVE  ExactInv'
      <3>0. k \in Nat /\ Len(chunk) \in Nat /\ k < Len(chunk)
        BY <1>5, <1>8, <2>2
      <3>1. PICK part : part = SubSeq(chunk, 1, k)
        OBVIOUS
      <3>2. part \in Seq(Nat) /\ Len(part) = k /\ \A j \in 1..k : part[j] = chunk[j]
        <4>1. \A j \in 1..k : chunk[j] \in Nat
          BY <2>2, <3>0
        <4>2. /\ part \in Seq(Nat) /\ Len(part) = IF 1 <= k THEN k - 1 + 1 ELSE 0
              /\ \A j \in 1..(k - 1 + 1) : part[j] = chunk[1 + j - 1]
          BY <3>0, <3>1, <4>1, SubSeqProperties
        <4> QED BY <3>0, <4>2
      <3>3. \A j \in 1..Len(part) : part[j] = (c.cursor + j) - 1
        <4> SUFFICES ASSUME NEW j \in 1..Len(part) PROVE part[j] = (c.cursor + j) - 1
          OBVIOUS
        <4>1. j \in 1..k /\ j \in 1..Len(chunk)
          BY <3>0, <3>2
        <4>2. part[j] = chunk[j]
          BY <3>2, <4>1
        <4> QED BY <2>2, <4>1, <4>2
      <3>4. c.out \o part \in Seq(Nat) /\ IsStretch(c.out \o part, c.ordinal)
        BY <1>1, <1>4, <1>5, <3>2, <3>3, StretchGrows
      <3>5. EntryResult([c EXCEPT !.out = @ \o part], Transient) = R(c.out \o part, Transient)
        BY <1>4 DEF EntryResult
      <3>6. Return(t, R(c.out \o part, Transient))
        BY <2>10, <3>1, <3>5
      <3>7. CallEffect(t)
        BY <1>12, <3>4, <3>6, TransientFails
      <3> QED BY <1>1, <3>7, CallEffectKeeps
    <2> QED BY <2>4, <2>8, <2>9, <2>10
  <1> QED BY <1>13, <1>14

LEMMA BatchExactSteps ==
    ASSUME ExactInv, NEW t \in Batchers,
           (\E input \in Batches : StartBatch(t, input)) \/ BatchBlock(t) \/ EndBatch(t)
    PROVE  ExactInv'
  <1>1. t \in Callers /\ StepOK /\ file' = file /\ iter' = iter /\ CacheInv /\ file \in Files
    BY BatchSteps DEF Callers, StartBatch, BatchBlock, EndBatch, ExactInv, CacheInv
  <1>2. PICK c : c = call[t]
    OBVIOUS
  <1>3. SUFFICES CallEffect(t)
    BY <1>1, CallEffectKeeps
  <1> DEFINE R(input, outcome) == [op |-> "batch", input |-> input, outcome |-> outcome]
  <1>4. ASSUME NEW input, NEW outcome, FailedWith(outcome, TRUE), Return(t, R(input, outcome))
        PROVE  CallEffect(t)
    <2>1. ResultOK(R(input, outcome))
      BY <1>4 DEF ResultOK, BatchResultOK
    <2> QED BY <1>4, <2>1 DEF CallEffect
  <1>5. ASSUME NEW input \in Batches, StartBatch(t, input)
        PROVE  CallEffect(t)
    <2> DEFINE asked == {FindKeyBlock(input[k]) : k \in {k \in DOMAIN input : input[k] < NEntries}}
               got == [k \in DOMAIN input |-> None]
               n == [pc |-> "batch", input |-> input, left |-> asked, got |-> got]
    <2>1. input \in Seq(Nat) /\ \A k \in DOMAIN input : input[k] \in Nat
      BY ReaderAssumption
    <2>2. asked \subseteq KeyBlocks
      BY <2>1, KeyBlockFound
    <2>3. Continue(t, n)
      BY <1>5, <2>2 DEF StartBatch
    <2>4. \A k \in DOMAIN input : input[k] < NEntries => FindKeyBlock(input[k]) \in asked
      OBVIOUS
    <2> HIDE DEF asked
    <2>5. BatchPending(n)
      BY <2>1, <2>4 DEF BatchPending
    <2>6. PendingOK(n)
      BY <2>5 DEF PendingOK
    <2> QED BY <2>3, <2>6 DEF CallEffect
  <1>6. ASSUME BatchBlock(t) PROVE CallEffect(t)
    <2>0. c.pc = "batch" /\ BatchPending(c) /\ c.left \subseteq KeyBlocks
      BY <1>1, <1>2, <1>6 DEF BatchBlock, ExactInv, PendingOK, ReaderInv, CallOK
    <2>1. /\ c = [pc |-> "batch", input |-> c.input, left |-> c.left, got |-> c.got]
          /\ c.input \in Seq(Nat) /\ DOMAIN c.got = DOMAIN c.input
          /\ \A k \in DOMAIN c.input :
                IF c.input[k] < NEntries
                THEN FindKeyBlock(c.input[k]) \in c.left \/ c.got[k] = c.input[k]
                ELSE c.got[k] = None
      BY <2>0 DEF BatchPending
    <2> DEFINE mine(b) == {k \in DOMAIN c.input :
                             c.input[k] < NEntries /\ FindKeyBlock(c.input[k]) = b}
               news(b, rows) == [k \in DOMAIN c.got |->
                                    IF k \in mine(b) THEN rows[c.input[k] - EntryStart[b]].ordinal
                                    ELSE c.got[k]]
    <2>2. PICK b \in c.left : \E d \in DecodeKeyBlock(b) :
             \/ IsFailure(d.result) /\ Return(t, R(c.input, d.result))
             \/ /\ ~IsFailure(d.result)
                /\ \E k \in mine(b) : c.input[k] - EntryStart[b] \notin DOMAIN d.result.rows
             \/ Return(t, R(c.input, Transient))
             \/ /\ ~IsFailure(d.result)
                /\ Continue(t, [c EXCEPT !.left = @ \ {b}, !.got = news(b, d.result.rows)])
      BY <1>2, <1>6 DEF BatchBlock
    <2>3. PICK d \in DecodeKeyBlock(b) :
             \/ IsFailure(d.result) /\ Return(t, R(c.input, d.result))
             \/ /\ ~IsFailure(d.result)
                /\ \E k \in mine(b) : c.input[k] - EntryStart[b] \notin DOMAIN d.result.rows
             \/ Return(t, R(c.input, Transient))
             \/ /\ ~IsFailure(d.result)
                /\ Continue(t, [c EXCEPT !.left = @ \ {b}, !.got = news(b, d.result.rows)])
      BY <2>2
    <2>4. b \in KeyBlocks /\ SoundKeyResult(b, d.result)
      BY <1>1, <2>0, DecodeKeyBlockSound
    <2>5. ASSUME IsFailure(d.result) PROVE FailedWith(d.result, TRUE)
      BY <2>4, <2>5 DEF FailedWith, SoundKeyResult, Failures, IsFailure
    <2>6. ~IsFailure(d.result) => d.result.rows = Rows(b)
      BY <1>1, <2>4, GoodBlock
    <2>7. ASSUME NEW k \in mine(b)
          PROVE  /\ c.input[k] - EntryStart[b] \in DOMAIN Rows(b)
                 /\ Rows(b)[c.input[k] - EntryStart[b]].ordinal = c.input[k]
      <3>1. PICK o \in Nat : o = c.input[k] /\ o < NEntries /\ FindKeyBlock(o) = b
        BY <2>1
      <3>2. EntryStart[b] <= o /\ o < EntryStart[b + 1]
        BY <3>1, KeyBlockFound
      <3>3. /\ EntryStart[b] \in Nat /\ EntryCount(b) \in Nat
            /\ EntryStart[b + 1] = EntryStart[b] + EntryCount(b)
            /\ DOMAIN Rows(b) = 0..(EntryCount(b) - 1)
        BY <1>1, <2>4, KeyLayout, RowsFacts
      <3>4. o - EntryStart[b] \in DOMAIN Rows(b) /\ EntryStart[b] + (o - EntryStart[b]) = o
        BY <3>1, <3>2, <3>3
      <3>5. Rows(b)[o - EntryStart[b]].ordinal = o
        BY <1>1, <2>4, <3>4, RowsFacts
      <3> QED BY <3>1, <3>4, <3>5
    <2>8. CASE /\ ~IsFailure(d.result)
               /\ Continue(t, [c EXCEPT !.left = @ \ {b}, !.got = news(b, d.result.rows)])
      <3>1. PICK got : got = news(b, Rows(b))
        OBVIOUS
      <3>2. DOMAIN got = DOMAIN c.input
        BY <2>1, <3>1
      <3>3. \A k \in DOMAIN c.input : got[k] = IF k \in mine(b) THEN c.input[k] ELSE c.got[k]
        BY <2>1, <2>7, <3>1
      <3>4. PICK left : left = c.left \ {b}
        OBVIOUS
      <3>5. PICK n : n = [c EXCEPT !.left = @ \ {b}, !.got = got]
        OBVIOUS
      <3>6. n = [pc |-> "batch", input |-> c.input, left |-> left, got |-> got]
        <4>1. PICK input, todo, before :
                 c = [pc |-> "batch", input |-> input, left |-> todo, got |-> before]
          BY ONLY <2>1
        <4>a. PICK m : m = [c EXCEPT !.left = left]
          OBVIOUS
        <4>2. m = [pc |-> "batch", input |-> input, left |-> left, got |-> before]
          BY ONLY <4>1, <4>a
        <4>3. [m EXCEPT !.got = got] =
                 [pc |-> "batch", input |-> input, left |-> left, got |-> got]
          BY ONLY <4>2
        <4>4. n = [m EXCEPT !.got = got]
          BY ONLY <3>4, <3>5, <4>a
        <4>5. c.input = input
          BY ONLY <4>1
        <4> QED BY ONLY <4>3, <4>4, <4>5
      <3>7. \A k \in DOMAIN c.input :
                IF c.input[k] < NEntries
                THEN FindKeyBlock(c.input[k]) \in left \/ got[k] = c.input[k]
                ELSE got[k] = None
        BY <2>1, <3>3, <3>4
      <3>8. BatchPending(n)
        BY <2>1, <3>2, <3>6, <3>7 DEF BatchPending
      <3>9. PendingOK(n)
        BY <3>6, <3>8 DEF PendingOK
      <3>10. Continue(t, n)
        <4> HIDE DEF news
        <4> QED BY <2>6, <2>8, <3>1, <3>5
      <3> QED BY <3>9, <3>10 DEF CallEffect
    <2> HIDE DEF mine, news
    <2> QED BY <1>4, <2>3, <2>5, <2>6, <2>7, <2>8, TransientFails
  <1>7. ASSUME EndBatch(t) PROVE CallEffect(t)
    <2>0. c.pc = "batch" /\ BatchPending(c) /\ c.left = {}
      BY <1>1, <1>2, <1>7 DEF EndBatch, ExactInv, PendingOK
    <2>1. Return(t, R(c.input, [tag |-> "ok", got |-> c.got]))
      BY <1>2, <1>7 DEF EndBatch
    <2>2. ResultOK(R(c.input, [tag |-> "ok", got |-> c.got]))
      BY <2>0 DEF ResultOK, BatchResultOK, BatchPending
    <2> QED BY <2>1, <2>2 DEF CallEffect
  <1> QED BY <1>5, <1>6, <1>7

-----------------------------------------------------------------------------

\* A step of one iterator to a sound state.
LEMMA IterEffectKeeps ==
    ASSUME ExactInv, StepOK, NEW t \in Scanners, NEW x, Set(t, x),
           t \in KeyScanners => KeyIterOK(x), t \in RecordScanners => RecordIterOK(x),
           file' = file, UNCHANGED <<call, result>>
    PROVE  ExactInv'
  <1>1. CacheInv' /\ ReaderInv'
    BY CacheStep DEF ExactInv, StepOK, cacheVars
  <1>2. iter = [u \in Scanners |-> iter[u]]
    BY DEF ExactInv, ReaderInv
  <1>3. \A u \in Scanners : iter'[u] = IF u = t THEN x ELSE iter[u]
    BY <1>2 DEF Set
  <1>4. \A u \in KeyScanners : KeyIterOK(iter'[u])
    BY <1>3 DEF ExactInv, Scanners
  <1>5. \A u \in RecordScanners : RecordIterOK(iter'[u])
    BY <1>3 DEF ExactInv, Scanners
  <1>6. (\A u \in KeyScanners : KeyIterOK(iter[u])') /\ (\A u \in RecordScanners : RecordIterOK(iter[u])')
    BY <1>4, <1>5, FileKept
  <1>7. \A u \in Callers : PendingOK(call[u])' /\ ResultOK(result[u])'
    BY FileKept DEF ExactInv
  <1>8. result' = [u \in Callers |-> result'[u]]
    BY DEF ExactInv
  <1> QED BY <1>1, <1>6, <1>7, <1>8 DEF ExactInv

\* A failure is not the absence of one.
LEMMA FailureShows ==
    ASSUME NEW r \in Failures
    PROVE  r # NoRows
  <1>1. "tag" \in DOMAIN r
    BY DEF Failures
  <1>2. DOMAIN NoRows = {}
    BY DEF NoRows
  <1> QED BY <1>1, <1>2

LEMMA TransientIsFailure == Transient \in Failures /\ Transient.class = "transient"
  BY DEF Transient, Failed, Failures

\* A block that fails is a cause for the iterator that asked for it.
LEMMA BlockFails ==
    ASSUME NEW b \in KeyBlocks, NEW r, SoundKeyResult(b, r), IsFailure(r)
    PROVE  /\ r \in Failures
           /\ r.class = "transient" \/ \E j \in KeyBlocks : j <= b /\ FaultyKeyBlock(j)
  <1>1. \A j \in 0..b : j \in KeyBlocks /\ j <= b
    BY KeyBlockNumbers
  <1> QED BY <1>1, TransientIsFailure DEF SoundKeyResult

\* No two blocks start at the same entry.
LEMMA StartsApart ==
    ASSUME NEW b \in KeyBlocks, NEW e \in Nat, e < EntryCount(b),
           NEW c \in KeyBlocks, EntryStart[c] <= EntryStart[b] + e
    PROVE  EntryStart[c] < EntryStart[b] + e \/ (c = b /\ e = 0)
  <1>1. /\ b \in Nat /\ c \in Nat /\ b \in 0..NKey /\ c \in 0..NKey
        /\ EntryStart[b] \in Nat /\ EntryStart[c] \in Nat
    BY KeyBlockNumbers, KeyLayout
  <1>2. /\ EntryCount(b) \in Nat /\ EntryStart[b + 1] = EntryStart[b] + EntryCount(b)
        /\ EntryCount(c) \in Nat /\ EntryStart[c + 1] = EntryStart[c] + EntryCount(c)
        /\ EntryCount(c) > 0
    BY KeyLayout
  <1>3. CASE c > b
    <2>1. EntryStart[b + 1] <= EntryStart[c]
      BY <1>1, <1>3, KeyLayout
    <2> QED BY <1>1, <1>2, <2>1
  <1>4. CASE c < b
    <2>1. EntryStart[c + 1] <= EntryStart[b]
      BY <1>1, <1>4, KeyLayout
    <2> QED BY <1>1, <1>2, <2>1
  <1>5. CASE c = b
    BY <1>1, <1>2, <1>5
  <1> QED BY <1>1, <1>3, <1>4, <1>5

\* The ways a KeyIter goes on: it stops, or it yields entry e of block b.
LEMMA KeyIterStops ==
    ASSUME NEW it, KeyIterOK(it), NEW x, x.yielded = it.yielded, x.done = TRUE,
           x.error \in Failures,
           x.error.class = "transient" \/ \E b \in KeyBlocks : b <= x.block /\ FaultyKeyBlock(b)
    PROVE  KeyIterOK(x)
  BY FailureShows DEF KeyIterOK, EndOK

LEMMA KeyIterYields ==
    ASSUME NEW it, KeyIterOK(it), NEW b \in KeyBlocks, NEW e \in Nat, e < EntryCount(b),
           Len(it.yielded) = EntryStart[b] + e, e = 0 => ~FaultyKeyBlock(b),
           NEW x, x.yielded = Append(it.yielded, EntryStart[b] + e), ~x.done,
           x.error = NoRows, x.block = b, x.rows = Rows(b), x.entry = e + 1
    PROVE  KeyIterOK(x)
  <1> DEFINE y == it.yielded
             z == x.yielded
  <1>1. /\ y \in Seq(Nat) /\ \A k \in DOMAIN y : y[k] = k - 1
        /\ \A c \in KeyBlocks : Len(y) > EntryStart[c] => ~FaultyKeyBlock(c)
    BY DEF KeyIterOK
  <1>2. EntryStart[b] \in Nat /\ EntryCount(b) \in Nat /\ b \in Nat
    BY KeyLayout, KeyBlockNumbers
  <1>3. z = Append(y, Len(y)) /\ Len(y) \in Nat
    BY <1>1
  <1> HIDE DEF y, z
  <1>4. /\ z \in Seq(Nat) /\ Len(z) = Len(y) + 1 /\ DOMAIN z = 1..(Len(y) + 1)
        /\ \A k \in 1..Len(y) : z[k] = y[k]
        /\ z[Len(y) + 1] = Len(y)
    BY <1>1, <1>3, AppendProperties, LenProperties
  <1>5. \A k \in DOMAIN z : z[k] = k - 1
    <2> SUFFICES ASSUME NEW k \in 1..(Len(y) + 1) PROVE z[k] = k - 1
      BY <1>4
    <2>1. CASE k = Len(y) + 1
      BY <1>3, <1>4, <2>1
    <2>2. CASE k # Len(y) + 1
      <3>1. k \in 1..Len(y) /\ k \in DOMAIN y
        BY <1>1, <1>3, <2>2, LenProperties
      <3> QED BY <1>1, <1>4, <3>1
    <2> QED BY <2>1, <2>2
  <1>6. ASSUME NEW c \in KeyBlocks, Len(z) > EntryStart[c]
        PROVE  ~FaultyKeyBlock(c)
    <2>1. c \in 0..NKey /\ EntryStart[c] \in Nat
      BY KeyLayout, KeyBlockNumbers
    <2>2. Len(y) = EntryStart[b] + e
      BY DEF y
    <2>3. EntryStart[c] <= EntryStart[b] + e
      BY <1>2, <1>4, <1>6, <2>1, <2>2
    <2>4. EntryStart[c] < EntryStart[b] + e \/ (c = b /\ e = 0)
      BY <2>3, StartsApart
    <2> QED BY <1>1, <1>2, <2>1, <2>2, <2>4
  <1>7. KeyIterAt(x)
    <2>1. e + 1 \in 1..EntryCount(b)
      BY <1>2
    <2>2. Len(z) = EntryStart[b] + (e + 1)
      BY <1>2, <1>4 DEF y
    <2> QED BY <2>1, <2>2 DEF KeyIterAt, z
  <1> QED BY <1>4, <1>5, <1>6, <1>7 DEF KeyIterOK, z

LEMMA KeyScanExactSteps ==
    ASSUME ExactInv, NEW t \in KeyScanners, NextHeldKey(t) \/ NextKeyBlock(t)
    PROVE  ExactInv'
  <1>1. /\ t \in Scanners /\ t \notin RecordScanners /\ StepOK /\ file' = file
        /\ UNCHANGED <<call, result>> /\ CacheInv /\ file \in Files
    BY KeyScanSteps, ReaderAssumption DEF Scanners, NextHeldKey, NextKeyBlock, ExactInv, CacheInv
  <1>2. PICK it : it = iter[t]
    OBVIOUS
  <1>3. DOMAIN it = IterFields /\ KeyIterOK(it)
    BY <1>1, <1>2 DEF ExactInv, ReaderInv, IterOK
  <1>s. ASSUME NEW x, Set(t, x), KeyIterOK(x) PROVE ExactInv'
    BY <1>1, <1>s, IterEffectKeeps
  <1>5. ASSUME ~it.done
        PROVE  /\ it.error = NoRows
               /\ \/ it.rows = NoRows /\ it.block = 0 /\ it.entry = 0 /\ Len(it.yielded) = 0
                  \/ /\ it.block \in KeyBlocks /\ it.rows = Rows(it.block)
                     /\ it.entry \in 1..EntryCount(it.block)
                     /\ Len(it.yielded) = EntryStart[it.block] + it.entry
    BY <1>3, <1>5 DEF KeyIterOK, KeyIterAt
  <1>6. ASSUME NextHeldKey(t) PROVE ExactInv'
    <2>1. ~it.done /\ it.entry \in DOMAIN it.rows
      BY <1>2, <1>6 DEF NextHeldKey
    <2>2. it.rows # NoRows
      BY <2>1 DEF NoRows
    <2> DEFINE b == it.block
               e == it.entry
    <2>3. /\ b \in KeyBlocks /\ it.rows = Rows(b) /\ e \in 1..EntryCount(b)
          /\ Len(it.yielded) = EntryStart[b] + e /\ it.error = NoRows
      BY <1>5, <2>1, <2>2
    <2>4. e \in Nat /\ e < EntryCount(b) /\ Rows(b)[e].ordinal = EntryStart[b] + e /\ e # 0
      <3>1. DOMAIN Rows(b) = 0..(EntryCount(b) - 1) /\ EntryCount(b) \in Nat
        BY <1>1, <2>3, RowsFacts, KeyLayout
      <3>2. e \in DOMAIN Rows(b)
        BY <2>1, <2>3
      <3>3. Rows(b)[e].ordinal = EntryStart[b] + e
        BY <1>1, <2>3, <3>2, RowsFacts
      <3> QED BY <2>3, <3>1, <3>2, <3>3
    <2>5. \/ Set(t, [it EXCEPT !.entry = @ + 1, !.yielded = Append(@, EntryStart[b] + e)])
          \/ Set(t, Fail([it EXCEPT !.entry = @ + 1], Transient))
      BY <1>2, <1>6, <2>3, <2>4 DEF NextHeldKey
    <2>6. CASE Set(t, [it EXCEPT !.entry = @ + 1, !.yielded = Append(@, EntryStart[b] + e)])
      <3>1. PICK x : x = [it EXCEPT !.entry = @ + 1, !.yielded = Append(@, EntryStart[b] + e)]
        OBVIOUS
      <3>2. /\ x.entry = e + 1 /\ x.yielded = Append(it.yielded, EntryStart[b] + e)
            /\ x.done = it.done /\ x.error = it.error /\ x.block = b /\ x.rows = it.rows
        BY <1>3, <3>1 DEF IterFields
      <3>a. KeyIterOK(x)
        BY <1>3, <2>1, <2>3, <2>4, <3>2, KeyIterYields
      <3> QED BY <1>s, <2>6, <3>1, <3>a
    <2>7. CASE Set(t, Fail([it EXCEPT !.entry = @ + 1], Transient))
      <3>1. PICK x : x = Fail([it EXCEPT !.entry = @ + 1], Transient)
        OBVIOUS
      <3>2. x.yielded = it.yielded /\ x.done = TRUE /\ x.error = Transient
        BY <1>3, <3>1 DEF IterFields, Fail
      <3>3. KeyIterOK(x)
        BY <1>3, <3>2, KeyIterStops, TransientIsFailure
      <3> QED BY <1>s, <2>7, <3>1, <3>3
    <2> QED BY <2>5, <2>6, <2>7
  <1>7. ASSUME NextKeyBlock(t) PROVE ExactInv'
    <2>1. PICK b : b = IF it.rows = NoRows THEN it.block ELSE it.block + 1
      OBVIOUS
    <2>2. ~it.done /\ it.entry \notin DOMAIN it.rows
      BY <1>2, <1>7 DEF NextKeyBlock
    <2>3. b \in 0..NKey /\ Len(it.yielded) = EntryStart[b] /\ it.error = NoRows
      <3>1. CASE it.rows = NoRows
        <4>1. it.block = 0 /\ Len(it.yielded) = 0 /\ it.error = NoRows
          <5>1. \A c \in KeyBlocks : Rows(c) # NoRows
            BY <1>1, RowsFacts
          <5> QED BY <1>5, <2>2, <3>1, <5>1
        <4>2. 0 \in 0..NKey /\ EntryStart[0] = 0
          BY KeyBlockNumbers, KeyLayout
        <4> QED BY <2>1, <3>1, <4>1, <4>2
      <3>2. CASE it.rows # NoRows
        <4> DEFINE c == it.block
        <4>1. /\ c \in KeyBlocks /\ it.rows = Rows(c) /\ it.entry \in 1..EntryCount(c)
              /\ Len(it.yielded) = EntryStart[c] + it.entry /\ it.error = NoRows
          BY <1>5, <2>2, <3>2
        <4>2. DOMAIN Rows(c) = 0..(EntryCount(c) - 1) /\ EntryCount(c) \in Nat
              /\ EntryStart[c + 1] = EntryStart[c] + EntryCount(c)
              /\ c + 1 \in 0..NKey
          BY <1>1, <4>1, RowsFacts, KeyLayout
        <4>3. it.entry \notin 0..(EntryCount(c) - 1)
          BY <2>2, <4>1, <4>2
        <4>4. it.entry = EntryCount(c)
          BY <4>1, <4>2, <4>3
        <4> QED BY <2>1, <3>2, <4>1, <4>2, <4>4
      <3> QED BY <3>1, <3>2
    <2>4. NKey \in Nat /\ b \in Nat
      BY <2>3, KeyBlockNumbers
    <2>5. CASE b >= NKey
      <3>1. Set(t, [it EXCEPT !.block = b, !.rows = NoRows, !.done = TRUE])
        BY <1>2, <1>7, <2>1, <2>5 DEF NextKeyBlock
      <3>2. PICK x : x = [it EXCEPT !.block = b, !.rows = NoRows, !.done = TRUE]
        OBVIOUS
      <3>3. x.yielded = it.yielded /\ x.done = TRUE /\ x.error = it.error
        BY <1>3, <3>2 DEF IterFields
      <3>4. b = NKey
        BY <2>3, <2>4, <2>5
      <3>5. Len(x.yielded) = NEntries
        BY <2>3, <3>3, <3>4 DEF NEntries
      <3>6. KeyIterOK(x)
        BY <1>3, <2>3, <3>3, <3>5 DEF KeyIterOK, EndOK
      <3> QED BY <1>s, <3>1, <3>2, <3>6
    <2>6. CASE b < NKey
      <3> DEFINE at == [it EXCEPT !.block = b, !.rows = NoRows]
                 First(d) == [at EXCEPT !.rows = d.result.rows, !.entry = 1,
                                        !.yielded = Append(@, d.result.rows[0].ordinal)]
      <3>1. b \in KeyBlocks /\ ~(b >= NKey)
        BY <2>4, <2>6, KeyBlockNumbers
      <3>2. PICK d \in DecodeKeyBlock(b) :
              \/ IsFailure(d.result) /\ Set(t, Fail(at, d.result))
              \/ ~IsFailure(d.result) /\ Set(t, First(d))
              \/ Set(t, Fail([at EXCEPT !.entry = 1], Transient))
        BY <1>2, <1>7, <2>1, <3>1, Zenon DEF NextKeyBlock
      <3>3. SoundKeyResult(b, d.result)
        BY <1>1, <3>1, DecodeKeyBlockSound
      <3>4. PICK a : a = at
        OBVIOUS
      <3>5. DOMAIN a = IterFields /\ a.yielded = it.yielded /\ a.block = b /\ a.done = it.done
            /\ a.error = it.error
        BY <1>3, <3>4 DEF IterFields
      <3>6. CASE IsFailure(d.result) /\ Set(t, Fail(at, d.result))
        <4>1. PICK x : x = Fail(a, d.result)
          OBVIOUS
        <4>2. x.yielded = it.yielded /\ x.done = TRUE /\ x.error = d.result /\ x.block = b
          BY <3>5, <4>1 DEF IterFields, Fail
        <4>3. KeyIterOK(x)
          BY <1>3, <3>1, <3>3, <3>6, <4>2, KeyIterStops, BlockFails
        <4> QED BY <1>s, <3>4, <3>6, <4>1, <4>3
      <3>7. CASE ~IsFailure(d.result) /\ Set(t, First(d))
        <4>1. PICK x : x = First(d)
          OBVIOUS
        <4>2. /\ d.result.rows = Rows(b) /\ ~FaultyKeyBlock(b)
              /\ Rows(b)[0].ordinal = EntryStart[b] + 0 /\ EntryStart[b] \in Nat
          BY <1>1, <3>1, <3>3, <3>7, GoodBlock, RowsFacts
        <4>3. x = [a EXCEPT !.rows = d.result.rows, !.entry = 1,
                            !.yielded = Append(@, d.result.rows[0].ordinal)]
          BY <3>4, <4>1
        <4>4. /\ x.yielded = Append(it.yielded, EntryStart[b] + 0) /\ ~x.done /\ x.error = NoRows
              /\ x.block = b /\ x.rows = Rows(b) /\ x.entry = 0 + 1
          <5> HIDE DEF at, First
          <5>1. /\ x.yielded = Append(a.yielded, d.result.rows[0].ordinal) /\ x.done = a.done
                /\ x.error = a.error /\ x.block = a.block /\ x.rows = d.result.rows /\ x.entry = 1
            BY <3>5, <4>3 DEF IterFields
          <5> QED BY <2>2, <2>3, <3>5, <4>2, <5>1
        <4>5. 0 \in Nat /\ 0 < EntryCount(b) /\ Len(it.yielded) = EntryStart[b] + 0
          BY <2>3, <3>1, <4>2, KeyLayout
        <4>6. KeyIterOK(x)
          BY <1>3, <3>1, <4>2, <4>4, <4>5, KeyIterYields
        <4> QED BY <1>s, <3>7, <4>1, <4>6
      <3>8. CASE Set(t, Fail([at EXCEPT !.entry = 1], Transient))
        <4>1. PICK x : x = Fail([a EXCEPT !.entry = 1], Transient)
          OBVIOUS
        <4>2. x.yielded = it.yielded /\ x.done = TRUE /\ x.error = Transient
          BY <3>5, <4>1 DEF IterFields, Fail
        <4>3. KeyIterOK(x)
          BY <1>3, <4>2, KeyIterStops, TransientIsFailure
        <4> QED BY <1>s, <3>4, <3>8, <4>1, <4>3
      <3> QED BY <3>2, <3>6, <3>7, <3>8
    <2> QED BY <2>4, <2>5, <2>6
  <1> QED BY <1>6, <1>7

\* The ways a RecordIter goes on: it stops, or it yields the next entry.
LEMMA RecordIterStops ==
    ASSUME NEW it, RecordIterOK(it), NEW x, x.yielded = it.yielded, x.done = TRUE,
           x.pc = "idle", x.error \in Failures,
           x.error.class = "transient" \/ \E b \in KeyBlocks : b <= x.block /\ FaultyKeyBlock(b)
    PROVE  RecordIterOK(x)
  BY FailureShows DEF RecordIterOK, EndOK

LEMMA RecordIterYields ==
    ASSUME file \in Files, NEW it, RecordIterOK(it), NEW o \in Ordinals, Len(it.yielded) = o,
           NEW x, x.yielded = Append(it.yielded, SpanOf(o)), ~x.done, RecordIterAt(x)
    PROVE  RecordIterOK(x)
  <1> DEFINE S == [ordinal : Nat, start : Nat, end : Nat]
  <1>1. PICK y, z : y = it.yielded /\ z = x.yielded
    OBVIOUS
  <1>2. y \in Seq(S) /\ \A k \in DOMAIN y : y[k] = SpanOf(k - 1)
    BY <1>1 DEF RecordIterOK
  <1>3. SpanOf(o) \in S /\ o \in Nat /\ o < NEntries /\ NEntries \in Nat
    BY Offsets, KeyLayout DEF SpanOf
  <1>4. PICK s : s = SpanOf(o)
    OBVIOUS
  <1>5. z = Append(y, s) /\ s \in S /\ Len(y) = o
    BY <1>1, <1>3, <1>4
  <1> HIDE DEF S
  <1>6. /\ z \in Seq(S) /\ Len(z) = o + 1 /\ DOMAIN z = 1..(o + 1) /\ DOMAIN y = 1..o
        /\ \A k \in 1..o : z[k] = y[k]
        /\ z[o + 1] = s
    BY <1>2, <1>3, <1>5, AppendProperties, LenProperties
  <1>7. ASSUME NEW k \in 1..(o + 1) PROVE z[k] = SpanOf(k - 1)
    <2>1. CASE k = o + 1
      <3>1. k - 1 = o
        BY <1>3, <2>1
      <3> QED BY <1>4, <1>6, <2>1, <3>1
    <2>2. CASE k # o + 1
      <3>1. k \in 1..o
        BY <1>3, <2>2
      <3> QED BY <1>2, <1>6, <3>1
    <2> QED BY <2>1, <2>2
  <1>8. Len(z) <= NEntries
    BY <1>3, <1>6
  <1> QED BY <1>1, <1>6, <1>7, <1>8 DEF RecordIterOK, S

\* The descriptor of an entry is not inverted, so that it is yielded.
LEMMA EmitSpan ==
    ASSUME file \in Files, NEW it, DOMAIN it = IterFields, NEW o \in Ordinals,
           NEW row, row = [ordinal |-> o, start |-> StartOf(o)], StartOf(o) <= EndOf(o),
           NEW x, x = Emit(it, row, EndOf(o))
    PROVE  /\ x.yielded = Append(it.yielded, SpanOf(o)) /\ x.done = it.done
           /\ x.pc = it.pc /\ x.block = it.block /\ x.entry = it.entry /\ x.rows = it.rows
           /\ x.pending = it.pending /\ x.error = it.error
  <1>1. StartOf(o) \in Nat /\ EndOf(o) \in Nat
    BY Offsets
  <1>2. row.start = StartOf(o) /\ row.ordinal = o /\ ~(EndOf(o) < row.start)
    BY <1>1
  <1>3. x = [it EXCEPT !.yielded = Append(@, SpanOf(o))]
    BY <1>2 DEF Emit, SpanOf
  <1> QED BY <1>3 DEF IterFields

\* A row of a block that decodes.
LEMMA TakeRowExact ==
    ASSUME file \in Files, NEW it, RecordIterOK(it), ~it.done, DOMAIN it = IterFields,
           it.pc = "idle", it.error = NoRows,
           NEW b \in KeyBlocks, it.block = b, ~IsFailure(OwnKeyResult(b)),
           NEW e \in 0..(EntryCount(b) - 1), it.entry = e,
           Len(it.yielded) = EntryStart[b] + e,
           NEW x, x = TakeRow(it, Rows(b))
    PROVE  RecordIterOK(x)
  <1> DEFINE o == EntryStart[b] + e
  <1>1. /\ EntryStart[b] \in Nat /\ EntryCount(b) \in Nat /\ NKey \in Nat /\ b \in Nat /\ b < NKey
        /\ b + 1 \in 0..NKey
        /\ EntryStart[b + 1] = EntryStart[b] + EntryCount(b)
        /\ DOMAIN Rows(b) = 0..(EntryCount(b) - 1) /\ e \in Nat
    BY KeyLayout, RowsFacts, KeyBlockNumbers
  <1>2. /\ o \in Ordinals /\ Rows(b)[e] = [ordinal |-> o, start |-> StartOf(o)]
        /\ o \in Nat /\ EntryStart[b] <= o /\ o < EntryStart[b + 1]
    BY <1>1, RowsFacts
  <1>3. PICK row : row = Rows(b)[e]
    OBVIOUS
  <1>4. PICK past : past = [it EXCEPT !.block = @ + 1, !.entry = 0, !.rows = NoRows]
    OBVIOUS
  <1>5. /\ DOMAIN past = IterFields /\ past.block = b + 1 /\ past.entry = 0 /\ past.rows = NoRows
        /\ past.pc = "idle" /\ past.yielded = it.yielded /\ past.done = it.done
        /\ past.error = NoRows
    BY <1>4 DEF IterFields
  <1>6. CASE e + 1 \in DOMAIN Rows(b)
    <2>1. PICK a : a = [it EXCEPT !.entry = @ + 1, !.rows = Rows(b)]
      OBVIOUS
    <2>2. /\ DOMAIN a = IterFields /\ a.block = b /\ a.entry = e + 1 /\ a.rows = Rows(b)
          /\ a.pc = "idle" /\ a.yielded = it.yielded /\ a.done = it.done /\ a.error = NoRows
      BY <2>1 DEF IterFields
    <2>3. o + 1 < EntryStart[b + 1] /\ EntryStart[b] + (e + 1) = o + 1
      BY <1>1, <1>6
    <2>4. EndOf(o) = StartOf(o + 1) /\ StartOf(o) <= EndOf(o)
      BY <1>2, <2>3, InnerSpan
    <2>5. Rows(b)[e + 1].start = EndOf(o)
      BY <1>6, <2>3, <2>4, RowsFacts
    <2>6. x = Emit(a, row, EndOf(o))
      BY <1>3, <1>6, <2>1, <2>5 DEF TakeRow
    <2>7. /\ x.yielded = Append(it.yielded, SpanOf(o)) /\ ~x.done
          /\ x.pc = "idle" /\ x.block = b /\ x.entry = e + 1 /\ x.rows = Rows(b)
          /\ x.error = NoRows
      BY <1>2, <1>3, <2>2, <2>4, <2>6, EmitSpan
    <2>8. Len(x.yielded) = EntryStart[b] + (e + 1)
      <3>1. it.yielded \in Seq([ordinal : Nat, start : Nat, end : Nat])
        BY DEF RecordIterOK
      <3>2. Len(Append(it.yielded, SpanOf(o))) = Len(it.yielded) + 1
        BY <3>1, <1>2, Offsets, AppendProperties DEF SpanOf
      <3>3. Len(x.yielded) = Len(it.yielded) + 1
        BY <2>7, <3>2
      <3>4. Len(it.yielded) + 1 = EntryStart[b] + (e + 1)
        BY <1>1
      <3> QED BY <3>3, <3>4
    <2>9. b \in 0..NKey /\ e + 1 \in 1..(EntryCount(b) - 1)
      BY <1>1, <1>6
    <2>10. RecordIterAt(x)
      BY <2>7, <2>8, <2>9 DEF RecordIterAt
    <2> QED BY <1>2, <2>7, <2>10, RecordIterYields
  <1>7. ASSUME e + 1 \notin DOMAIN Rows(b) PROVE o + 1 = EntryStart[b + 1]
    BY <1>1, <1>7
  <1>8. CASE e + 1 \notin DOMAIN Rows(b) /\ b + 1 < NKey
    <2>1. x = [past EXCEPT !.pc = "tail", !.pending = row]
      BY <1>3, <1>4, <1>8 DEF TakeRow
    <2>2. /\ x.pc = "tail" /\ x.pending = row /\ x.block = b + 1 /\ x.entry = 0
          /\ x.rows = NoRows /\ x.yielded = it.yielded /\ ~x.done /\ x.error = NoRows
      BY <1>5, <2>1 DEF IterFields
    <2>3. b + 1 \in KeyBlocks /\ b + 1 > 0 /\ o = EntryStart[b + 1] - 1
      <3>1. b + 1 \in KeyBlocks
        BY <1>1, <1>8, KeyBlockNumbers
      <3>2. o + 1 = EntryStart[b + 1]
        BY <1>7, <1>8
      <3> QED BY <1>1, <3>1, <3>2
    <2>4. RecordIterAt(x)
      BY <1>1, <1>2, <1>3, <2>2, <2>3 DEF RecordIterAt
    <2> QED BY <2>2, <2>4 DEF RecordIterOK
  <1>9. CASE e + 1 \notin DOMAIN Rows(b) /\ ~(b + 1 < NKey)
    <2>1. b + 1 = NKey
      BY <1>1, <1>9
    <2>2. EndOf(o) = TotalLen /\ StartOf(o) <= EndOf(o)
      BY <1>2, <1>7, <1>9, <2>1, LastSpan
    <2>3. x = Emit(past, row, EndOf(o))
      BY <1>3, <1>4, <1>9, <2>2 DEF TakeRow
    <2>4. /\ x.yielded = Append(it.yielded, SpanOf(o)) /\ ~x.done
          /\ x.pc = "idle" /\ x.block = b + 1 /\ x.entry = 0 /\ x.rows = NoRows
          /\ x.error = NoRows
      BY <1>2, <1>3, <1>5, <2>2, <2>3, EmitSpan
    <2>5. Len(x.yielded) = EntryStart[b + 1]
      <3>1. it.yielded \in Seq([ordinal : Nat, start : Nat, end : Nat])
        BY DEF RecordIterOK
      <3>2. Len(Append(it.yielded, SpanOf(o))) = Len(it.yielded) + 1
        BY <3>1, <1>2, Offsets, AppendProperties DEF SpanOf
      <3> QED BY <1>1, <1>7, <1>9, <2>4, <3>2
    <2>6. RecordIterAt(x)
      BY <1>1, <2>4, <2>5 DEF RecordIterAt
    <2> QED BY <1>2, <2>4, <2>6, RecordIterYields
  <1> QED BY <1>6, <1>8, <1>9

LEMMA RecordScanExactSteps ==
    ASSUME ExactInv, NEW t \in RecordScanners, NextRecord(t) \/ TailRecord(t)
    PROVE  ExactInv'
  <1>1. /\ t \in Scanners /\ t \notin KeyScanners /\ StepOK /\ file' = file
        /\ UNCHANGED <<call, result>> /\ CacheInv /\ file \in Files
    BY RecordScanSteps, ReaderAssumption DEF Scanners, NextRecord, TailRecord, ExactInv, CacheInv
  <1>2. PICK it : it = iter[t]
    OBVIOUS
  <1>3. DOMAIN it = IterFields /\ RecordIterOK(it)
    BY <1>1, <1>2 DEF ExactInv, ReaderInv, IterOK
  <1>4. ASSUME NEW x, Set(t, x), RecordIterOK(x) PROVE ExactInv'
    BY <1>1, <1>4, IterEffectKeeps
  <1>5. ASSUME NEW a, DOMAIN a = IterFields, a.yielded = it.yielded, NEW r \in Failures,
               r.class = "transient" \/ \E b \in KeyBlocks : b <= a.block /\ FaultyKeyBlock(b),
               Set(t, Fail(a, r))
        PROVE  ExactInv'
    <2>1. PICK x : x = Fail(a, r)
      OBVIOUS
    <2>2. x.yielded = it.yielded /\ x.done = TRUE /\ x.pc = "idle" /\ x.error = r
          /\ x.block = a.block
      BY <1>5, <2>1 DEF IterFields, Fail
    <2>3. RecordIterOK(x)
      BY <1>3, <1>5, <2>2, RecordIterStops
    <2> QED BY <1>4, <1>5, <2>1, <2>3
  <1>6. ASSUME Set(t, Fail(it, Transient)) PROVE ExactInv'
    BY <1>3, <1>5, <1>6, TransientIsFailure
  <1>7. \A b \in KeyBlocks : Rows(b) # NoRows /\ b \in Nat /\ b < NKey
    BY <1>1, RowsFacts, KeyBlockNumbers
  <1>8. ASSUME NextRecord(t) PROVE ExactInv'
    <2>1. ~it.done /\ it.pc = "idle"
      BY <1>2, <1>8 DEF NextRecord
    <2>2. RecordIterAt(it)
      BY <1>3, <2>1 DEF RecordIterOK
    <2>3. CASE it.rows # NoRows
      <3> DEFINE b == it.block
      <3>1. /\ b \in KeyBlocks /\ it.rows = Rows(b) /\ ~IsFailure(OwnKeyResult(b))
            /\ it.entry \in 1..(EntryCount(b) - 1) /\ it.error = NoRows
            /\ Len(it.yielded) = EntryStart[b] + it.entry
        BY <2>1, <2>2, <2>3 DEF RecordIterAt
      <3>2. it.entry \in 0..(EntryCount(b) - 1)
        BY <3>1, KeyLayout
      <3>3. Set(t, TakeRow(it, it.rows)) \/ Set(t, Fail(it, Transient))
        BY <1>2, <1>8, <2>3 DEF NextRecord
      <3>4. RecordIterOK(TakeRow(it, Rows(b)))
        BY <1>1, <1>3, <2>1, <3>1, <3>2, TakeRowExact
      <3> QED BY <1>4, <1>6, <3>1, <3>3, <3>4
    <2>4. ASSUME it.rows = NoRows
          PROVE  it.block \in 0..NKey /\ it.entry = 0 /\ Len(it.yielded) = EntryStart[it.block]
                 /\ it.error = NoRows
      BY <1>7, <2>1, <2>2, <2>4 DEF RecordIterAt
    <2>5. NKey \in Nat
      BY KeyBlockNumbers
    <2>6. CASE it.rows = NoRows /\ it.block >= NKey
      <3>1. Set(t, [it EXCEPT !.done = TRUE])
        BY <1>2, <1>8, <2>6 DEF NextRecord
      <3>2. PICK x : x = [it EXCEPT !.done = TRUE]
        OBVIOUS
      <3>3. x.yielded = it.yielded /\ x.done = TRUE /\ x.error = NoRows /\ x.pc = "idle"
        BY <1>3, <2>1, <2>4, <2>6, <3>2 DEF IterFields
      <3>4. it.block = NKey
        BY <2>4, <2>5, <2>6
      <3>5. Len(x.yielded) = NEntries
        BY <2>4, <2>6, <3>3, <3>4 DEF NEntries
      <3>6. RecordIterOK(x)
        BY <1>3, <3>3, <3>5 DEF RecordIterOK, EndOK
      <3> QED BY <1>4, <3>1, <3>2, <3>6
    <2>7. CASE it.rows = NoRows /\ ~(it.block >= NKey)
      <3>1. PICK d \in DecodeKeyBlock(it.block) :
              \/ IsFailure(d.result) /\ Set(t, Fail(it, d.result))
              \/ ~IsFailure(d.result) /\ Set(t, TakeRow(it, d.result.rows))
              \/ Set(t, Fail(it, Transient))
        BY <1>2, <1>8, <2>7 DEF NextRecord
      <3> DEFINE b == it.block
      <3>2. b \in KeyBlocks
        BY <2>4, <2>5, <2>7, KeyBlockNumbers
      <3>3. SoundKeyResult(b, d.result)
        BY <1>1, <3>2, DecodeKeyBlockSound
      <3>4. CASE IsFailure(d.result) /\ Set(t, Fail(it, d.result))
        BY <1>3, <1>5, <3>2, <3>3, <3>4, BlockFails
      <3>5. CASE ~IsFailure(d.result) /\ Set(t, TakeRow(it, d.result.rows))
        <4>1. d.result.rows = Rows(b) /\ ~IsFailure(OwnKeyResult(b))
          BY <1>1, <3>2, <3>3, <3>5, GoodBlock
        <4>2. 0 \in 0..(EntryCount(b) - 1) /\ EntryStart[b] = EntryStart[b] + 0
          BY <1>1, <3>2, KeyLayout, RowsFacts
        <4>3. RecordIterOK(TakeRow(it, Rows(b)))
          BY <1>1, <1>3, <2>1, <2>4, <2>7, <3>2, <4>1, <4>2, TakeRowExact
        <4> QED BY <1>4, <3>5, <4>1, <4>3
      <3> QED BY <1>6, <3>1, <3>4, <3>5
    <2> QED BY <2>3, <2>6, <2>7
  <1>9. ASSUME TailRecord(t) PROVE ExactInv'
    <2> DEFINE back == [it EXCEPT !.pc = "idle", !.pending = NoRows]
               b == it.block
    <2>1. it.pc = "tail"
      BY <1>2, <1>9 DEF TailRecord
    <2>2. ~it.done /\ RecordIterAt(it)
      BY <1>3, <2>1 DEF RecordIterOK
    <2>3. /\ it.error = NoRows /\ it.rows = NoRows /\ it.entry = 0 /\ b \in KeyBlocks /\ b > 0
          /\ it.pending = [ordinal |-> EntryStart[b] - 1, start |-> StartOf(EntryStart[b] - 1)]
          /\ Len(it.yielded) = EntryStart[b] - 1 /\ b \in 0..NKey
      BY <2>1, <2>2 DEF RecordIterAt
    <2>4. PICK d \in DecodeKeyBlock(b) :
             Set(t, IF IsFailure(d.result) THEN Fail(back, d.result)
                    ELSE Emit(back, it.pending, d.result.rows[0].start))
      BY <1>2, <1>9 DEF TailRecord
    <2>5. PICK a : a = back
      OBVIOUS
    <2>6. /\ DOMAIN a = IterFields /\ a.yielded = it.yielded /\ a.block = b /\ a.done = it.done
          /\ a.error = NoRows /\ a.rows = NoRows /\ a.entry = 0 /\ a.pc = "idle"
      BY <1>3, <2>3, <2>5 DEF IterFields
    <2>7. SoundKeyResult(b, d.result)
      BY <1>1, <2>3, DecodeKeyBlockSound
    <2>8. CASE IsFailure(d.result)
      <3>1. Set(t, Fail(a, d.result))
        BY <2>4, <2>5, <2>8
      <3>2. /\ d.result \in Failures
            /\ \/ d.result.class = "transient"
               \/ \E j \in KeyBlocks : j <= a.block /\ FaultyKeyBlock(j)
        BY <2>3, <2>6, <2>7, <2>8, BlockFails
      <3> QED BY <1>5, <2>6, <3>1, <3>2
    <2>9. CASE ~IsFailure(d.result)
      <3> DEFINE o == EntryStart[b] - 1
      <3>1. o \in Ordinals /\ o + 1 = EntryStart[b] /\ o \in Nat
        <4>1. EntryStart[b] \in Nat /\ EntryStart[b] + 0 \in Ordinals
          BY <1>1, <2>3, RowsFacts
        <4>2. EntryStart[b] > 0
          <5>1. b - 1 \in KeyBlocks /\ (b - 1) + 1 = b
            <6>1. b \in Nat /\ b < NKey /\ NKey \in Nat
              BY <2>3, KeyBlockNumbers
            <6>2. b - 1 \in Nat /\ b - 1 < NKey /\ (b - 1) + 1 = b
              BY <2>3, <6>1
            <6> QED BY <6>2, KeyBlockNumbers
          <5>2. /\ EntryCount(b - 1) \in Nat /\ EntryCount(b - 1) > 0
                /\ EntryStart[(b - 1) + 1] = EntryStart[b - 1] + EntryCount(b - 1)
            BY <5>1, KeyLayout
          <5>3. EntryStart[b - 1] \in Nat
            BY <1>1, <5>1, RowsFacts
          <5> QED BY <5>1, <5>2, <5>3
        <4> QED BY <4>1, <4>2, KeyLayout DEF Ordinals
      <3>2. EndOf(o) = d.result.rows[0].start /\ StartOf(o) <= EndOf(o)
        BY <1>1, <2>3, <2>7, <2>9, <3>1, BoundarySpan
      <3>3. PICK x : x = Emit(a, it.pending, EndOf(o))
        OBVIOUS
      <3>4. Set(t, x)
        BY <2>4, <2>5, <2>9, <3>2, <3>3
      <3>5. it.pending = [ordinal |-> o, start |-> StartOf(o)]
        BY <2>3
      <3> HIDE DEF o, back
      <3>6. /\ x.yielded = Append(it.yielded, SpanOf(o)) /\ ~x.done
            /\ x.pc = "idle" /\ x.block = b /\ x.entry = 0 /\ x.rows = NoRows
            /\ x.error = NoRows
        <4>1. /\ x.yielded = Append(a.yielded, SpanOf(o)) /\ x.done = a.done
              /\ x.pc = a.pc /\ x.block = a.block /\ x.entry = a.entry /\ x.rows = a.rows
              /\ x.error = a.error
          <5>1. file \in Files /\ DOMAIN a = IterFields /\ o \in Ordinals
                /\ StartOf(o) <= EndOf(o)
            BY <1>1, <2>6, <3>1, <3>2
          <5>2. PICK row : row = it.pending
            OBVIOUS
          <5>3. row = [ordinal |-> o, start |-> StartOf(o)] /\ x = Emit(a, row, EndOf(o))
            BY <3>3, <3>5, <5>2
          <5> QED BY <5>1, <5>3, EmitSpan
        <4> QED BY <2>2, <2>6, <4>1
      <3>7. Len(it.yielded) = o
        BY <2>3 DEF o
      <3>8. Len(x.yielded) = EntryStart[b]
        <4>1. it.yielded \in Seq([ordinal : Nat, start : Nat, end : Nat])
          BY <1>3 DEF RecordIterOK
        <4>2. Len(Append(it.yielded, SpanOf(o))) = Len(it.yielded) + 1
          BY <1>1, <4>1, <3>1, Offsets, AppendProperties DEF SpanOf
        <4> QED BY <3>1, <3>6, <3>7, <4>2
      <3>9. RecordIterAt(x)
        BY <2>3, <3>6, <3>8 DEF RecordIterAt
      <3>10. RecordIterOK(x)
        BY <1>1, <1>3, <3>1, <3>6, <3>7, <3>9, RecordIterYields
      <3> QED BY <1>4, <3>4, <3>10
    <2> QED BY <2>8, <2>9
  <1> QED BY <1>8, <1>9

-----------------------------------------------------------------------------

LEMMA ExactInit == Init => ExactInv
  <1> SUFFICES ASSUME Init PROVE ExactInv
    OBVIOUS
  <1>1. CacheInv /\ ReaderInv
    BY ReaderInit DEF CacheInv, CacheInit, KeyCacheSound, RecordCacheSound
  <1>2. /\ call = [t \in Callers |-> Idle] /\ result = [t \in Callers |-> NoResult]
        /\ iter = [t \in Scanners |-> NewIter]
    BY DEF Init
  <1>3. PendingOK(Idle) /\ ResultOK(NoResult)
    BY DEF PendingOK, Idle, ResultOK
  <1>4. /\ NewIter.error = NoRows /\ NewIter.block = 0 /\ NewIter.entry = 0
        /\ NewIter.rows = NoRows /\ NewIter.yielded = <<>> /\ NewIter.done = FALSE
        /\ NewIter.pc = "idle"
    BY DEF NewIter
  <1>5. /\ EntryStart[0] = 0 /\ 0 \in 0..NKey /\ NEntries \in Nat
        /\ \A b \in KeyBlocks : EntryStart[b] \in Nat
    BY KeyLayout, KeyBlockNumbers
  <1>6. /\ <<>> \in Seq(Nat) /\ <<>> \in Seq([ordinal : Nat, start : Nat, end : Nat])
        /\ Len(<<>>) = 0 /\ DOMAIN <<>> = {}
    OBVIOUS
  <1>7. KeyIterOK(NewIter)
    BY <1>4, <1>5, <1>6 DEF KeyIterOK, KeyIterAt
  <1>8. RecordIterOK(NewIter)
    BY <1>4, <1>5, <1>6 DEF RecordIterOK, RecordIterAt
  <1> QED BY <1>1, <1>2, <1>3, <1>7, <1>8 DEF ExactInv, Scanners

LEMMA ExactStep == ExactInv /\ [Next]_vars => ExactInv'
  <1> SUFFICES ASSUME ExactInv, [Next]_vars PROVE ExactInv'
    OBVIOUS
  <1>1. ASSUME NEW t \in Readers, NEW o \in Ordinals,
               KeyAt(t, o) \/ OpenEntry(t, "read", o) \/ OpenEntry(t, "copy", o)
        PROVE  ExactInv'
    BY <1>1, KeyAtExact, OpenEntryExact
  <1>2. ASSUME NEW t \in Readers, FindEnd(t) \/ VisitBlock(t) PROVE ExactInv'
    BY <1>2, FindEndExact, VisitBlockExact
  <1>3. ASSUME NEW t \in Batchers,
               (\E input \in Batches : StartBatch(t, input)) \/ BatchBlock(t) \/ EndBatch(t)
        PROVE  ExactInv'
    BY <1>3, BatchExactSteps
  <1>4. ASSUME NEW t \in KeyScanners, NextHeldKey(t) \/ NextKeyBlock(t) PROVE ExactInv'
    BY <1>4, KeyScanExactSteps
  <1>5. ASSUME NEW t \in RecordScanners, NextRecord(t) \/ TailRecord(t) PROVE ExactInv'
    BY <1>5, RecordScanExactSteps
  <1>6. CASE UNCHANGED vars
    <2>1. UNCHANGED <<file, keyCache, recordCache, call, result, iter>>
      BY <1>6 DEF vars, caches
    <2>2. StepOK
      BY <2>1 DEF cacheVars, StepOK, ExactInv, ReaderInv, CallOK, IterOK
    <2>3. CacheInv' /\ ReaderInv'
      BY <2>2, CacheStep DEF ExactInv, StepOK, cacheVars
    <2>4. \A t \in Callers : PendingOK(call[t])' /\ ResultOK(result[t])'
      BY <2>1, FileKept DEF ExactInv
    <2>5. (\A t \in KeyScanners : KeyIterOK(iter[t])')
          /\ (\A t \in RecordScanners : RecordIterOK(iter[t])')
      BY <2>1, FileKept DEF ExactInv
    <2> QED BY <2>1, <2>3, <2>4, <2>5 DEF ExactInv
  <1> QED BY <1>1, <1>2, <1>3, <1>4, <1>5, <1>6 DEF Next

LEMMA ExactAlways == Spec => []ExactInv
  BY ExactInit, ExactStep, PTL DEF Spec

\* Tags and operations tell the results apart.
LEMMA ResultKinds ==
    ASSUME NEW r, ResultOK(r)
    PROVE  /\ r.op = "key" => KeyResultOK(r)
           /\ r.op \in {"read", "copy"} => EntryResultOK(r)
           /\ r.op = "batch" => BatchResultOK(r)
           /\ r.op # "none" => r.op \in {"key", "read", "copy", "batch"}
  BY DEF ResultOK, NoResult

\* Every read of a key by ordinal, every record read or streamed, and every prefix
\* handed on so far, is that of the entry asked for: whatever the other threads do to
\* the two slots between the critical sections of the call.
THEOREM ReadsAreExact == Spec => []EntryExact
  <1>1. ExactInv => EntryExact
    <2> SUFFICES ASSUME ExactInv, NEW t \in Readers
        PROVE  LET r == result[t] IN
               /\ r.op = "key" /\ r.outcome.tag = "ok" => r.outcome.key = r.ordinal
               /\ r.op \in {"read", "copy"} =>
                     /\ IsStretch(r.out, r.ordinal)
                     /\ r.outcome.tag = "ok" => Len(r.out) = EndOf(r.ordinal) - StartOf(r.ordinal)
               /\ call[t].pc = "span" =>
                     /\ IsStretch(call[t].out, call[t].ordinal)
                     /\ call[t].cursor = StartOf(call[t].ordinal) + Len(call[t].out)
      BY DEF EntryExact
    <2>1. PendingOK(call[t]) /\ ResultOK(result[t])
      BY DEF ExactInv, Callers
    <2>2. PICK r : r = result[t]
      OBVIOUS
    <2>3. r.op = "key" /\ r.outcome.tag = "ok" => r.outcome.key = r.ordinal
      BY <2>1, <2>2, ResultKinds DEF KeyResultOK, FailedWith
    <2>4. r.op \in {"read", "copy"} =>
             /\ IsStretch(r.out, r.ordinal)
             /\ r.outcome.tag = "ok" => Len(r.out) = EndOf(r.ordinal) - StartOf(r.ordinal)
      BY <2>1, <2>2, ResultKinds DEF EntryResultOK, FailedWith
    <2>5. call[t].pc = "span" => SpanPending(call[t])
      BY <2>1 DEF PendingOK
    <2> QED BY <2>2, <2>3, <2>4, <2>5 DEF SpanPending
  <1> QED BY ExactAlways, <1>1, PTL

\* keys_at_ordinals answers each position with its own key, for any input.
THEOREM BatchesAreExact == Spec => []BatchExact
  <1>1. ExactInv => BatchExact
    <2> SUFFICES ASSUME ExactInv, NEW t \in Batchers, result[t].op = "batch",
                        result[t].outcome.tag = "ok", NEW k \in DOMAIN result[t].input
        PROVE  result[t].outcome.got[k] =
                  IF result[t].input[k] < NEntries THEN result[t].input[k] ELSE None
      BY DEF BatchExact
    <2>1. BatchResultOK(result[t])
      BY ResultKinds DEF ExactInv, Callers
    <2> QED BY <2>1 DEF BatchResultOK, FailedWith
  <1> QED BY ExactAlways, <1>1, PTL

\* A KeyIter yields every key in order, stops at the first faulty block, and ends
\* without an error only when it has seen them all.
THEOREM KeyScansAreExact == Spec => []KeyScanExact
  <1>1. ExactInv => KeyScanExact
    <2> SUFFICES ASSUME ExactInv, NEW t \in KeyScanners
        PROVE  LET y == iter[t].yielded IN
               /\ \A k \in DOMAIN y : y[k] = k - 1
               /\ \A b \in KeyBlocks : Len(y) > EntryStart[b] => ~FaultyKeyBlock(b)
               /\ iter[t].done /\ iter[t].error = NoRows => Len(y) = NEntries
               /\ ErrorHasCause(t)
      BY DEF KeyScanExact
    <2>1. KeyIterOK(iter[t])
      BY DEF ExactInv
    <2>2. iter[t].error # NoRows => iter[t].done
      BY <2>1 DEF KeyIterOK, KeyIterAt
    <2>3. iter[t].done => EndOK(iter[t])
      BY <2>1 DEF KeyIterOK
    <2>4. ErrorHasCause(t)
      BY <2>2, <2>3 DEF EndOK, ErrorHasCause
    <2>5. iter[t].done /\ iter[t].error = NoRows => Len(iter[t].yielded) = NEntries
      BY <2>3 DEF EndOK
    <2> QED BY <2>1, <2>4, <2>5 DEF KeyIterOK
  <1> QED BY ExactAlways, <1>1, PTL

\* The spans a RecordIter yields are those of the entries and tile the stream, although
\* the end of a block's last record comes from a later critical section.
THEOREM RecordScansAreExact == Spec => []RecordScanExact
  <1>1. ExactInv => RecordScanExact
    <2> SUFFICES ASSUME ExactInv, NEW t \in RecordScanners
        PROVE  LET y == iter[t].yielded IN
               /\ \A k \in DOMAIN y :
                     y[k] = [ordinal |-> k - 1, start |-> StartOf(k - 1), end |-> EndOf(k - 1)]
               /\ \A k \in DOMAIN y : k > 1 => y[k - 1].end = y[k].start
               /\ iter[t].done /\ iter[t].error = NoRows => Len(y) = NEntries
               /\ ErrorHasCause(t)
      BY DEF RecordScanExact
    <2>1. RecordIterOK(iter[t])
      BY DEF ExactInv
    <2>2. iter[t].error # NoRows => iter[t].done
      BY <2>1 DEF RecordIterOK, RecordIterAt
    <2>3. iter[t].done => EndOK(iter[t])
      BY <2>1 DEF RecordIterOK
    <2>4. ErrorHasCause(t)
      BY <2>2, <2>3 DEF EndOK, ErrorHasCause
    <2>5. iter[t].done /\ iter[t].error = NoRows => Len(iter[t].yielded) = NEntries
      BY <2>3 DEF EndOK
    <2>6. PICK y : y = iter[t].yielded
      OBVIOUS
    <2>7. \A k \in DOMAIN y : y[k] = SpanOf(k - 1)
      BY <2>1, <2>6 DEF RecordIterOK
    <2>8. ASSUME NEW k \in DOMAIN y, k > 1 PROVE y[k - 1].end = y[k].start
      <3>1. /\ y \in Seq([ordinal : Nat, start : Nat, end : Nat]) /\ Len(y) <= NEntries
            /\ DOMAIN y = 1..Len(y) /\ Len(y) \in Nat /\ NEntries \in Nat
        BY <2>1, <2>6, LenProperties, KeyLayout DEF RecordIterOK
      <3>2. k - 1 \in DOMAIN y /\ ((k - 1) - 1) + 1 = k - 1 /\ k - 1 < NEntries
        BY <2>8, <3>1
      <3>3. EndOf((k - 1) - 1) = StartOf(k - 1)
        BY <3>2 DEF EndOf, StartOf
      <3>4. y[k - 1] = SpanOf((k - 1) - 1) /\ y[k] = SpanOf(k - 1)
        BY <2>7, <2>8, <3>2
      <3> QED BY <3>3, <3>4 DEF SpanOf
    <2> QED BY <2>4, <2>5, <2>6, <2>7, <2>8 DEF SpanOf
  <1> QED BY ExactAlways, <1>1, PTL

\* The defensive errors of the reads (an offset that no record block covers, an inverted
\* span, a slice out of range, a round without progress) cannot occur, however damaged
\* the file.
THEOREM InternalErrorsUnreachable == Spec => []NoInternalError
  <1>1. ExactInv => NoInternalError
    <2> SUFFICES ASSUME ExactInv, NEW t \in Callers, result[t].op # "none",
                        result[t].outcome.tag = "failed"
        PROVE  result[t].outcome.class # "internal"
      BY DEF NoInternalError, Outcomes
    <2>1. PICK r : r = result[t]
      OBVIOUS
    <2>2. ResultOK(r)
      BY <2>1 DEF ExactInv
    <2>3. \E cause : FailedWith(r.outcome, cause)
      BY <2>1, <2>2, ResultKinds DEF KeyResultOK, EntryResultOK, BatchResultOK
    <2> QED BY <2>1, <2>3 DEF FailedWith
  <1> QED BY ExactAlways, <1>1, PTL

\* A deterministic failure of a read is the fault of a block the read needs.
THEOREM FailuresHaveACause == Spec => []FailureHasCause
  <1>1. ExactInv => FailureHasCause
    <2> SUFFICES ASSUME ExactInv, NEW t \in Readers, result[t].op \in {"key", "read", "copy"},
                        result[t].outcome.tag = "failed",
                        result[t].outcome.class \in {"format", "data"}
        PROVE  LET r == result[t] IN
               \/ \E b \in KeyBlocks : b <= FindKeyBlock(r.ordinal) + 1 /\ FaultyKeyBlock(b)
               \/ /\ r.op # "key"
                  /\ \E i \in RecordBlocks :
                        /\ file.recordFault[i] # "none"
                        /\ StartOf(r.ordinal) < DecompOffset[i + 1]
                        /\ DecompOffset[i] < EndOf(r.ordinal)
      BY DEF FailureHasCause
    <2>1. PICK r : r = result[t]
      OBVIOUS
    <2>2. ResultOK(r)
      BY <2>1 DEF ExactInv, Callers
    <2>3. CASE r.op = "key"
      <3>1. KeyCause(r.ordinal)
        BY <2>1, <2>2, <2>3, ResultKinds DEF KeyResultOK, FailedWith
      <3> QED BY <2>1, <3>1 DEF KeyCause
    <2>4. CASE r.op \in {"read", "copy"}
      <3>1. KeyCause(r.ordinal) \/ RecordCause(r.ordinal)
        BY <2>1, <2>2, <2>4, ResultKinds DEF EntryResultOK, FailedWith
      <3> QED BY <2>1, <2>4, <3>1 DEF KeyCause, RecordCause
    <2> QED BY <2>1, <2>3, <2>4
  <1> QED BY ExactAlways, <1>1, PTL

=============================================================================
