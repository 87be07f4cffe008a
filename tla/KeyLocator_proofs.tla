------------------------- MODULE KeyLocator_proofs --------------------------
(***************************************************************************)
(* The double-checked construction of the key locator, for any number of   *)
(* callers, any file and any limits: it is single-flight, what is          *)
(* published stays, and it implements OnceValue.                           *)
(*                                                                         *)
(* For the refinement LocatorInv says of a build under way that its rows   *)
(* are those of the blocks before block[t] and that none of these blocks   *)
(* stops a build (Stops).  Whatever the next block gives is then decided   *)
(* by the file and the limits: DecodeKeyBlockSound says of a failure that  *)
(* it is the one of a faulty block at or before this one, and of those     *)
(* before it none is faulty.                                               *)
(*                                                                         *)
(* The second part is about lookup in the published locator (Lookup), for  *)
(* any dictionary, header, query, window, digest and lower-case table.     *)
(* A list of rows in a strict order is the only one of its rows, so what a *)
(* call has to return is decided by which rows match; the parts of the     *)
(* search are then shown to find these rows: partition points of           *)
(* beginnings of the order, equal ranges, filters, and windows of two      *)
(* groups.  ServedInv says that the locator is that of the dictionary and  *)
(* that the last answer was the right one.                                 *)
(***************************************************************************)
EXTENDS KeyLocator, Lookup, BlockCache_proofs, FiniteSetTheorems, SequenceTheorems

\* The inductive invariant: who builds holds the mutex and the OnceLock is empty
\* (so the mutex excludes a second builder), and only a builder holds rows.
BuildInv ==
    /\ pc \in [Callers -> {"idle", "wait", "build"}]
    /\ DOMAIN built = Callers
    /\ \A t \in Callers : pc[t] = "build" => lock = t /\ locator = Unset
    /\ \A t \in Callers : pc[t] # "build" => built[t] = <<>>

\* A lookup that ends without a build, or before it.
Leaves(t) ==
    /\ pc' = [pc EXCEPT ![t] = "idle"]
    /\ UNCHANGED <<lock, locator, built>>

\* A build that ends, published or not.
Finishes(t) ==
    /\ pc[t] = "build"
    /\ pc' = [pc EXCEPT ![t] = "idle"]
    /\ lock' = NoOne
    /\ built' = [built EXCEPT ![t] = <<>>]

-----------------------------------------------------------------------------

LEMMA BuildInit == Init => BuildInv
  BY DEF Init, BuildInv

LEMMA LeavesKeeps ==
    ASSUME BuildInv, NEW t \in Callers, pc[t] # "build", Leaves(t)
    PROVE  BuildInv'
  BY DEF BuildInv, Leaves

\* When the builder is done nobody builds: anyone who did would hold the mutex.
LEMMA FinishesKeeps ==
    ASSUME BuildInv, NEW t \in Callers, Finishes(t)
    PROVE  BuildInv'
  <1>1. \A u \in Callers : u # t => pc[u] # "build"
    BY DEF BuildInv, Finishes
  <1>2. \A u \in Callers : pc'[u] # "build" /\ built'[u] = <<>>
    BY <1>1 DEF BuildInv, Finishes
  <1> QED BY <1>2 DEF BuildInv, Finishes

LEMMA BuildFailedFinishes ==
    ASSUME NEW t, pc[t] = "build", NEW r, BuildFailed(t, r)
    PROVE  Finishes(t)
  BY DEF BuildFailed, Answer, Finishes

LEMMA FastPathKeeps ==
    ASSUME BuildInv, NEW t \in Callers, FastPath(t)
    PROVE  BuildInv'
  <1>1. pc[t] # "build" /\ Leaves(t)
    BY DEF FastPath, Answer, Leaves
  <1> QED BY <1>1, LeavesKeeps

LEMMA SlowPathKeeps ==
    ASSUME BuildInv, NEW t \in Callers, SlowPath(t)
    PROVE  BuildInv'
  BY DEF BuildInv, SlowPath

\* The second look under the mutex: a free mutex means that nobody builds.
LEMMA AcquireKeeps ==
    ASSUME BuildInv, NEW t \in Callers, Acquire(t)
    PROVE  BuildInv'
  <1>1. CASE locator # Unset
    <2>1. pc[t] # "build" /\ Leaves(t)
      BY <1>1 DEF Acquire, Answer, Leaves
    <2> QED BY <2>1, LeavesKeeps
  <1>2. CASE locator = Unset
    <2>1. /\ lock = NoOne /\ lock' = t /\ locator' = Unset
          /\ pc' = [pc EXCEPT ![t] = "build"]
          /\ built' = [built EXCEPT ![t] = <<>>]
      BY <1>2 DEF Acquire
    <2>2. \A u \in Callers : pc[u] # "build"
      BY <2>1, LocatorAssumption DEF BuildInv
    <2> QED BY <2>1, <2>2 DEF BuildInv
  <1> QED BY <1>1, <1>2

LEMMA BuildRefusedKeeps ==
    ASSUME BuildInv, NEW t \in Callers, BuildRefused(t)
    PROVE  BuildInv'
  <1>1. Finishes(t)
    BY BuildFailedFinishes DEF BuildRefused
  <1> QED BY <1>1, FinishesKeeps

LEMMA BuildBlockKeeps ==
    ASSUME BuildInv, NEW t \in Callers, BuildBlock(t)
    PROVE  BuildInv'
  <1>1. pc[t] = "build"
    BY DEF BuildBlock
  <1>2. \/ \E r : BuildFailed(t, r)
        \/ /\ \E rows : built' = [built EXCEPT ![t] = rows]
           /\ UNCHANGED <<locator, lock, pc>>
    BY Zenon DEF BuildBlock
  <1>3. CASE \E r : BuildFailed(t, r)
    BY <1>1, <1>3, BuildFailedFinishes, FinishesKeeps
  <1>4. CASE /\ \E rows : built' = [built EXCEPT ![t] = rows]
             /\ UNCHANGED <<locator, lock, pc>>
    BY <1>1, <1>4 DEF BuildInv
  <1> QED BY <1>2, <1>3, <1>4

LEMMA PublishLocatorKeeps ==
    ASSUME BuildInv, NEW t \in Callers, PublishLocator(t)
    PROVE  BuildInv'
  <1>1. pc[t] = "build"
    BY DEF PublishLocator
  <1>2. Finishes(t)
    BY <1>1, BuildFailedFinishes DEF PublishLocator, Answer, Finishes
  <1> QED BY <1>2, FinishesKeeps

LEMMA BuildStep == BuildInv /\ [Next]_vars => BuildInv'
  <1> SUFFICES ASSUME BuildInv, [Next]_vars PROVE BuildInv'
    OBVIOUS
  <1>1. ASSUME NEW t \in Callers, CallerStep(t) PROVE BuildInv'
    BY <1>1, FastPathKeeps, SlowPathKeeps, AcquireKeeps, BuildRefusedKeeps, BuildBlockKeeps,
       PublishLocatorKeeps DEF CallerStep
  <1>2. ASSUME NEW b \in KeyBlocks, OtherReader(b) PROVE BuildInv'
    BY <1>2 DEF OtherReader, BuildInv
  <1>3. CASE UNCHANGED vars
    BY <1>3 DEF vars, BuildInv
  <1> QED BY <1>1, <1>2, <1>3 DEF Next

\* key_locator never builds twice at a time, nor once the OnceLock is set, and no
\* one but the holder of locator_build holds rows of a build.
THEOREM BuildIsSingleFlight == Spec => []SingleFlight
  <1>1. BuildInv => SingleFlight
    BY DEF BuildInv, SingleFlight
  <1> QED BY BuildInit, BuildStep, <1>1, PTL DEF Spec

\* A published locator or failure is final: no step of any thread replaces it,
\* since whoever could publish found the OnceLock empty under the mutex.
THEOREM PublishedIsFinal == Spec => [][locator # Unset => UNCHANGED locator]_vars
  <1>1. BuildInv /\ [Next]_vars => [locator # Unset => UNCHANGED locator]_vars
    <2> SUFFICES ASSUME BuildInv, Next, locator # Unset PROVE UNCHANGED locator
      OBVIOUS
    <2>1. \A t \in Callers : pc[t] # "build"
      BY DEF BuildInv
    <2>2. ASSUME NEW t \in Callers, CallerStep(t) PROVE UNCHANGED locator
      BY <2>1, <2>2 DEF CallerStep, FastPath, SlowPath, Acquire, BuildRefused, BuildBlock,
                        PublishLocator
    <2> QED BY <2>2 DEF Next, OtherReader
  <1> QED BY BuildInit, BuildStep, <1>1, PTL DEF Spec

-----------------------------------------------------------------------------

\* The blocks that end every build: at fault, or too much text.
Stops ==
    {b \in KeyBlocks : \/ FaultyKeyBlock(b)
                       \/ FixedBytes + TextBytes[EntryStart[b + 1]] > TextCeiling}

RowOf(o) == [ordinal |-> o, start |-> file.start[o]]

\* The rows of the blocks before block b.
RowsBefore(b) == [k \in 1..EntryStart[b] |-> RowOf(k - 1)]

\* What a build under way has established.
BuildSound(t) ==
    /\ block[t] # 0 => ~TooLarge
    /\ \A c \in 0..(block[t] - 1) : c \notin Stops
    /\ built[t] = RowsBefore(block[t])

LocatorInv ==
    /\ BuildInv /\ CacheInv
    /\ limits \in LimitChoices
    /\ verdict = Verdict
    /\ block \in [Callers -> 0..NKey]
    /\ \A t \in Callers : pc[t] = "build" => BuildSound(t)

\* The lengths of the keys, as the sizes of which TextBytes are the running totals.
KeyLens == [i \in 1..NEntries |-> NormLen[i - 1]]

LEMMA KeyLensAreNumbers == KeyLens \in Seq(Nat) /\ Len(KeyLens) = NEntries
  <1>1. NEntries \in Nat
    BY KeyLayout
  <1>2. \A i \in 1..NEntries : i - 1 \in Ordinals
    BY <1>1 DEF Ordinals
  <1>3. \A i \in 1..NEntries : NormLen[i - 1] \in Nat
    BY <1>2, LocatorAssumption
  <1> QED BY <1>1, <1>3 DEF KeyLens

LEMMA TextBytesAreTotals == Totals(TextBytes, KeyLens, NEntries)
  <1>1. PICK g : Totals(g, KeyLens, NEntries)
    BY KeyLayout, TotalsExist
  <1>2. NEntries \in Nat
    BY KeyLayout
  <1>3. \A f : Totals(f, KeyLens, NEntries)
                 <=> f = [n \in 0..NEntries |-> IF n = 0 THEN 0 ELSE f[n - 1] + NormLen[n - 1]]
    <2> TAKE f
    <2>1. \A n \in 0..NEntries : n # 0 => KeyLens[n] = NormLen[n - 1]
      BY <1>2 DEF KeyLens
    <2>2. [i \in 0..NEntries |-> IF i = 0 THEN 0 ELSE f[i - 1] + KeyLens[i]]
            = [n \in 0..NEntries |-> IF n = 0 THEN 0 ELSE f[n - 1] + NormLen[n - 1]]
      BY <2>1
    <2> QED BY <2>2, Zenon DEF Totals
  <1>4. \E f : f = [n \in 0..NEntries |-> IF n = 0 THEN 0 ELSE f[n - 1] + NormLen[n - 1]]
    BY <1>1, <1>3
  <1>5. TextBytes = [n \in 0..NEntries |->
                        IF n = 0 THEN 0 ELSE TextBytes[n - 1] + NormLen[n - 1]]
    BY <1>4, Zenon DEF TextBytes
  <1> QED BY <1>3, <1>5

\* More keys have no less text.
LEMMA TextGrows ==
    ASSUME NEW i \in 0..NEntries, NEW j \in 0..NEntries, i <= j
    PROVE  TextBytes[i] \in Nat /\ TextBytes[j] \in Nat /\ TextBytes[i] <= TextBytes[j]
  <1>1. Totals(TextBytes, KeyLens, Len(KeyLens)) /\ KeyLens \in Seq(Nat) /\ Len(KeyLens) = NEntries
    BY TextBytesAreTotals, KeyLensAreNumbers
  <1>2. TextBytes \in [0..NEntries -> Nat]
    BY <1>1, TotalsStep
  <1>3. TextBytes[i] <= TextBytes[j]
    BY <1>1, TotalsMonotone
  <1> QED BY <1>2, <1>3

\* Sizes the locator is checked by.
LEMMA SizesAreNumbers ==
    ASSUME limits \in LimitChoices
    PROVE  FixedBytes \in Nat /\ limits.bytes \in Nat /\ limits.entries \in Nat
           /\ TextCeiling \in Nat
  <1>1. limits.bytes \in Nat /\ limits.entries \in Nat /\ limits.width \in Nat
    BY LocatorAssumption
  <1>2. FixedBytes \in Nat
    BY KeyLayout DEF FixedBytes
  <1> QED BY <1>1, <1>2 DEF TextCeiling

\* The verdict of a build that is stopped by block b and by none before it.
LEMMA StopDecides ==
    ASSUME ~TooLarge, NEW b \in Stops, \A c \in 0..(b - 1) : c \notin Stops
    PROVE  Verdict = IF FaultyKeyBlock(b) THEN BlockFailure(b) ELSE TextFailure
  <1>1. Stops \subseteq KeyBlocks /\ \A c \in KeyBlocks : c \in Int /\ 0 <= c
    BY BlockNumbers DEF Stops
  <1>2. \A c \in Stops : b <= c
    <2> SUFFICES ASSUME NEW c \in Stops, ~(b <= c) PROVE FALSE
      OBVIOUS
    <2>1. c \in 0..(b - 1)
      BY <1>1
    <2> QED BY <2>1
  <1>3. (CHOOSE x \in Stops : \A c \in Stops : x <= c) = b
    <2>1. \A x \in Stops : (\A c \in Stops : x <= c) => x = b
      BY <1>1, <1>2
    <2> HIDE DEF Stops
    <2> QED BY <1>2, <2>1
  <1>4. Stops # {}
    OBVIOUS
  <1> DEFINE first == CHOOSE x \in Stops : \A c \in Stops : x <= c
  <1>5. Verdict = IF TooLarge THEN LimitFailure
                  ELSE IF Stops = {} THEN Complete
                  ELSE IF ~FaultyKeyBlock(first) THEN TextFailure
                  ELSE BlockFailure(first)
    BY Zenon DEF Verdict, Stops
  <1> HIDE DEF first, Stops
  <1>6. first = b
    BY <1>3 DEF first
  <1> QED BY <1>4, <1>5, <1>6

\* The verdict of a build that no block stops.
LEMMA NoStopDecides ==
    ASSUME ~TooLarge, Stops = {}
    PROVE  Verdict = Complete
  BY Zenon DEF Verdict, Stops

-----------------------------------------------------------------------------

\* The rows of block b behind those of the blocks before it.
LEMMA RowsJoin ==
    ASSUME NEW b \in KeyBlocks
    PROVE  /\ RowsBefore(b) \o [k \in 1..EntryCount(b) |-> Rows(b)[k - 1]] = RowsBefore(b + 1)
           /\ Len(RowsBefore(b)) = EntryStart[b] /\ Len(RowsBefore(b + 1)) = EntryStart[b + 1]
  <1> DEFINE m == EntryStart[b]
             n == EntryCount(b)
             next == [k \in 1..n |-> Rows(b)[k - 1]]
  <1>1. m \in Nat /\ n \in Nat /\ EntryStart[b + 1] = m + n
    <2>1. b \in 0..NKey
      BY BlockNumbers DEF KeyBlocks
    <2> QED BY <2>1, KeyLayout
  <1>2. \A k \in 1..n : next[k] = RowOf(m + (k - 1))
    <2>1. \A k \in 1..n : k - 1 \in 0..(n - 1)
      BY <1>1
    <2> QED BY <2>1 DEF Rows, RowOf
  <1> HIDE DEF m, n, next
  <1>3. RowsBefore(b) = [k \in 1..m |-> RowOf(k - 1)]
    BY DEF RowsBefore, m
  <1>4. RowsBefore(b + 1) = [k \in 1..(m + n) |-> RowOf(k - 1)]
    BY <1>1 DEF RowsBefore
  <1>5. next = [k \in 1..n |-> RowOf(m + (k - 1))]
    <2>1. next = [k \in 1..n |-> next[k]]
      BY DEF next
    <2> QED BY <1>2, <2>1
  <1>6. Len(RowsBefore(b)) = m /\ Len(next) = n /\ Len(RowsBefore(b + 1)) = m + n
    BY <1>1, <1>3, <1>4, <1>5
  <1>7. RowsBefore(b) \o next = [k \in 1..(m + n) |-> IF k <= m THEN RowsBefore(b)[k] ELSE next[k - m]]
    <2> DEFINE S == {RowOf(o) : o \in Nat}
    <2>1. (\A k \in 1..m : RowOf(k - 1) \in S) /\ (\A k \in 1..n : RowOf(m + (k - 1)) \in S)
      BY <1>1
    <2> HIDE DEF S
    <2>2. RowsBefore(b) \in Seq(S)
      BY <1>1, <1>3, <2>1
    <2>3. next \in Seq(S)
      BY <1>1, <1>5, <2>1
    <2> HIDE DEF RowsBefore, next
    <2>4. /\ RowsBefore(b) \o next \in Seq(S)
          /\ Len(RowsBefore(b) \o next) = m + n
          /\ \A k \in 1..(m + n) : (RowsBefore(b) \o next)[k]
                                       = IF k <= m THEN RowsBefore(b)[k] ELSE next[k - m]
      BY <1>6, <2>2, <2>3, ConcatProperties
    <2> DEFINE all == RowsBefore(b) \o next
    <2> HIDE DEF all
    <2>5. all \in Seq(S) /\ Len(all) = m + n
      BY <2>4 DEF all
    <2>6. all = [k \in 1..(m + n) |-> all[k]]
      BY <2>5
    <2> QED BY <2>4, <2>6 DEF all
  <1>8. \A k \in 1..(m + n) :
           (IF k <= m THEN RowsBefore(b)[k] ELSE next[k - m]) = RowOf(k - 1)
    <2> SUFFICES ASSUME NEW k \in 1..(m + n)
                 PROVE  (IF k <= m THEN RowsBefore(b)[k] ELSE next[k - m]) = RowOf(k - 1)
      OBVIOUS
    <2>1. CASE k <= m
      <3>1. k \in 1..m
        BY <1>1, <2>1
      <3> QED BY <1>3, <2>1, <3>1
    <2>2. CASE ~(k <= m)
      <3>1. k - m \in 1..n /\ m + ((k - m) - 1) = k - 1
        BY <1>1, <2>2
      <3> QED BY <1>2, <2>2, <3>1
    <2> QED BY <2>1, <2>2
  <1>9. RowsBefore(b) \o next = RowsBefore(b + 1)
    BY <1>4, <1>7, <1>8
  <1> QED BY <1>1, <1>6, <1>9 DEF m, n, next

\* The rows of a block that was accepted pass the build's own checks of the offsets.
LEMMA RowsInOrder ==
    ASSUME file \in Files, NEW b \in KeyBlocks, SoundKeyResult(b, OwnKeyResult(b)),
           ~IsFailure(OwnKeyResult(b)), NEW k \in (EntryStart[b] + 1)..EntryStart[b + 1]
    PROVE  /\ ~(file.start[k - 1] > TotalLen)
           /\ k > 1 => ~(file.start[k - 2] > file.start[k - 1])
  <1> DEFINE m == EntryStart[b]
             n == EntryCount(b)
             e == (k - 1) - m
  <1>1. m \in Nat /\ n \in Nat /\ EntryStart[b + 1] = m + n /\ n > 0 /\ m + n <= NEntries /\ NEntries \in Nat
    <2>1. b \in 0..NKey
      BY BlockNumbers DEF KeyBlocks
    <2> QED BY <2>1, KeyLayout
  <1>2. e \in 0..(n - 1) /\ m + e = k - 1
    BY <1>1
  <1>3. RowsValid(b) /\ OwnKeyResult(b).rows = Rows(b) /\ OwnKeyResult(b) # BlockFailure(b)
    BY DEF OwnKeyResult, Failed, IsFailure, BlockFailure
  <1>4. \A i \in 0..(n - 1) : Rows(b)[i].start = file.start[m + i]
    BY DEF Rows
  <1>5. file.start \in [Ordinals -> Nat] /\ TotalLen \in Nat
    BY LayoutAssumption, RecordLayout
  <1>6. DOMAIN Rows(b) = 0..(n - 1)
    BY DEF Rows
  <1> HIDE DEF m, n, e
  <1>7. file.start[k - 1] <= TotalLen /\ k - 1 \in Ordinals
    <2>1. Rows(b)[e].start <= TotalLen
      BY <1>2, <1>3, <1>6 DEF RowsValid
    <2>2. k - 1 \in Ordinals
      BY <1>1, <1>2 DEF Ordinals
    <2> QED BY <1>2, <1>4, <2>1, <2>2
  <1>8. ASSUME k > 1 PROVE ~(file.start[k - 2] > file.start[k - 1])
    <2>0. k - 2 \in Ordinals
      BY <1>1, <1>2, <1>8 DEF Ordinals
    <2>1. CASE e > 0
      <3>1. Rows(b)[e - 1].start <= Rows(b)[e].start
        BY <1>2, <1>3, <1>6, <2>1 DEF RowsValid
      <3>2. e - 1 \in 0..(n - 1) /\ m + (e - 1) = k - 2
        BY <1>1, <1>2, <2>1
      <3>3. file.start[k - 2] <= file.start[k - 1]
        BY <1>2, <1>4, <3>1, <3>2
      <3> QED BY <1>5, <1>7, <2>0, <3>3
    <2>2. CASE e = 0
      <3>1. m = k - 1 /\ m > 0
        BY <1>1, <1>2, <1>8, <2>2
      <3>2. b # 0
        BY <3>1, KeyLayout DEF m
      <3>3. b - 1 \in KeyBlocks /\ b > 0 /\ (b - 1) + 1 = b
        BY <3>2, BlockNumbers
      <3>4. /\ EntryCount(b - 1) \in Nat /\ EntryCount(b - 1) > 0 /\ EntryStart[b - 1] \in Nat
            /\ m = EntryStart[b - 1] + EntryCount(b - 1)
        <4>1. b - 1 \in 0..NKey
          BY <3>3, BlockNumbers DEF KeyBlocks
        <4> QED BY <3>3, <4>1, KeyLayout DEF m
      <3>5. ~IsFailure(OwnKeyResult(b - 1)) /\ ~FaultyKeyBlock(b)
        BY <3>3 DEF SoundKeyResult
      <3>6. OwnKeyResult(b - 1).rows = Rows(b - 1)
        BY <3>5 DEF OwnKeyResult, Failed, IsFailure
      <3>7. EntryCount(b - 1) - 1 \in 0..(EntryCount(b - 1) - 1)
        BY <3>4
      <3>8. LastStart(b - 1, OwnKeyResult(b - 1)) = file.start[k - 2]
        <4>1. EntryStart[b - 1] + (EntryCount(b - 1) - 1) = k - 2
          BY <3>1, <3>4
        <4> QED BY <3>6, <3>7, <4>1 DEF LastStart, Rows
      <3>9. OwnKeyResult(b).rows[0].start = file.start[k - 1]
        BY <1>1, <1>2, <1>3, <1>4, <2>2
      <3> QED BY <3>3, <3>5, <3>8, <3>9 DEF FaultyKeyBlock
    <2> QED BY <1>1, <1>2, <2>1, <2>2
  <1> QED BY <1>5, <1>7, <1>8

-----------------------------------------------------------------------------

\* A failure of the block that is built next is its own, and the verdict.
LEMMA BlockFailureIsVerdict ==
    ASSUME LocatorInv, NEW t \in Callers, pc[t] = "build", block[t] < NKey, ~TooLarge,
           NEW r, SoundKeyResult(block[t], r), IsFailure(r)
    PROVE  r = Transient \/ r = verdict
  <1> DEFINE b == block[t]
  <1>1. b \in 0..NKey /\ b \in KeyBlocks /\ NKey \in Nat
    BY BlockNumbers DEF LocatorInv, KeyBlocks
  <1>2. SUFFICES ASSUME r # Transient PROVE r = verdict
    OBVIOUS
  <1>3. PICK j \in 0..b : FaultyKeyBlock(j) /\ r = BlockFailure(j)
    BY <1>2 DEF SoundKeyResult
  <1>4. \A c \in 0..(b - 1) : c \notin Stops
    BY DEF LocatorInv, BuildSound
  <1> HIDE DEF b
  <1>5. j \in Stops
    <2>1. j \in KeyBlocks
      BY <1>1 DEF KeyBlocks
    <2> QED BY <1>3, <2>1 DEF Stops
  <1>6. j = b
    BY <1>1, <1>4, <1>5
  <1>7. Verdict = BlockFailure(b)
    BY <1>3, <1>4, <1>5, <1>6, StopDecides
  <1> QED BY <1>3, <1>6, <1>7 DEF LocatorInv

\* One block of the build: it is given up, or ends with the verdict, or goes on with
\* the rows of that block.
BlockEnds(t) ==
    \/ BuildFailed(t, Transient) /\ UNCHANGED block
    \/ BuildFailed(t, verdict) /\ IsFailure(verdict) /\ UNCHANGED block
    \/ /\ ~TooLarge /\ block[t] \in KeyBlocks \ Stops
       /\ built' = [built EXCEPT ![t] = RowsBefore(block[t] + 1)]
       /\ block' = [block EXCEPT ![t] = block[t] + 1]
       /\ UNCHANGED <<locator, lock, pc, ret>>

LEMMA BuildBlockEnds ==
    ASSUME LocatorInv, NEW t \in Callers, BuildBlock(t)
    PROVE  BlockEnds(t)
  <1> DEFINE b == block[t]
             m == EntryStart[b]
             n == EntryStart[b + 1]
  <1>1. pc[t] = "build" /\ b < NKey /\ ~TooLarge
    BY DEF BuildBlock
  <1>2. b \in KeyBlocks /\ NKey \in Nat /\ b \in Nat
    BY <1>1, BlockNumbers DEF LocatorInv, KeyBlocks
  <1>3. /\ built[t] = RowsBefore(b) /\ (\A c \in 0..(b - 1) : c \notin Stops)
        /\ CacheInv /\ file \in Files /\ limits \in LimitChoices /\ verdict = Verdict
    BY <1>1 DEF LocatorInv, BuildSound, CacheInv
  <1>4. /\ m \in Nat /\ n \in Nat /\ n = m + EntryCount(b) /\ EntryCount(b) \in Nat
        /\ EntryCount(b) > 0 /\ n <= NEntries /\ NEntries \in Nat
    <2>1. b \in 0..NKey
      BY <1>2 DEF KeyBlocks
    <2> QED BY <1>2, <2>1, KeyLayout
  <1>5. PICK d \in DecodeKeyBlock(b) :
          /\ keyCache' = d.slot
          /\ IF IsFailure(d.result) THEN BuildFailed(t, d.result) /\ UNCHANGED block
             ELSE LET all == built[t] \o [k \in 1..EntryCount(b) |-> d.result.rows[k - 1]]
                      new == (Len(built[t]) + 1)..Len(all)
                      bad == {k \in new : IsFailure(RowCheck(all, k, b))}
                  IN
                  \/ /\ \E k \in new : \A j \in bad :
                            k < j \/ (k = j /\ RowCheck(all, k, b).class = "format")
                     /\ BuildFailed(t, Transient) /\ UNCHANGED block
                  \/ \E k \in bad :
                     /\ \A j \in bad : k <= j
                     /\ BuildFailed(t, RowCheck(all, k, b)) /\ UNCHANGED block
                  \/ /\ bad = {}
                     /\ IF Len(all) # EntryStart[b] + EntryCount(b)
                        THEN BuildFailed(t, Failed("data", b)) /\ UNCHANGED block
                        ELSE /\ built' = [built EXCEPT ![t] = all]
                             /\ block' = [block EXCEPT ![t] = b + 1]
                             /\ UNCHANGED <<locator, lock, pc, ret>>
    BY DEF BuildBlock
  <1>6. SoundKeyResult(b, d.result)
    BY <1>2, <1>3, DecodeKeyBlockSound
  <1>7. CASE IsFailure(d.result)
    <2>1. d.result = Transient \/ d.result = verdict
      BY <1>1, <1>6, <1>7, BlockFailureIsVerdict
    <2> QED BY <1>5, <1>7, <2>1 DEF BlockEnds
  <1>8. CASE ~IsFailure(d.result)
    <2> DEFINE all == RowsBefore(b + 1)
               new == (m + 1)..n
               bad == {k \in new : IsFailure(RowCheck(all, k, b))}
    <2>1. d.result = OwnKeyResult(b) /\ ~FaultyKeyBlock(b) /\ d.result.rows = Rows(b)
      BY <1>6, <1>8 DEF SoundKeyResult, OwnKeyResult, Failed, IsFailure
    <2>2. /\ built[t] \o [k \in 1..EntryCount(b) |-> d.result.rows[k - 1]] = all
          /\ Len(built[t]) = m /\ Len(all) = n
      BY <1>2, <1>3, <2>1, RowsJoin
    <2>3. ASSUME NEW k \in new
          PROVE  /\ k \in 0..NEntries /\ k <= n
                 /\ RowCheck(all, k, b) = IF FixedBytes + TextBytes[k] > TextCeiling
                                          THEN TextFailure ELSE [tag |-> "ready"]
      <3>1. k \in Nat /\ k \in 1..n /\ (k > 1 => k - 1 \in 1..n /\ (k - 1) - 1 = k - 2)
        BY <1>4
      <3>2. all[k].start = file.start[k - 1] /\ (k > 1 => all[k - 1].start = file.start[k - 2])
        BY <3>1 DEF RowsBefore, RowOf
      <3>3. /\ ~(file.start[k - 1] > TotalLen)
            /\ k > 1 => ~(file.start[k - 2] > file.start[k - 1])
        BY <1>2, <1>3, <1>6, <1>8, <2>1, <2>3, RowsInOrder
      <3> HIDE DEF all
      <3> QED BY <1>4, <3>1, <3>2, <3>3 DEF RowCheck
    <2>4. IsFailure(TextFailure) /\ ~IsFailure([tag |-> "ready"])
      BY DEF IsFailure, TextFailure, LimitFailure, Failed
    <2>5. ASSUME NEW k \in bad
          PROVE  RowCheck(all, k, b) = TextFailure /\ TextFailure = verdict
      <3>1. k \in new /\ k \in 0..NEntries /\ k <= n /\ n \in 0..NEntries
        BY <1>4, <2>3
      <3>2. RowCheck(all, k, b) = TextFailure /\ FixedBytes + TextBytes[k] > TextCeiling
        BY <2>3, <2>4, <3>1
      <3>3. FixedBytes + TextBytes[n] > TextCeiling
        BY <1>3, <3>1, <3>2, SizesAreNumbers, TextGrows
      <3>4. b \in Stops
        BY <1>2, <3>3 DEF Stops
      <3>5. Verdict = TextFailure
        BY <1>1, <1>3, <2>1, <3>4, StopDecides
      <3> QED BY <1>3, <3>2, <3>5
    <2>6. \/ BuildFailed(t, Transient) /\ UNCHANGED block
          \/ \E k \in bad : BuildFailed(t, RowCheck(all, k, b)) /\ UNCHANGED block
          \/ /\ bad = {}
             /\ IF Len(all) # EntryStart[b] + EntryCount(b)
                THEN BuildFailed(t, Failed("data", b)) /\ UNCHANGED block
                ELSE /\ built' = [built EXCEPT ![t] = all]
                     /\ block' = [block EXCEPT ![t] = b + 1]
                     /\ UNCHANGED <<locator, lock, pc, ret>>
      BY <1>5, <1>8, <2>2
    <2>7. CASE \E k \in bad : BuildFailed(t, RowCheck(all, k, b)) /\ UNCHANGED block
      <3> HIDE DEF bad
      <3>1. PICK k \in bad : BuildFailed(t, RowCheck(all, k, b)) /\ UNCHANGED block
        BY <2>7
      <3>2. RowCheck(all, k, b) = verdict /\ IsFailure(verdict)
        BY <2>4, <2>5
      <3> QED BY <3>1, <3>2 DEF BlockEnds
    <2>8. CASE /\ bad = {}
               /\ built' = [built EXCEPT ![t] = all]
               /\ block' = [block EXCEPT ![t] = b + 1]
               /\ UNCHANGED <<locator, lock, pc, ret>>
      <3>1. n \in new /\ n \notin bad
        BY <1>4, <2>8
      <3>2. ~(FixedBytes + TextBytes[n] > TextCeiling)
        BY <2>3, <2>4, <3>1
      <3>3. b \notin Stops
        BY <2>1, <3>2 DEF Stops
      <3> QED BY <1>1, <1>2, <2>8, <3>3 DEF BlockEnds
    <2>9. Len(all) = EntryStart[b] + EntryCount(b)
      BY <1>4, <2>2
    <2> QED BY <2>6, <2>7, <2>8, <2>9 DEF BlockEnds
  <1> QED BY <1>7, <1>8

\* The last step of a build publishes the verdict, or is given up.
PublishEnds(t) ==
    \/ BuildFailed(t, Transient)
    \/ /\ locator' = verdict /\ ret' = [ret EXCEPT ![t] = verdict]
       /\ pc' = [pc EXCEPT ![t] = "idle"]

LEMMA PublishLocatorEnds ==
    ASSUME LocatorInv, NEW t \in Callers, PublishLocator(t)
    PROVE  PublishEnds(t)
  <1>1. pc[t] = "build" /\ block[t] = NKey
    BY DEF PublishLocator
  <1>2. NKey \in Nat /\ NKey # 0 /\ NEntries \in Nat /\ EntryStart[NKey] = NEntries
    BY LayoutAssumption, KeyLayout DEF NKey
  <1>3. ~TooLarge /\ built[t] = RowsBefore(NKey) /\ verdict = Verdict
    BY <1>1, <1>2 DEF LocatorInv, BuildSound
  <1>4. Stops = {}
    <2>1. \A c \in 0..(NKey - 1) : c \notin Stops
      BY <1>1 DEF LocatorInv, BuildSound
    <2> QED BY <2>1 DEF Stops, KeyBlocks
  <1>5. verdict = Complete
    BY <1>3, <1>4, NoStopDecides
  <1>6. built[t] = [k \in 1..NEntries |-> RowOf(k - 1)]
    BY <1>2, <1>3 DEF RowsBefore
  <1>7. Len(built[t]) = NEntries /\ DOMAIN built[t] = 1..NEntries
    BY <1>2, <1>6
  <1>8. {built[t][k].ordinal : k \in DOMAIN built[t]} = Ordinals
    <2>1. \A k \in 1..NEntries : built[t][k].ordinal = k - 1
      BY <1>6 DEF RowOf
    <2>2. \A k \in 1..NEntries : k - 1 \in Ordinals
      BY <1>2 DEF Ordinals
    <2>3. \A o \in Ordinals : o + 1 \in 1..NEntries /\ (o + 1) - 1 = o
      BY <1>2 DEF Ordinals
    <2> DEFINE rows == built[t]
    <2>4. (\A k \in DOMAIN rows : rows[k].ordinal \in Ordinals)
          /\ \A o \in Ordinals : \E k \in DOMAIN rows : rows[k].ordinal = o
      <3> HIDE DEF rows
      <3>1. DOMAIN rows = 1..NEntries /\ \A k \in 1..NEntries : rows[k].ordinal = k - 1
        BY <1>7, <2>1 DEF rows
      <3>2. ASSUME NEW o \in Ordinals PROVE rows[o + 1].ordinal = o /\ o + 1 \in DOMAIN rows
        BY <2>3, <3>1
      <3> QED BY <2>2, <3>1, <3>2
    <2> HIDE DEF rows
    <2>5. {rows[k].ordinal : k \in DOMAIN rows} = Ordinals
      BY <2>4
    <2> QED BY <2>5 DEF rows
  <1>9. Ready({built[t][k].ordinal : k \in DOMAIN built[t]}) = verdict
    BY <1>5, <1>8 DEF Complete
  <1>10. \/ BuildFailed(t, Transient)
         \/ /\ locator' = Ready({built[t][k].ordinal : k \in DOMAIN built[t]})
            /\ Answer(t, Ready({built[t][k].ordinal : k \in DOMAIN built[t]}))
    BY <1>7 DEF PublishLocator
  <1> QED BY <1>9, <1>10 DEF PublishEnds, Answer

\* The limits are checked before the first block: a build that is refused for its
\* size is refused with the verdict.
LEMMA RefusedEnds ==
    ASSUME LocatorInv, NEW t \in Callers, BuildRefused(t)
    PROVE  \/ BuildFailed(t, Transient)
           \/ BuildFailed(t, verdict) /\ IsFailure(verdict)
  <1>1. TooLarge => Verdict = LimitFailure
    BY Zenon DEF Verdict
  <1>2. IsFailure(LimitFailure)
    BY DEF IsFailure, LimitFailure, Failed
  <1> QED BY <1>1, <1>2 DEF BuildRefused, LocatorInv

-----------------------------------------------------------------------------

FirstStop == CHOOSE b \in Stops : \A c \in Stops : b <= c
FaultyBlocks == {b \in KeyBlocks : FaultyKeyBlock(b)}
BlockFailures == [b \in KeyBlocks |-> BlockFailure(b)]

\* The verdict by its parts.
LEMMA VerdictIs ==
    Verdict = IF TooLarge THEN LimitFailure
              ELSE IF Stops = {} THEN Complete
              ELSE IF FirstStop \notin FaultyBlocks THEN TextFailure
              ELSE BlockFailures[FirstStop]
  <1>1. Verdict = IF TooLarge THEN LimitFailure
                  ELSE IF Stops = {} THEN Complete
                  ELSE IF ~FaultyKeyBlock(FirstStop) THEN TextFailure
                  ELSE BlockFailure(FirstStop)
    BY Zenon DEF Verdict, Stops, FirstStop
  <1>2. Stops # {} => FirstStop \in KeyBlocks
    <2>1. Stops \subseteq KeyBlocks /\ KeyBlocks \subseteq Nat
      BY BlockNumbers DEF Stops
    <2> HIDE DEF Stops
    <2>2. Stops # {} => \E b \in Stops : \A c \in Stops : b <= c
      BY <2>1, LeastNumber
    <2> QED BY <2>1, <2>2 DEF FirstStop
  <1> QED BY <1>1, <1>2 DEF FaultyBlocks, BlockFailures

\* What only depends on the file and on the limits.
LEMMA SameFile ==
    ASSUME UNCHANGED <<file, limits>>
    PROVE  /\ Verdict' = Verdict /\ Stops' = Stops /\ (TooLarge' <=> TooLarge)
           /\ \A b : RowsBefore(b)' = RowsBefore(b)
  <1>1. \A b : OwnKeyResult(b)' = OwnKeyResult(b)
    BY DEF OwnKeyResult, RowsValid, Rows
  <1>2. \A b : (FaultyKeyBlock(b)' <=> FaultyKeyBlock(b)) /\ BlockFailure(b)' = BlockFailure(b)
    BY <1>1 DEF FaultyKeyBlock, BlockFailure
  <1>3. (TooLarge' <=> TooLarge) /\ TextCeiling' = TextCeiling /\ TextFailure' = TextFailure
    BY DEF TooLarge, TextCeiling, TextFailure
  <1>4. Stops' = Stops
    BY <1>2, <1>3 DEF Stops
  <1>5. \A b : RowsBefore(b)' = RowsBefore(b)
    BY DEF RowsBefore, RowOf
  <1>6. FirstStop' = FirstStop /\ FaultyBlocks' = FaultyBlocks /\ BlockFailures' = BlockFailures
    BY <1>2, <1>4 DEF FirstStop, FaultyBlocks, BlockFailures
  <1>7. (Verdict = IF TooLarge THEN LimitFailure
                   ELSE IF Stops = {} THEN Complete
                   ELSE IF FirstStop \notin FaultyBlocks THEN TextFailure
                   ELSE BlockFailures[FirstStop])'
    BY VerdictIs, PTL
  <1>8. Verdict' = Verdict
    BY <1>3, <1>4, <1>6, <1>7, VerdictIs
  <1> QED BY <1>3, <1>4, <1>5, <1>8

LEMMA LocatorInit == Init => LocatorInv
  <1> SUFFICES ASSUME Init PROVE LocatorInv
    OBVIOUS
  <1>1. BuildInv
    BY BuildInit
  <1>2. CacheInv
    BY DEF Init, CacheInit, CacheInv, KeyCacheSound, RecordCacheSound
  <1>3. NKey \in Nat
    BY BlockNumbers
  <1> QED BY <1>1, <1>2, <1>3 DEF Init, LocatorInv

\* Every step is one of the two caches, or none.
LEMMA StepUsesCaches ==
    ASSUME LocatorInv, [Next]_vars
    PROVE  /\ [CacheNext]_<<file, keyCache, recordCache>>
           /\ UNCHANGED <<file, limits, verdict>>
  <1>1. CASE UNCHANGED vars
    BY <1>1 DEF vars, opened
  <1>2. ASSUME NEW t \in Callers, FastPath(t) \/ SlowPath(t) \/ Acquire(t) \/ BuildRefused(t)
                                  \/ PublishLocator(t)
        PROVE  UNCHANGED <<file, limits, verdict, keyCache, recordCache>>
    BY <1>2 DEF FastPath, SlowPath, Acquire, BuildRefused, PublishLocator, opened
  <1>3. ASSUME NEW t \in Callers, BuildBlock(t)
        PROVE  /\ \E d \in DecodeKeyBlock(block[t]) : keyCache' = d.slot
               /\ block[t] \in KeyBlocks /\ UNCHANGED <<file, limits, verdict, recordCache>>
    <2>1. /\ \E d \in DecodeKeyBlock(block[t]) : keyCache' = d.slot
          /\ block[t] < NKey /\ UNCHANGED <<file, limits, verdict, recordCache>>
      BY <1>3 DEF BuildBlock, opened
    <2>2. block[t] \in KeyBlocks
      BY <2>1, BlockNumbers DEF LocatorInv, KeyBlocks
    <2> QED BY <2>1, <2>2
  <1>4. ASSUME NEW b \in KeyBlocks, OtherReader(b)
        PROVE  /\ \E d \in DecodeKeyBlock(b) : keyCache' = d.slot
               /\ UNCHANGED <<file, limits, verdict, recordCache>>
    BY <1>4 DEF OtherReader, opened
  <1> QED BY <1>1, <1>2, <1>3, <1>4 DEF Next, CallerStep, CacheNext

\* A step that leaves a build under way alone keeps what it established.
LEMMA BuildKept ==
    ASSUME LocatorInv, UNCHANGED <<file, limits>>,
           NEW u \in Callers, pc[u] = "build", block'[u] = block[u], built'[u] = built[u]
    PROVE  BuildSound(u)'
  BY SameFile DEF LocatorInv, BuildSound

\* A step of t that starts no build leaves the builds of the others alone.
LEMMA OthersKept ==
    ASSUME LocatorInv, UNCHANGED <<file, limits>>, NEW t \in Callers,
           block \in [Callers -> 0..NKey], block' = block,
           \A u \in Callers \ {t} : pc'[u] = pc[u] /\ built'[u] = built[u],
           pc'[t] # "build"
    PROVE  \A u \in Callers : pc'[u] = "build" => BuildSound(u)'
  BY BuildKept

\* A build that ends in t.
LEMMA EndKept ==
    ASSUME LocatorInv, UNCHANGED <<file, limits>>, NEW t \in Callers, pc[t] = "build",
           NEW r, BuildFailed(t, r), UNCHANGED block
    PROVE  \A u \in Callers : pc'[u] = "build" => BuildSound(u)'
  <1>1. /\ pc'[t] # "build"
        /\ \A u \in Callers \ {t} : pc'[u] = pc[u] /\ built'[u] = built[u]
    BY DEF BuildFailed, Answer, LocatorInv, BuildInv
  <1> QED BY <1>1, OthersKept DEF LocatorInv

\* The next block of a build, and the first.
LEMMA BlockKept ==
    ASSUME LocatorInv, UNCHANGED <<file, limits>>, NEW t \in Callers, pc[t] = "build",
           ~TooLarge, block[t] \in KeyBlocks \ Stops,
           built' = [built EXCEPT ![t] = RowsBefore(block[t] + 1)],
           block' = [block EXCEPT ![t] = block[t] + 1], UNCHANGED pc
    PROVE  /\ block' \in [Callers -> 0..NKey]
           /\ \A u \in Callers : pc'[u] = "build" => BuildSound(u)'
  <1>1. block[t] \in Nat /\ block[t] + 1 \in 0..NKey /\ NKey \in Nat
    BY BlockNumbers DEF KeyBlocks
  <1>2. block' \in [Callers -> 0..NKey]
    BY <1>1 DEF LocatorInv
  <1>3. block'[t] = block[t] + 1 /\ built'[t] = RowsBefore(block[t] + 1)
    BY DEF LocatorInv, BuildInv
  <1>4. BuildSound(t)'
    <2>1. \A c \in 0..(block[t] - 1) : c \notin Stops
      BY DEF LocatorInv, BuildSound
    <2>2. \A c \in 0..((block[t] + 1) - 1) : c \notin Stops
      BY <1>1, <2>1
    <2>3. \A b : RowsBefore(b)' = RowsBefore(b)
      BY SameFile
    <2>4. built'[t] = RowsBefore(block[t])'
      BY <1>3, <2>3 DEF RowsBefore, RowOf
    <2> QED BY <1>3, <2>2, <2>4, SameFile DEF BuildSound
  <1>5. ASSUME NEW u \in Callers, u # t, pc'[u] = "build" PROVE BuildSound(u)'
    <2>1. block'[u] = block[u] /\ built'[u] = built[u] /\ pc[u] = "build"
      BY <1>5 DEF LocatorInv, BuildInv
    <2> QED BY <2>1, BuildKept
  <1> QED BY <1>2, <1>4, <1>5

LEMMA AcquireSound ==
    ASSUME LocatorInv, UNCHANGED <<file, limits>>, NEW t \in Callers, Acquire(t)
    PROVE  /\ block' \in [Callers -> 0..NKey]
           /\ \A u \in Callers : pc'[u] = "build" => BuildSound(u)'
  <1>1. CASE locator # Unset
    <2>1. UNCHANGED <<block, built>> /\ pc' = [pc EXCEPT ![t] = "idle"]
      BY <1>1 DEF Acquire, Answer
    <2> QED BY <2>1, OthersKept DEF LocatorInv, BuildInv
  <1>2. CASE locator = Unset
    <2>1. /\ pc[t] = "wait"
          /\ pc' = [pc EXCEPT ![t] = "build"]
          /\ block' = [block EXCEPT ![t] = 0]
          /\ built' = [built EXCEPT ![t] = <<>>]
      BY <1>2 DEF Acquire
    <2>2. block' \in [Callers -> 0..NKey] /\ block'[t] = 0 /\ built'[t] = <<>>
      BY <2>1, BlockNumbers DEF LocatorInv, BuildInv
    <2>3. EntryStart[0] = 0
      BY KeyLayout
    <2>4. built'[t] = RowsBefore(block[t])'
      BY <2>2, <2>3 DEF RowsBefore
    <2>5. BuildSound(t)'
      BY <2>2, <2>4 DEF BuildSound
    <2>6. ASSUME NEW u \in Callers, u # t, pc'[u] = "build" PROVE BuildSound(u)'
      <3>1. block'[u] = block[u] /\ built'[u] = built[u] /\ pc[u] = "build"
        BY <2>1, <2>6 DEF LocatorInv, BuildInv
      <3> QED BY <3>1, BuildKept
    <2> QED BY <2>2, <2>5, <2>6
  <1> QED BY <1>1, <1>2

LEMMA LocatorStep == LocatorInv /\ [Next]_vars => LocatorInv'
  <1> SUFFICES ASSUME LocatorInv, [Next]_vars PROVE LocatorInv'
    OBVIOUS
  <1>1. UNCHANGED <<file, limits, verdict>> /\ CacheInv'
    BY StepUsesCaches, CacheStep DEF LocatorInv
  <1>2. BuildInv'
    BY BuildStep DEF LocatorInv
  <1>3. verdict' = Verdict' /\ limits' \in LimitChoices
    BY <1>1, SameFile DEF LocatorInv
  <1>4. SUFFICES /\ block' \in [Callers -> 0..NKey]
                 /\ \A u \in Callers : pc'[u] = "build" => BuildSound(u)'
    BY <1>1, <1>2, <1>3 DEF LocatorInv
  <1>5. ASSUME UNCHANGED <<block, built>>, \A u \in Callers : pc'[u] = "build" => pc[u] = "build"
        PROVE  /\ block' \in [Callers -> 0..NKey]
               /\ \A u \in Callers : pc'[u] = "build" => BuildSound(u)'
    BY <1>1, <1>5, BuildKept DEF LocatorInv
  <1>6. CASE UNCHANGED vars
    BY <1>5, <1>6 DEF vars
  <1>7. ASSUME NEW b \in KeyBlocks, OtherReader(b)
        PROVE  UNCHANGED <<block, built, pc>>
    BY <1>7 DEF OtherReader
  <1>8. ASSUME NEW t \in Callers, FastPath(t) \/ SlowPath(t)
        PROVE  /\ UNCHANGED <<block, built>>
               /\ \A u \in Callers : pc'[u] = "build" => pc[u] = "build"
    <2>1. pc \in [Callers -> {"idle", "wait", "build"}]
      BY DEF LocatorInv, BuildInv
    <2> QED BY <1>8, <2>1 DEF FastPath, SlowPath, Answer
  <1>9. ASSUME NEW t \in Callers, Acquire(t)
        PROVE  /\ block' \in [Callers -> 0..NKey]
               /\ \A u \in Callers : pc'[u] = "build" => BuildSound(u)'
    BY <1>1, <1>9, AcquireSound
  <1>10. ASSUME NEW t \in Callers, BuildRefused(t)
         PROVE  \A u \in Callers : pc'[u] = "build" => BuildSound(u)'
    <2>1. pc[t] = "build" /\ UNCHANGED block /\ \E r : BuildFailed(t, r)
      BY <1>10 DEF BuildRefused
    <2> QED BY <1>1, <2>1, EndKept
  <1>11. ASSUME NEW t \in Callers, BuildBlock(t)
         PROVE  /\ block' \in [Callers -> 0..NKey]
                /\ \A u \in Callers : pc'[u] = "build" => BuildSound(u)'
    <2>1. pc[t] = "build"
      BY <1>11 DEF BuildBlock
    <2>2. BlockEnds(t)
      BY <1>11, BuildBlockEnds
    <2>3. CASE UNCHANGED block /\ \E r : BuildFailed(t, r)
      BY <1>1, <2>1, <2>3, EndKept DEF LocatorInv
    <2>4. CASE ~(UNCHANGED block /\ \E r : BuildFailed(t, r))
      BY <1>1, <2>1, <2>2, <2>4, BlockKept DEF BlockEnds
    <2> QED BY <2>3, <2>4
  <1>12. ASSUME NEW t \in Callers, PublishLocator(t)
         PROVE  \A u \in Callers : pc'[u] = "build" => BuildSound(u)'
    <2>1. /\ UNCHANGED block /\ pc'[t] # "build"
          /\ \A u \in Callers \ {t} : pc'[u] = pc[u] /\ built'[u] = built[u]
      BY <1>12 DEF PublishLocator, BuildFailed, Answer, LocatorInv, BuildInv
    <2> QED BY <1>1, <2>1, OthersKept DEF LocatorInv
  <1>13. ASSUME NEW t \in Callers, BuildRefused(t) \/ PublishLocator(t)
         PROVE  block' \in [Callers -> 0..NKey]
    BY <1>13 DEF BuildRefused, PublishLocator, LocatorInv
  <1> QED BY <1>5, <1>6, <1>7, <1>8, <1>9, <1>10, <1>11, <1>12, <1>13 DEF Next, CallerStep

-----------------------------------------------------------------------------

\* A build that fails with the verdict publishes it, or, like one that is given up,
\* only answers.
LEMMA FailureAnswers ==
    ASSUME LocatorInv, NEW t \in Callers, pc[t] = "build", UNCHANGED verdict,
           NEW r, BuildFailed(t, r), r = Transient \/ (r = verdict /\ IsFailure(verdict))
    PROVE  Once!Next
  <1>1. PICK s \in Capture(0, r, Empty) : locator' = IF s = Empty THEN locator ELSE s.value
    BY DEF BuildFailed
  <1>2. ret' = [ret EXCEPT ![t] = r]
    BY DEF BuildFailed, Answer
  <1>3. locator = Unset
    BY DEF LocatorInv, BuildInv
  <1>4. s = Empty \/ (s = [index |-> 0, value |-> r] /\ r.class # "transient")
    BY DEF Capture
  <1>5. CASE s = Empty
    <2>1. Once!GiveUp(t)
      BY <1>1, <1>2, <1>5 DEF Once!GiveUp, IsFailure
    <2> QED BY <2>1 DEF Once!Next
  <1>6. CASE s = [index |-> 0, value |-> r] /\ r.class # "transient"
    <2>1. s # Empty /\ s.value = r
      BY <1>6 DEF Empty
    <2>2. r = verdict
      BY <1>6 DEF Transient, Failed
    <2>3. Once!Publish(t)
      BY <1>1, <1>2, <1>3, <2>1, <2>2 DEF Once!Publish
    <2> QED BY <2>3 DEF Once!Next
  <1> QED BY <1>4, <1>5, <1>6

\* A caller that finds the OnceLock set is answered from it.
LEMMA RecallAnswers ==
    ASSUME NEW t \in Callers, locator # Unset, NEW r \in FromCache(locator), Answer(t, r),
           UNCHANGED <<locator, verdict>>
    PROVE  Once!Next
  <1>1. r = locator \/ r = Transient
    BY FromCacheSound
  <1>2. Once!Recall(t) \/ Once!GiveUp(t)
    BY <1>1 DEF Answer, Once!Recall, Once!GiveUp
  <1> QED BY <1>2 DEF Once!Next

\* Every step is one of OnceValue, or changes nothing of it.
LEMMA OnceStep == LocatorInv /\ [Next]_vars => [Once!Next]_Once!vars
  <1> SUFFICES ASSUME LocatorInv, [Next]_vars PROVE Once!Next \/ UNCHANGED Once!vars
    OBVIOUS
  <1>1. UNCHANGED verdict
    BY StepUsesCaches
  <1>2. CASE UNCHANGED vars
    BY <1>2 DEF vars, opened, Once!vars
  <1>3. ASSUME NEW b \in KeyBlocks, OtherReader(b)
        PROVE  UNCHANGED Once!vars
    BY <1>3 DEF OtherReader, opened, Once!vars
  <1>4. ASSUME NEW t \in Callers, FastPath(t) PROVE Once!Next
    BY <1>1, <1>4, RecallAnswers DEF FastPath
  <1>5. ASSUME NEW t \in Callers, SlowPath(t) PROVE UNCHANGED Once!vars
    BY <1>5 DEF SlowPath, opened, Once!vars
  <1>6. ASSUME NEW t \in Callers, Acquire(t) PROVE Once!Next \/ UNCHANGED Once!vars
    <2>1. CASE locator # Unset
      BY <1>1, <1>6, <2>1, RecallAnswers DEF Acquire
    <2>2. CASE locator = Unset
      BY <1>6, <2>2 DEF Acquire, opened, Once!vars
    <2> QED BY <2>1, <2>2
  <1>7. ASSUME NEW t \in Callers, BuildRefused(t) PROVE Once!Next
    <2>1. pc[t] = "build"
      BY <1>7 DEF BuildRefused
    <2> QED BY <1>1, <1>7, <2>1, RefusedEnds, FailureAnswers
  <1>8. ASSUME NEW t \in Callers, BuildBlock(t) PROVE Once!Next \/ UNCHANGED Once!vars
    <2>1. pc[t] = "build"
      BY <1>8 DEF BuildBlock
    <2>2. BlockEnds(t)
      BY <1>8, BuildBlockEnds
    <2>3. CASE UNCHANGED <<locator, ret>>
      BY <1>1, <2>3 DEF Once!vars
    <2>4. CASE ~UNCHANGED <<locator, ret>>
      BY <1>1, <2>1, <2>2, <2>4, FailureAnswers DEF BlockEnds
    <2> QED BY <2>3, <2>4
  <1>9. ASSUME NEW t \in Callers, PublishLocator(t) PROVE Once!Next
    <2>1. pc[t] = "build" /\ locator = Unset
      BY <1>9 DEF PublishLocator, LocatorInv, BuildInv
    <2>2. CASE BuildFailed(t, Transient)
      BY <1>1, <2>1, <2>2, FailureAnswers
    <2>3. CASE locator' = verdict /\ ret' = [ret EXCEPT ![t] = verdict]
      <3>1. Once!Publish(t)
        BY <1>1, <2>1, <2>3 DEF Once!Publish
      <3> QED BY <3>1 DEF Once!Next
    <2> QED BY <1>9, <2>2, <2>3, PublishLocatorEnds DEF PublishEnds
  <1> QED BY <1>2, <1>3, <1>4, <1>5, <1>6, <1>7, <1>8, <1>9 DEF Next, CallerStep

\* The locator is a write-once value that the file and the limits decide alone,
\* whatever other readers do to the key-block cache between two blocks of a build
\* and however often a build is given up: key_locator implements OnceValue.
THEOREM LocatorImplementsOnce == Spec => ImplementsOnce
  <1>1. Init => Once!Init
    BY DEF Init, Once!Init
  <1>2. Spec => []LocatorInv
    BY LocatorInit, LocatorStep, PTL DEF Spec
  <1>3. Spec => Once!Init /\ [][Once!Next]_Once!vars
    BY <1>1, <1>2, OnceStep, PTL DEF Spec
  <1> QED BY <1>3 DEF ImplementsOnce, Once!Spec
-----------------------------------------------------------------------------
(***************************************************************************)
(* Lookup in the published locator: for any dictionary, header, query,     *)
(* window, digest and table of lower cases.                                *)
(***************************************************************************)

\* R orders S, and s lists S in that order.
IsOrder(S, R) ==
    /\ \A x \in S : <<x, x>> \notin R
    /\ \A x, y, z \in S : <<x, y>> \in R /\ <<y, z>> \in R => <<x, z>> \in R
    /\ \A x, y \in S : x = y \/ <<x, y>> \in R \/ <<y, x>> \in R

Lists(s, S, R) ==
    /\ s \in Seq(S)
    /\ \A x \in S : \E i \in 1..Len(s) : s[i] = x
    /\ \A i, j \in 1..Len(s) : i < j => <<s[i], s[j]>> \in R

LEMMA ListsAgree ==
    ASSUME NEW S, NEW R, IsOrder(S, R), NEW s, NEW t, Lists(s, S, R), Lists(t, S, R)
    PROVE  \A i \in 1..Len(s) : i \in 1..Len(t) /\ s[i] = t[i]
  <1> DEFINE bad == {i \in 1..Len(s) : ~(i \in 1..Len(t) /\ s[i] = t[i])}
  <1>1. /\ s \in Seq(S) /\ t \in Seq(S) /\ Len(s) \in Nat /\ Len(t) \in Nat
        /\ \A i \in 1..Len(s) : s[i] \in S
        /\ \A i \in 1..Len(t) : t[i] \in S
    BY LenProperties, ElementOfSeq DEF Lists
  <1> SUFFICES ASSUME bad # {} PROVE FALSE
    OBVIOUS
  <1>2. bad \subseteq Nat
    OBVIOUS
  <1>3. PICK i \in bad : \A k \in bad : i <= k
    <2> HIDE DEF bad
    <2> QED BY <1>2, LeastNumber
  <1>4. \A j \in 1..Len(s) : j < i => j \in 1..Len(t) /\ s[j] = t[j]
    BY <1>1, <1>3
  <1>5. i \in 1..Len(s) /\ s[i] \in S
    BY <1>1
  <1>6. PICK k \in 1..Len(t) : t[k] = s[i]
    BY <1>5 DEF Lists
  <1>7. ~(k < i)
    <2> SUFFICES ASSUME k < i PROVE FALSE
      OBVIOUS
    <2>1. k \in 1..Len(s) /\ s[k] = s[i]
      BY <1>1, <1>4, <1>5, <1>6
    <2>2. <<s[k], s[i]>> \in R
      BY <1>5, <2>1 DEF Lists
    <2> QED BY <1>5, <2>1, <2>2 DEF IsOrder
  <1>8. i \in 1..Len(t) /\ t[i] \in S
    BY <1>1, <1>5, <1>6, <1>7
  <1>9. s[i] # t[i]
    BY <1>8
  <1>10. i < k
    BY <1>1, <1>5, <1>6, <1>7, <1>9
  <1>11. <<t[i], s[i]>> \in R
    BY <1>6, <1>8, <1>10 DEF Lists
  <1>12. PICK m \in 1..Len(s) : s[m] = t[i]
    BY <1>8 DEF Lists
  <1>13. ~(m < i)
    <2> SUFFICES ASSUME m < i PROVE FALSE
      OBVIOUS
    <2>1. m \in 1..Len(t) /\ t[m] = t[i]
      BY <1>4, <1>12
    <2>2. <<t[m], t[i]>> \in R
      BY <1>8, <2>1 DEF Lists
    <2> QED BY <1>8, <2>1, <2>2 DEF IsOrder
  <1>14. i < m
    BY <1>1, <1>5, <1>9, <1>12, <1>13
  <1>15. <<s[i], t[i]>> \in R
    BY <1>5, <1>12, <1>14 DEF Lists
  <1> QED BY <1>5, <1>8, <1>11, <1>15 DEF IsOrder

\* There is one such list.
LEMMA ListUnique ==
    ASSUME NEW S, NEW R, IsOrder(S, R), NEW s, NEW t, Lists(s, S, R), Lists(t, S, R)
    PROVE  s = t
  <1>1. \A i \in 1..Len(s) : i \in 1..Len(t) /\ s[i] = t[i]
    BY ListsAgree
  <1>2. \A i \in 1..Len(t) : i \in 1..Len(s) /\ t[i] = s[i]
    BY ListsAgree
  <1>3. s \in Seq(S) /\ t \in Seq(S) /\ Len(s) \in Nat /\ Len(t) \in Nat
    BY LenProperties DEF Lists
  <1>4. Len(s) = Len(t)
    <2>1. Len(s) > 0 => Len(s) \in 1..Len(t)
      BY <1>1, <1>3
    <2>2. Len(t) > 0 => Len(t) \in 1..Len(s)
      BY <1>2, <1>3
    <2> QED BY <1>3, <2>1, <2>2
  <1> QED BY <1>1, <1>3, <1>4, SeqEqual

LEMMA OrderOfFewer ==
    ASSUME NEW S, NEW R, IsOrder(S, R), NEW T \in SUBSET S
    PROVE  IsOrder(T, R)
  BY DEF IsOrder

\* A finite set that is ordered has a last member.
LEMMA LastMember ==
    ASSUME NEW S, IsFiniteSet(S), S # {}, NEW R, IsOrder(S, R)
    PROVE  \E m \in S : \A x \in S : x = m \/ <<x, m>> \in R
  <1> DEFINE HasLast(T) == \E m \in T : \A x \in T : x = m \/ <<x, m>> \in R
             bad == {Cardinality(T) : T \in {U \in SUBSET S : U # {} /\ ~HasLast(U)}}
  <1> SUFFICES ASSUME ~HasLast(S) PROVE FALSE
    OBVIOUS
  <1>1. bad \subseteq Nat
    BY FS_Subset, FS_CardinalityType
  <1>2. bad # {}
    OBVIOUS
  <1>3. PICK n \in bad : \A k \in bad : n <= k
    <2> HIDE DEF bad
    <2> QED BY <1>1, <1>2, LeastNumber
  <1>4. PICK T \in SUBSET S : T # {} /\ ~HasLast(T) /\ Cardinality(T) = n
    BY <1>3
  <1>5. PICK x \in T : TRUE
    BY <1>4
  <1> DEFINE U == T \ {x}
  <1>6. IsFiniteSet(T)
    BY FS_Subset
  <1>7. Cardinality(U) = n - 1 /\ n \in Nat
    BY <1>1, <1>4, <1>6, FS_RemoveElement
  <1>8. CASE U = {}
    <2>1. T = {x}
      BY <1>8
    <2> QED BY <1>4, <2>1
  <1>9. CASE U # {}
    <2>1. HasLast(U)
      <3> SUFFICES ASSUME ~HasLast(U) PROVE FALSE
        OBVIOUS
      <3>1. U \in {V \in SUBSET S : V # {} /\ ~HasLast(V)}
        BY <1>9
      <3>2. Cardinality(U) \in bad
        BY <3>1
      <3> HIDE DEF bad, U
      <3> QED BY <1>3, <1>7, <3>2
    <2>2. PICK m \in U : \A y \in U : y = m \/ <<y, m>> \in R
      BY <2>1
    <2>3. x \in S /\ m \in S /\ m # x /\ \A y \in T : y \in S /\ (y = x \/ y \in U)
      OBVIOUS
    <2>4. CASE <<m, x>> \in R
      <3>1. \A y \in T : y = x \/ <<y, x>> \in R
        BY <2>2, <2>3, <2>4 DEF IsOrder
      <3> QED BY <1>4, <3>1
    <2>5. CASE <<x, m>> \in R
      <3>1. \A y \in T : y = m \/ <<y, m>> \in R
        BY <2>2, <2>3, <2>5
      <3> QED BY <1>4, <3>1
    <2> QED BY <2>3, <2>4, <2>5 DEF IsOrder
  <1> QED BY <1>8, <1>9

LEMMA ListGrows ==
    ASSUME NEW S, NEW R, NEW m, m \notin S, \A x \in S : <<x, m>> \in R, NEW s, Lists(s, S, R)
    PROVE  Lists(Append(s, m), S \cup {m}, R)
  <1> DEFINE T == S \cup {m}
             t == Append(s, m)
             n == Len(s)
  <1>1. s \in Seq(T) /\ m \in T /\ n \in Nat /\ \A i \in 1..n : s[i] \in S
    BY LenProperties, ElementOfSeq DEF Lists
  <1>2. /\ t \in Seq(T) /\ Len(t) = n + 1 /\ (\A i \in 1..n : t[i] = s[i]) /\ t[n + 1] = m
    BY <1>1, AppendProperties
  <1> HIDE DEF t, n
  <1>3. \A i \in 1..(n + 1) : i \in 1..n \/ i = n + 1
    BY <1>1
  <1>4. \A i \in 1..n : i \in 1..(n + 1) /\ n + 1 \in 1..(n + 1)
    BY <1>1
  <1>5. ASSUME NEW x \in T PROVE \E i \in 1..(n + 1) : t[i] = x
    <2>1. CASE x = m
      <3>1. n + 1 \in 1..(n + 1)
        BY <1>1
      <3> QED BY <1>2, <2>1, <3>1
    <2>2. CASE x \in S
      <3>1. PICK i \in 1..n : s[i] = x
        BY <2>2 DEF Lists, n
      <3> QED BY <1>2, <1>4, <3>1
    <2> QED BY <2>1, <2>2
  <1>6. ASSUME NEW i \in 1..(n + 1), NEW j \in 1..(n + 1), i < j PROVE <<t[i], t[j]>> \in R
    <2>1. i \in 1..n
      BY <1>1, <1>6
    <2>2. CASE j \in 1..n
      <3>1. <<s[i], s[j]>> \in R
        BY <1>6, <2>1, <2>2 DEF Lists, n
      <3> QED BY <1>2, <2>1, <2>2, <3>1
    <2>3. CASE j = n + 1
      BY <1>1, <1>2, <2>1, <2>3
    <2> QED BY <1>3, <2>2, <2>3
  <1>7. Lists(t, T, R)
    BY <1>2, <1>5, <1>6 DEF Lists
  <1> QED BY <1>7 DEF t

LEMMA ListExists ==
    ASSUME NEW S, IsFiniteSet(S), NEW R, IsOrder(S, R)
    PROVE  \E s : Lists(s, S, R) /\ Len(s) = Cardinality(S)
  <1> DEFINE HasList(T) == \E s : Lists(s, T, R) /\ Len(s) = Cardinality(T)
             bad == {Cardinality(T) : T \in {U \in SUBSET S : ~HasList(U)}}
  <1> SUFFICES ASSUME ~HasList(S) PROVE FALSE
    OBVIOUS
  <1>1. bad \subseteq Nat
    BY FS_Subset, FS_CardinalityType
  <1>2. bad # {}
    OBVIOUS
  <1>3. PICK n \in bad : \A k \in bad : n <= k
    <2> HIDE DEF bad
    <2> QED BY <1>1, <1>2, LeastNumber
  <1>4. PICK T \in SUBSET S : ~HasList(T) /\ Cardinality(T) = n
    BY <1>3
  <1>5. IsFiniteSet(T) /\ IsOrder(T, R) /\ n \in Nat
    BY <1>1, FS_Subset, OrderOfFewer
  <1>6. T # {}
    <2> SUFFICES ASSUME T = {} PROVE FALSE
      OBVIOUS
    <2>1. Lists(<<>>, {}, R) /\ Len(<<>>) = 0 /\ Cardinality({}) = 0
      BY FS_EmptySet DEF Lists
    <2> QED BY <1>4, <2>1
  <1>7. PICK m \in T : \A x \in T : x = m \/ <<x, m>> \in R
    BY <1>5, <1>6, LastMember
  <1> DEFINE U == T \ {m}
  <1>8. Cardinality(U) = n - 1
    BY <1>4, <1>5, FS_RemoveElement
  <1>9. HasList(U)
    <2> SUFFICES ASSUME ~HasList(U) PROVE FALSE
      OBVIOUS
    <2>1. U \in {V \in SUBSET S : ~HasList(V)}
      OBVIOUS
    <2>2. Cardinality(U) \in bad
      BY <2>1
    <2> HIDE DEF bad, U
    <2> QED BY <1>3, <1>5, <1>8, <2>2
  <1>10. PICK s : Lists(s, U, R) /\ Len(s) = n - 1
    BY <1>8, <1>9
  <1>11. m \notin U /\ T = U \cup {m} /\ \A x \in U : <<x, m>> \in R
    BY <1>7
  <1> HIDE DEF U
  <1>12. Lists(Append(s, m), T, R)
    BY <1>10, <1>11, ListGrows
  <1>13. Len(Append(s, m)) = n
    <2>1. s \in Seq(T) /\ m \in T
      BY <1>10, <1>11 DEF Lists
    <2>2. Len(Append(s, m)) = Len(s) + 1
      BY <2>1, AppendProperties
    <2> QED BY <1>5, <1>10, <2>2
  <1> QED BY <1>4, <1>12, <1>13

LEMMA SortedLists ==
    ASSUME NEW S, IsFiniteSet(S), NEW R, IsOrder(S, R)
    PROVE  Lists(Sorted(S, R), S, R) /\ Len(Sorted(S, R)) = Cardinality(S)
  <1> DEFINE n == Cardinality(S)
             P(rows) == /\ \A x \in S : \E i \in DOMAIN rows : rows[i] = x
                        /\ \A i, j \in DOMAIN rows : i < j => <<rows[i], rows[j]>> \in R
  <1>1. PICK s : Lists(s, S, R) /\ Len(s) = n
    BY ListExists
  <1>2. n \in Nat
    BY FS_CardinalityType
  <1>3. s \in [1..n -> S] /\ DOMAIN s = 1..n
    BY <1>1, LenProperties DEF Lists
  <1> HIDE DEF n
  <1>4. P(s)
    BY <1>1, <1>3 DEF Lists
  <1>5. Sorted(S, R) = CHOOSE rows \in [1..n -> S] : P(rows)
    BY Zenon DEF Sorted, n
  <1>6. Sorted(S, R) \in [1..n -> S] /\ P(Sorted(S, R))
    <2> HIDE DEF P
    <2>1. \E rows \in [1..n -> S] : P(rows)
      BY <1>3, <1>4
    <2>2. LET r == CHOOSE rows \in [1..n -> S] : P(rows) IN r \in [1..n -> S] /\ P(r)
      BY <2>1, Zenon
    <2> QED BY <1>5, <2>2
  <1> DEFINE r == Sorted(S, R)
  <1> HIDE DEF r
  <1>7. r \in [1..n -> S] /\ P(r)
    BY <1>6 DEF r
  <1>8. r \in Seq(S) /\ Len(r) = n /\ DOMAIN r = 1..n
    BY <1>2, <1>7
  <1>9. Lists(r, S, R)
    BY <1>7, <1>8 DEF Lists
  <1> QED BY <1>8, <1>9 DEF r, n

LEMMA SortedIsTheList ==
    ASSUME NEW S, IsFiniteSet(S), NEW R, IsOrder(S, R), NEW s, Lists(s, S, R)
    PROVE  s = Sorted(S, R)
  BY SortedLists, ListUnique


\* out has what each beginning of s expands to.
IsRun(out, s, f, X) ==
    /\ out \in [0..Len(s) -> Seq(X)]
    /\ out[0] = <<>>
    /\ \A n \in 1..Len(s) : out[n] = out[n - 1] \o f[s[n]]

LEMMA RunExists ==
    ASSUME NEW D, NEW s \in Seq(D), NEW X, NEW f \in [D -> Seq(X)]
    PROVE  \E out : IsRun(out, s, f, X)
  <1> DEFINE n == Len(s)
             RunTo(out, m) == /\ out \in [0..m -> Seq(X)]
                              /\ out[0] = <<>>
                              /\ \A k \in 1..m : out[k] = out[k - 1] \o f[s[k]]
             bad == {m \in 0..n : ~\E out : RunTo(out, m)}
  <1>1. n \in Nat /\ \A k \in 1..n : s[k] \in D
    BY LenProperties, ElementOfSeq
  <1> HIDE DEF n, RunTo
  <1>2. bad = {}
    <2> SUFFICES ASSUME bad # {} PROVE FALSE
      OBVIOUS
    <2>1. bad \subseteq Nat
      BY <1>1
    <2>2. PICK m \in bad : \A j \in bad : m <= j
      <3> HIDE DEF bad
      <3> QED BY <2>1, LeastNumber
    <2>3. CASE m = 0
      <3> DEFINE o == [k \in 0..0 |-> <<>>]
      <3>1. RunTo(o, 0)
        <4>1. <<>> \in Seq(X) /\ 0 \in 0..0 /\ 1..0 = {}
          BY EmptySeq
        <4> QED BY <4>1 DEF RunTo
      <3> QED BY <2>2, <2>3, <3>1
    <2>4. CASE m # 0
      <3>1. m \in 1..n /\ m - 1 \in 0..n /\ m - 1 < m
        BY <1>1, <2>1, <2>2, <2>4
      <3>2. PICK p : RunTo(p, m - 1)
        BY <2>2, <3>1
      <3> DEFINE o == [k \in 0..m |-> IF k = m THEN p[m - 1] \o f[s[m]] ELSE p[k]]
      <3>x. /\ p \in [0..(m - 1) -> Seq(X)] /\ p[0] = <<>>
            /\ \A k \in 1..(m - 1) : p[k] = p[k - 1] \o f[s[k]]
        BY <3>2 DEF RunTo
      <3>3. p[m - 1] \in Seq(X) /\ f[s[m]] \in Seq(X)
        BY <1>1, <3>1, <3>x
      <3>4. p[m - 1] \o f[s[m]] \in Seq(X)
        BY <3>3, ConcatProperties
      <3>5. \A k \in 0..m : k = m \/ k \in 0..(m - 1)
        BY <3>1, <1>1
      <3>6. o \in [0..m -> Seq(X)]
        BY <3>x, <3>4, <3>5
      <3>7. o[0] = <<>>
        BY <3>1, <3>x, <1>1
      <3>8. ASSUME NEW k \in 1..m PROVE o[k] = o[k - 1] \o f[s[k]]
        <4>1. k \in 0..m /\ k - 1 \in 0..m /\ k - 1 # m /\ (k # m => k \in 1..(m - 1))
          BY <3>1, <1>1
        <4>2. o[k - 1] = p[k - 1]
          BY <4>1
        <4>3. CASE k = m
          BY <4>1, <4>2, <4>3
        <4>4. CASE k # m
          BY <3>x, <4>1, <4>2, <4>4
        <4> QED BY <4>3, <4>4
      <3>9. RunTo(o, m)
        <4> HIDE DEF o
        <4> QED BY <3>6, <3>7, <3>8 DEF RunTo
      <3> HIDE DEF o
      <3> QED BY <2>2, <3>9
    <2> QED BY <2>3, <2>4
  <1>3. \E out : RunTo(out, n)
    <2>1. n \in 0..n
      BY <1>1
    <2> QED BY <1>2, <2>1
  <1> QED BY <1>3 DEF IsRun, RunTo, n

\* What the loop of Expand leaves is what any such run ends with.
LEMMA ExpandRun ==
    ASSUME NEW D, NEW s \in Seq(D), NEW X, NEW f \in [D -> Seq(X)],
           NEW out, IsRun(out, s, f, X)
    PROVE  Expand(s, f) = out[Len(s)] /\ Expand(s, f) \in Seq(X)
  <1> DEFINE n == Len(s)
             P(g) == g = [k \in 0..n |-> IF k = 0 THEN <<>> ELSE g[k - 1] \o f[s[k]]]
             c == CHOOSE g : P(g)
  <1>1. n \in Nat
    BY LenProperties
  <1>2. Expand(s, f) = c[n]
    BY Zenon DEF Expand
  <1> HIDE DEF n
  <1>3. P(out)
    <2>1. \A k \in 0..n : k # 0 => k \in 1..n
      BY <1>1
    <2>2. out \in [0..n -> Seq(X)] /\ out[0] = <<>> /\ \A k \in 1..n : out[k] = out[k - 1] \o f[s[k]]
      BY DEF IsRun, n
    <2>3. DOMAIN out = 0..n
      BY <2>2
    <2> QED BY <2>1, <2>2, <2>3
  <1>4. P(c)
    <2> HIDE DEF P
    <2> QED BY <1>3, Zenon
  <1> HIDE DEF c
  <1> DEFINE badk == {k \in 0..n : c[k] # out[k]}
  <1>5. badk = {}
    <2> SUFFICES ASSUME badk # {} PROVE FALSE
      OBVIOUS
    <2>1. badk \subseteq Nat
      BY <1>1
    <2>2. PICK k \in badk : \A j \in badk : k <= j
      <3> HIDE DEF badk
      <3> QED BY <2>1, LeastNumber
    <2>a. c[k] = IF k = 0 THEN <<>> ELSE c[k - 1] \o f[s[k]]
      BY <1>4
    <2>b. out[k] = IF k = 0 THEN <<>> ELSE out[k - 1] \o f[s[k]]
      BY <1>3
    <2>3. CASE k = 0
      BY <2>2, <2>3, <2>a, <2>b
    <2>4. CASE k # 0
      <3>1. k - 1 \in 0..n /\ k - 1 < k
        BY <1>1, <2>1, <2>2, <2>4
      <3>2. c[k - 1] = out[k - 1]
        BY <2>2, <3>1
      <3> QED BY <2>2, <2>4, <3>2, <2>a, <2>b
    <2> QED BY <2>3, <2>4
  <1>6. n \in 0..n
    BY <1>1
  <1>7. c[n] = out[n]
    BY <1>5, <1>6
  <1>8. out[n] \in Seq(X)
    BY <1>6 DEF IsRun, n
  <1> QED BY <1>2, <1>7, <1>8 DEF n

LEMMA ExpandType ==
    ASSUME NEW D, NEW s \in Seq(D), NEW X, NEW f \in [D -> Seq(X)]
    PROVE  Expand(s, f) \in Seq(X)
  BY RunExists, ExpandRun

LEMMA ExpandConcat ==
    ASSUME NEW D, NEW s \in Seq(D), NEW t \in Seq(D), NEW X, NEW f \in [D -> Seq(X)]
    PROVE  Expand(s \o t, f) = Expand(s, f) \o Expand(t, f)
  <1> DEFINE m == Len(s)
             n == Len(t)
             st == s \o t
  <1>1. PICK a : IsRun(a, s, f, X)
    BY RunExists
  <1>2. PICK b : IsRun(b, t, f, X)
    BY RunExists
  <1>3. m \in Nat /\ n \in Nat /\ (\A k \in 1..m : s[k] \in D) /\ (\A k \in 1..n : t[k] \in D)
    BY LenProperties, ElementOfSeq
  <1>4. /\ st \in Seq(D) /\ Len(st) = m + n
        /\ \A k \in 1..(m + n) : st[k] = IF k <= m THEN s[k] ELSE t[k - m]
    BY ConcatProperties
  <1>5. /\ a \in [0..m -> Seq(X)] /\ a[0] = <<>> /\ \A k \in 1..m : a[k] = a[k - 1] \o f[s[k]]
        /\ b \in [0..n -> Seq(X)] /\ b[0] = <<>> /\ \A k \in 1..n : b[k] = b[k - 1] \o f[t[k]]
    BY <1>1, <1>2 DEF IsRun
  <1>6. Expand(s, f) = a[m] /\ Expand(t, f) = b[n]
    BY <1>1, <1>2, ExpandRun
  <1> HIDE DEF m, n, st
  <1> DEFINE r == [k \in 0..(m + n) |-> IF k <= m THEN a[k] ELSE a[m] \o b[k - m]]
  <1>7. /\ a[m] \in Seq(X)
        /\ \A k \in 0..(m + n) : k <= m => k \in 0..m
        /\ \A k \in 0..(m + n) : ~(k <= m) => k - m \in 1..n
    BY <1>3, <1>5
  <1>8. ASSUME NEW k \in 0..(m + n) PROVE r[k] \in Seq(X)
    <2>1. CASE k <= m
      BY <1>5, <1>7, <2>1
    <2>2. CASE ~(k <= m)
      <3>1. k - m \in 0..n
        BY <1>3, <2>2
      <3>2. b[k - m] \in Seq(X)
        BY <1>5, <3>1
      <3>3. a[m] \o b[k - m] \in Seq(X)
        BY <1>7, <3>2, ConcatProperties
      <3> QED BY <2>2, <3>3
    <2> QED BY <2>1, <2>2
  <1>9. r[0] = <<>>
    BY <1>3, <1>5
  <1>10. ASSUME NEW k \in 1..(m + n) PROVE r[k] = r[k - 1] \o f[st[k]]
    <2>1. k \in 0..(m + n) /\ k - 1 \in 0..(m + n)
      BY <1>3
    <2>2. CASE k <= m
      <3>1. k \in 1..m /\ k - 1 <= m
        BY <1>3, <2>2
      <3>2. r[k] = a[k] /\ r[k - 1] = a[k - 1] /\ st[k] = s[k]
        BY <1>4, <2>1, <2>2, <3>1
      <3> QED BY <1>5, <3>1, <3>2
    <2>3. CASE ~(k <= m)
      <3>1. k - m \in 1..n /\ (k - m) - 1 \in 0..n /\ (k - m) - 1 = (k - 1) - m
        BY <1>3, <2>3
      <3>2. r[k] = a[m] \o b[k - m] /\ st[k] = t[k - m]
        BY <1>4, <2>1, <2>3
      <3>3. b[k - m] = b[(k - m) - 1] \o f[t[k - m]]
        BY <1>5, <3>1
      <3> DEFINE y == b[(k - m) - 1]
                 z == f[t[k - m]]
      <3>4. y \in Seq(X) /\ z \in Seq(X)
        BY <1>3, <1>5, <3>1
      <3>5. r[k - 1] = a[m] \o y
        <4>1. CASE k - 1 <= m
          <5>1. k - 1 = m /\ (k - m) - 1 = 0
            BY <1>3, <2>3, <4>1
          <5>2. r[k - 1] = a[m]
            BY <2>1, <5>1
          <5>3. y = <<>>
            BY <1>5, <5>1
          <5> QED BY <1>7, <5>2, <5>3, ConcatEmptySeq
        <4>2. CASE ~(k - 1 <= m)
          BY <2>1, <3>1, <4>2
        <4> QED BY <4>1, <4>2
      <3> HIDE DEF r, y, z
      <3>6. (a[m] \o y) \o z = a[m] \o (y \o z)
        <4> DEFINE x == a[m]
        <4>1. x \in Seq(X)
          BY <1>7
        <4> HIDE DEF x
        <4>2. (x \o y) \o z = x \o (y \o z)
          BY <3>4, <4>1, ConcatAssociative
        <4> QED BY <4>2 DEF x
      <3> QED BY <3>2, <3>3, <3>5, <3>6 DEF y, z
    <2> QED BY <2>2, <2>3
  <1>11. IsRun(r, st, f, X)
    <2>1. r \in [0..(m + n) -> Seq(X)]
      BY <1>8
    <2> HIDE DEF r
    <2> QED BY <1>4, <1>9, <1>10, <2>1 DEF IsRun
  <1>12. Expand(st, f) = r[m + n]
    <2> HIDE DEF r
    <2> QED BY <1>4, <1>11, ExpandRun
  <1>13. r[m + n] = a[m] \o b[n]
    <2>1. m + n \in 0..(m + n) /\ (m + n) - m = n /\ ((m + n <= m) => n = 0)
      BY <1>3
    <2>2. CASE n = 0
      <3>1. r[m + n] = a[m] /\ b[n] = <<>>
        BY <1>3, <1>5, <2>1, <2>2
      <3> QED BY <1>7, <3>1, ConcatEmptySeq
    <2>3. CASE n # 0
      BY <2>1, <2>3
    <2> QED BY <2>2, <2>3
  <1> QED BY <1>6, <1>12, <1>13 DEF st

\* Characters that become themselves leave the text as it is.
LEMMA ExpandSelf ==
    ASSUME NEW D, NEW s \in Seq(D), NEW X, NEW f \in [D -> Seq(X)],
           \A i \in 1..Len(s) : s[i] \in X /\ f[s[i]] = <<s[i]>>
    PROVE  Expand(s, f) = s
  <1> DEFINE n == Len(s)
             r == [k \in 0..n |-> SubSeq(s, 1, k)]
  <1>1. n \in Nat /\ s \in Seq(X)
    <2>1. n \in Nat /\ s \in [1..n -> D]
      BY LenProperties
    <2>2. s \in [1..n -> X]
      BY <2>1
    <2> QED BY <2>1, <2>2
  <1>2. ASSUME NEW k \in 0..n PROVE r[k] \in Seq(X)
    <2>1. \A i \in 1..k : s[i] \in X
      BY <1>1
    <2> QED BY <1>1, <2>1, SubSeqProperties
  <1>3. r[0] = <<>>
    BY <1>1, SubSeqEmpty
  <1>4. ASSUME NEW k \in 1..n PROVE r[k] = r[k - 1] \o f[s[k]]
    <2>1. k \in 0..n /\ k - 1 \in 0..n /\ 1 \in 1..n /\ k \in 1..n /\ k \in 1..Len(s)
      BY <1>1
    <2>2. SubSeq(s, 1, k) = SubSeq(s, 1, k - 1) \o <<s[k]>>
      BY <1>1, <2>1, SubSeqRecursiveSecond
    <2> QED BY <2>1, <2>2
  <1>5. IsRun(r, s, f, X)
    <2>1. r \in [0..n -> Seq(X)]
      BY <1>2
    <2> HIDE DEF r
    <2> QED BY <1>3, <1>4, <2>1 DEF IsRun
  <1>6. Expand(s, f) = r[n]
    <2> HIDE DEF r
    <2> QED BY <1>5, ExpandRun
  <1>7. r[n] = s
    <2>1. n \in 0..n
      BY <1>1
    <2> QED BY <1>1, <2>1, SubSeqFull
  <1> QED BY <1>6, <1>7

LEMMA ExpandOne ==
    ASSUME NEW D, NEW c \in D, NEW X, NEW f \in [D -> Seq(X)]
    PROVE  Expand(<<c>>, f) = f[c]
  <1> DEFINE s == <<c>>
             r == [k \in 0..1 |-> IF k = 0 THEN <<>> ELSE f[c]]
  <1>1. s \in Seq(D) /\ Len(s) = 1 /\ s[1] = c
    OBVIOUS
  <1>2. <<>> \in Seq(X) /\ f[c] \in Seq(X)
    BY EmptySeq
  <1>3. r[1] = r[0] \o f[s[1]]
    BY <1>1, <1>2, ConcatEmptySeq
  <1>4. r \in [0..1 -> Seq(X)] /\ r[0] = <<>> /\ r[1] = f[c]
    BY <1>2
  <1> HIDE DEF s, r
  <1>5. IsRun(r, s, f, X)
    BY <1>1, <1>3, <1>4 DEF IsRun
  <1> QED BY <1>1, <1>4, <1>5, ExpandRun DEF s

HeaderShape == [caseSensitive : BOOLEAN, stripKey : BOOLEAN, resourcePath : BOOLEAN]

LEMMA PathBodyType ==
    ASSUME NEW s \in Seq(Chars)
    PROVE  PathBody(s) \in Seq(Chars)
  <1> DEFINE n == Len(s)
             body == {i \in DOMAIN s : s[i] \notin {Slash, Backslash}}
             c == CHOOSE i \in body : \A j \in body : i <= j
  <1>1. n \in Nat /\ DOMAIN s = 1..n /\ \A i \in 1..n : s[i] \in Chars
    BY LenProperties, ElementOfSeq
  <1>2. PathBody(s) \in {s, <<>>} \/ (body # {} /\ PathBody(s) = SubSeq(s, c, n))
    BY Zenon DEF PathBody
  <1>3. ASSUME body # {} PROVE SubSeq(s, c, n) \in Seq(Chars)
    <2>1. body \subseteq Nat /\ body \subseteq 1..n
      BY <1>1
    <2> HIDE DEF n, body
    <2>2. \E i \in body : \A j \in body : i <= j
      BY <1>3, <2>1, LeastNumber
    <2>3. c \in body
      BY <2>2, Zenon
    <2> HIDE DEF c
    <2>4. c \in 1..n
      BY <2>1, <2>3
    <2>5. c \in Int /\ n \in Int /\ \A i \in c..n : s[i] \in Chars
      BY <1>1, <2>4
    <2> QED BY <2>5, SubSeqProperties
  <1>4. <<>> \in Seq(Chars)
    BY EmptySeq
  <1> HIDE DEF n, body, c
  <1> QED BY <1>2, <1>3, <1>4

\* What normalization makes of one character.
Becomes == [c \in Chars |-> IF Retains(c) THEN NormalizedChar(c) ELSE <<>>]
Lower == [c \in Chars |-> ToLowercase(c)]

LEMMA BecomesType ==
    /\ Becomes \in [Chars -> Seq(Chars)]
    /\ Lower \in [Chars -> Seq(Chars)]
  <1>1. \A c \in Chars : ToLowercase(c) \in Seq(Chars)
    BY LowercaseAssumption, Zenon
  <1>2. Backslash \in Chars
    BY LowercaseAssumption DEF Backslash
  <1>3. ASSUME NEW c \in Chars PROVE NormalizedChar(c) \in Seq(Chars)
    <2> DEFINE d == IF header.resourcePath /\ c = Slash THEN Backslash ELSE c
    <2>1. d \in Chars
      BY <1>2
    <2>2. NormalizedChar(c) \in {<<d>>, ToLowercase(d)}
      BY Zenon DEF NormalizedChar, Separated
    <2> HIDE DEF d
    <2>3. <<d>> \in Seq(Chars)
      BY <2>1
    <2> QED BY <1>1, <2>1, <2>2, <2>3
  <1>4. <<>> \in Seq(Chars)
    BY EmptySeq
  <1> QED BY <1>1, <1>3, <1>4 DEF Becomes, Lower

LEMMA NormalizeType ==
    ASSUME NEW s \in Seq(Chars)
    PROVE  Normalize(s) \in Seq(Chars) /\ Folded(s) \in Seq(Chars)
  <1>1. Normalize(s) = Expand(PathBody(s), Becomes) /\ Folded(s) = Expand(s, Lower)
    BY Zenon DEF Normalize, Folded, Becomes, Lower
  <1> QED BY <1>1, PathBodyType, BecomesType, ExpandType

\* Normalizing sees no more of a text than its lower case, and drops from that the
\* characters it drops from the text.
LEMMA NormalizeOfLower ==
    ASSUME ~header.caseSensitive, ~header.resourcePath, NEW s \in Seq(Chars)
    PROVE  Normalize(s) = Expand(Folded(s), [c \in Chars |-> IF Retains(c) THEN <<c>> ELSE <<>>])
  <1> DEFINE strip == [c \in Chars |-> IF Retains(c) THEN <<c>> ELSE <<>>]
             n == Len(s)
  <1>1. Normalize(s) = Expand(s, Becomes) /\ Folded(s) = Expand(s, Lower)
    BY Zenon DEF Normalize, Folded, Becomes, Lower, PathBody
  <1>2. strip \in [Chars -> Seq(Chars)]
    <2>1. \A c \in Chars : <<c>> \in Seq(Chars)
      OBVIOUS
    <2> QED BY <2>1, EmptySeq
  <1>3. ASSUME NEW c \in Chars PROVE Expand(Lower[c], strip) = Becomes[c]
    <2> DEFINE lower == ToLowercase(c)
               symbol(d) == IsAscii(d) /\ ~IsAlphanumeric(d)
    <2>1. /\ lower \in Seq(Chars)
          /\ symbol(c) => lower = <<c>>
          /\ ~symbol(c) => \A i \in DOMAIN lower : ~symbol(lower[i])
      BY LowercaseAssumption, Zenon
    <2>2. Lower[c] = lower /\ Becomes[c] = IF Retains(c) THEN lower ELSE <<>>
      <3>1. NormalizedChar(c) = lower
        BY Zenon DEF NormalizedChar, Separated
      <3> QED BY <3>1 DEF Lower, Becomes
    <2>3. \A d \in Chars : strip[d] = IF Retains(d) THEN <<d>> ELSE <<>>
      OBVIOUS
    <2>4. \A d : Retains(d) <=> (~header.stripKey \/ ~symbol(d))
      BY Zenon DEF Retains
    <2>5. DOMAIN lower = 1..Len(lower) /\ \A i \in 1..Len(lower) : lower[i] \in Chars
      BY <2>1, LenProperties, ElementOfSeq
    <2> HIDE DEF lower, strip, symbol
    <2>6. CASE ~header.stripKey \/ ~symbol(c)
      <3>1. \A i \in 1..Len(lower) : Retains(lower[i])
        BY <2>1, <2>4, <2>5, <2>6
      <3>2. \A i \in 1..Len(lower) : lower[i] \in Chars /\ strip[lower[i]] = <<lower[i]>>
        BY <2>3, <2>5, <3>1
      <3>3. Expand(lower, strip) = lower
        BY <1>2, <2>1, <3>2, ExpandSelf
      <3> QED BY <2>2, <2>4, <2>6, <3>3
    <2>7. CASE header.stripKey /\ symbol(c)
      <3>1. ~Retains(c)
        BY <2>4, <2>7
      <3>2. strip[c] = <<>> /\ Becomes[c] = <<>> /\ Lower[c] = <<c>>
        BY <2>1, <2>2, <2>3, <2>7, <3>1
      <3> QED BY <1>2, <3>2, ExpandOne
    <2> QED BY <2>6, <2>7
  <1> HIDE DEF strip
  <1>4. PICK a : IsRun(a, s, Lower, Chars)
    BY BecomesType, RunExists
  <1>5. /\ a \in [0..n -> Seq(Chars)] /\ a[0] = <<>>
        /\ \A k \in 1..n : a[k] = a[k - 1] \o Lower[s[k]]
    BY <1>4 DEF IsRun
  <1>6. n \in Nat /\ \A k \in 1..n : s[k] \in Chars
    BY LenProperties, ElementOfSeq
  <1> DEFINE b == [k \in 0..n |-> Expand(a[k], strip)]
  <1>7. b \in [0..n -> Seq(Chars)]
    <2>1. \A k \in 0..n : Expand(a[k], strip) \in Seq(Chars)
      BY <1>2, <1>5, ExpandType
    <2> QED BY <2>1
  <1>8. b[0] = <<>>
    <2>1. 0 \in 0..n
      BY <1>6
    <2>2. Expand(<<>>, strip) = <<>>
      <3>1. <<>> \in Seq(Chars) /\ \A i \in 1..Len(<<>>) : FALSE
        BY EmptySeq
      <3> QED BY <1>2, <3>1, ExpandSelf
    <2> QED BY <1>5, <2>1, <2>2
  <1>9. ASSUME NEW k \in 1..n PROVE b[k] = b[k - 1] \o Becomes[s[k]]
    <2>1. k \in 0..n /\ k - 1 \in 0..n
      BY <1>6
    <2>2. a[k] = a[k - 1] \o Lower[s[k]] /\ a[k - 1] \in Seq(Chars) /\ s[k] \in Chars
      BY <1>5, <1>6, <2>1
    <2>3. Lower[s[k]] \in Seq(Chars)
      BY <2>2, BecomesType
    <2> DEFINE x == a[k - 1]
               y == Lower[s[k]]
    <2>4. Expand(x \o y, strip) = Expand(x, strip) \o Expand(y, strip)
      <3> HIDE DEF x, y
      <3>1. x \in Seq(Chars) /\ y \in Seq(Chars)
        BY <2>2, <2>3 DEF x, y
      <3> QED BY <1>2, <3>1, ExpandConcat
    <2>5. b[k] = Expand(a[k], strip) /\ b[k - 1] = Expand(a[k - 1], strip)
      BY <2>1
    <2> HIDE DEF b
    <2> QED BY <1>3, <2>2, <2>4, <2>5
  <1> HIDE DEF b, n
  <1>10. IsRun(b, s, Becomes, Chars)
    BY <1>7, <1>8, <1>9 DEF IsRun, n
  <1>11. Expand(s, Becomes) = b[n] /\ Expand(s, Lower) = a[n]
    BY <1>4, <1>10, BecomesType, ExpandRun DEF n
  <1>12. b[n] = Expand(a[n], strip)
    <2>1. n \in 0..n
      BY <1>6
    <2> QED BY <2>1 DEF b
  <1> QED BY <1>1, <1>11, <1>12 DEF strip

\* Keys that differ in case only have the same normalized key.
LEMMA VariantsNormalizeAlike ==
    ASSUME ~header.caseSensitive, ~header.resourcePath,
           NEW s \in Seq(Chars), NEW t \in Seq(Chars), EqualIgnoringCase(s, t)
    PROVE  Normalize(s) = Normalize(t)
  BY NormalizeOfLower, Zenon DEF EqualIgnoringCase

LEMMA PrefixAgrees ==
    ASSUME NEW s \in Seq(Nat), NEW t \in Seq(Nat)
    PROVE  IsPrefix(s, t) <=> Len(s) <= Len(t) /\ \A i \in 1..Len(s) : s[i] = t[i]
  <1> DEFINE m == Len(s)
             n == Len(t)
             a == SubSeq(s, 1, m)
             b == SubSeq(t, 1, m)
  <1>1. /\ m \in Nat /\ n \in Nat
        /\ (\A i \in 1..m : s[i] \in Nat) /\ (\A i \in 1..n : t[i] \in Nat)
    BY LenProperties, ElementOfSeq
  <1>2. IsPrefix(s, t) <=> m <= n /\ a = b
    BY DEF IsPrefix
  <1>3. a = s
    BY SubSeqFull
  <1>4. ASSUME m <= n
        PROVE  b \in Seq(Nat) /\ Len(b) = m /\ \A i \in 1..m : b[i] = t[i]
    <2>1. \A i \in 1..m : t[i] \in Nat
      BY <1>1, <1>4
    <2>2. b \in Seq(Nat) /\ Len(b) = (IF 1 <= m THEN m - 1 + 1 ELSE 0) /\ \A i \in 1..(m - 1 + 1) : b[i] = t[1 + i - 1]
      <3> HIDE DEF m, n
      <3> QED BY <1>1, <2>1, SubSeqProperties
    <2> HIDE DEF b, m
    <2> QED BY <1>1, <2>2
  <1> HIDE DEF a, b, n
  <1>5. ASSUME m <= n, \A i \in 1..m : s[i] = t[i] PROVE s = b
    BY <1>4, <1>5, SeqEqual
  <1> QED BY <1>2, <1>3, <1>4, <1>5 DEF n

\* Where a text is less than another: there is a first place at which they differ.
LessAt(s, t, i) ==
    /\ i \in 1..(Len(s) + 1) /\ i <= Len(t)
    /\ \A j \in 1..(i - 1) : s[j] = t[j]
    /\ i = Len(s) + 1 \/ s[i] < t[i]

LEMMA TextLessAt ==
    ASSUME NEW s \in Seq(Nat), NEW t \in Seq(Nat)
    PROVE  TextLess(s, t) <=> \E i : LessAt(s, t, i)
  <1> DEFINE m == Len(s)
             n == Len(t)
  <1>1. /\ m \in Nat /\ n \in Nat /\ DOMAIN s = 1..m /\ DOMAIN t = 1..n
        /\ (\A i \in 1..m : s[i] \in Nat) /\ (\A i \in 1..n : t[i] \in Nat)
    BY LenProperties, ElementOfSeq
  <1>2. IsPrefix(s, t) <=> m <= n /\ \A i \in 1..m : s[i] = t[i]
    BY PrefixAgrees
  <1>3. ASSUME IsStrictPrefix(s, t) PROVE LessAt(s, t, m + 1)
    <2>1. IsPrefix(s, t) /\ s # t
      BY <1>3 DEF IsStrictPrefix
    <2>2. m # n
      BY <1>2, <2>1, SeqEqual
    <2> HIDE DEF m, n
    <2>3. m + 1 \in 1..(m + 1) /\ m + 1 <= n /\ \A j \in 1..(m + 1 - 1) : s[j] = t[j]
      BY <1>1, <1>2, <2>1, <2>2
    <2> QED BY <2>3 DEF LessAt, m, n
  <1>4. ASSUME NEW i \in DOMAIN s \cap DOMAIN t, s[i] < t[i], \A j \in 1..(i - 1) : s[j] = t[j]
        PROVE  LessAt(s, t, i)
    <2>1. i \in 1..(m + 1) /\ i <= n
      BY <1>1, <1>4
    <2> QED BY <1>4, <2>1 DEF LessAt
  <1>5. ASSUME NEW i, LessAt(s, t, i) PROVE TextLess(s, t)
    <2>1. i \in 1..(m + 1) /\ i <= n /\ (\A j \in 1..(i - 1) : s[j] = t[j]) /\ (i = m + 1 \/ s[i] < t[i])
      BY <1>5 DEF LessAt
    <2>2. CASE i = m + 1
      <3>1. m <= n /\ m # n /\ \A j \in 1..m : s[j] = t[j]
        <4> HIDE DEF m, n
        <4> QED BY <1>1, <2>1, <2>2
      <3>2. IsPrefix(s, t)
        BY <1>2, <3>1
      <3> QED BY <3>1, <3>2 DEF TextLess, IsStrictPrefix
    <2>3. CASE i # m + 1
      <3>1. i \in DOMAIN s \cap DOMAIN t /\ s[i] < t[i]
        <4> HIDE DEF m, n
        <4> QED BY <1>1, <2>1, <2>3
      <3> QED BY <2>1, <3>1 DEF TextLess
    <2> QED BY <2>2, <2>3
  <1> QED BY <1>3, <1>4, <1>5 DEF TextLess

LEMMA TextLessIrreflexive ==
    ASSUME NEW s \in Seq(Nat)
    PROVE  ~TextLess(s, s)
  <1>1. Len(s) \in Nat /\ \A i \in 1..Len(s) : s[i] \in Nat
    BY LenProperties, ElementOfSeq
  <1> SUFFICES ASSUME NEW i, LessAt(s, s, i) PROVE FALSE
    BY TextLessAt
  <1> QED BY <1>1 DEF LessAt

LEMMA TextLessTransitive ==
    ASSUME NEW s \in Seq(Nat), NEW t \in Seq(Nat), NEW u \in Seq(Nat),
           TextLess(s, t), TextLess(t, u)
    PROVE  TextLess(s, u)
  <1> DEFINE l == Len(s)
             m == Len(t)
             n == Len(u)
  <1>1. /\ l \in Nat /\ m \in Nat /\ n \in Nat
        /\ (\A i \in 1..l : s[i] \in Nat) /\ (\A i \in 1..m : t[i] \in Nat)
        /\ (\A i \in 1..n : u[i] \in Nat)
    BY LenProperties, ElementOfSeq
  <1>2. PICK i : LessAt(s, t, i)
    BY TextLessAt
  <1>3. PICK k : LessAt(t, u, k)
    BY TextLessAt
  <1>4. i \in 1..(l + 1) /\ i <= m /\ (\A j \in 1..(i - 1) : s[j] = t[j]) /\ (i = l + 1 \/ s[i] < t[i])
    BY <1>2 DEF LessAt
  <1>5. k \in 1..(m + 1) /\ k <= n /\ (\A j \in 1..(k - 1) : t[j] = u[j]) /\ (k = m + 1 \/ t[k] < u[k])
    BY <1>3 DEF LessAt
  <1> HIDE DEF l, m, n
  <1>6. i \in Int /\ k \in Int
    BY <1>1, <1>4, <1>5
  <1>7. CASE i < k
    <2>1. i <= n /\ i \in 1..(k - 1)
      BY <1>1, <1>4, <1>5, <1>7
    <2>2. t[i] = u[i]
      BY <1>5, <2>1
    <2>3. \A j \in 1..(i - 1) : j \in 1..(k - 1)
      BY <1>6, <1>7
    <2>4. \A j \in 1..(i - 1) : s[j] = u[j]
      BY <1>4, <1>5, <2>3
    <2>5. LessAt(s, u, i)
      BY <1>4, <2>1, <2>2, <2>4 DEF LessAt, l, n
    <2> QED BY <2>5, TextLessAt
  <1>8. CASE i = k
    <2>1. k # m + 1 /\ i <= n
      BY <1>1, <1>4, <1>5, <1>8
    <2>2. i = l + 1 \/ s[i] < u[i]
      <3>1. CASE i # l + 1
        <4>1. i \in 1..l /\ i \in 1..m /\ i \in 1..n
          BY <1>1, <1>4, <2>1, <3>1
        <4>2. s[i] \in Nat /\ t[i] \in Nat /\ u[i] \in Nat /\ s[i] < t[i] /\ t[i] < u[i]
          BY <1>1, <1>4, <1>5, <1>8, <2>1, <3>1, <4>1
        <4> QED BY <4>2
      <3> QED BY <3>1
    <2>3. \A j \in 1..(i - 1) : s[j] = u[j]
      BY <1>4, <1>5, <1>8
    <2>4. LessAt(s, u, i)
      BY <1>4, <2>1, <2>2, <2>3 DEF LessAt, l, n
    <2> QED BY <2>4, TextLessAt
  <1>9. CASE k < i
    <2>1. k # m + 1 /\ k \in 1..(l + 1) /\ k \in 1..(i - 1)
      BY <1>1, <1>4, <1>5, <1>9
    <2>2. s[k] < u[k]
      BY <1>4, <1>5, <2>1
    <2>3. \A j \in 1..(k - 1) : j \in 1..(i - 1)
      BY <1>6, <1>9
    <2>4. \A j \in 1..(k - 1) : s[j] = u[j]
      BY <1>4, <1>5, <2>3
    <2>5. LessAt(s, u, k)
      BY <1>5, <2>1, <2>2, <2>4 DEF LessAt, l, n
    <2> QED BY <2>5, TextLessAt
  <1> QED BY <1>6, <1>7, <1>8, <1>9

LEMMA TextLessTotal ==
    ASSUME NEW s \in Seq(Nat), NEW t \in Seq(Nat), s # t
    PROVE  TextLess(s, t) \/ TextLess(t, s)
  <1> DEFINE m == Len(s)
             n == Len(t)
             differ == {i \in 1..(m + n + 1) : i > m \/ i > n \/ s[i] # t[i]}
  <1>1. /\ m \in Nat /\ n \in Nat
        /\ (\A i \in 1..m : s[i] \in Nat) /\ (\A i \in 1..n : t[i] \in Nat)
    BY LenProperties, ElementOfSeq
  <1>2. ~(m = n /\ \A i \in 1..m : s[i] = t[i])
    BY SeqEqual
  <1> HIDE DEF m, n
  <1>3. m + n + 1 \in differ /\ differ \subseteq Nat
    BY <1>1
  <1>4. PICK i \in differ : \A j \in differ : i <= j
    <2> HIDE DEF differ
    <2> QED BY <1>3, LeastNumber
  <1>5. i \in 1..(m + n + 1) /\ (i > m \/ i > n \/ s[i] # t[i])
    OBVIOUS
  <1>6. ASSUME NEW j \in 1..(i - 1) PROVE j <= m /\ j <= n /\ s[j] = t[j]
    <2>1. j \in 1..(m + n + 1) /\ ~(i <= j)
      BY <1>1, <1>5
    <2>2. j \notin differ
      BY <1>4, <2>1
    <2> QED BY <1>1, <2>1, <2>2
  <1> HIDE DEF differ
  <1>7. i - 1 <= m /\ i - 1 <= n
    <2>1. CASE i = 1
      BY <1>1, <2>1
    <2>2. CASE i # 1
      <3>1. i - 1 \in 1..(i - 1)
        BY <1>1, <1>5, <2>2
      <3> QED BY <1>6, <3>1
    <2> QED BY <2>1, <2>2
  <1>8. i <= m \/ i <= n
    <2> SUFFICES ASSUME i > m, i > n PROVE FALSE
      BY <1>1, <1>5
    <2>1. i - 1 = m /\ i - 1 = n
      BY <1>1, <1>5, <1>7
    <2> QED BY <1>2, <1>6, <2>1
  <1>9. i \in 1..(m + 1) /\ i \in 1..(n + 1)
    BY <1>1, <1>5, <1>7
  <1>10. CASE i <= n /\ (i > m \/ s[i] < t[i])
    <2>1. i = m + 1 \/ s[i] < t[i]
      BY <1>1, <1>9, <1>10
    <2>2. LessAt(s, t, i)
      BY <1>6, <1>9, <1>10, <2>1 DEF LessAt, m, n
    <2> QED BY <2>2, TextLessAt
  <1>11. CASE i <= m /\ (i > n \/ t[i] < s[i])
    <2>1. i = n + 1 \/ t[i] < s[i]
      BY <1>1, <1>9, <1>11
    <2>2. \A j \in 1..(i - 1) : t[j] = s[j]
      BY <1>6
    <2>3. LessAt(t, s, i)
      BY <1>9, <1>11, <2>1, <2>2 DEF LessAt, m, n
    <2> QED BY <2>3, TextLessAt
  <1>12. (i <= n /\ (i > m \/ s[i] < t[i])) \/ (i <= m /\ (i > n \/ t[i] < s[i]))
    <2>1. CASE i <= m /\ i <= n
      <3>1. i \in 1..m /\ i \in 1..n /\ s[i] # t[i]
        BY <1>1, <1>5, <2>1
      <3>2. s[i] \in Nat /\ t[i] \in Nat
        BY <1>1, <3>1
      <3> QED BY <2>1, <3>1, <3>2
    <2>2. CASE ~(i <= m /\ i <= n)
      BY <1>1, <1>5, <1>8, <2>2
    <2> QED BY <2>1, <2>2
  <1> QED BY <1>10, <1>11, <1>12

\* The texts that have a prefix come one after the other, the prefix first.
LEMMA PrefixFromItself ==
    ASSUME NEW p \in Seq(Nat), NEW a \in Seq(Nat), IsPrefix(p, a)
    PROVE  ~TextLess(a, p)
  <1>1. /\ Len(p) \in Nat /\ Len(a) \in Nat
        /\ (\A i \in 1..Len(p) : p[i] \in Nat) /\ (\A i \in 1..Len(a) : a[i] \in Nat)
    BY LenProperties, ElementOfSeq
  <1>2. Len(p) <= Len(a) /\ \A i \in 1..Len(p) : p[i] = a[i]
    BY PrefixAgrees
  <1> SUFFICES ASSUME NEW i, LessAt(a, p, i) PROVE FALSE
    BY TextLessAt
  <1>3. i \in 1..Len(p) /\ i # Len(a) + 1 /\ a[i] < p[i]
    BY <1>1, <1>2 DEF LessAt
  <1> QED BY <1>1, <1>2, <1>3

LEMMA PrefixConvex ==
    ASSUME NEW p \in Seq(Nat), NEW a \in Seq(Nat), NEW b \in Seq(Nat),
           ~TextLess(a, p), TextLess(a, b), IsPrefix(p, b)
    PROVE  IsPrefix(p, a)
  <1> DEFINE l == Len(p)
             m == Len(a)
             n == Len(b)
  <1>1. /\ l \in Nat /\ m \in Nat /\ n \in Nat
        /\ (\A i \in 1..l : p[i] \in Nat) /\ (\A i \in 1..m : a[i] \in Nat)
        /\ (\A i \in 1..n : b[i] \in Nat)
    BY LenProperties, ElementOfSeq
  <1>2. l <= n /\ \A i \in 1..l : p[i] = b[i]
    BY PrefixAgrees
  <1>3. PICK i : LessAt(a, b, i)
    BY TextLessAt
  <1>4. i \in 1..(m + 1) /\ i <= n /\ (\A j \in 1..(i - 1) : a[j] = b[j]) /\ (i = m + 1 \/ a[i] < b[i])
    BY <1>3 DEF LessAt
  <1>5. CASE a = p
    <2>1. l <= l
      BY <1>1
    <2> QED BY <1>5, <2>1, PrefixAgrees
  <1>6. CASE TextLess(p, a)
    <2>1. PICK k : LessAt(p, a, k)
      BY <1>6, TextLessAt
    <2>2. k \in 1..(l + 1) /\ k <= m /\ (\A j \in 1..(k - 1) : p[j] = a[j]) /\ (k = l + 1 \/ p[k] < a[k])
      BY <2>1 DEF LessAt
    <2>3. CASE k = l + 1
      <3>1. l <= m /\ \A j \in 1..l : p[j] = a[j]
        <4> HIDE DEF l, m, n
        <4> QED BY <1>1, <2>2, <2>3
      <3> QED BY <3>1, PrefixAgrees
    <2>4. CASE k # l + 1
      <3> HIDE DEF l, m, n
      <3>1. k \in 1..l /\ k \in 1..m /\ k \in 1..n
        BY <1>1, <1>2, <2>2, <2>4
      <3>2. p[k] < a[k] /\ p[k] = b[k] /\ p[k] \in Nat /\ a[k] \in Nat
        BY <1>1, <1>2, <2>2, <2>4, <3>1
      <3>3. CASE i < k
        <4>1. i \in 1..(k - 1) /\ i \in 1..l /\ i \in 1..m /\ i # m + 1
          BY <1>1, <1>4, <3>1, <3>3
        <4>2. p[i] = a[i] /\ p[i] = b[i] /\ a[i] < b[i] /\ a[i] \in Nat
          BY <1>1, <1>2, <1>4, <2>2, <4>1
        <4> QED BY <4>2
      <3>4. CASE i = k
        <4>1. i # m + 1
          BY <1>1, <3>1, <3>4
        <4>2. a[k] < b[k]
          BY <1>4, <3>4, <4>1
        <4> QED BY <3>2, <4>2
      <3>5. CASE k < i
        <4>1. k \in 1..(i - 1)
          BY <1>1, <1>4, <3>1, <3>5
        <4>2. a[k] = b[k]
          BY <1>4, <4>1
        <4> QED BY <3>2, <4>2
      <3>6. i \in Int /\ k \in Int
        BY <1>1, <1>4, <3>1
      <3> QED BY <3>3, <3>4, <3>5, <3>6
    <2> QED BY <2>3, <2>4
  <1> QED BY <1>5, <1>6, TextLessTotal

LEMMA LocatorOrders ==
    ASSUME AllRows \subseteq Nat, NEW norm \in [AllRows -> Seq(Nat)]
    PROVE  IsOrder(AllRows, LocatorOrder(norm))
  <1> DEFINE R == LocatorOrder(norm)
             less(x, y) == TextLess(norm[x], norm[y])
  <1>1. \A x, y \in AllRows : <<x, y>> \in R <=> less(x, y) \/ (norm[x] = norm[y] /\ x < y)
    BY DEF LocatorOrder, CompareRows
  <1>2. \A x \in AllRows : norm[x] \in Seq(Nat) /\ x \in Nat
    OBVIOUS
  <1>3. \A x \in AllRows : ~less(x, x)
    BY <1>2, TextLessIrreflexive
  <1>4. \A x, y, z \in AllRows : less(x, y) /\ less(y, z) => less(x, z)
    BY <1>2, TextLessTransitive
  <1>5. \A x, y \in AllRows : norm[x] = norm[y] \/ less(x, y) \/ less(y, x)
    BY <1>2, TextLessTotal
  <1>6. \A x, y, z \in AllRows : (norm[x] = norm[y] /\ less(y, z) => less(x, z))
                              /\ (less(x, y) /\ norm[y] = norm[z] => less(x, z))
    OBVIOUS
  <1>7. \A x, y, z \in Nat : (x < y /\ y < z => x < z) /\ ~(x < x) /\ (x = y \/ x < y \/ y < x)
    OBVIOUS
  <1> HIDE DEF R, less
  <1>8. \A x \in AllRows : <<x, x>> \notin R
    BY <1>1, <1>2, <1>3, <1>7
  <1>9. ASSUME NEW x \in AllRows, NEW y \in AllRows, NEW z \in AllRows,
               <<x, y>> \in R, <<y, z>> \in R
        PROVE  <<x, z>> \in R
    <2>1. less(x, y) \/ (norm[x] = norm[y] /\ x < y)
      BY <1>1, <1>9
    <2>2. less(y, z) \/ (norm[y] = norm[z] /\ y < z)
      BY <1>1, <1>9
    <2>3. less(x, z) \/ (norm[x] = norm[z] /\ x < z)
      BY <1>2, <1>4, <1>6, <1>7, <2>1, <2>2
    <2> QED BY <1>1, <2>3
  <1>10. \A x, y \in AllRows : x = y \/ <<x, y>> \in R \/ <<y, x>> \in R
    BY <1>1, <1>2, <1>5, <1>7
  <1> QED BY <1>8, <1>9, <1>10 DEF IsOrder, R

LEMMA AscendingOrders ==
    ASSUME NEW S, S \subseteq Nat
    PROVE  IsOrder(S, {p \in S \X S : p[1] < p[2]})
  <1>1. \A x, y \in S : <<x, y>> \in {p \in S \X S : p[1] < p[2]} <=> x < y
    OBVIOUS
  <1>2. \A x, y, z \in Nat : (x < y /\ y < z => x < z) /\ ~(x < x) /\ (x = y \/ x < y \/ y < x)
    OBVIOUS
  <1> DEFINE R == {p \in S \X S : p[1] < p[2]}
  <1> HIDE DEF R
  <1>3. \A x, y \in S : <<x, y>> \in R <=> x < y
    BY <1>1 DEF R
  <1>4. IsOrder(S, R)
    BY <1>2, <1>3 DEF IsOrder
  <1> QED BY <1>4 DEF R

-----------------------------------------------------------------------------

\* The numbers up to n that form a beginning are as many as the last of them.
LEMMA Beginning ==
    ASSUME NEW n \in Nat, NEW K \in SUBSET (1..n), \A j, k \in 1..n : k \in K /\ j < k => j \in K
    PROVE  Cardinality(K) \in 0..n /\ \A k \in 1..n : k \in K <=> k <= Cardinality(K)
  <1> DEFINE out == {k \in 1..(n + 1) : k \notin K}
  <1>1. n + 1 \in out /\ out \subseteq Nat
    OBVIOUS
  <1>2. PICK m \in out : \A k \in out : m <= k
    <2> HIDE DEF out
    <2> QED BY <1>1, LeastNumber
  <1>3. m \in 1..(n + 1) /\ m \notin K
    OBVIOUS
  <1>4. \A k \in 1..n : k \in K <=> k <= m - 1
    <2> TAKE k \in 1..n
    <2>1. CASE k < m
      <3>1. k \notin out
        BY <1>2, <1>3, <2>1
      <3> QED BY <1>3, <2>1, <3>1
    <2>2. CASE ~(k < m)
      <3>1. k = m \/ (m < k /\ m \in 1..n)
        BY <1>3, <2>2
      <3> QED BY <1>3, <2>2, <3>1
    <2> QED BY <2>1, <2>2
  <1>5. K = 1..(m - 1)
    <2> HIDE DEF out
    <2>1. \A k \in K : k \in 1..(m - 1)
      BY <1>3, <1>4
    <2>2. \A k \in 1..(m - 1) : k \in 1..n /\ k <= m - 1
      BY <1>3
    <2>3. \A k \in 1..(m - 1) : k \in K
      BY <1>4, <2>2
    <2> QED BY <2>1, <2>3
  <1>6. Cardinality(K) = m - 1
    <2>1. m - 1 \in Nat
      BY <1>3
    <2>2. Cardinality(1..(m - 1)) = IF 1 > m - 1 THEN 0 ELSE (m - 1) - 1 + 1
      BY <2>1, FS_Interval
    <2> QED BY <1>5, <2>1, <2>2
  <1> HIDE DEF out
  <1> QED BY <1>3, <1>4, <1>6

\* Ascending(S) lists S.
Increasing(s, S) ==
    /\ s \in Seq(S)
    /\ \A x \in S : \E i \in 1..Len(s) : s[i] = x
    /\ \A i, j \in 1..Len(s) : i < j => s[i] < s[j]

LEMMA AscendingLists ==
    ASSUME NEW S, IsFiniteSet(S), S \subseteq Nat
    PROVE  Increasing(Ascending(S), S) /\ Len(Ascending(S)) = Cardinality(S)
  <1> DEFINE R == {p \in S \X S : p[1] < p[2]}
             s == Sorted(S, R)
  <1>1. IsOrder(S, R)
    BY AscendingOrders
  <1>2. Ascending(S) = s
    BY DEF Ascending
  <1>3. \A x, y \in S : <<x, y>> \in R => x < y
    OBVIOUS
  <1> HIDE DEF R
  <1>4. Lists(s, S, R) /\ Len(s) = Cardinality(S)
    BY <1>1, SortedLists
  <1> HIDE DEF s
  <1>5. \A i \in 1..Len(s) : s[i] \in S
    BY <1>4, ElementOfSeq DEF Lists
  <1>6. Increasing(s, S)
    BY <1>3, <1>4, <1>5 DEF Lists, Increasing
  <1> QED BY <1>2, <1>4, <1>6

LEMMA AscendingIsTheList ==
    ASSUME NEW S, IsFiniteSet(S), S \subseteq Nat, NEW s, Increasing(s, S)
    PROVE  s = Ascending(S)
  <1> DEFINE R == {p \in S \X S : p[1] < p[2]}
  <1>1. IsOrder(S, R)
    BY AscendingOrders
  <1>2. \A x, y \in S : x < y => <<x, y>> \in R
    OBVIOUS
  <1>3. Ascending(S) = Sorted(S, R)
    BY DEF Ascending
  <1> HIDE DEF R
  <1>4. \A i \in 1..Len(s) : s[i] \in S
    BY ElementOfSeq DEF Increasing
  <1>5. Lists(s, S, R)
    BY <1>2, <1>4 DEF Lists, Increasing
  <1> QED BY <1>1, <1>3, <1>5, SortedIsTheList

\* A pass over an ascending list keeps it ascending.
LEMMA KeptAscending ==
    ASSUME NEW S, IsFiniteSet(S), S \subseteq Nat, NEW T
    PROVE  Kept(Ascending(S), T) = Ascending(S \cap T)
  <1> DEFINE a == Ascending(S)
             K == {k \in DOMAIN a : a[k] \in T}
             places == Ascending(K)
             r == [n \in DOMAIN places |-> a[places[n]]]
  <1>1. Increasing(a, S)
    BY AscendingLists
  <1>2. Kept(a, T) = r
    BY DEF Kept
  <1> HIDE DEF a
  <1>3. /\ Len(a) \in Nat /\ DOMAIN a = 1..Len(a) /\ \A k \in 1..Len(a) : a[k] \in S
    BY <1>1, LenProperties, ElementOfSeq DEF Increasing
  <1>4. K \subseteq 1..Len(a) /\ K \subseteq Nat /\ \A k \in 1..Len(a) : k \in K <=> a[k] \in T
    BY <1>3
  <1>5. IsFiniteSet(K)
    <2> HIDE DEF K
    <2>1. IsFiniteSet(1..Len(a))
      BY <1>3, FS_Interval
    <2> QED BY <1>4, <2>1, FS_Subset
  <1> HIDE DEF K
  <1>6. Increasing(places, K)
    BY <1>4, <1>5, AscendingLists
  <1> HIDE DEF places
  <1>7. /\ Len(places) \in Nat /\ DOMAIN places = 1..Len(places)
        /\ \A n \in 1..Len(places) : places[n] \in K
    BY <1>6, LenProperties, ElementOfSeq DEF Increasing
  <1> DEFINE m == Len(places)
  <1> HIDE DEF m
  <1>8. /\ m \in Nat /\ \A n \in 1..m : places[n] \in K
        /\ r = [n \in 1..m |-> a[places[n]]]
    BY <1>7 DEF m
  <1> HIDE DEF r
  <1>9. \A n \in 1..m : r[n] = a[places[n]] /\ places[n] \in 1..Len(a) /\ a[places[n]] \in S \cap T
    BY <1>3, <1>4, <1>8
  <1>10. r \in Seq(S \cap T) /\ Len(r) = m
    <2>1. r \in [1..m -> S \cap T]
      BY <1>8, <1>9
    <2> QED BY <1>8, <2>1
  <1>11. ASSUME NEW x \in S \cap T PROVE \E n \in 1..m : r[n] = x
    <2>1. PICK k \in 1..Len(a) : a[k] = x
      BY <1>1 DEF Increasing
    <2>2. k \in K
      BY <1>4, <2>1
    <2>3. PICK n \in 1..m : places[n] = k
      BY <1>6, <2>2 DEF Increasing, m
    <2> QED BY <1>9, <2>1, <2>3
  <1>12. ASSUME NEW i \in 1..m, NEW j \in 1..m, i < j PROVE r[i] < r[j]
    <2>1. places[i] < places[j]
      BY <1>6, <1>12 DEF Increasing, m
    <2>2. a[places[i]] < a[places[j]]
      BY <1>1, <1>9, <2>1 DEF Increasing
    <2> QED BY <1>9, <2>2
  <1>13. Increasing(r, S \cap T)
    BY <1>10, <1>11, <1>12 DEF Increasing
  <1>14. IsFiniteSet(S \cap T) /\ S \cap T \subseteq Nat
    BY FS_Subset
  <1>15. r = Ascending(S \cap T)
    BY <1>13, <1>14, AscendingIsTheList
  <1> QED BY <1>2, <1>15 DEF a

-----------------------------------------------------------------------------

\* A dictionary and its locator.
Published ==
    /\ keys \in Seq(Seq(Chars))
    /\ header \in HeaderShape
    /\ located = BuildKeyLocator
    /\ LocatorSize(located) <= LocatorBytes

NormOf == [o \in AllRows |-> Normalize(keys[o])]

LEMMA PublishedFacts ==
    ASSUME Published
    PROVE  /\ Len(keys) \in Nat /\ AllRows = 1..Len(keys) /\ AllRows \subseteq Nat
           /\ IsFiniteSet(AllRows)
           /\ \A o \in AllRows : keys[o] \in Seq(Chars)
           /\ NormOf \in [AllRows -> Seq(Nat)]
           /\ \A o \in AllRows : NormOf[o] = Normalize(keys[o])
           /\ located.norm = NormOf
           /\ located.digest = [o \in AllRows |-> Digest(keys[o])]
           /\ Lists(located.order, AllRows, LocatorOrder(NormOf))
           /\ Len(located.order) = Len(keys)
           /\ IsOrder(AllRows, LocatorOrder(NormOf))
  <1>1. Len(keys) \in Nat /\ AllRows = 1..Len(keys) /\ \A o \in AllRows : keys[o] \in Seq(Chars)
    BY LenProperties, ElementOfSeq DEF Published, AllRows
  <1>2. AllRows \subseteq Nat
    BY <1>1
  <1>3. IsFiniteSet(AllRows) /\ Cardinality(AllRows) = Len(keys)
    <2>1. IsFiniteSet(1..Len(keys)) /\ Cardinality(1..Len(keys)) = IF 1 > Len(keys) THEN 0 ELSE Len(keys) - 1 + 1
      BY <1>1, FS_Interval
    <2> QED BY <1>1, <2>1
  <1>4. \A o \in AllRows : Normalize(keys[o]) \in Seq(Nat)
    <2>1. \A o \in AllRows : Normalize(keys[o]) \in Seq(Chars)
      BY <1>1, NormalizeType
    <2>2. Chars \subseteq Nat
      BY LowercaseAssumption
    <2> QED BY <2>1, <2>2, SeqMonotonic
  <1>5. NormOf \in [AllRows -> Seq(Nat)] /\ \A o \in AllRows : NormOf[o] = Normalize(keys[o])
    BY <1>4 DEF NormOf
  <1>6. /\ located.norm = NormOf
        /\ located.order = Sorted(AllRows, LocatorOrder(NormOf))
        /\ located.digest = [o \in AllRows |-> Digest(keys[o])]
    BY DEF Published, BuildKeyLocator, NormOf
  <1>7. IsOrder(AllRows, LocatorOrder(NormOf))
    BY <1>2, <1>5, LocatorOrders
  <1>8. Lists(located.order, AllRows, LocatorOrder(NormOf)) /\ Len(located.order) = Len(keys)
    BY <1>3, <1>6, <1>7, SortedLists
  <1> QED BY <1>1, <1>2, <1>3, <1>5, <1>6, <1>7, <1>8

\* A set of rows that is a beginning of the order ends at its partition point.
LEMMA PartitionPointEnds ==
    ASSUME Published, NEW T,
           \A i, j \in 1..Len(keys) : i < j /\ located.order[j] \in T => located.order[i] \in T
    PROVE  /\ PartitionPoint(T) \in 0..Len(keys)
           /\ \A k \in 1..Len(keys) : located.order[k] \in T <=> k <= PartitionPoint(T)
  <1> DEFINE n == Len(keys)
             s == located.order
             K == {k \in DOMAIN s : \A j \in 1..k : s[j] \in T}
  <1>1. n \in Nat /\ DOMAIN s = 1..n
    <2>1. n \in Nat /\ s \in Seq(AllRows) /\ Len(s) = n
      BY PublishedFacts DEF Lists
    <2> QED BY <2>1, LenProperties
  <1>2. PartitionPoint(T) = Cardinality(K)
    BY DEF PartitionPoint
  <1> HIDE DEF n, s
  <1>3. \A i, j \in 1..n : i < j /\ s[j] \in T => s[i] \in T
    BY DEF n, s
  <1>4. \A k \in 1..n : k \in K <=> s[k] \in T
    <2> TAKE k \in 1..n
    <2>1. k \in 1..k /\ \A j \in 1..k : j \in 1..n /\ (j = k \/ j < k)
      BY <1>1
    <2> QED BY <1>1, <1>3, <2>1
  <1>5. K \in SUBSET (1..n)
    BY <1>1
  <1> HIDE DEF K
  <1>6. \A j, k \in 1..n : k \in K /\ j < k => j \in K
    BY <1>3, <1>4
  <1>7. Cardinality(K) \in 0..n /\ \A k \in 1..n : k \in K <=> k <= Cardinality(K)
    BY <1>1, <1>5, <1>6, Beginning
  <1> QED BY <1>2, <1>4, <1>7 DEF n, s

\* What comes before what in the published order.
LEMMA OrderFacts ==
    ASSUME Published, NEW i \in 1..Len(keys), NEW j \in 1..Len(keys), i < j
    PROVE  LET x == located.order[i]
               y == located.order[j]
           IN  /\ x \in AllRows /\ y \in AllRows
               /\ TextLess(NormOf[x], NormOf[y]) \/ (NormOf[x] = NormOf[y] /\ x < y)
  <1> DEFINE x == located.order[i]
             y == located.order[j]
  <1>1. Lists(located.order, AllRows, LocatorOrder(NormOf)) /\ Len(located.order) = Len(keys)
    BY PublishedFacts
  <1>2. x \in AllRows /\ y \in AllRows
    BY <1>1, ElementOfSeq DEF Lists
  <1>3. <<x, y>> \in LocatorOrder(NormOf)
    BY <1>1 DEF Lists
  <1> HIDE DEF x, y
  <1>4. CompareRows(NormOf, x, y)
    BY <1>3 DEF LocatorOrder
  <1>5. TextLess(NormOf[x], NormOf[y]) \/ (NormOf[x] = NormOf[y] /\ x < y)
    BY <1>4, Zenon DEF CompareRows
  <1> QED BY <1>2, <1>5, Zenon DEF x, y

LEMMA BelowEnds ==
    ASSUME Published, NEW text \in Seq(Nat)
    PROVE  LET p == PartitionPoint(Below(text))
               z == PartitionPoint(NotAbove(text))
               s == located.order
           IN  /\ p \in 0..Len(keys) /\ z \in 0..Len(keys) /\ p <= z
               /\ \A k \in 1..Len(keys) : TextLess(NormOf[s[k]], text) <=> k <= p
               /\ \A k \in 1..Len(keys) : NormOf[s[k]] = text <=> p < k /\ k <= z
  <1> DEFINE n == Len(keys)
             s == located.order
             less(k) == TextLess(NormOf[s[k]], text)
             same(k) == NormOf[s[k]] = text
             p == PartitionPoint(Below(text))
             z == PartitionPoint(NotAbove(text))
  <1>1. n \in Nat /\ located.norm = NormOf /\ \A k \in 1..n : s[k] \in AllRows /\ NormOf[s[k]] \in Seq(Nat)
    <2>1. n \in Nat /\ s \in Seq(AllRows) /\ Len(s) = n /\ NormOf \in [AllRows -> Seq(Nat)] /\ located.norm = NormOf
      BY PublishedFacts DEF Lists
    <2>2. \A k \in 1..n : s[k] \in AllRows
      BY <2>1, ElementOfSeq
    <2> HIDE DEF n, s
    <2> QED BY <2>1, <2>2
  <1>2. \A k \in 1..n : (s[k] \in Below(text) <=> less(k)) /\ (s[k] \in NotAbove(text) <=> less(k) \/ same(k))
    BY <1>1 DEF Below, NotAbove
  <1>3. ASSUME NEW i \in 1..n, NEW j \in 1..n, i < j, less(j) \/ same(j)
        PROVE  (less(j) => less(i)) /\ (less(i) \/ same(i))
    <2>1. TextLess(NormOf[s[i]], NormOf[s[j]]) \/ NormOf[s[i]] = NormOf[s[j]]
      BY <1>3, OrderFacts
    <2>2. NormOf[s[i]] \in Seq(Nat) /\ NormOf[s[j]] \in Seq(Nat)
      BY <1>1
    <2>3. CASE less(j)
      BY <2>1, <2>2, <2>3, TextLessTransitive
    <2>4. CASE same(j)
      <3>1. ~less(j)
        BY <2>4, TextLessIrreflexive
      <3> QED BY <2>1, <2>4, <3>1
    <2> QED BY <1>3, <2>3, <2>4
  <1>4. \A k \in 1..n : ~(less(k) /\ same(k))
    BY TextLessIrreflexive
  <1> HIDE DEF less, same, n
  <1>5. \A i, j \in 1..n : i < j /\ s[j] \in Below(text) => s[i] \in Below(text)
    BY <1>2, <1>3
  <1>6. \A i, j \in 1..n : i < j /\ s[j] \in NotAbove(text) => s[i] \in NotAbove(text)
    BY <1>2, <1>3
  <1>7. p \in 0..n /\ \A k \in 1..n : s[k] \in Below(text) <=> k <= p
    BY <1>5, PartitionPointEnds DEF n
  <1>8. z \in 0..n /\ \A k \in 1..n : s[k] \in NotAbove(text) <=> k <= z
    BY <1>6, PartitionPointEnds DEF n
  <1> HIDE DEF s, p, z
  <1>9. \A k \in 1..n : (less(k) <=> k <= p) /\ (less(k) \/ same(k) <=> k <= z)
    BY <1>2, <1>7, <1>8
  <1>10. p <= z
    <2>1. CASE p = 0
      BY <1>1, <1>8, <2>1
    <2>2. CASE p # 0
      <3>1. p \in 1..n /\ p <= p
        BY <1>1, <1>7, <2>2
      <3> QED BY <1>9, <3>1
    <2> QED BY <2>1, <2>2
  <1>11. \A k \in 1..n : same(k) <=> p < k /\ k <= z
    <2> TAKE k \in 1..n
    <2>1. k \in Int /\ p \in Int /\ (k <= p <=> ~(p < k))
      BY <1>1, <1>7
    <2> QED BY <1>4, <1>9, <2>1
  <1> QED BY <1>7, <1>8, <1>9, <1>10, <1>11 DEF n, s, p, z, less, same

\* The rows of a set of rows, as numbers.
LEMMA RowSets ==
    ASSUME Published, NEW S \in SUBSET AllRows
    PROVE  IsFiniteSet(S) /\ S \subseteq Nat /\ Cardinality(S) \in 0..Len(keys)
  <1>1. /\ IsFiniteSet(AllRows) /\ AllRows \subseteq Nat /\ AllRows = 1..Len(keys) /\ Len(keys) \in Nat
    BY PublishedFacts
  <1>2. Cardinality(AllRows) = IF 1 > Len(keys) THEN 0 ELSE Len(keys) - 1 + 1
    BY <1>1, FS_Interval
  <1>3. IsFiniteSet(S) /\ Cardinality(S) <= Cardinality(AllRows) /\ Cardinality(S) \in Nat
    BY <1>1, FS_Subset, FS_CardinalityType
  <1> QED BY <1>1, <1>2, <1>3

\* equal_range finds the rows with the normalized text, lowest ordinal first.
LEMMA EqualRangeExact ==
    ASSUME Published, NEW text \in Seq(Nat)
    PROVE  EqualRange(text) = Ascending({o \in AllRows : NormOf[o] = text})
  <1> DEFINE n == Len(keys)
             s == located.order
             S == {o \in AllRows : NormOf[o] = text}
             p == PartitionPoint(Below(text))
             z == PartitionPoint(NotAbove(text))
             r == SubSeq(s, p + 1, z)
  <1>1. /\ n \in Nat /\ AllRows \subseteq Nat
        /\ s \in Seq(AllRows) /\ Len(s) = n /\ \A x \in AllRows : \E k \in 1..n : s[k] = x
    BY PublishedFacts DEF Lists
  <1>2. \A k \in 1..n : s[k] \in AllRows
    BY <1>1, ElementOfSeq
  <1>3. /\ p \in 0..n /\ z \in 0..n /\ p <= z
        /\ \A k \in 1..n : NormOf[s[k]] = text <=> p < k /\ k <= z
    BY BelowEnds
  <1>4. ASSUME NEW i \in 1..n, NEW j \in 1..n, i < j, NormOf[s[i]] = text, NormOf[s[j]] = text
        PROVE  s[i] < s[j]
    <2>1. ~TextLess(text, text)
      BY TextLessIrreflexive
    <2> QED BY <1>4, <2>1, OrderFacts
  <1>5. EqualRange(text) = r
    BY DEF EqualRange
  <1> HIDE DEF n, s, p, z
  <1>6. \A k \in (p + 1)..z : k \in 1..n /\ s[k] \in S
    <2> TAKE k \in (p + 1)..z
    <2>1. k \in 1..n /\ p < k /\ k <= z
      BY <1>1, <1>3
    <2> QED BY <1>2, <1>3, <2>1
  <1>7. /\ r \in Seq(S) /\ Len(r) = (IF p + 1 <= z THEN z - (p + 1) + 1 ELSE 0)
        /\ \A i \in 1..(z - (p + 1) + 1) : r[i] = s[(p + 1) + i - 1]
    <2>1. p + 1 \in Int /\ z \in Int
      BY <1>1, <1>3
    <2> HIDE DEF S
    <2> QED BY <1>6, <2>1, SubSeqProperties
  <1> HIDE DEF r
  <1>8. /\ r \in Seq(S) /\ Len(r) = z - p /\ \A i \in 1..(z - p) : r[i] = s[p + i]
    <2>1. /\ (IF p + 1 <= z THEN z - (p + 1) + 1 ELSE 0) = z - p /\ z - (p + 1) + 1 = z - p
          /\ \A i \in 1..(z - p) : (p + 1) + i - 1 = p + i
      BY <1>1, <1>3
    <2> HIDE DEF S
    <2> QED BY <1>7, <2>1
  <1>9. ASSUME NEW x \in S PROVE \E i \in 1..(z - p) : r[i] = x
    <2>1. PICK k \in 1..n : s[k] = x
      BY <1>1
    <2>2. p < k /\ k <= z
      BY <1>3, <2>1
    <2>3. k - p \in 1..(z - p) /\ p + (k - p) = k
      BY <1>1, <1>3, <2>2
    <2> QED BY <1>8, <2>1, <2>3
  <1>10. ASSUME NEW i \in 1..(z - p), NEW j \in 1..(z - p), i < j PROVE r[i] < r[j]
    <2>1. p + i \in 1..n /\ p + j \in 1..n /\ p + i < p + j /\ p + i \in (p + 1)..z /\ p + j \in (p + 1)..z
      BY <1>1, <1>3, <1>10
    <2>2. s[p + i] < s[p + j]
      BY <1>4, <1>6, <2>1
    <2> QED BY <1>8, <2>2
  <1>11. Increasing(r, S)
    <2> HIDE DEF S
    <2> QED BY <1>8, <1>9, <1>10 DEF Increasing
  <1>12. IsFiniteSet(S) /\ S \subseteq Nat
    BY RowSets
  <1>13. r = Ascending(S)
    <2> HIDE DEF S
    <2> QED BY <1>11, <1>12, AscendingIsTheList
  <1> QED BY <1>5, <1>13

SameNorm(q) == {o \in AllRows : NormOf[o] = Normalize(q)}

\* What each pass of a lookup finds, said of the keys alone.
LEMMA Classified ==
    ASSUME Published, NEW q \in Seq(Chars)
    PROVE  LET range == EqualRange(Normalize(q)) IN
           /\ range = Ascending(SameNorm(q))
           /\ IsRaw(q) \subseteq SameNorm(q)
           /\ RawExact(range, q) = IsRaw(q)
           /\ Kept(range, IsRaw(q)) = Ascending(IsRaw(q))
           /\ ~header.caseSensitive /\ ~header.resourcePath =>
                /\ IsVariant(q) \subseteq SameNorm(q)
                /\ Kept(range, IsVariant(q)) = Ascending(IsVariant(q))
  <1> DEFINE range == EqualRange(Normalize(q))
             S == SameNorm(q)
  <1>1. Normalize(q) \in Seq(Nat)
    <2>1. Normalize(q) \in Seq(Chars) /\ Chars \subseteq Nat
      BY NormalizeType, LowercaseAssumption
    <2> QED BY <2>1, SeqMonotonic
  <1>2. range = Ascending(S)
    BY <1>1, EqualRangeExact DEF SameNorm
  <1>3. IsFiniteSet(S) /\ S \subseteq Nat /\ S \subseteq AllRows
    BY RowSets DEF SameNorm
  <1>4. \A o \in AllRows : /\ NormOf[o] = Normalize(keys[o]) /\ keys[o] \in Seq(Chars)
                           /\ located.digest[o] = Digest(keys[o])
    BY PublishedFacts
  <1>5. IsRaw(q) \subseteq S
    BY <1>4 DEF IsRaw, SameNorm
  <1> HIDE DEF S
  <1>6. Increasing(Ascending(S), S)
    BY <1>3, AscendingLists
  <1>7. RawExact(range, q) = IsRaw(q)
    <2> DEFINE a == Ascending(S)
               K == {i \in DOMAIN a : located.digest[a[i]] = Digest(q)}
    <2>1. RawExact(range, q) = {a[k] : k \in K} \cap IsRaw(q)
      BY <1>2 DEF RawExact
    <2> HIDE DEF a
    <2>2. ASSUME NEW o \in IsRaw(q) PROVE \E k \in K : a[k] = o
      <3>1. o \in S /\ o \in AllRows /\ keys[o] = q
        BY <1>5 DEF IsRaw
      <3>2. PICK k \in 1..Len(a) : a[k] = o
        BY <1>6, <3>1 DEF Increasing, a
      <3>3. DOMAIN a = 1..Len(a)
        BY <1>6, LenProperties DEF Increasing, a
      <3>4. located.digest[a[k]] = Digest(q)
        BY <1>4, <3>1, <3>2
      <3> QED BY <3>2, <3>3, <3>4
    <2> HIDE DEF K
    <2> QED BY <2>1, <2>2
  <1>8. ASSUME NEW T, T \subseteq S PROVE Kept(range, T) = Ascending(T)
    <2>1. Kept(Ascending(S), T) = Ascending(S \cap T)
      BY <1>3, KeptAscending
    <2>2. S \cap T = T
      BY <1>8
    <2> QED BY <1>2, <2>1, <2>2
  <1>9. Kept(range, IsRaw(q)) = Ascending(IsRaw(q))
    BY <1>5, <1>8
  <1>10. ASSUME ~header.caseSensitive, ~header.resourcePath PROVE IsVariant(q) \subseteq S
    <2>1. ASSUME NEW o \in IsVariant(q) PROVE o \in S
      <3>1. o \in AllRows /\ EqualIgnoringCase(keys[o], q)
        BY DEF IsVariant
      <3>2. Normalize(keys[o]) = Normalize(q)
        BY <1>4, <1>10, <3>1, VariantsNormalizeAlike
      <3> QED BY <1>4, <3>1, <3>2 DEF S, SameNorm
    <2> QED BY <2>1
  <1> HIDE DEF range
  <1>11. ASSUME ~header.caseSensitive, ~header.resourcePath
         PROVE Kept(range, IsVariant(q)) = Ascending(IsVariant(q))
    BY <1>8, <1>10, <1>11
  <1> QED BY <1>2, <1>5, <1>7, <1>9, <1>10, <1>11 DEF range, S

LEMMA EncodeUtf8Type ==
    ASSUME NEW c \in Chars
    PROVE  EncodeUtf8(c) \in Seq(Int)
  <1>1. c \in Int
    BY LowercaseAssumption
  <1>2. PICK x, y, z \in Int : x = 192 + c \div 64 /\ y = 224 + c \div 4096 /\ z = 240 + c \div 262144
    BY <1>1, SMT
  <1>3. PICK u, v, w \in Int : /\ u = 128 + (c % 64)
                              /\ v = 128 + ((c \div 64) % 64)
                              /\ w = 128 + ((c \div 4096) % 64)
    BY <1>1, SMT
  <1>4. EncodeUtf8(c) \in {<<c>>, <<x, u>>, <<y, v, u>>, <<z, w, v, u>>}
    BY <1>1, <1>2, <1>3, SMT DEF EncodeUtf8
  <1>5. \A k, l, m, n \in Int : /\ <<k>> \in Seq(Int) /\ <<k, l>> \in Seq(Int)
                              /\ <<k, l, m>> \in Seq(Int) /\ <<k, l, m, n>> \in Seq(Int)
    OBVIOUS
  <1> QED BY <1>1, <1>4, <1>5, Zenon

\* A locator that fits its limit has room for every row of it.
LEMMA RowsFit ==
    ASSUME Published
    PROVE  4 * Len(keys) <= LocatorBytes /\ Len(keys) <= UsizeMax
  <1> DEFINE n == Len(keys)
             all == [o \in DOMAIN located.norm |-> o]
             text == Encoded(Expand(all, located.norm))
  <1>1. n \in Nat /\ AllRows = 1..n /\ located.norm \in [AllRows -> Seq(Nat)] /\ Len(located.order) = n
    BY PublishedFacts
  <1>2. all \in Seq(AllRows)
    <2>1. all \in [1..n -> AllRows]
      BY <1>1
    <2> QED BY <1>1, <2>1
  <1>3. text \in Seq(Int)
    <2> DEFINE points == Expand(all, located.norm)
               utf8 == [c \in Chars |-> EncodeUtf8(c)]
    <2>1. points \in Seq(Chars)
      <3>1. located.norm = NormOf
        BY PublishedFacts
      <3>2. \A o \in AllRows : NormOf[o] \in Seq(Chars)
        BY PublishedFacts, NormalizeType
      <3>3. located.norm \in [AllRows -> Seq(Chars)]
        BY <1>1, <3>1, <3>2
      <3> HIDE DEF all
      <3> QED BY <1>2, <3>3, ExpandType
    <2>2. utf8 \in [Chars -> Seq(Int)]
      BY EncodeUtf8Type
    <2> HIDE DEF points, utf8
    <2>3. Expand(points, utf8) \in Seq(Int)
      BY <2>1, <2>2, ExpandType
    <2> QED BY <2>3 DEF Encoded, points, utf8
  <1>4. Len(text) \in Nat
    BY <1>3, LenProperties
  <1>5. 4 * (3 * n + 1) + Len(text) <= LocatorBytes
    BY <1>1 DEF Published, LocatorSize
  <1>6. LocatorBytes \in Nat /\ UsizeMax \in Nat /\ LocatorBytes <= UsizeMax
    BY LookupAssumption
  <1> HIDE DEF n, text
  <1>7. 4 * n <= LocatorBytes /\ n <= UsizeMax
    BY <1>1, <1>4, <1>5, <1>6
  <1> QED BY <1>7 DEF n

-----------------------------------------------------------------------------

LEMMA WindowLength ==
    ASSUME NEW n \in Nat, NEW offset \in Nat, NEW limit \in Nat
    PROVE  LET e == Least(n, offset + limit)
               w == Least(limit, SaturatingSub(n, offset))
           IN  /\ (IF offset + 1 <= e THEN e - (offset + 1) + 1 ELSE 0) = w
               /\ w \in 0..n /\ w <= limit
               /\ \A i \in 1..w : offset + i \in 1..n
               /\ \A i \in 1..w : i \in 1..(e - (offset + 1) + 1) /\ (offset + 1) + i - 1 = offset + i
               /\ \A i \in (offset + 1)..e : i \in 1..n
  BY DEF Least, SaturatingSub

\* A window by its length and its rows.
LEMMA WindowRows ==
    ASSUME NEW X, NEW s \in Seq(X), NEW offset \in Nat, NEW limit \in Nat
    PROVE  LET w == Window(s, offset, limit) IN
           /\ w \in Seq(X)
           /\ Len(w) = Least(limit, SaturatingSub(Len(s), offset))
           /\ Len(w) \in 0..Len(s) /\ Len(w) <= limit
           /\ \A i \in 1..Len(w) : w[i] = s[offset + i] /\ offset + i \in 1..Len(s)
  <1> DEFINE n == Len(s)
             e == Least(n, offset + limit)
             m == Least(limit, SaturatingSub(n, offset))
             w == SubSeq(s, offset + 1, e)
  <1>1. n \in Nat /\ \A i \in 1..n : s[i] \in X
    BY LenProperties, ElementOfSeq
  <1>2. Window(s, offset, limit) = w
    BY DEF Window
  <1> HIDE DEF n
  <1>3. /\ (IF offset + 1 <= e THEN e - (offset + 1) + 1 ELSE 0) = m
        /\ m \in 0..n /\ m <= limit
        /\ \A i \in 1..m : offset + i \in 1..n
        /\ \A i \in 1..m : i \in 1..(e - (offset + 1) + 1) /\ (offset + 1) + i - 1 = offset + i
        /\ \A i \in (offset + 1)..e : i \in 1..n
    BY <1>1, WindowLength, Zenon
  <1>4. offset + 1 \in Int /\ e \in Int
    BY <1>1 DEF Least
  <1> HIDE DEF e, m
  <1>5. /\ w \in Seq(X) /\ Len(w) = (IF offset + 1 <= e THEN e - (offset + 1) + 1 ELSE 0)
        /\ \A i \in 1..(e - (offset + 1) + 1) : w[i] = s[(offset + 1) + i - 1]
    <2>1. \A i \in (offset + 1)..e : s[i] \in X
      BY <1>1, <1>3
    <2> QED BY <1>4, <2>1, SubSeqProperties
  <1> HIDE DEF w
  <1>6. Len(w) = m /\ \A i \in 1..m : w[i] = s[offset + i]
    BY <1>3, <1>5
  <1>7. /\ w \in Seq(X) /\ Len(w) = m /\ Len(w) \in 0..n /\ Len(w) <= limit
        /\ \A i \in 1..Len(w) : w[i] = s[offset + i] /\ offset + i \in 1..n
    BY <1>3, <1>5, <1>6
  <1> QED BY <1>2, <1>7 DEF n, m

\* All rows are the window without bounds.
LEMMA WindowOfAll ==
    ASSUME NEW X, NEW s \in Seq(X), NEW limit \in Nat, Len(s) <= limit
    PROVE  Window(s, 0, limit) = s
  <1>1. Len(s) \in Nat
    BY LenProperties
  <1>2. Least(Len(s), 0 + limit) = Len(s)
    BY <1>1 DEF Least
  <1> QED BY <1>2, SubSeqFull DEF Window

\* The bounds locate_key_page computes with saturation give the window asked for.
LEMMA WindowSaturated ==
    ASSUME NEW X, NEW s \in Seq(X), NEW offset \in Nat, NEW limit \in Nat, Len(s) <= UsizeMax
    PROVE  LET start == Least(offset, Len(s))
           IN  SubSeq(s, start + 1, Least(SaturatingAdd(start, limit), Len(s)))
               = Window(s, offset, limit)
  <1> DEFINE n == Len(s)
             start == Least(offset, n)
             end == Least(SaturatingAdd(start, limit), n)
             e == Least(n, offset + limit)
  <1>1. n \in Nat /\ UsizeMax \in Nat
    BY LenProperties, LookupAssumption
  <1> HIDE DEF n
  <1>2. n <= UsizeMax
    BY DEF n
  <1>3. CASE offset < n
    <2>1. start = offset /\ end = e
      BY <1>1, <1>2, <1>3 DEF Least, SaturatingAdd
    <2> QED BY <2>1 DEF Window, n
  <1>4. CASE ~(offset < n)
    <2>1. /\ start + 1 \in Int /\ end \in Int /\ end < start + 1
          /\ offset + 1 \in Int /\ e \in Int /\ e < offset + 1
      BY <1>1, <1>2, <1>4 DEF Least, SaturatingAdd
    <2> HIDE DEF start, end, e
    <2>2. SubSeq(s, start + 1, end) = <<>> /\ SubSeq(s, offset + 1, e) = <<>>
      BY <2>1, SubSeqEmpty
    <2>3. SubSeq(s, start + 1, end) = SubSeq(s, offset + 1, e)
      BY <2>2
    <2> QED BY <2>3 DEF Window, n, start, end, e
  <1> QED BY <1>3, <1>4

\* A page that starts in one list and goes on in the other is the window of both.
LEMMA WindowSplit ==
    ASSUME NEW X, NEW a \in Seq(X), NEW b \in Seq(X), NEW offset \in Nat, NEW limit \in Nat
    PROVE  LET kept == Window(a, offset, limit)
               wanted == Least(limit, SaturatingSub(Len(a) + Len(b), offset))
               more == Window(b, SaturatingSub(offset, Len(a)), wanted - Len(kept))
           IN  (IF Len(kept) < wanted THEN kept \o more ELSE kept) = Window(a \o b, offset, limit)
  <1> DEFINE l == Len(a)
             m == Len(b)
             kept == Window(a, offset, limit)
             w == Least(limit, SaturatingSub(l + m, offset))
             k == Least(limit, SaturatingSub(l, offset))
             d == SaturatingSub(offset, l)
             r == Least(w - k, SaturatingSub(m, d))
             more == Window(b, d, w - k)
             ab == a \o b
             all == Window(ab, offset, limit)
             page == IF k < w THEN kept \o more ELSE kept
  <1>1. l \in Nat /\ m \in Nat
    BY LenProperties
  <1>2. ab \in Seq(X) /\ Len(ab) = l + m /\ \A i \in 1..(l + m) : ab[i] = IF i <= l THEN a[i] ELSE b[i - l]
    BY ConcatProperties
  <1>3. kept \in Seq(X) /\ Len(kept) = k /\ \A i \in 1..k : kept[i] = a[offset + i]
    <2>1. /\ kept \in Seq(X) /\ Len(kept) = k
          /\ \A i \in 1..Len(kept) : kept[i] = a[offset + i]
      BY WindowRows
    <2> HIDE DEF kept, k
    <2> QED BY <2>1
  <1> HIDE DEF ab, kept
  <1>4. all \in Seq(X) /\ Len(all) = w /\ \A i \in 1..w : all[i] = ab[offset + i]
    <2>1. /\ all \in Seq(X) /\ Len(all) = Least(limit, SaturatingSub(Len(ab), offset))
          /\ \A i \in 1..Len(all) : all[i] = ab[offset + i]
      BY <1>2, WindowRows
    <2> HIDE DEF all
    <2> QED BY <1>2, <2>1
  <1> HIDE DEF l, m, all
  <1>5. /\ w \in Nat /\ k \in Nat /\ d \in Nat /\ w - k \in Nat
        /\ r = w - k
        /\ \A i \in 1..w : offset + i \in 1..(l + m)
        /\ \A i \in 1..k : offset + i <= l
        /\ \A i \in 1..w : ~(i <= k) => /\ i - k \in 1..r
                                        /\ ~(offset + i <= l)
                                        /\ d + (i - k) = (offset + i) - l
    <2>1. /\ w = Least(limit, SaturatingSub(l + m, offset))
          /\ k = Least(limit, SaturatingSub(l, offset))
          /\ d = SaturatingSub(offset, l)
          /\ r = Least(w - k, SaturatingSub(m, d))
      OBVIOUS
    <2> HIDE DEF w, k, d, r
    <2> QED BY <1>1, <2>1 DEF Least, SaturatingSub
  <1> HIDE DEF w, k, d
  <1>6. more \in Seq(X) /\ Len(more) = w - k /\ \A i \in 1..(w - k) : more[i] = b[d + i]
    <2>1. more \in Seq(X) /\ Len(more) = r /\ \A i \in 1..Len(more) : more[i] = b[d + i]
      <3> DEFINE rest == w - k
      <3>1. d \in Nat /\ rest \in Nat
        BY <1>5
      <3> HIDE DEF rest
      <3>2. LET v == Window(b, d, rest) IN
            /\ v \in Seq(X) /\ Len(v) = Least(rest, SaturatingSub(Len(b), d))
            /\ \A i \in 1..Len(v) : v[i] = b[d + i]
        BY <3>1, WindowRows
      <3> QED BY <3>2, Zenon DEF rest, m
    <2> HIDE DEF more, r
    <2> QED BY <1>5, <2>1
  <1> HIDE DEF r, more
  <1>7. page = all
    <2>1. CASE k < w
      <3> DEFINE km == kept \o more
      <3>1. /\ km \in Seq(X) /\ Len(km) = k + (w - k)
            /\ \A i \in 1..(k + (w - k)) : km[i] = IF i <= k THEN kept[i] ELSE more[i - k]
        <4>1. /\ km \in Seq(X) /\ Len(km) = Len(kept) + Len(more)
              /\ \A i \in 1..(Len(kept) + Len(more)) :
                    km[i] = IF i <= Len(kept) THEN kept[i] ELSE more[i - Len(kept)]
          BY <1>3, <1>6, ConcatProperties
        <4> HIDE DEF km
        <4> QED BY <1>3, <1>6, <4>1
      <3> HIDE DEF km
      <3>2. k + (w - k) = w
        BY <1>5
      <3>3. ASSUME NEW i \in 1..w PROVE km[i] = all[i]
        <4>1. offset + i \in 1..(l + m) /\ all[i] = ab[offset + i]
          BY <1>4, <1>5
        <4>2. CASE i <= k
          <5>1. i \in 1..k
            BY <1>5, <4>2
          <5>2. km[i] = a[offset + i] /\ ab[offset + i] = a[offset + i]
            BY <1>2, <1>3, <1>5, <3>1, <3>2, <4>1, <4>2, <5>1
          <5> QED BY <4>1, <5>2
        <4>3. CASE ~(i <= k)
          <5>1. i - k \in 1..(w - k) /\ ~(offset + i <= l) /\ d + (i - k) = (offset + i) - l
            BY <1>5, <4>3
          <5>2. km[i] = more[i - k]
            BY <3>1, <3>2, <4>3
          <5>3. more[i - k] = b[d + (i - k)]
            BY <1>6, <5>1
          <5>4. ab[offset + i] = b[(offset + i) - l]
            <6> DEFINE x == offset + i
            <6>1. x \in 1..(l + m) /\ ~(x <= l)
              BY <4>1, <5>1
            <6> HIDE DEF x
            <6>2. ab[x] = b[x - l]
              BY <1>2, <6>1
            <6> QED BY <6>2 DEF x
          <5>5. b[d + (i - k)] = b[(offset + i) - l]
            BY <5>1
          <5>6. km[i] = ab[offset + i]
            BY <5>2, <5>3, <5>4, <5>5, Zenon
          <5> QED BY <4>1, <5>6
        <4> QED BY <4>2, <4>3
      <3>4. km = all
        BY <1>4, <3>1, <3>2, <3>3, SeqEqual
      <3> QED BY <2>1, <3>4 DEF km
    <2>2. CASE ~(k < w)
      <3>1. k = w
        BY <1>5, <2>2
      <3>2. ASSUME NEW i \in 1..w PROVE kept[i] = all[i]
        <4>1. i \in 1..k
          BY <3>1
        <4>2. offset + i \in 1..(l + m) /\ offset + i <= l /\ all[i] = ab[offset + i] /\ kept[i] = a[offset + i]
          BY <1>3, <1>4, <1>5, <4>1
        <4> QED BY <1>2, <4>2
      <3>3. kept = all
        BY <1>3, <1>4, <3>1, <3>2, SeqEqual
      <3> QED BY <2>2, <3>3
    <2> QED BY <2>1, <2>2
  <1>8. page = IF Len(kept) < w THEN kept \o Window(b, d, w - Len(kept)) ELSE kept
    BY <1>3 DEF more
  <1> HIDE DEF page
  <1> QED BY <1>7, <1>8, Zenon DEF kept, w, d, all, ab, l, m

-----------------------------------------------------------------------------

\* What the invariants say of an answer p to the query q, when all are the rows to
\* be found.
Exactly(p, all, offset, limit) ==
    p.tag \in {"none", "found"} =>
        IF all = <<>> THEN p = NotFound
        ELSE p.tag = "found" /\ p.total = Len(all) /\ p.rows = Window(all, offset, limit)

Basis(basis, all, q) ==
    CASE basis = "exact" -> \A k \in DOMAIN all : keys[all[k]] = q
      [] basis = "normalized" -> \A k \in DOMAIN all : keys[all[k]] # q
      [] basis = "variants" ->
            /\ \E k \in DOMAIN all : keys[all[k]] # q
            /\ \A k \in DOMAIN all : EqualIgnoringCase(keys[all[k]], q)

Fits(p, q, limit) ==
    /\ p.tag = "found" => Len(p.rows) <= p.room /\ Len(p.rows) <= limit
    /\ p.tag = "limit" => QueryTooLong(q)

Right(p, all, q, offset, limit) ==
    /\ Exactly(p, all, offset, limit)
    /\ p.tag = "found" => Basis(p.basis, all, q)
    /\ Fits(p, q, limit)

LEMMA NoRowsRight ==
    ASSUME NEW q, NEW all, NEW offset, NEW limit
    PROVE  /\ Right(Unavailable, all, q, offset, limit)
           /\ QueryTooLong(q) => Right(LimitExceeded, all, q, offset, limit)
           /\ all = <<>> => Right(NotFound, all, q, offset, limit)
           /\ Unavailable # NotFound /\ LimitExceeded # NotFound
  <1>1. Unavailable.tag = "unavailable" /\ LimitExceeded.tag = "limit" /\ NotFound.tag = "none"
    BY DEF Unavailable, LimitExceeded, NotFound
  <1> QED BY <1>1 DEF Right, Exactly, Fits

LEMMA FoundRight ==
    ASSUME NEW q, NEW X, NEW all \in Seq(X), all # <<>>, NEW offset \in Nat, NEW limit \in Nat,
           NEW rows, rows = Window(all, offset, limit),
           NEW total, total = Len(all),
           NEW room, Len(rows) <= room, NEW basis, Basis(basis, all, q)
    PROVE  /\ Right(Found(basis, total, rows, room), all, q, offset, limit)
           /\ Found(basis, total, rows, room) # NotFound
  <1> DEFINE p == Found(basis, total, rows, room)
  <1>1. /\ p.tag = "found" /\ p.basis = basis /\ p.total = total /\ p.rows = rows /\ p.room = room
        /\ NotFound.tag = "none"
    BY DEF Found, NotFound
  <1> HIDE DEF p
  <1>2. Len(rows) <= limit
    BY WindowRows
  <1>3. Exactly(p, all, offset, limit)
    BY <1>1 DEF Exactly
  <1>4. Fits(p, q, limit)
    BY <1>1, <1>2 DEF Fits
  <1>5. Right(p, all, q, offset, limit) /\ p # NotFound
    BY <1>1, <1>3, <1>4 DEF Right
  <1> QED BY <1>5 DEF p

\* The list of a set of rows.
LEMMA RowList ==
    ASSUME Published, NEW T \in SUBSET AllRows
    PROVE  LET a == Ascending(T) IN
           /\ a \in Seq(Nat) /\ Len(a) \in Nat /\ Len(a) = Cardinality(T) /\ DOMAIN a = 1..Len(a)
           /\ \A k \in 1..Len(a) : a[k] \in T
           /\ \A x \in T : \E k \in 1..Len(a) : a[k] = x
           /\ a = <<>> <=> T = {}
           /\ Len(a) = 0 <=> T = {}
           /\ Len(a) <= Len(keys)
  <1> DEFINE a == Ascending(T)
  <1>1. IsFiniteSet(T) /\ T \subseteq Nat /\ Cardinality(T) \in 0..Len(keys) /\ Len(keys) \in Nat
    BY RowSets, PublishedFacts
  <1>2. Increasing(a, T) /\ Len(a) = Cardinality(T)
    BY <1>1, AscendingLists
  <1> HIDE DEF a
  <1>3. a \in Seq(T)
    BY <1>2 DEF Increasing
  <1>4. a \in Seq(Nat) /\ Len(a) \in Nat /\ DOMAIN a = 1..Len(a) /\ \A k \in 1..Len(a) : a[k] \in T
    BY <1>1, <1>3, SeqMonotonic, LenProperties, ElementOfSeq
  <1>5. \A x \in T : \E k \in 1..Len(a) : a[k] = x
    BY <1>2 DEF Increasing
  <1>6. Len(a) = 0 <=> T = {}
    BY <1>1, <1>2, FS_EmptySet
  <1>7. a = <<>> <=> Len(a) = 0
    BY <1>3, EmptySeq
  <1>8. Len(a) <= Len(keys)
    BY <1>1, <1>2
  <1> QED BY <1>2, <1>4, <1>5, <1>6, <1>7, <1>8 DEF a

\* The lists the properties name.
LEMMA MatchLists ==
    ASSUME Published, NEW q
    PROVE  /\ ExactRows(q) = Ascending(IsRaw(q))
           /\ VariantRows(q) = Ascending(IsVariant(q))
           /\ NormalizedRows(q) = Ascending(SameNorm(q))
           /\ IsRaw(q) \subseteq AllRows /\ IsVariant(q) \subseteq AllRows
           /\ SameNorm(q) \subseteq AllRows
  <1>1. {o \in AllRows : Normalize(keys[o]) = Normalize(q)} = SameNorm(q)
    <2>1. \A o \in AllRows : NormOf[o] = Normalize(keys[o])
      BY PublishedFacts
    <2> QED BY <2>1 DEF SameNorm
  <1>2. NormalizedRows(q) = Ascending(SameNorm(q))
    BY <1>1 DEF NormalizedRows
  <1> QED BY <1>2 DEF ExactRows, VariantRows, IsRaw, IsVariant, SameNorm

\* Fewer rows of a set make a shorter list.
LEMMA ListLengths ==
    ASSUME Published, NEW S \in SUBSET AllRows, NEW E \in SUBSET S, NEW V \in SUBSET S, E \cap V = {}
    PROVE  Len(Ascending(E)) + Len(Ascending(V)) <= Len(Ascending(S))
  <1>1. /\ Len(Ascending(E)) = Cardinality(E) /\ Len(Ascending(V)) = Cardinality(V)
        /\ Len(Ascending(S)) = Cardinality(S)
    BY RowList
  <1>2. IsFiniteSet(E) /\ IsFiniteSet(V) /\ IsFiniteSet(S)
    BY RowSets
  <1>3. Cardinality(E \cup V) = Cardinality(E) + Cardinality(V) - Cardinality(E \cap V)
    BY <1>2, FS_Union
  <1>4. Cardinality(E \cap V) = 0 /\ Cardinality(E \cup V) <= Cardinality(S)
    BY <1>2, FS_EmptySet, FS_Subset
  <1>5. Cardinality(E) \in Nat /\ Cardinality(V) \in Nat /\ Cardinality(S) \in Nat
    BY <1>2, FS_CardinalityType
  <1> QED BY <1>1, <1>3, <1>4, <1>5

LEMMA PlainBasis ==
    ASSUME Published, NEW q
    PROVE  /\ ExactRows(q) # <<>> => Basis("exact", PlainMatches(q), q)
           /\ ExactRows(q) = <<>> => Basis("normalized", PlainMatches(q), q)
  <1> DEFINE e == Ascending(IsRaw(q))
             r == Ascending(SameNorm(q))
  <1>1. /\ ExactRows(q) = e /\ NormalizedRows(q) = r
        /\ IsRaw(q) \subseteq AllRows /\ SameNorm(q) \subseteq AllRows
    BY MatchLists
  <1>2. /\ DOMAIN e = 1..Len(e) /\ (\A k \in 1..Len(e) : e[k] \in IsRaw(q)) /\ (e = <<>> <=> IsRaw(q) = {})
        /\ DOMAIN r = 1..Len(r) /\ (\A k \in 1..Len(r) : r[k] \in SameNorm(q))
    BY <1>1, RowList
  <1> HIDE DEF e, r
  <1>3. ASSUME e # <<>> PROVE Basis("exact", e, q)
    <2>1. \A k \in DOMAIN e : keys[e[k]] = q
      BY <1>2 DEF IsRaw
    <2> QED BY <2>1 DEF Basis
  <1>4. ASSUME e = <<>> PROVE Basis("normalized", r, q)
    <2>1. \A k \in DOMAIN r : keys[r[k]] # q
      BY <1>1, <1>2, <1>4 DEF IsRaw
    <2> QED BY <2>1 DEF Basis
  <1> QED BY <1>1, <1>3, <1>4 DEF PlainMatches

LEMMA KeysRight ==
    ASSUME Published, NEW q \in Seq(Chars), NEW p \in LocateKeys(q)
    PROVE  Right(p, PlainMatches(q), q, 0, UsizeMax)
  <1> DEFINE range == EqualRange(Normalize(q))
             e == Ascending(IsRaw(q))
             r == Ascending(SameNorm(q))
             all == PlainMatches(q)
             out == IF r = <<>> THEN NotFound
                    ELSE IF e # <<>> THEN Found("exact", Len(e), e, Len(e))
                    ELSE Found("normalized", Len(r), r, Len(r))
  <1>1. range = r /\ RawExact(range, q) = IsRaw(q) /\ IsRaw(q) \subseteq SameNorm(q)
    BY Classified
  <1>2. RawExactWithin(range, q) = e
    BY <1>1 DEF RawExactWithin
  <1>3. LocateKeys(q) = Guarded(q, out)
    <2> DEFINE exact == RawExactWithin(range, q)
    <2>1. LocateKeys(q) =
            Guarded(q, IF range = <<>> THEN NotFound
                       ELSE IF exact # <<>> THEN Found("exact", Len(exact), exact, Len(exact))
                       ELSE Found("normalized", Len(range), range, Len(range)))
      BY DEF LocateKeys
    <2> HIDE DEF exact, range, e, r
    <2>2. exact = e /\ range = r
      BY <1>1, <1>2 DEF exact
    <2> QED BY <2>1, <2>2
  <1>4. /\ ExactRows(q) = e /\ NormalizedRows(q) = r
        /\ IsRaw(q) \subseteq AllRows /\ SameNorm(q) \subseteq AllRows
    BY MatchLists
  <1>5. /\ e \in Seq(Nat) /\ Len(e) \in Nat /\ Len(e) <= Len(keys)
        /\ r \in Seq(Nat) /\ Len(r) \in Nat /\ Len(r) <= Len(keys)
        /\ (e = <<>> <=> IsRaw(q) = {}) /\ (r = <<>> <=> SameNorm(q) = {})
    BY <1>4, RowList
  <1>6. UsizeMax \in Nat /\ Len(keys) \in Nat /\ Len(keys) <= UsizeMax
    BY LookupAssumption, PublishedFacts, RowsFit
  <1> HIDE DEF e, r
  <1>7. all = IF e # <<>> THEN e ELSE r
    BY <1>4 DEF PlainMatches
  <1>8. /\ e # <<>> => Basis("exact", all, q)
        /\ e = <<>> => Basis("normalized", all, q)
    BY <1>4, PlainBasis
  <1> HIDE DEF all
  <1>9. Right(out, all, q, 0, UsizeMax)
    <2>1. CASE r = <<>>
      <3>1. e = <<>>
        BY <1>1, <1>5, <2>1
      <3> QED BY <1>7, <2>1, <3>1, NoRowsRight
    <2>2. CASE r # <<>>
      <3>1. all \in Seq(Nat) /\ all # <<>> /\ Len(all) \in Nat /\ Len(all) <= UsizeMax
        BY <1>5, <1>6, <1>7, <2>2
      <3>2. all = Window(all, 0, UsizeMax)
        BY <1>6, <3>1, WindowOfAll
      <3>3. Len(all) <= Len(all)
        BY <3>1
      <3>4. \A basis : Basis(basis, all, q) => Right(Found(basis, Len(all), all, Len(all)), all, q, 0, UsizeMax)
        BY <1>6, <3>1, <3>2, <3>3, FoundRight
      <3> QED BY <1>7, <1>8, <2>2, <3>4
    <2> QED BY <2>1, <2>2
  <1> HIDE DEF out
  <1>10. p \in (IF QueryTooLong(q) THEN {LimitExceeded} ELSE {Unavailable, out})
    BY <1>3 DEF Guarded
  <1> QED BY <1>9, <1>10, NoRowsRight DEF all

\* The room for a page is never too large for the locator's limit.
LEMMA RoomFits ==
    ASSUME Published, NEW n \in 0..Len(keys), NEW offset \in Nat, NEW limit \in Nat
    PROVE  /\ ~(4 * PageCapacity(n, offset, limit) > LocatorBytes)
           /\ \A m \in 0..n : Least(limit, SaturatingSub(m, offset)) <= PageCapacity(n, offset, limit)
  <1> DEFINE l == Len(keys)
  <1>1. l \in Nat /\ 4 * l <= LocatorBytes /\ LocatorBytes \in Int
    BY PublishedFacts, RowsFit, LookupAssumption
  <1>2. n \in 0..l
    OBVIOUS
  <1> HIDE DEF l
  <1>3. n \in Nat /\ 4 * n <= LocatorBytes
    BY <1>1, <1>2
  <1>4. PageCapacity(n, offset, limit) \in 0..n
    BY <1>3 DEF PageCapacity, Least, SaturatingSub
  <1>5. \A m \in 0..n : Least(limit, SaturatingSub(m, offset)) <= PageCapacity(n, offset, limit)
    BY <1>3 DEF PageCapacity, Least, SaturatingSub
  <1>6. \A c \in 0..n : ~(4 * c > LocatorBytes)
    BY <1>1, <1>3
  <1> QED BY <1>4, <1>5, <1>6

LEMMA PageRight ==
    ASSUME Published, NEW q \in Seq(Chars), NEW offset \in Nat, NEW limit \in Nat,
           NEW p \in LocateKeyPage(q, offset, limit)
    PROVE  Right(p, PlainMatches(q), q, offset, limit)
  <1> DEFINE range == EqualRange(Normalize(q))
             e == Ascending(IsRaw(q))
             r == Ascending(SameNorm(q))
             all == PlainMatches(q)
             room == PageCapacity(Len(r), offset, limit)
             start == Least(offset, Len(r))
             end == Least(SaturatingAdd(start, limit), Len(r))
             out == IF r = <<>> THEN NotFound
                    ELSE IF 4 * room > LocatorBytes THEN LimitExceeded
                    ELSE IF e # <<>>
                    THEN Found("exact", Len(e), Window(e, offset, limit), room)
                    ELSE Found("normalized", Len(r), SubSeq(r, start + 1, end), room)
  <1>1. /\ range = r /\ RawExact(range, q) = IsRaw(q) /\ IsRaw(q) \subseteq SameNorm(q)
        /\ Kept(range, IsRaw(q)) = e
    BY Classified
  <1>2. LocateKeyPage(q, offset, limit) = Guarded(q, out)
    <2> DEFINE exact == Kept(range, RawExact(range, q))
               G(x, y) == LET c == PageCapacity(Len(x), offset, limit)
                              b == Least(offset, Len(x))
                          IN  Guarded(q, IF x = <<>> THEN NotFound
                                ELSE IF 4 * c > LocatorBytes THEN LimitExceeded
                                ELSE IF y # <<>>
                                THEN Found("exact", Len(y), Window(y, offset, limit), c)
                                ELSE Found("normalized", Len(x),
                                           SubSeq(x, b + 1, Least(SaturatingAdd(b, limit), Len(x))), c))
    <2>1. LocateKeyPage(q, offset, limit) = G(range, exact)
      BY DEF LocateKeyPage
    <2>2. exact = e
      BY <1>1
    <2> HIDE DEF exact, range, e, r, G
    <2>3. G(range, exact) = G(r, e)
      BY <1>1, <2>2
    <2> QED BY <2>1, <2>3 DEF G
  <1>3. /\ ExactRows(q) = e /\ NormalizedRows(q) = r
        /\ IsRaw(q) \subseteq AllRows /\ SameNorm(q) \subseteq AllRows
    BY MatchLists
  <1>4. /\ e \in Seq(Nat) /\ Len(e) \in Nat /\ Len(e) <= Len(keys)
        /\ r \in Seq(Nat) /\ Len(r) \in Nat /\ Len(r) <= Len(keys)
        /\ (e = <<>> <=> IsRaw(q) = {}) /\ (r = <<>> <=> SameNorm(q) = {})
    BY <1>3, RowList
  <1>5. UsizeMax \in Nat /\ Len(keys) \in Nat /\ Len(keys) <= UsizeMax /\ Len(r) \in 0..Len(keys)
    BY <1>4, LookupAssumption, PublishedFacts, RowsFit
  <1>6. Len(e) <= Len(r)
    <2>1. {} \in SUBSET SameNorm(q) /\ IsRaw(q) \cap {} = {} /\ IsRaw(q) \in SUBSET SameNorm(q)
      BY <1>1
    <2>2. Len(Ascending(IsRaw(q))) + Len(Ascending({})) <= Len(Ascending(SameNorm(q)))
      BY <1>3, <2>1, ListLengths
    <2>3. Len(Ascending({})) = 0
      <3>1. {} \in SUBSET AllRows
        OBVIOUS
      <3> QED BY <3>1, RowList
    <2> HIDE DEF e, r
    <2>4. Len(e) + 0 <= Len(r)
      BY <2>2, <2>3 DEF e, r
    <2> QED BY <1>4, <2>4
  <1> HIDE DEF e, r
  <1>7. all = IF e # <<>> THEN e ELSE r
    BY <1>3 DEF PlainMatches
  <1>8. /\ e # <<>> => Basis("exact", all, q)
        /\ e = <<>> => Basis("normalized", all, q)
    BY <1>3, PlainBasis
  <1> HIDE DEF all
  <1>9. ~(4 * room > LocatorBytes) /\ \A m \in 0..Len(r) : Least(limit, SaturatingSub(m, offset)) <= room
    BY <1>5, RoomFits
  <1> HIDE DEF room
  <1>10. SubSeq(r, start + 1, end) = Window(r, offset, limit)
    <2>1. Len(r) <= UsizeMax
      BY <1>4, <1>5
    <2> QED BY <1>4, <2>1, WindowSaturated
  <1> HIDE DEF start, end
  <1>11. Right(out, all, q, offset, limit)
    <2>1. CASE r = <<>>
      <3>1. e = <<>>
        BY <1>1, <1>4, <2>1
      <3> QED BY <1>7, <2>1, <3>1, NoRowsRight
    <2>2. CASE r # <<>>
      <3> DEFINE w == Window(all, offset, limit)
      <3>1. all \in Seq(Nat) /\ all # <<>> /\ Len(all) \in 0..Len(r)
        BY <1>4, <1>6, <1>7, <2>2
      <3>2. Len(w) = Least(limit, SaturatingSub(Len(all), offset))
        BY <3>1, WindowRows
      <3>3. Len(w) <= room
        BY <1>9, <3>1, <3>2
      <3>4. \A basis : Basis(basis, all, q) => Right(Found(basis, Len(all), w, room), all, q, offset, limit)
        BY <3>1, <3>3, FoundRight
      <3> HIDE DEF w
      <3>5. CASE e # <<>>
        <4>1. all = e /\ out = Found("exact", Len(all), w, room)
          BY <1>7, <1>9, <2>2, <3>5 DEF w
        <4> QED BY <1>8, <3>4, <3>5, <4>1
      <3>6. CASE e = <<>>
        <4>1. all = r /\ out = Found("normalized", Len(all), w, room)
          BY <1>7, <1>9, <1>10, <2>2, <3>6 DEF w
        <4> QED BY <1>8, <3>4, <3>6, <4>1
      <3> QED BY <3>5, <3>6
    <2> QED BY <2>1, <2>2
  <1> HIDE DEF out
  <1>12. p \in (IF QueryTooLong(q) THEN {LimitExceeded} ELSE {Unavailable, out})
    BY <1>2 DEF Guarded
  <1> QED BY <1>11, <1>12, NoRowsRight DEF all

\* The rows that match when case variants are wanted.
CaseMatches(q) == ExactRows(q) \o VariantRows(q)

LEMMA CaseFacts ==
    ASSUME Published, NEW q \in Seq(Chars), ~header.caseSensitive, ~header.resourcePath
    PROVE  LET e == ExactRows(q)
               v == VariantRows(q)
               both == CaseMatches(q)
           IN  /\ e \in Seq(Nat) /\ v \in Seq(Nat) /\ Len(e) \in Nat /\ Len(v) \in Nat
               /\ both \in Seq(Nat) /\ Len(both) = Len(e) + Len(v)
               /\ both = <<>> <=> Len(e) + Len(v) = 0
               /\ both = <<>> => e = <<>>
               /\ Len(both) <= Len(NormalizedRows(q))
               /\ v = <<>> => Basis("exact", both, q)
               /\ v # <<>> => Basis("variants", both, q)
  <1> DEFINE e == ExactRows(q)
             v == VariantRows(q)
             both == e \o v
             l == Len(e)
             m == Len(v)
  <1>1. /\ e = Ascending(IsRaw(q)) /\ v = Ascending(IsVariant(q)) /\ NormalizedRows(q) = Ascending(SameNorm(q))
        /\ IsRaw(q) \subseteq AllRows /\ IsVariant(q) \subseteq AllRows /\ SameNorm(q) \subseteq AllRows
    BY MatchLists
  <1>2. IsRaw(q) \subseteq SameNorm(q) /\ IsVariant(q) \subseteq SameNorm(q)
    BY Classified
  <1>3. IsRaw(q) \cap IsVariant(q) = {}
    BY DEF IsRaw, IsVariant
  <1>4. /\ e \in Seq(Nat) /\ l \in Nat /\ (\A k \in 1..l : e[k] \in IsRaw(q)) /\ (e = <<>> <=> l = 0)
        /\ v \in Seq(Nat) /\ m \in Nat /\ (\A k \in 1..m : v[k] \in IsVariant(q)) /\ (v = <<>> <=> m = 0)
    <2> HIDE DEF e, v
    <2> QED BY <1>1, RowList
  <1>5. l + m <= Len(NormalizedRows(q))
    <2>1. Len(Ascending(IsRaw(q))) + Len(Ascending(IsVariant(q))) <= Len(Ascending(SameNorm(q)))
      BY <1>1, <1>2, <1>3, ListLengths
    <2> HIDE DEF e, v
    <2> QED BY <1>1, <2>1
  <1> HIDE DEF e, v
  <1>6. /\ both \in Seq(Nat) /\ Len(both) = l + m
        /\ \A k \in 1..(l + m) : both[k] = IF k <= l THEN e[k] ELSE v[k - l]
    BY <1>4, ConcatProperties
  <1> HIDE DEF both, l, m
  <1>7. DOMAIN both = 1..(l + m)
    BY <1>6, LenProperties
  <1>8. both = <<>> <=> l + m = 0
    BY <1>6, EmptySeq
  <1>9. \A k \in 1..(l + m) : (k <= l /\ k \in 1..l /\ both[k] = e[k]) \/ (k - l \in 1..m /\ both[k] = v[k - l])
    <2> TAKE k \in 1..(l + m)
    <2>1. (k <= l /\ k \in 1..l) \/ (~(k <= l) /\ k - l \in 1..m)
      BY <1>4
    <2> QED BY <1>6, <2>1
  <1>10. \A k \in 1..(l + m) : both[k] \in IsRaw(q) \/ both[k] \in IsVariant(q)
    BY <1>4, <1>9
  <1>11. ASSUME v = <<>> PROVE Basis("exact", both, q)
    <2>1. m = 0
      BY <1>4, <1>11
    <2>2. \A k \in 1..(l + m) : both[k] \in IsRaw(q)
      BY <1>4, <1>9, <2>1
    <2>3. \A k \in DOMAIN both : keys[both[k]] = q
      BY <1>7, <2>2 DEF IsRaw
    <2> QED BY <2>3 DEF Basis
  <1>12. ASSUME v # <<>> PROVE Basis("variants", both, q)
    <2>1. \A x \in IsRaw(q) \cup IsVariant(q) : EqualIgnoringCase(keys[x], q)
      BY DEF IsRaw, IsVariant, EqualIgnoringCase
    <2>2. \A k \in DOMAIN both : EqualIgnoringCase(keys[both[k]], q)
      BY <1>7, <1>10, <2>1
    <2>3. l + 1 \in 1..(l + m) /\ ~(l + 1 <= l) /\ (l + 1) - l = 1 /\ 1 \in 1..m
      BY <1>4, <1>12
    <2>4. both[l + 1] = v[1]
      BY <1>6, <2>3
    <2>5. both[l + 1] \in IsVariant(q)
      BY <1>4, <2>3, <2>4
    <2>6. \E k \in DOMAIN both : keys[both[k]] # q
      BY <1>7, <2>3, <2>5 DEF IsVariant
    <2> QED BY <2>2, <2>6 DEF Basis
  <1>13. both = <<>> => e = <<>>
    <2>1. l + m = 0 => l = 0
      BY <1>4
    <2> QED BY <1>4, <1>8, <2>1
  <1>14. CaseMatches(q) = both
    BY DEF CaseMatches, both, e, v
  <1> QED BY <1>4, <1>5, <1>6, <1>8, <1>11, <1>12, <1>13, <1>14 DEF e, v, l, m

LEMMA VariantsRight ==
    ASSUME Published, NEW q \in Seq(Chars), ~header.caseSensitive, ~header.resourcePath,
           NEW offset \in Nat, NEW limit \in Nat,
           NEW p \in LocateCaseVariants(q, offset, limit)
    PROVE  /\ p = NotFound => CaseMatches(q) = <<>>
           /\ p # NotFound => Right(p, CaseMatches(q), q, offset, limit)
  <1> DEFINE range == EqualRange(Normalize(q))
             e == ExactRows(q)
             v == VariantRows(q)
             r == NormalizedRows(q)
             all == CaseMatches(q)
             total == Len(e) + Len(v)
             room == PageCapacity(Len(r), offset, limit)
             kept == Window(e, offset, limit)
             wanted == Least(limit, SaturatingSub(total, offset))
             more == Window(v, SaturatingSub(offset, Len(e)), wanted - Len(kept))
             page == IF Len(kept) < wanted THEN kept \o more ELSE kept
             basis == IF v = <<>> THEN "exact" ELSE "variants"
             out == IF r = <<>> THEN NotFound
                    ELSE IF 4 * room > LocatorBytes THEN LimitExceeded
                    ELSE IF total = 0 THEN NotFound
                    ELSE Found(basis, total, page, room)
  <1>1. /\ e = Ascending(IsRaw(q)) /\ v = Ascending(IsVariant(q)) /\ r = Ascending(SameNorm(q))
        /\ SameNorm(q) \subseteq AllRows
    BY MatchLists
  <1>2. range = r /\ Kept(range, IsRaw(q)) = e /\ Kept(range, IsVariant(q)) = v
    <2> HIDE DEF e, v, r
    <2> QED BY <1>1, Classified
  <1>3. LocateCaseVariants(q, offset, limit) = Guarded(q, out)
    <2> DEFINE G(x, a, b) ==
                 LET t == Len(a) + Len(b)
                     k == Window(a, offset, limit)
                     w == Least(limit, SaturatingSub(t, offset))
                     c == PageCapacity(Len(x), offset, limit)
                     m == Window(b, SaturatingSub(offset, Len(a)), w - Len(k))
                 IN  Guarded(q, IF x = <<>> THEN NotFound
                       ELSE IF 4 * c > LocatorBytes THEN LimitExceeded
                       ELSE IF t = 0 THEN NotFound
                       ELSE Found(IF b = <<>> THEN "exact" ELSE "variants", t,
                                  IF Len(k) < w THEN k \o m ELSE k, c))
               a0 == Kept(range, IsRaw(q))
               b0 == Kept(range, IsVariant(q))
    <2>1. LocateCaseVariants(q, offset, limit) = G(range, a0, b0)
      BY DEF LocateCaseVariants, SelectPage
    <2> HIDE DEF range, e, v, r, G, a0, b0
    <2>2. a0 = e /\ b0 = v /\ range = r
      BY <1>2 DEF a0, b0
    <2>3. G(range, a0, b0) = G(r, e, v)
      BY <2>2
    <2> QED BY <2>1, <2>3 DEF G
  <1>4. /\ e \in Seq(Nat) /\ v \in Seq(Nat) /\ Len(e) \in Nat /\ Len(v) \in Nat
        /\ all \in Seq(Nat) /\ Len(all) = total
        /\ all = <<>> <=> total = 0
        /\ Len(all) <= Len(r)
        /\ v = <<>> => Basis("exact", all, q)
        /\ v # <<>> => Basis("variants", all, q)
    BY CaseFacts, Zenon
  <1>5. Len(r) \in Nat /\ Len(r) <= Len(keys) /\ Len(keys) \in Nat /\ r \in Seq(Nat) /\ (r = <<>> <=> Len(r) = 0)
    <2> HIDE DEF r
    <2> QED BY <1>1, RowList, PublishedFacts
  <1>6. page = Window(all, offset, limit)
    <2>1. all = e \o v
      BY DEF CaseMatches
    <2>2. page = Window(e \o v, offset, limit)
      <3> HIDE DEF e, v
      <3> QED BY <1>4, WindowSplit
    <2> HIDE DEF page, e, v
    <2> QED BY <2>1, <2>2
  <1>7. Len(all) \in 0..Len(r) /\ Len(r) \in 0..Len(keys)
    <2>1. total \in Nat
      BY <1>4
    <2> HIDE DEF all, r, total
    <2> QED BY <1>4, <1>5, <2>1
  <1> HIDE DEF e, v, r, all, page
  <1>8. ~(4 * room > LocatorBytes) /\ \A m \in 0..Len(r) : Least(limit, SaturatingSub(m, offset)) <= room
    BY <1>7, RoomFits
  <1> HIDE DEF room, total
  <1>9. (out = NotFound => all = <<>>) /\ (out # NotFound => Right(out, all, q, offset, limit))
    <2>1. CASE r = <<>>
      <3>1. Len(all) = 0
        BY <1>5, <1>7, <2>1
      <3> QED BY <1>4, <2>1, <3>1
    <2>2. CASE r # <<>> /\ total = 0
      BY <1>4, <1>8, <2>2
    <2>3. CASE r # <<>> /\ total # 0
      <3>1. all # <<>>
        BY <1>4, <2>3
      <3>2. Len(page) <= room
        <4>1. Len(page) = Least(limit, SaturatingSub(Len(all), offset))
          BY <1>4, <1>6, WindowRows
        <4> QED BY <1>7, <1>8, <4>1
      <3>3. Basis(basis, all, q)
        BY <1>4
      <3> HIDE DEF basis
      <3>4. /\ Right(Found(basis, total, page, room), all, q, offset, limit)
            /\ Found(basis, total, page, room) # NotFound
        BY <1>4, <1>6, <3>1, <3>2, <3>3, FoundRight
      <3>5. out = Found(basis, total, page, room)
        BY <1>8, <2>3
      <3> QED BY <3>4, <3>5
    <2> QED BY <2>1, <2>2, <2>3
  <1> HIDE DEF out
  <1>10. p \in (IF QueryTooLong(q) THEN {LimitExceeded} ELSE {Unavailable, out})
    BY <1>3 DEF Guarded
  <1> QED BY <1>9, <1>10, NoRowsRight DEF all

LEMMA ModeOf ==
    ASSUME Published, NEW q \in Seq(Chars), ~header.caseSensitive, ~header.resourcePath
    PROVE  ModeMatches(q) = IF CaseMatches(q) = <<>> THEN PlainMatches(q) ELSE CaseMatches(q)
  <1>1. CaseMatches(q) = <<>> => ExactRows(q) = <<>>
    BY CaseFacts, Zenon
  <1> QED BY <1>1 DEF ModeMatches, CaseMatches, PlainMatches

LEMMA ModePageRight ==
    ASSUME Published, NEW q \in Seq(Chars), ~header.resourcePath,
           NEW offset \in Nat, NEW limit \in Nat,
           NEW p \in LocatePageWithMode(q, offset, limit)
    PROVE  Right(p, ModeMatches(q), q, offset, limit)
  <1>1. CASE header.caseSensitive
    <2>1. p \in LocateKeyPage(q, offset, limit) /\ ModeMatches(q) = PlainMatches(q)
      BY <1>1 DEF LocatePageWithMode, IncludesCaseVariants, ModeMatches
    <2> QED BY <2>1, PageRight
  <1>2. CASE ~header.caseSensitive
    <2>1. p \in OrElse(LocateCaseVariants(q, offset, limit), LocateKeyPage(q, offset, limit))
      BY <1>2 DEF LocatePageWithMode, IncludesCaseVariants
    <2>2. PICK v \in LocateCaseVariants(q, offset, limit) :
             p \in (IF v = NotFound THEN LocateKeyPage(q, offset, limit) ELSE {v})
      BY <2>1 DEF OrElse
    <2>3. /\ v = NotFound => CaseMatches(q) = <<>>
          /\ v # NotFound => Right(v, CaseMatches(q), q, offset, limit)
      BY <1>2, VariantsRight
    <2>4. ModeMatches(q) = IF CaseMatches(q) = <<>> THEN PlainMatches(q) ELSE CaseMatches(q)
      BY <1>2, ModeOf
    <2>5. CASE v = NotFound
      <3>1. p \in LocateKeyPage(q, offset, limit) /\ ModeMatches(q) = PlainMatches(q)
        BY <2>2, <2>3, <2>4, <2>5
      <3> QED BY <3>1, PageRight
    <2>6. CASE v # NotFound
      <3>1. p = v /\ Right(p, CaseMatches(q), q, offset, limit)
        BY <2>2, <2>3, <2>6
      <3>2. CASE CaseMatches(q) # <<>>
        BY <2>4, <3>1, <3>2
      <3>3. CASE CaseMatches(q) = <<>>
        <4>1. p.tag \notin {"none", "found"}
          BY <2>6, <3>1, <3>3 DEF Right, Exactly
        <4> QED BY <3>1, <4>1 DEF Right, Exactly
      <3> QED BY <3>2, <3>3
    <2> QED BY <2>5, <2>6
  <1> QED BY <1>1, <1>2

\* The whole answer is the page without bounds, which is empty only when nothing
\* matches.
LEMMA ModeRight ==
    ASSUME Published, NEW q \in Seq(Chars), ~header.resourcePath, NEW p \in LocateWithMode(q)
    PROVE  Right(p, ModeMatches(q), q, 0, UsizeMax)
  <1>0. UsizeMax \in Nat
    BY LookupAssumption
  <1>1. CASE header.caseSensitive
    <2>1. p \in LocateKeys(q) /\ ModeMatches(q) = PlainMatches(q)
      BY <1>1 DEF LocateWithMode, IncludesCaseVariants, ModeMatches
    <2> QED BY <2>1, KeysRight
  <1>2. CASE ~header.caseSensitive
    <2>1. p \in {IntoMatches(x) : x \in OrElse(LocateCaseVariants(q, 0, UsizeMax), LocateKeys(q))}
      BY <1>2 DEF LocateWithMode, IncludesCaseVariants
    <2>2. PICK x \in OrElse(LocateCaseVariants(q, 0, UsizeMax), LocateKeys(q)) : p = IntoMatches(x)
      BY <2>1
    <2>3. PICK v \in LocateCaseVariants(q, 0, UsizeMax) :
             x \in (IF v = NotFound THEN LocateKeys(q) ELSE {v})
      BY <2>2 DEF OrElse
    <2>4. /\ v = NotFound => CaseMatches(q) = <<>>
          /\ v # NotFound => Right(v, CaseMatches(q), q, 0, UsizeMax)
      BY <1>0, <1>2, VariantsRight
    <2>5. ModeMatches(q) = IF CaseMatches(q) = <<>> THEN PlainMatches(q) ELSE CaseMatches(q)
      BY <1>2, ModeOf
    <2>6. Right(x, ModeMatches(q), q, 0, UsizeMax)
      <3>1. CASE v = NotFound
        <4>1. x \in LocateKeys(q) /\ ModeMatches(q) = PlainMatches(q)
          BY <2>3, <2>4, <2>5, <3>1
        <4> QED BY <4>1, KeysRight
      <3>2. CASE v # NotFound
        <4>1. x = v /\ Right(x, CaseMatches(q), q, 0, UsizeMax)
          BY <2>3, <2>4, <3>2
        <4>2. CASE CaseMatches(q) # <<>>
          BY <2>5, <4>1, <4>2
        <4>3. CASE CaseMatches(q) = <<>>
          <5>1. x.tag \notin {"none", "found"}
            BY <3>2, <4>1, <4>3 DEF Right, Exactly
          <5> QED BY <4>1, <5>1 DEF Right, Exactly
        <4> QED BY <4>2, <4>3
      <3> QED BY <3>1, <3>2
    <2>7. ASSUME x.tag = "found" PROVE x.rows # <<>>
      <3> DEFINE all == ModeMatches(q)
      <3>1. NotFound.tag # "found"
        BY DEF NotFound
      <3>2. all # <<>> /\ x.rows = Window(all, 0, UsizeMax)
        BY <2>6, <2>7, <3>1 DEF Right, Exactly
      <3>3. all \in Seq(Nat) /\ Len(all) <= UsizeMax
        <4>1. /\ ExactRows(q) = Ascending(IsRaw(q)) /\ NormalizedRows(q) = Ascending(SameNorm(q))
              /\ IsRaw(q) \subseteq AllRows /\ SameNorm(q) \subseteq AllRows
          BY MatchLists
        <4>2. /\ Len(keys) \in Nat /\ Len(keys) <= UsizeMax
          BY PublishedFacts, RowsFit
        <4>3. /\ ExactRows(q) \in Seq(Nat) /\ Len(ExactRows(q)) \in Nat /\ Len(ExactRows(q)) <= Len(keys)
              /\ NormalizedRows(q) \in Seq(Nat) /\ Len(NormalizedRows(q)) \in Nat
              /\ Len(NormalizedRows(q)) <= Len(keys)
          BY <4>1, RowList
        <4>4. CaseMatches(q) \in Seq(Nat) /\ Len(CaseMatches(q)) <= Len(NormalizedRows(q))
          BY <1>2, CaseFacts, Zenon
        <4>5. Len(CaseMatches(q)) \in Nat
          BY <4>4, LenProperties
        <4>6. all \in {ExactRows(q), NormalizedRows(q), CaseMatches(q)}
          BY <2>5 DEF PlainMatches
        <4> HIDE DEF all
        <4> QED BY <1>0, <4>2, <4>3, <4>4, <4>5, <4>6
      <3> HIDE DEF all
      <3> QED BY <1>0, <3>2, <3>3, WindowOfAll
    <2>8. p = x
      BY <2>2, <2>7 DEF IntoMatches
    <2> QED BY <2>6, <2>8
  <1> QED BY <1>1, <1>2

HasPrefix(text) == {o \in AllRows : IsPrefix(text, NormOf[o])}

\* From the first row not below the prefix, the rows that have it come one after
\* the other, and there are no others.
LEMMA PrefixRegion ==
    ASSUME Published, NEW text \in Seq(Nat)
    PROVE  LET start == PartitionPoint(Below(text))
               s == located.order
               has(k) == IsPrefix(text, located.norm[s[k]])
               hits == {k \in (start + 1)..Len(keys) : \A j \in (start + 1)..k : has(j)}
               h == Cardinality(hits)
           IN  /\ start \in Nat /\ h \in Nat /\ start + h <= Len(keys)
               /\ \A k \in 1..Len(keys) : s[k] \in HasPrefix(text) <=> start < k /\ k <= start + h
  <1> DEFINE n == Len(keys)
             start == PartitionPoint(Below(text))
             s == located.order
             has(k) == IsPrefix(text, located.norm[s[k]])
             hits == {k \in (start + 1)..n : \A j \in (start + 1)..k : has(j)}
             K == (1..start) \cup hits
  <1>1. n \in Nat /\ located.norm = NormOf /\ \A k \in 1..n : s[k] \in AllRows /\ NormOf[s[k]] \in Seq(Nat)
    <2>1. n \in Nat /\ s \in Seq(AllRows) /\ Len(s) = n /\ NormOf \in [AllRows -> Seq(Nat)] /\ located.norm = NormOf
      BY PublishedFacts DEF Lists
    <2>2. \A k \in 1..n : s[k] \in AllRows
      BY <2>1, ElementOfSeq
    <2> HIDE DEF n, s
    <2> QED BY <2>1, <2>2
  <1>2. start \in 0..n /\ \A k \in 1..n : TextLess(NormOf[s[k]], text) <=> k <= start
    BY BelowEnds
  <1>3. \A k \in 1..n : s[k] \in HasPrefix(text) <=> has(k)
    BY <1>1 DEF HasPrefix
  <1>4. ASSUME NEW k \in 1..n, has(k) PROVE start < k
    <2>1. ~TextLess(NormOf[s[k]], text)
      BY <1>1, <1>4, PrefixFromItself
    <2> HIDE DEF n, start
    <2> QED BY <1>1, <1>2, <2>1
  <1>5. ASSUME NEW j \in 1..n, NEW k \in 1..n, start < j, j < k, has(k) PROVE has(j)
    <2>1. TextLess(NormOf[s[j]], NormOf[s[k]]) \/ NormOf[s[j]] = NormOf[s[k]]
      BY <1>5, OrderFacts
    <2>2. ~TextLess(NormOf[s[j]], text)
      <3> HIDE DEF n, start
      <3> QED BY <1>1, <1>2, <1>5
    <2>3. NormOf[s[j]] \in Seq(Nat) /\ NormOf[s[k]] \in Seq(Nat) /\ IsPrefix(text, NormOf[s[k]])
      BY <1>1, <1>5
    <2>4. IsPrefix(text, NormOf[s[j]])
      BY <2>1, <2>2, <2>3, PrefixConvex
    <2> QED BY <1>1, <2>4
  <1> HIDE DEF n, start, has
  <1>6. \A k \in 1..n : k \in hits <=> has(k)
    <2> TAKE k \in 1..n
    <2>1. ASSUME k \in hits PROVE has(k)
      <3>1. k \in (start + 1)..k
        BY <1>2, <2>1
      <3> QED BY <2>1, <3>1
    <2>2. ASSUME has(k) PROVE k \in hits
      <3>1. start < k
        BY <1>4, <2>2
      <3>2. k \in (start + 1)..n
        BY <1>1, <1>2, <3>1
      <3>3. ASSUME NEW j \in (start + 1)..k PROVE has(j)
        <4>1. j \in 1..n /\ start < j /\ (j = k \/ j < k)
          BY <1>1, <1>2
        <4> QED BY <1>5, <2>2, <4>1
      <3> QED BY <3>2, <3>3
    <2> QED BY <2>1, <2>2
  <1>7. hits \subseteq (start + 1)..n
    OBVIOUS
  <1> HIDE DEF hits
  <1>8. K \in SUBSET (1..n) /\ (1..start) \cap hits = {}
    <2>1. \A k \in 1..start : k \in 1..n /\ k \notin (start + 1)..n
      BY <1>1, <1>2
    <2>2. \A k \in (start + 1)..n : k \in 1..n
      BY <1>1, <1>2
    <2> QED BY <1>7, <2>1, <2>2
  <1>9. \A k \in 1..n : k \in K <=> k <= start \/ has(k)
    <2>1. \A k \in 1..n : k \in 1..start <=> k <= start
      BY <1>1, <1>2
    <2> QED BY <1>6, <2>1
  <1>10. \A j, k \in 1..n : k \in K /\ j < k => j \in K
    <2> SUFFICES ASSUME NEW j \in 1..n, NEW k \in 1..n, k \in K, j < k PROVE j <= start \/ has(j)
      BY <1>9
    <2>1. j <= start \/ start < j
      BY <1>1, <1>2
    <2>2. k <= start => j <= start
      BY <1>1, <1>2
    <2> QED BY <1>5, <1>9, <2>1, <2>2
  <1>11. IsFiniteSet(1..start) /\ Cardinality(1..start) = start /\ IsFiniteSet(hits)
    <2>1. start \in Int /\ start \in Nat /\ start + 1 \in Int /\ n \in Int
      BY <1>1, <1>2
    <2>2. IsFiniteSet(1..start) /\ Cardinality(1..start) = IF 1 > start THEN 0 ELSE start - 1 + 1
      BY <2>1, FS_Interval
    <2>3. IsFiniteSet((start + 1)..n)
      BY <2>1, FS_Interval
    <2>4. IsFiniteSet(hits)
      BY <1>7, <2>3, FS_Subset
    <2> QED BY <2>1, <2>2, <2>4
  <1> DEFINE h == Cardinality(hits)
  <1>12. h \in Nat /\ Cardinality(K) = start + h
    <2>1. Cardinality(K) = Cardinality(1..start) + Cardinality(hits) - Cardinality((1..start) \cap hits)
      BY <1>11, FS_Union
    <2>2. Cardinality((1..start) \cap hits) = 0 /\ h \in Nat
      BY <1>8, <1>11, FS_EmptySet, FS_CardinalityType
    <2> QED BY <1>2, <1>11, <2>1, <2>2
  <1> HIDE DEF K
  <1>13. Cardinality(K) \in 0..n /\ \A k \in 1..n : k \in K <=> k <= Cardinality(K)
    BY <1>1, <1>8, <1>10, Beginning
  <1> HIDE DEF h
  <1>14. \A k \in 1..n : s[k] \in HasPrefix(text) <=> start < k /\ k <= start + h
    <2> TAKE k \in 1..n
    <2>1. (s[k] \in HasPrefix(text) <=> has(k)) /\ (k <= start \/ has(k) <=> k <= start + h) /\ (has(k) => start < k)
      BY <1>3, <1>4, <1>9, <1>12, <1>13
    <2>2. k <= start <=> ~(start < k)
      BY <1>1, <1>2
    <2> QED BY <2>1, <2>2
  <1>15. start \in Nat /\ h \in Nat /\ start + h <= n
    BY <1>1, <1>2, <1>12, <1>13
  <1> QED BY <1>14, <1>15, Zenon DEF n, start, has, hits, h

LEMMA PrefixRowsExact ==
    ASSUME Published, NEW text \in Seq(Nat), NEW limit \in Nat
    PROVE  LET start == PartitionPoint(Below(text))
               has(k) == IsPrefix(text, located.norm[located.order[k]])
               hits == {k \in (start + 1)..Len(keys) : \A j \in (start + 1)..k : has(j)}
               rows == SubSeq(located.order, start + 1, start + Least(limit, Cardinality(hits)))
               all == Sorted(HasPrefix(text), LocatorOrder(NormOf))
           IN  /\ rows = SubSeq(all, 1, Least(limit, Len(all)))
               /\ Len(rows) <= limit /\ Len(rows) \in Nat /\ rows \in Seq(AllRows)
  <1> DEFINE n == Len(keys)
             start == PartitionPoint(Below(text))
             s == located.order
             hits == {k \in (start + 1)..n : \A j \in (start + 1)..k : IsPrefix(text, located.norm[s[j]])}
             h == Cardinality(hits)
             P == HasPrefix(text)
             R == LocatorOrder(NormOf)
             all == Sorted(P, R)
             c == Least(limit, h)
             run == SubSeq(s, start + 1, start + h)
             rows == SubSeq(s, start + 1, start + c)
  <1>1. /\ n \in Nat /\ s \in Seq(AllRows) /\ Len(s) = n
        /\ (\A x \in AllRows : \E k \in 1..n : s[k] = x)
        /\ \A i, j \in 1..n : i < j => <<s[i], s[j]>> \in R
    BY PublishedFacts DEF Lists
  <1>2. /\ start \in Nat /\ h \in Nat /\ start + h <= n
        /\ \A k \in 1..n : s[k] \in P <=> start < k /\ k <= start + h
    BY PrefixRegion, Zenon
  <1>3. IsOrder(P, R) /\ IsFiniteSet(P) /\ P \subseteq AllRows
    <2>1. P \in SUBSET AllRows
      BY DEF HasPrefix
    <2> QED BY <2>1, PublishedFacts, OrderOfFewer, RowSets
  <1>4. \A k \in 1..n : s[k] \in AllRows
    BY <1>1, ElementOfSeq
  <1> HIDE DEF n, start, s, hits, h, P, R
  <1>5. \A i \in 1..h : start + i \in 1..n /\ s[start + i] \in P
    <2> TAKE i \in 1..h
    <2>1. start + i \in 1..n /\ start < start + i /\ start + i <= start + h
      BY <1>1, <1>2
    <2> QED BY <1>2, <2>1
  <1>6. ASSUME NEW m \in 0..h
        PROVE  LET t == SubSeq(s, start + 1, start + m) IN
               t \in Seq(P) /\ Len(t) = m /\ \A i \in 1..m : t[i] = s[start + i]
    <2> DEFINE t == SubSeq(s, start + 1, start + m)
    <2>1. /\ start + 1 \in Int /\ start + m \in Int
          /\ \A i \in (start + 1)..(start + m) : i - start \in 1..h /\ start + (i - start) = i
      BY <1>2
    <2>2. \A i \in (start + 1)..(start + m) : s[i] \in P
      BY <1>5, <2>1
    <2>3. /\ t \in Seq(P) /\ Len(t) = (IF start + 1 <= start + m THEN (start + m) - (start + 1) + 1 ELSE 0)
          /\ \A i \in 1..((start + m) - (start + 1) + 1) : t[i] = s[(start + 1) + i - 1]
      BY <2>1, <2>2, SubSeqProperties
    <2>4. /\ (IF start + 1 <= start + m THEN (start + m) - (start + 1) + 1 ELSE 0) = m
          /\ (start + m) - (start + 1) + 1 = m
          /\ \A i \in 1..m : (start + 1) + i - 1 = start + i
      BY <1>2
    <2> HIDE DEF t
    <2>5. t \in Seq(P) /\ Len(t) = m /\ \A i \in 1..m : t[i] = s[start + i]
      BY <2>3, <2>4
    <2> QED BY <2>5 DEF t
  <1>7. h \in 0..h /\ c \in 0..h /\ c <= limit
    BY <1>2 DEF Least
  <1>8. /\ run \in Seq(P) /\ Len(run) = h /\ \A i \in 1..h : run[i] = s[start + i]
    BY <1>6, <1>7
  <1> HIDE DEF c
  <1>9. /\ rows \in Seq(P) /\ Len(rows) = c /\ \A i \in 1..c : rows[i] = s[start + i]
    BY <1>6, <1>7
  <1> HIDE DEF run, rows
  <1>10. Lists(run, P, R)
    <2>1. ASSUME NEW x \in P PROVE \E i \in 1..h : run[i] = x
      <3>1. PICK k \in 1..n : s[k] = x
        BY <1>1, <1>3
      <3>2. start < k /\ k <= start + h
        BY <1>2, <3>1
      <3>3. k - start \in 1..h /\ start + (k - start) = k
        BY <1>1, <1>2, <3>2
      <3> QED BY <1>8, <3>1, <3>3
    <2>2. ASSUME NEW i \in 1..h, NEW j \in 1..h, i < j PROVE <<run[i], run[j]>> \in R
      <3>1. start + i \in 1..n /\ start + j \in 1..n /\ start + i < start + j
        <4>1. start \in Nat /\ h \in Nat
          BY <1>2
        <4>2. start + i < start + j
          BY <2>2, <4>1
        <4> QED BY <1>5, <4>2
      <3>2. <<s[start + i], s[start + j]>> \in R
        BY <1>1, <3>1
      <3> QED BY <1>8, <3>2
    <2> QED BY <1>8, <2>1, <2>2 DEF Lists
  <1>11. run = all
    BY <1>3, <1>10, SortedIsTheList
  <1>12. rows = SubSeq(all, 1, Least(limit, Len(all)))
    <2> DEFINE t == SubSeq(run, 1, c)
    <2>1. c = Least(limit, Len(run))
      BY <1>8 DEF c
    <2>2. \A i \in 1..c : i \in 1..h /\ run[i] \in P
      <3>1. \A i \in 1..c : i \in 1..h
        BY <1>2, <1>7
      <3> QED BY <1>5, <1>8, <3>1
    <2>3. t \in Seq(P) /\ Len(t) = (IF 1 <= c THEN c - 1 + 1 ELSE 0) /\ \A i \in 1..(c - 1 + 1) : t[i] = run[1 + i - 1]
      <3>1. 1 \in Int /\ c \in Int
        BY <1>2, <1>7
      <3> QED BY <2>2, <3>1, SubSeqProperties
    <2> HIDE DEF t
    <2>4. (IF 1 <= c THEN c - 1 + 1 ELSE 0) = c /\ c - 1 + 1 = c /\ \A i \in 1..c : 1 + i - 1 = i
      BY <1>2, <1>7
    <2>5. t \in Seq(P) /\ Len(t) = c /\ \A i \in 1..c : t[i] = run[i]
      BY <2>3, <2>4
    <2>6. \A i \in 1..c : rows[i] = t[i]
      BY <1>8, <1>9, <2>2, <2>5
    <2>7. rows = t
      BY <1>9, <2>5, <2>6, SeqEqual
    <2> QED BY <1>11, <2>1, <2>7 DEF t
  <1>13. Len(rows) <= limit /\ Len(rows) \in Nat
    BY <1>2, <1>7, <1>9
  <1>14. rows \in Seq(AllRows)
    BY <1>3, <1>9, SeqMonotonic
  <1> QED BY <1>12, <1>13, <1>14, Zenon DEF n, start, s, hits, h, P, R, c, rows

\* What the invariants say of an answer to prefix_keys.
PrefixRight(p, q, limit) ==
    /\ p.tag = "found" =>
          LET all == Sorted(HasPrefix(Normalize(q)), LocatorOrder(NormOf))
          IN  p.rows = SubSeq(all, 1, Least(limit, Len(all)))
    /\ Fits(p, q, limit)

LEMMA PrefixesRight ==
    ASSUME Published, NEW q \in Seq(Chars), NEW limit \in Nat, NEW p \in LocatePrefix(q, limit)
    PROVE  PrefixRight(p, q, limit)
  <1> DEFINE text == Normalize(q)
             start == PartitionPoint(Below(text))
             has(k) == IsPrefix(text, located.norm[located.order[k]])
             hits == {k \in (start + 1)..Len(keys) : \A j \in (start + 1)..k : has(j)}
             rows == SubSeq(located.order, start + 1, start + Least(limit, Cardinality(hits)))
             all == Sorted(HasPrefix(text), LocatorOrder(NormOf))
  <1>1. text \in Seq(Nat)
    <2>1. Normalize(q) \in Seq(Chars) /\ Chars \subseteq Nat
      BY NormalizeType, LowercaseAssumption
    <2> QED BY <2>1, SeqMonotonic
  <1>2. /\ rows = SubSeq(all, 1, Least(limit, Len(all)))
        /\ Len(rows) <= limit /\ Len(rows) \in Nat /\ rows \in Seq(AllRows)
    <2> HIDE DEF text
    <2> QED BY <1>1, PrefixRowsExact, Zenon
  <1>3. LocatePrefix(q, limit) = IF limit = 0 THEN {Found("prefix", 0, <<>>, 0)}
                                 ELSE Guarded(q, Found("prefix", Len(rows), rows, Len(rows)))
    BY Zenon DEF LocatePrefix
  <1> HIDE DEF rows
  <1>4. ASSUME NEW t, t = SubSeq(all, 1, Least(limit, Len(all))), Len(t) <= limit, Len(t) \in Nat
        PROVE  PrefixRight(Found("prefix", Len(t), t, Len(t)), q, limit)
    <2> DEFINE f == Found("prefix", Len(t), t, Len(t))
    <2>1. f.tag = "found" /\ f.rows = t /\ f.room = Len(t)
      BY DEF Found
    <2> HIDE DEF f
    <2>2. Len(t) <= Len(t)
      BY <1>4
    <2>3. PrefixRight(f, q, limit)
      BY <1>4, <2>1, <2>2 DEF PrefixRight, Fits
    <2> QED BY <2>3 DEF f
  <1>5. CASE limit = 0
    <2>1. rows = <<>>
      <3>1. Len(rows) = 0
        BY <1>2, <1>5
      <3> QED BY <1>2, <3>1, EmptySeq
    <2>2. Len(<<>>) = 0
      BY EmptySeq
    <2>3. p = Found("prefix", Len(rows), rows, Len(rows))
      BY <1>3, <1>5, <2>1, <2>2
    <2> QED BY <1>2, <1>4, <2>3
  <1>6. CASE limit # 0
    <2> DEFINE f == Found("prefix", Len(rows), rows, Len(rows))
    <2>1. PrefixRight(f, q, limit)
      BY <1>2, <1>4
    <2> HIDE DEF f
    <2>2. p \in (IF QueryTooLong(q) THEN {LimitExceeded} ELSE {Unavailable, f})
      BY <1>3, <1>6 DEF Guarded, f
    <2>3. Unavailable.tag = "unavailable" /\ LimitExceeded.tag = "limit"
      BY DEF Unavailable, LimitExceeded
    <2> QED BY <2>1, <2>2, <2>3 DEF PrefixRight, Fits
  <1> QED BY <1>5, <1>6

-----------------------------------------------------------------------------

\* No call changes the dictionary, so none changes what is to be found in it.
LEMMA FrozenText ==
    ASSUME keys' = keys, header' = header, located' = located, NEW s
    PROVE  Normalize(s)' = Normalize(s)
  <1>1. ASSUME NEW c PROVE (Retains(c)' <=> Retains(c)) /\ NormalizedChar(c)' = NormalizedChar(c)
    BY Zenon DEF Retains, NormalizedChar, Separated
  <1>2. PathBody(s)' = PathBody(s)
    <2> DEFINE body == {i \in DOMAIN s : s[i] \notin {Slash, Backslash}}
               rest == IF body = {} THEN <<>>
                       ELSE SubSeq(s, CHOOSE i \in body : \A j \in body : i <= j, Len(s))
    <2>1. PathBody(s) = IF header.resourcePath THEN rest ELSE s
      BY Zenon DEF PathBody
    <2>2. PathBody(s)' = IF header'.resourcePath THEN rest ELSE s
      BY DEF PathBody
    <2> HIDE DEF rest
    <2> QED BY <2>1, <2>2
  <1>3. Becomes' = Becomes
    <2> DEFINE one(c) == IF Retains(c) THEN NormalizedChar(c) ELSE <<>>
    <2>1. \A c \in Chars : one(c)' = one(c)
      BY <1>1
    <2>2. Becomes = [c \in Chars |-> one(c)] /\ Becomes' = [c \in Chars |-> one(c)']
      BY DEF Becomes
    <2> HIDE DEF one
    <2> QED BY <2>1, <2>2
  <1>4. Normalize(s)' = Expand(PathBody(s)', Becomes') /\ Normalize(s) = Expand(PathBody(s), Becomes)
    BY Zenon DEF Normalize, Becomes
  <1> QED BY <1>2, <1>3, <1>4

LEMMA FrozenLength ==
    ASSUME header' = header, NEW s
    PROVE  NormalizedLen(s)' = NormalizedLen(s)
  <1> DEFINE retains(h, c) == ~h.stripKey \/ ~IsAscii(c) \/ IsAlphanumeric(c)
             sep(h, c) == IF h.resourcePath /\ c = Slash THEN Backslash ELSE c
             len(h) ==
                LET loop[n \in 0..Len(s)] ==
                    IF n = 0 THEN [length |-> 0, atPathStart |-> TRUE]
                    ELSE LET c == s[n]
                             was == loop[n - 1]
                             bytes == IF h.caseSensitive \/ IsAscii(sep(h, c))
                                      THEN Len(EncodeUtf8(sep(h, c)))
                                      ELSE Len(Encoded(ToLowercase(sep(h, c))))
                         IN  IF h.resourcePath /\ was.atPathStart /\ c \in {Slash, Backslash}
                             THEN was
                             ELSE [length |-> was.length + (IF retains(h, c) THEN bytes ELSE 0),
                                   atPathStart |-> FALSE]
                IN  loop[Len(s)].length
  <1>1. NormalizedLen(s) = len(header)
    BY Zenon DEF NormalizedLen, Retains, Separated
  <1>2. NormalizedLen(s)' = len(header')
    BY Zenon DEF NormalizedLen, Retains, Separated
  <1> HIDE DEF len
  <1> QED BY <1>1, <1>2

LEMMA FrozenRows ==
    ASSUME keys' = keys, header' = header, located' = located
    PROVE  /\ AllRows' = AllRows
           /\ NormOf' = NormOf
           /\ LocatorOrder(NormOf)' = LocatorOrder(NormOf)
           /\ Published' <=> Published
  <1>1. AllRows' = AllRows
    BY DEF AllRows
  <1>2. \A s : Normalize(s)' = Normalize(s)
    BY FrozenText
  <1>3. NormOf' = NormOf
    BY <1>1, <1>2 DEF NormOf
  <1>4. LocatorOrder(NormOf)' = LocatorOrder(NormOf)
    BY <1>1, <1>3 DEF LocatorOrder
  <1>5. BuildKeyLocator = [norm |-> NormOf, order |-> Sorted(AllRows, LocatorOrder(NormOf)),
                           digest |-> [o \in AllRows |-> Digest(keys[o])]]
    BY DEF BuildKeyLocator, NormOf
  <1>6. BuildKeyLocator' = [norm |-> NormOf', order |-> Sorted(AllRows', LocatorOrder(NormOf)'),
                            digest |-> [o \in AllRows' |-> Digest(keys'[o])]]
    BY DEF BuildKeyLocator, NormOf
  <1>7. BuildKeyLocator' = BuildKeyLocator
    BY <1>1, <1>3, <1>4, <1>5, <1>6
  <1> QED BY <1>1, <1>3, <1>4, <1>7 DEF Published

LEMMA FrozenMatches ==
    ASSUME keys' = keys, header' = header, located' = located, NEW q, NEW op
    PROVE  /\ Matches(op, q)' = Matches(op, q)
           /\ QueryTooLong(q)' <=> QueryTooLong(q)
           /\ HasPrefix(Normalize(q))' = HasPrefix(Normalize(q))
  <1>1. \A s : Normalize(s)' = Normalize(s)
    BY FrozenText
  <1>2. AllRows' = AllRows /\ NormOf' = NormOf
    BY FrozenRows
  <1>3. ExactRows(q)' = ExactRows(q)
    BY <1>2 DEF ExactRows
  <1>4. VariantRows(q)' = VariantRows(q)
    BY <1>2 DEF VariantRows
  <1>5. NormalizedRows(q)' = NormalizedRows(q)
    BY <1>1, <1>2 DEF NormalizedRows
  <1>6. PlainMatches(q)' = PlainMatches(q)
    BY <1>3, <1>5 DEF PlainMatches
  <1>7. ModeMatches(q)' = ModeMatches(q)
    BY <1>3, <1>4, <1>5, <1>6 DEF ModeMatches
  <1>8. QueryTooLong(q)' <=> QueryTooLong(q)
    BY FrozenLength DEF QueryTooLong
  <1>9. HasPrefix(Normalize(q))' = HasPrefix(Normalize(q))
    BY <1>1, <1>2 DEF HasPrefix
  <1> QED BY <1>6, <1>7, <1>8, <1>9 DEF Matches

\* Every call has been served as the properties ask.
MatchOps == {"locate", "page", "mode", "modePage"}

Asked(op, q, offset, limit) == [op |-> op, query |-> q, offset |-> offset, limit |-> limit]

ServedMatch(op, q, offset, limit) ==
    call = Asked(op, q, offset, limit) /\ Right(answer, Matches(op, q), q, offset, limit)

ServedPrefix(q, limit) ==
    call = Asked("prefix", q, 0, limit) /\ PrefixRight(answer, q, limit)

Served ==
    \/ call = NoCall /\ answer = NotFound
    \/ \E op \in MatchOps, q \in Queries, offset \in Nat, limit \in Nat :
          ServedMatch(op, q, offset, limit)
    \/ \E q \in Queries, limit \in Nat : ServedPrefix(q, limit)

ServedInv == Published /\ Served

LEMMA ServedStart == LookupInit => ServedInv
  <1> SUFFICES ASSUME LookupInit PROVE ServedInv
    OBVIOUS
  <1>1. Published
    BY LookupAssumption DEF LookupInit, Published, HeaderShape
  <1>2. Served
    BY DEF LookupInit, Served
  <1> QED BY <1>1, <1>2 DEF ServedInv

LEMMA MatchStep ==
    ASSUME Published, NEW op \in MatchOps, NEW q \in Queries, NEW offset \in Nat, NEW limit \in Nat,
           NEW outcomes, Do(op, q, offset, limit, outcomes),
           \A p \in outcomes : Right(p, Matches(op, q), q, offset, limit)
    PROVE  ServedInv'
  <1>1. /\ call' = Asked(op, q, offset, limit) /\ answer' \in outcomes
        /\ keys' = keys /\ header' = header /\ located' = located
    BY DEF Do, Asked
  <1>2. Published'
    BY <1>1, FrozenRows
  <1> DEFINE all == Matches(op, q)
  <1>3. Right(answer', all, q, offset, limit)
    BY <1>1
  <1>4. all' = all /\ (QueryTooLong(q)' <=> QueryTooLong(q))
    BY <1>1, FrozenMatches
  <1> HIDE DEF all
  <1>5. Exactly(answer, all, offset, limit)'
    <2>1. Exactly(answer', all, offset, limit)
      BY <1>3 DEF Right
    <2>2. NotFound' = NotFound
      BY DEF NotFound
    <2> QED BY <1>4, <2>1, <2>2 DEF Exactly
  <1>6. (answer.tag = "found" => Basis(answer.basis, all, q))'
    <2>1. answer'.tag = "found" => Basis(answer'.basis, all, q)
      BY <1>3 DEF Right
    <2> QED BY <1>1, <1>4, <2>1 DEF Basis
  <1>7. Fits(answer, q, limit)'
    BY <1>3, <1>4 DEF Right, Fits
  <1>8. Right(answer, all, q, offset, limit)'
    BY <1>5, <1>6, <1>7 DEF Right
  <1>9. ServedMatch(op, q, offset, limit)'
    BY <1>1, <1>8 DEF ServedMatch, Asked, all
  <1>10. Served'
    BY <1>9 DEF Served
  <1> QED BY <1>2, <1>10 DEF ServedInv

LEMMA PrefixStep ==
    ASSUME Published, NEW q \in Queries, NEW limit \in Nat,
           NEW outcomes, Do("prefix", q, 0, limit, outcomes),
           \A p \in outcomes : PrefixRight(p, q, limit)
    PROVE  ServedInv'
  <1>1. /\ call' = Asked("prefix", q, 0, limit) /\ answer' \in outcomes
        /\ keys' = keys /\ header' = header /\ located' = located
    BY DEF Do, Asked
  <1>2. Published'
    BY <1>1, FrozenRows
  <1> DEFINE all == Sorted(HasPrefix(Normalize(q)), LocatorOrder(NormOf))
  <1>3. PrefixRight(answer', q, limit)
    BY <1>1
  <1>4. all' = all /\ (QueryTooLong(q)' <=> QueryTooLong(q))
    BY <1>1, FrozenMatches, FrozenRows
  <1>5. /\ answer'.tag = "found" => answer'.rows = SubSeq(all, 1, Least(limit, Len(all)))
        /\ Fits(answer', q, limit)
    BY <1>3 DEF PrefixRight
  <1> HIDE DEF all
  <1>6. (answer.tag = "found" => answer.rows = SubSeq(all, 1, Least(limit, Len(all))))'
    BY <1>4, <1>5
  <1>7. Fits(answer, q, limit)'
    BY <1>4, <1>5 DEF Fits
  <1>8. PrefixRight(answer, q, limit)'
    BY <1>6, <1>7 DEF PrefixRight, all
  <1>9. ServedPrefix(q, limit)'
    BY <1>1, <1>8 DEF ServedPrefix, Asked
  <1>10. Served'
    BY <1>9 DEF Served
  <1> QED BY <1>2, <1>10 DEF ServedInv

LEMMA ServedStep == ServedInv /\ [LookupNext]_lookupVars => ServedInv'
  <1> SUFFICES ASSUME ServedInv, [LookupNext]_lookupVars PROVE ServedInv'
    OBVIOUS
  <1>0. /\ Published /\ UsizeMax \in Nat /\ 0 \in Nat
        /\ \A q \in Queries : q \in Seq(Chars)
        /\ (\A x \in Offsets : x \in Nat) /\ (\A x \in Limits : x \in Nat)
    BY LookupAssumption DEF ServedInv
  <1>1. ASSUME NEW q \in Queries, Locate(q) PROVE ServedInv'
    <2>1. \A p \in LocateKeys(q) : Right(p, Matches("locate", q), q, 0, UsizeMax)
      BY <1>0, KeysRight DEF Matches
    <2> QED BY <1>0, <1>1, <2>1, MatchStep DEF Locate, MatchOps
  <1>2. ASSUME NEW q \in Queries, LocateVariants(q) PROVE ServedInv'
    <2>1. ~header.resourcePath
      BY <1>2 DEF LocateVariants
    <2>2. \A p \in LocateWithMode(q) : Right(p, Matches("mode", q), q, 0, UsizeMax)
      BY <1>0, <2>1, ModeRight DEF Matches
    <2> QED BY <1>0, <1>2, <2>2, MatchStep DEF LocateVariants, MatchOps
  <1>3. ASSUME NEW q \in Queries, NEW offset \in Offsets, NEW limit \in Limits,
               LocatePage(q, offset, limit)
        PROVE  ServedInv'
    <2>1. \A p \in LocateKeyPage(q, offset, limit) : Right(p, Matches("page", q), q, offset, limit)
      BY <1>0, PageRight DEF Matches
    <2> QED BY <1>0, <1>3, <2>1, MatchStep DEF LocatePage, MatchOps
  <1>4. ASSUME NEW q \in Queries, NEW offset \in Offsets, NEW limit \in Limits,
               LocateVariantsPage(q, offset, limit)
        PROVE  ServedInv'
    <2>1. ~header.resourcePath
      BY <1>4 DEF LocateVariantsPage
    <2>2. \A p \in LocatePageWithMode(q, offset, limit) :
             Right(p, Matches("modePage", q), q, offset, limit)
      BY <1>0, <2>1, ModePageRight DEF Matches
    <2> QED BY <1>0, <1>4, <2>2, MatchStep DEF LocateVariantsPage, MatchOps
  <1>5. ASSUME NEW q \in Queries, NEW limit \in Limits, PrefixKeys(q, limit) PROVE ServedInv'
    <2>1. \A p \in LocatePrefix(q, limit) : PrefixRight(p, q, limit)
      BY <1>0, PrefixesRight
    <2> QED BY <1>0, <1>5, <2>1, PrefixStep DEF PrefixKeys
  <1>6. CASE Take
    <2>1. call' = NoCall /\ answer' = NotFound /\ keys' = keys /\ header' = header /\ located' = located
      BY <1>6 DEF Take
    <2>2. Published'
      BY <1>0, <2>1, FrozenRows
    <2>3. NoCall' = NoCall /\ NotFound' = NotFound
      BY DEF NoCall, NotFound
    <2>4. Served'
      BY <2>1, <2>3 DEF Served
    <2> QED BY <2>2, <2>4 DEF ServedInv
  <1>7. CASE UNCHANGED lookupVars
    <2>1. keys' = keys /\ header' = header /\ located' = located /\ call' = call /\ answer' = answer
      BY <1>7 DEF lookupVars
    <2>2. Published'
      BY <1>0, <2>1, FrozenRows
    <2>3. CASE call = NoCall /\ answer = NotFound
      <3>1. NoCall' = NoCall /\ NotFound' = NotFound
        BY DEF NoCall, NotFound
      <3>2. Served'
        BY <2>1, <2>3, <3>1 DEF Served
      <3> QED BY <2>2, <3>2 DEF ServedInv
    <2>4. ASSUME NEW op \in MatchOps, NEW q \in Queries, NEW offset \in Nat, NEW limit \in Nat,
                 ServedMatch(op, q, offset, limit)
          PROVE  ServedInv'
      <3> DEFINE all == Matches(op, q)
      <3>1. all' = all /\ (QueryTooLong(q)' <=> QueryTooLong(q))
        BY <2>1, FrozenMatches
      <3>2. call = Asked(op, q, offset, limit) /\ Right(answer, all, q, offset, limit)
        BY <2>4 DEF ServedMatch
      <3> HIDE DEF all
      <3>3. Right(answer, all, q, offset, limit)'
        <4>1. NotFound' = NotFound
          BY DEF NotFound
        <4>2. Exactly(answer, all, offset, limit)'
          BY <2>1, <3>1, <3>2, <4>1 DEF Right, Exactly
        <4>3. (answer.tag = "found" => Basis(answer.basis, all, q))'
          BY <2>1, <3>1, <3>2 DEF Right, Basis
        <4>4. Fits(answer, q, limit)'
          BY <2>1, <3>1, <3>2 DEF Right, Fits
        <4> QED BY <4>2, <4>3, <4>4 DEF Right
      <3>4. ServedMatch(op, q, offset, limit)'
        BY <2>1, <3>2, <3>3 DEF ServedMatch, Asked, all
      <3>5. Served'
        BY <3>4 DEF Served
      <3> QED BY <2>2, <3>5 DEF ServedInv
    <2>5. ASSUME NEW q \in Queries, NEW limit \in Nat, ServedPrefix(q, limit) PROVE ServedInv'
      <3> DEFINE all == Sorted(HasPrefix(Normalize(q)), LocatorOrder(NormOf))
      <3>1. all' = all /\ (QueryTooLong(q)' <=> QueryTooLong(q))
        BY <2>1, FrozenMatches, FrozenRows
      <3>2. /\ call = Asked("prefix", q, 0, limit) /\ Fits(answer, q, limit)
            /\ answer.tag = "found" => answer.rows = SubSeq(all, 1, Least(limit, Len(all)))
        BY <2>5 DEF ServedPrefix, PrefixRight
      <3> HIDE DEF all
      <3>3. (answer.tag = "found" => answer.rows = SubSeq(all, 1, Least(limit, Len(all))))'
        BY <2>1, <3>1, <3>2
      <3>4. Fits(answer, q, limit)'
        BY <2>1, <3>1, <3>2 DEF Fits
      <3>5. PrefixRight(answer, q, limit)'
        BY <3>3, <3>4 DEF PrefixRight, all
      <3>6. ServedPrefix(q, limit)'
        BY <2>1, <3>2, <3>5 DEF ServedPrefix, Asked
      <3>7. Served'
        BY <3>6 DEF Served
      <3> QED BY <2>2, <3>7 DEF ServedInv
    <2> QED BY <2>3, <2>4, <2>5 DEF ServedInv, Served
  <1> QED BY <1>1, <1>2, <1>3, <1>4, <1>5, <1>6, <1>7 DEF LookupNext

LEMMA ServedAlways == LookupSpec => []ServedInv
  BY ServedStart, ServedStep, PTL DEF LookupSpec

LEMMA ServedMeans ==
    ASSUME ServedInv
    PROVE  AnswersExactly /\ BasisTruthful /\ PagesFitReservation /\ PrefixExact
  <1>1. CASE call = NoCall /\ answer = NotFound
    <2>1. call.op = "none" /\ answer.tag = "none"
      BY <1>1 DEF NoCall, NotFound
    <2> QED BY <2>1 DEF AnswersExactly, BasisTruthful, PagesFitReservation, PrefixExact, IsMatch
  <1>2. ASSUME NEW op \in MatchOps, NEW q \in Queries, NEW offset \in Nat, NEW limit \in Nat,
               ServedMatch(op, q, offset, limit)
        PROVE  AnswersExactly /\ BasisTruthful /\ PagesFitReservation /\ PrefixExact
    <2>1. call.op = op /\ call.query = q /\ call.offset = offset /\ call.limit = limit
      BY <1>2 DEF ServedMatch, Asked
    <2>2. Right(answer, Matches(call.op, call.query), call.query, call.offset, call.limit)
      BY <1>2, <2>1 DEF ServedMatch
    <2>3. AnswersExactly
      BY <2>2 DEF Right, Exactly, AnswersExactly, Window
    <2>4. BasisTruthful
      BY <2>2 DEF Right, Basis, BasisTruthful
    <2>5. PagesFitReservation
      BY <2>2 DEF Right, Fits, PagesFitReservation
    <2>6. PrefixExact
      BY <2>1 DEF MatchOps, PrefixExact
    <2> QED BY <2>3, <2>4, <2>5, <2>6
  <1>3. ASSUME NEW q \in Queries, NEW limit \in Nat, ServedPrefix(q, limit)
        PROVE  AnswersExactly /\ BasisTruthful /\ PagesFitReservation /\ PrefixExact
    <2>1. call.op = "prefix" /\ call.query = q /\ call.limit = limit
      BY <1>3 DEF ServedPrefix, Asked
    <2>2. PrefixRight(answer, call.query, call.limit)
      BY <1>3, <2>1 DEF ServedPrefix
    <2>3. AnswersExactly /\ BasisTruthful
      BY <2>1 DEF AnswersExactly, BasisTruthful, IsMatch
    <2>4. PagesFitReservation
      BY <2>2 DEF PrefixRight, Fits, PagesFitReservation
    <2>5. PrefixExact
      <3> DEFINE text == Normalize(call.query)
      <3>1. {o \in AllRows : IsPrefix(text, NormOf[o])} = HasPrefix(text)
        BY DEF HasPrefix
      <3>2. answer.tag = "found" =>
              LET all == Sorted({o \in AllRows : IsPrefix(text, NormOf[o])}, LocatorOrder(NormOf))
              IN  answer.rows = SubSeq(all, 1, Least(call.limit, Len(all)))
        BY <2>2, <3>1 DEF PrefixRight
      <3> QED BY <3>2, Zenon DEF PrefixExact, NormOf
    <2> QED BY <2>3, <2>4, <2>5
  <1> QED BY <1>1, <1>2, <1>3 DEF ServedInv, Served

\* Every answer of locate, locate_page and the two with a match mode is the window
\* asked for of the rows that match, in any dictionary.
THEOREM AnswersAreExact == LookupSpec => []AnswersExactly
  BY ServedAlways, ServedMeans, PTL

\* The basis an answer names is true of every row of the complete result.
THEOREM BasisIsTruthful == LookupSpec => []BasisTruthful
  BY ServedAlways, ServedMeans, PTL

\* No page outgrows the memory reserved for it, and none is refused for its size.
THEOREM PagesFit == LookupSpec => []PagesFitReservation
  BY ServedAlways, ServedMeans, PTL

\* prefix_keys returns the first rows, in normalized order, of all that have the
\* prefix.
THEOREM PrefixesAreExact == LookupSpec => []PrefixExact
  BY ServedAlways, ServedMeans, PTL

=============================================================================
