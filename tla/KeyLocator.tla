----------------------------- MODULE KeyLocator -----------------------------
(***************************************************************************)
(* The global key locator, built on first use and shared by all threads    *)
(* (key_locator and build_key_locator in src/core/locator.rs).             *)
(*                                                                         *)
(* A lookup first reads the OnceLock without a lock; if it is empty it     *)
(* takes locator_build, reads the OnceLock again, and builds: one key      *)
(* block after the other, each through the shared key-block cache, whose   *)
(* slot other readers replace or fail between two of the builder's blocks. *)
(* A failure the file is to blame for is published in the OnceLock and so  *)
(* is final for this handle; any other leaves the OnceLock empty for the   *)
(* next caller to try again.                                               *)
(*                                                                         *)
(* A key's normalized text is abstracted to its rank (NormKey) and its     *)
(* length (NormLen); the digest of the raw text is in module Lookup.       *)
(***************************************************************************)
EXTENDS BlockCache, FiniteSets

CONSTANTS
    Callers,         \* threads that look keys up
    NormKey,         \* NormKey[o]: rank of the normalized text of key o
    NormLen,         \* NormLen[o]: its length in bytes
    LimitChoices,    \* the locator_entries and locator_bytes a handle may be opened with,
                     \* and the largest ordinal or bound a table holds (u32::MAX)
    MaxCalls         \* bound: how many lookups one thread makes

\* The mutex is free.
NoOne == -1

ASSUME LocatorAssumption ==
    /\ NormKey \in [Ordinals -> Nat]
    /\ NormLen \in [Ordinals -> Nat]
    /\ LimitChoices \subseteq [entries : Nat, bytes : Nat, width : Nat]
    /\ MaxCalls \in Nat
    /\ NoOne \notin Callers

VARIABLES
    limits,   \* MdictFile.limits, its part about the locator
    locator,  \* MdictFile.locator, a OnceLock
    lock,     \* the holder of MdictFile.locator_build
    pc,       \* where the lookup of each thread stands
    block,    \* block[t]: the next key block of t's build
    built,    \* built[t]: the rows t's build has collected, in order
    ret,      \* ret[t]: what t's last lookup got
    calls,    \* calls[t]: lookups t has made
    verdict   \* history: what the file and the limits decide about the locator

opened == <<file, limits, verdict>>
vars == <<opened, keyCache, recordCache, locator, lock, pc, block, built, ret, calls>>

Unset == [tag |-> "unset"]
NoAnswer == [tag |-> "unanswered"]

\* The fixed tables: bounds, order and digests, four bytes a slot.
FixedBytes == 4 * (NEntries + 1 + 2 * NEntries)

\* The sum of the lengths of the first n keys.
TextBytes[n \in 0..NEntries] == IF n = 0 THEN 0 ELSE TextBytes[n - 1] + NormLen[n - 1]

LimitFailure == Failed("limit", -1)

\* The limit checks that come before any block is decoded.
TooLarge ==
    \/ NEntries > limits.entries \/ NEntries > limits.width
    \/ FixedBytes > limits.bytes

\* The tables and the text must not exceed locator_bytes, nor the text a bound.  A row
\* is checked against the first before the second.
TextCeiling ==
    IF limits.bytes <= FixedBytes + limits.width THEN limits.bytes ELSE FixedBytes + limits.width

TextFailure ==
    IF limits.bytes <= FixedBytes + limits.width THEN LimitFailure ELSE Failed("format", -1)

\* compare_rows: normalized text first, then the physical ordinal.
Before(x, y) ==
    \/ NormKey[x] < NormKey[y]
    \/ NormKey[x] = NormKey[y] /\ x < y

\* The ordinals os sorted by compare_rows.
SortedOrder(os) ==
    [k \in 1..Cardinality(os) |->
        CHOOSE o \in os : Cardinality({p \in os : Before(p, o)}) = k - 1]

Ready(os) == [tag |-> "ready", order |-> SortedOrder(os)]

Complete == Ready(Ordinals)

\* What the file and the limits alone decide about the locator: the size limits
\* come first, then the blocks in order, each either at fault or adding its text.
Verdict ==
    LET stops == {b \in KeyBlocks : \/ FaultyKeyBlock(b)
                                    \/ FixedBytes + TextBytes[EntryStart[b + 1]] > TextCeiling}
        first == CHOOSE b \in stops : \A c \in stops : b <= c
    IN
    IF TooLarge THEN LimitFailure
    ELSE IF stops = {} THEN Complete
    ELSE IF ~FaultyKeyBlock(first) THEN TextFailure
    ELSE BlockFailure(first)

Init ==
    /\ CacheInit
    /\ limits \in LimitChoices
    /\ locator = Unset
    /\ lock = NoOne
    /\ pc = [t \in Callers |-> "idle"]
    /\ block = [t \in Callers |-> 0]
    /\ built = [t \in Callers |-> <<>>]
    /\ ret = [t \in Callers |-> NoAnswer]
    /\ calls = [t \in Callers |-> 0]
    /\ verdict = Verdict

\* cached_locator, with r the answer
Answer(t, r) ==
    /\ ret' = [ret EXCEPT ![t] = r]
    /\ pc' = [pc EXCEPT ![t] = "idle"]

-----------------------------------------------------------------------------

\* key_locator: the OnceLock is already set.
FastPath(t) ==
    /\ pc[t] = "idle" /\ calls[t] < MaxCalls
    /\ locator # Unset
    /\ calls' = [calls EXCEPT ![t] = @ + 1]
    /\ \E r \in FromCache(locator) : Answer(t, r)
    /\ UNCHANGED <<opened, keyCache, recordCache, locator, lock, block, built>>

\* key_locator: the OnceLock is not set, go for the build mutex.
SlowPath(t) ==
    /\ pc[t] = "idle" /\ calls[t] < MaxCalls
    /\ locator = Unset
    /\ calls' = [calls EXCEPT ![t] = @ + 1]
    /\ pc' = [pc EXCEPT ![t] = "wait"]
    /\ UNCHANGED <<opened, keyCache, recordCache, locator, lock, block, built, ret>>

\* Bug: no second look at the OnceLock under the mutex.
Acquire_NoSecondLook(t) ==
    /\ pc[t] = "wait" /\ lock = NoOne
    /\ lock' = t
    /\ pc' = [pc EXCEPT ![t] = "build"]
    /\ block' = [block EXCEPT ![t] = 0]
    /\ built' = [built EXCEPT ![t] = <<>>]
    /\ UNCHANGED <<opened, keyCache, recordCache, locator, calls, ret>>

\* locator_build.lock() and the second look at the OnceLock, which under the
\* mutex nobody else can set; a set one is answered and the guard dropped.
Acquire(t) ==
    /\ pc[t] = "wait" /\ lock = NoOne
    /\ IF locator # Unset
       THEN (\E r \in FromCache(locator) : Answer(t, r)) /\ UNCHANGED <<lock, block, built>>
       ELSE /\ lock' = t
            /\ pc' = [pc EXCEPT ![t] = "build"]
            /\ block' = [block EXCEPT ![t] = 0]
            /\ built' = [built EXCEPT ![t] = <<>>]
            /\ UNCHANGED ret
    /\ UNCHANGED <<opened, keyCache, recordCache, locator, calls>>

\* build_key_locator failed with r: the failure is captured or dropped, then
\* returned; the guard and the rows collected so far go away.
BuildFailed(t, r) ==
    /\ \E s \in Capture(0, r, Empty) :
          locator' = IF s = Empty THEN locator ELSE s.value
    /\ Answer(t, r)
    /\ lock' = NoOne
    /\ built' = [built EXCEPT ![t] = <<>>]

\* Those checks, the first reservation and the first two tables.
BuildRefused(t) ==
    /\ pc[t] = "build" /\ block[t] = 0
    /\ BuildFailed(t, IF TooLarge THEN LimitFailure ELSE Transient)
    /\ UNCHANGED <<opened, keyCache, recordCache, block, calls>>

\* What the checks on row k of `all' say, a row of block b.
RowCheck(all, k, b) ==
    IF all[k].start > TotalLen \/ (k > 1 /\ all[k - 1].start > all[k].start)
    THEN Failed("data", b)
    ELSE IF FixedBytes + TextBytes[k] > TextCeiling THEN TextFailure
    ELSE [tag |-> "ready"]

\* One block of the build.  Its rows are taken over one by one, each checked and
\* then charged to the memory budget, which may fail (before its bound is found too
\* large); then the rows are counted.
BuildBlock(t) ==
    LET b == block[t] IN
    /\ pc[t] = "build" /\ b < NKey /\ ~TooLarge
    /\ \E d \in DecodeKeyBlock(b) :
          /\ keyCache' = d.slot
          /\ IF IsFailure(d.result) THEN BuildFailed(t, d.result) /\ UNCHANGED block
             ELSE LET all == built[t] \o [k \in 1..EntryCount(b) |-> d.result.rows[k - 1]]
                      new == (Len(built[t]) + 1)..Len(all)
                      bad == {k \in new : IsFailure(RowCheck(all, k, b))}
                  IN
                  \/ /\ \E k \in new : \A j \in bad :
                            k < j \/ (k = j /\ RowCheck(all, k, b).class = "format")
                     /\ BuildFailed(t, Transient) /\ UNCHANGED block
                  \/ \E k \in bad :
                     /\ \A j \in bad : k <= j
                     /\ BuildFailed(t, RowCheck(all, k, b)) /\ UNCHANGED block
                  \/ /\ bad = {}
                     /\ IF Len(all) # EntryStart[b] + EntryCount(b)
                        THEN BuildFailed(t, Failed("data", b)) /\ UNCHANGED block
                        ELSE /\ built' = [built EXCEPT ![t] = all]
                             /\ block' = [block EXCEPT ![t] = b + 1]
                             /\ UNCHANGED <<locator, lock, pc, ret>>
    /\ UNCHANGED <<opened, recordCache, calls>>

\* Bug: the locator is returned but not published.
PublishLocator_Forgets(t) ==
    /\ pc[t] = "build" /\ block[t] = NKey
    /\ Answer(t, Ready({built[t][k].ordinal : k \in DOMAIN built[t]}))
    /\ lock' = NoOne
    /\ built' = [built EXCEPT ![t] = <<>>]
    /\ UNCHANGED <<opened, keyCache, recordCache, locator, block, calls>>

\* Bug: the finished locator is published under locator_build, locked once more; the
\* mutex is not reentrant and the caller holds it.
PublishLocator_LocksAgain(t) ==
    /\ pc[t] = "build" /\ block[t] = NKey
    /\ lock = NoOne
    /\ LET value == Ready({built[t][k].ordinal : k \in DOMAIN built[t]}) IN
          /\ locator' = value
          /\ Answer(t, value)
    /\ built' = [built EXCEPT ![t] = <<>>]
    /\ UNCHANGED <<opened, keyCache, recordCache, lock, block, calls>>

\* All blocks are in: count, sort, publish, return, release.  The table for the
\* order may not be allocated.
PublishLocator(t) ==
    /\ pc[t] = "build" /\ block[t] = NKey
    /\ \/ BuildFailed(t, Transient)
       \/ /\ Len(built[t]) # NEntries
          /\ BuildFailed(t, Failed("data", -1))
       \/ /\ Len(built[t]) = NEntries
          /\ LET value == Ready({built[t][k].ordinal : k \in DOMAIN built[t]}) IN
                /\ locator' = value
                /\ Answer(t, value)
          /\ lock' = NoOne
          /\ built' = [built EXCEPT ![t] = <<>>]
    /\ UNCHANGED <<opened, keyCache, recordCache, block, calls>>

\* Any other reader of the handle decodes a key block.
OtherReader(b) ==
    /\ \E d \in DecodeKeyBlock(b) : keyCache' = d.slot
    /\ UNCHANGED <<opened, recordCache, locator, lock, pc, block, built, ret, calls>>

CallerStep(t) ==
    \/ FastPath(t) \/ SlowPath(t) \/ Acquire(t)
    \/ BuildRefused(t) \/ BuildBlock(t) \/ PublishLocator(t)

Next ==
    \/ \E t \in Callers : CallerStep(t)
    \/ \E b \in KeyBlocks : OtherReader(b)

Spec == Init /\ [][Next]_vars

\* A thread that is inside key_locator keeps running.
Fairness == \A t \in Callers :
    WF_vars(Acquire(t) \/ BuildRefused(t) \/ BuildBlock(t) \/ PublishLocator(t))

FairSpec == Spec /\ Fairness

-----------------------------------------------------------------------------

\* One build at a time, by the holder of locator_build, and none once the
\* OnceLock is set: a budget with room for one locator is enough for any number
\* of first callers (tests/conformance_v2.rs).
SingleFlight ==
    \A t \in Callers : pc[t] = "build" =>
        /\ lock = t
        /\ locator = Unset
        /\ \A u \in Callers \ {t} : pc[u] # "build" /\ built[u] = <<>>

Once == INSTANCE OnceValue WITH
            cell <- locator, truth <- verdict, answer <- ret, Retry <- Transient

\* The locator is a write-once value that the file and the limits decide alone:
\* whatever other readers do to the key-block cache between two blocks of a
\* build, whichever thread builds, and however often a build is given up for
\* lack of memory, only that value or that failure is published or answered.
ImplementsOnce == Once!Spec

\* Every lookup returns: a build over the whole dictionary, with locator_build held and
\* the other callers behind it, never asks for what only its own end releases, and
\* those behind a build that was given up build again and return as well.
EveryLookupReturns == \A t \in Callers : pc[t] # "idle" ~> pc[t] = "idle"

=============================================================================
