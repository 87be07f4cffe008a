-------------------------- MODULE IndexSort_proofs --------------------------
(***************************************************************************)
(* What building a persistent index holds beyond the memory it was given   *)
(* is bounded, and the order it writes is the order of all rows, for any   *)
(* dictionary, any ceiling and any record sizes.                           *)
(***************************************************************************)
EXTENDS IndexSort, FiniteSetTheorems, FunctionTheorems, SequenceTheorems, WellFoundedInduction, TLAPS

\* The runs still to be merged, merged, and being merged.
RunCount == Len(runs) + Len(out) + (IF group = NoGroup THEN 0 ELSE 1)

\* The read buffers were sized once, for some number of runs; no later group is
\* larger, as groups are bounded by the fan-in and passes only lose runs.
BufferFits ==
    \E active \in Nat :
        /\ active * (BasePerRun + readBuffer) <= memory
        /\ FanIn <= active \/ RunCount <= active

\* What merge_runs counts for a group fits.
GroupFits == group # NoGroup => group.size * (BasePerRun + readBuffer) <= memory

MergeInv ==
    /\ rows \in RowChoices /\ memory \in Nat
    /\ next \in Nat \ {0} /\ maxRecord \in Nat
    /\ \E S : runs \in Seq(S) /\ out \in Seq(S)
    /\ phase = "rows" => group = NoGroup /\ out = <<>>
    /\ phase = "merge" =>
          /\ FanIn >= 2 /\ readBuffer \in Nat /\ BufferFits
          /\ group = NoGroup => runs # <<>>
    /\ group # NoGroup =>
          {"size", "heap"} \subseteq DOMAIN group /\ group.size \in Nat /\ readBuffer \in Nat
    /\ GroupFits

-----------------------------------------------------------------------------

\* What division by a positive number leaves.
LEMMA DivBound ==
    ASSUME NEW m \in Nat, NEW a \in Nat, a > 0
    PROVE  m \div a \in Nat /\ a * (m \div a) <= m
  OBVIOUS

LEMMA ProductMonotone ==
    ASSUME NEW a \in Nat, NEW b \in Nat, NEW c \in Nat, a <= b
    PROVE  a * c <= b * c
  <1>1. PICK d \in Nat : b = a + d
    <2> WITNESS b - a \in Nat
    <2> QED OBVIOUS
  <1>2. b * c = a * c + d * c
    BY <1>1
  <1>3. d * c \in Nat /\ a * c \in Nat
    OBVIOUS
  <1> QED BY <1>2, <1>3

\* merge_runs: with the fan-in it computes, a record, a cursor, a place in the
\* heap and a read buffer for each of the runs of a group fit in the memory.
LEMMA ReadBufferFits ==
    ASSUME memory \in Nat, maxRecord \in Nat, NEW n \in Nat, n >= 1, FanIn >= 2
    PROVE  /\ RunReadBuffer(n) \in Nat
           /\ \E active \in Nat :
                 /\ active * (BasePerRun + RunReadBuffer(n)) <= memory
                 /\ FanIn <= active \/ n <= active
  <1> DEFINE base == BasePerRun
             active == Least(n, Greatest(FanIn, 1))
             budget == Greatest(memory - base * active, 0)
             share == budget \div active
  <1>1. base \in Nat
    BY SortAssumption DEF BasePerRun
  <1>2. FanIn \in Nat /\ FanIn * (base + 1) <= memory
    <2>1. memory \div (base + 1) \in Nat /\ (base + 1) * (memory \div (base + 1)) <= memory
      BY <1>1, DivBound
    <2>2. FanIn \in Nat /\ FanIn <= memory \div (base + 1)
      BY <2>1, SortAssumption DEF FanIn, Least
    <2>3. FanIn * (base + 1) <= (memory \div (base + 1)) * (base + 1)
      BY <1>1, <2>1, <2>2, ProductMonotone
    <2> HIDE DEF base
    <2>4. FanIn * (base + 1) \in Nat /\ (memory \div (base + 1)) * (base + 1) \in Nat
          /\ (memory \div (base + 1)) * (base + 1) = (base + 1) * (memory \div (base + 1))
      BY <1>1, <2>1, <2>2
    <2> QED BY <2>1, <2>2, <2>3, <2>4
  <1>3. active \in Nat /\ active >= 1 /\ active <= FanIn /\ (FanIn <= active \/ n <= active)
    BY <1>2 DEF Least, Greatest
  <1> HIDE DEF base, active
  <1>4. active * (base + 1) <= FanIn * (base + 1)
    BY <1>1, <1>2, <1>3, ProductMonotone
  <1>5. active * (base + 1) = base * active + active
    BY <1>1, <1>3
  <1>6. base * active \in Nat /\ FanIn * (base + 1) \in Nat
    BY <1>1, <1>2, <1>3
  <1>7. budget \in Nat /\ budget = memory - base * active
    BY <1>2, <1>3, <1>4, <1>5, <1>6 DEF Greatest
  <1> HIDE DEF budget
  <1>8. share \in Nat /\ active * share <= budget
    BY <1>3, <1>7, DivBound
  <1>9. budget >= active
    BY <1>2, <1>3, <1>4, <1>5, <1>6, <1>7
  <1>10. share >= 1
    BY <1>3, <1>7, <1>9
  <1> HIDE DEF share
  <1>11. RunReadBuffer(n) = Least(Greatest(share, 1), MaxReadBuffer)
    BY DEF RunReadBuffer, share, budget, active, base
  <1>12. RunReadBuffer(n) \in Nat /\ RunReadBuffer(n) <= share
    BY <1>8, <1>10, <1>11, BufferAssumption DEF MaxReadBuffer, Least, Greatest
  <1>13. RunReadBuffer(n) * active <= share * active
    BY <1>3, <1>8, <1>12, ProductMonotone
  <1>14. active * (base + RunReadBuffer(n)) = base * active + RunReadBuffer(n) * active
    BY <1>1, <1>3, <1>12
  <1>15. share * active = active * share /\ active * share \in Nat
         /\ RunReadBuffer(n) * active \in Nat
    BY <1>3, <1>8, <1>12
  <1>16. active * (base + RunReadBuffer(n)) <= memory
    BY <1>6, <1>7, <1>8, <1>13, <1>14, <1>15
  <1> QED BY <1>3, <1>12, <1>16 DEF base

-----------------------------------------------------------------------------

LEMMA FanInNat ==
    ASSUME memory \in Nat, maxRecord \in Nat
    PROVE  FanIn \in Nat /\ BasePerRun \in Nat
  <1>1. BasePerRun \in Nat
    BY SortAssumption DEF BasePerRun
  <1>2. memory \div (BasePerRun + 1) \in Nat
    BY <1>1, DivBound
  <1> QED BY <1>1, <1>2, SortAssumption DEF FanIn, Least

LEMMA MergeInit == Init => MergeInv
  <1> SUFFICES ASSUME Init PROVE MergeInv
    OBVIOUS
  <1>1. runs \in Seq({}) /\ out \in Seq({})
    BY DEF Init
  <1>2. rows \in RowChoices /\ memory \in Nat /\ next \in Nat \ {0} /\ maxRecord \in Nat
        /\ readBuffer \in Nat /\ phase = "rows" /\ group = NoGroup /\ out = <<>>
    BY SortAssumption DEF Init
  <1> QED BY <1>1, <1>2 DEF MergeInv, GroupFits

\* The length of a key record is a number.
LEMMA RecordBytesNat ==
    ASSUME MergeInv, next <= Len(rows)
    PROVE  RecordBytes(next) \in Nat
  <1>1. rows \in Seq(RowType) /\ next \in DOMAIN rows
    BY SortAssumption DEF MergeInv
  <1>2. rows[next] \in RowType
    BY <1>1
  <1> QED BY <1>2, SortAssumption DEF RecordBytes, RowType

LEMMA TakeRowKeeps == ASSUME MergeInv, TakeRow PROVE MergeInv'
  <1>1. /\ phase = "rows" /\ UNCHANGED <<rows, memory, phase, out, readBuffer, group>>
        /\ next' = next + 1 /\ maxRecord' = Greatest(maxRecord, RecordBytes(next))
        /\ RecordBytes(next) \in Nat
    BY RecordBytesNat DEF TakeRow
  <1>2. group = NoGroup /\ out = <<>>
    BY <1>1 DEF MergeInv
  <1>3. PICK S : runs \in Seq(S) /\ out \in Seq(S)
    BY DEF MergeInv
  <1> DEFINE R == S \cup {SortRecords(buffer)}
  <1>4. runs' \in Seq(R) /\ out' \in Seq(R)
    <2>1. runs \in Seq(R) /\ SortRecords(buffer) \in R
      BY <1>3
    <2>2. runs' = runs \/ runs' = Append(runs, SortRecords(buffer))
      BY DEF TakeRow
    <2> HIDE DEF R
    <2> QED BY <1>1, <1>2, <2>1, <2>2
  <1>5. maxRecord' \in Nat /\ next' \in Nat \ {0}
    BY <1>1 DEF MergeInv, Greatest
  <1>6. \E T : runs' \in Seq(T) /\ out' \in Seq(T)
    BY <1>4
  <1> QED BY <1>1, <1>2, <1>5, <1>6 DEF MergeInv, GroupFits

LEMMA RefuseRowKeeps == ASSUME MergeInv, RefuseRow PROVE MergeInv'
  <1>1. /\ phase = "rows" /\ phase' = "limit"
        /\ UNCHANGED <<rows, memory, next, maxRecord, out, group>>
        /\ runs' = runs \/ runs' = Append(runs, SortRecords(buffer))
    BY DEF RefuseRow
  <1>2. group = NoGroup /\ out = <<>>
    BY <1>1 DEF MergeInv
  <1>3. PICK S : runs \in Seq(S) /\ out \in Seq(S)
    BY DEF MergeInv
  <1> DEFINE R == S \cup {SortRecords(buffer)}
  <1>4. runs' \in Seq(R) /\ out' \in Seq(R)
    <2>1. runs \in Seq(R) /\ SortRecords(buffer) \in R
      BY <1>3
    <2> HIDE DEF R
    <2> QED BY <1>1, <1>2, <2>1
  <1>5. \E T : runs' \in Seq(T) /\ out' \in Seq(T)
    BY <1>4
  <1> QED BY <1>1, <1>2, <1>5 DEF MergeInv, GroupFits

\* A step that ends the build, or does not touch the merge.
LEMMA EndingKeeps ==
    ASSUME MergeInv, phase' \notin {"rows", "merge"},
           UNCHANGED <<rows, memory, arena, merge>>
    PROVE  MergeInv'
  BY DEF MergeInv, arena, merge, GroupFits, BasePerRun

LEMMA StartMergeKeeps == ASSUME MergeInv, StartMerge PROVE MergeInv'
  <1> DEFINE all == Append(runs, SortRecords(buffer))
  <1>1. /\ phase = "rows" /\ runs # <<>> /\ runs' = all
        /\ phase' = IF TooNarrow(Len(all)) THEN "limit" ELSE "merge"
        /\ readBuffer' = RunReadBuffer(Len(all))
        /\ UNCHANGED <<rows, memory, next, maxRecord, out, group>>
    BY DEF StartMerge
  <1>2. group = NoGroup /\ out = <<>>
    BY <1>1 DEF MergeInv
  <1>3. PICK S : runs \in Seq(S) /\ out \in Seq(S)
    BY DEF MergeInv
  <1> DEFINE R == S \cup {SortRecords(buffer)}
  <1>4. runs \in Seq(R) /\ SortRecords(buffer) \in R
    BY <1>3
  <1> HIDE DEF R
  <1>5. all \in Seq(R) /\ Len(all) = Len(runs) + 1 /\ Len(runs) \in Nat /\ Len(runs) # 0
    BY <1>1, <1>4
  <1> HIDE DEF all
  <1>6. memory \in Nat /\ maxRecord \in Nat /\ FanIn \in Nat
    BY FanInNat DEF MergeInv
  <1>7. CASE TooNarrow(Len(all))
    <2>1. phase' = "limit"
      BY <1>1, <1>7
    <2> QED BY <1>1, <1>2, <1>4, <1>5, <1>6, <2>1 DEF MergeInv, GroupFits
  <1>8. CASE ~TooNarrow(Len(all))
    <2>1. FanIn >= 2
      BY <1>5, <1>6, <1>8 DEF TooNarrow
    <2>2. /\ readBuffer' \in Nat
          /\ \E active \in Nat :
                /\ active * (BasePerRun + readBuffer') <= memory
                /\ FanIn <= active \/ Len(all) <= active
      BY <1>1, <1>5, <1>6, <2>1, ReadBufferFits
    <2>3. RunCount' = Len(all)
      BY <1>1, <1>2, <1>5 DEF RunCount
    <2>4. FanIn' = FanIn /\ BasePerRun' = BasePerRun
      BY <1>1 DEF FanIn, BasePerRun
    <2>5. BufferFits'
      BY <1>1, <2>2, <2>3, <2>4 DEF BufferFits
    <2>6. runs' # <<>> /\ out' \in Seq(R)
      BY <1>1, <1>2, <1>5
    <2> QED BY <1>1, <1>2, <1>5, <2>1, <2>2, <2>4, <2>5, <2>6 DEF MergeInv, GroupFits
  <1> QED BY <1>7, <1>8

LEMMA BeginGroupKeeps == ASSUME MergeInv, BeginGroup PROVE MergeInv'
  <1> DEFINE size == Least(Len(runs), FanIn)
  <1>1. /\ phase = "merge" /\ group = NoGroup
        /\ group'.size = size /\ {"size", "heap"} \subseteq DOMAIN group' /\ group' # NoGroup
        /\ runs' = SubSeq(runs, size + 1, Len(runs))
        /\ UNCHANGED <<rows, memory, phase, next, maxRecord, out, readBuffer>>
    BY DEF BeginGroup, arena, NoGroup
  <1>2. FanIn >= 2 /\ BufferFits /\ runs # <<>>
    BY <1>1 DEF MergeInv
  <1>3. memory \in Nat /\ maxRecord \in Nat /\ FanIn \in Nat /\ BasePerRun \in Nat
        /\ readBuffer \in Nat
    BY <1>1, FanInNat DEF MergeInv
  <1>4. PICK S : runs \in Seq(S) /\ out \in Seq(S)
    BY DEF MergeInv
  <1>5. Len(runs) \in Nat /\ Len(runs) >= 1 /\ Len(out) \in Nat
    BY <1>2, <1>4
  <1>6. size \in Nat /\ size >= 1 /\ size <= Len(runs) /\ size <= FanIn
    BY <1>2, <1>3, <1>5 DEF Least
  <1> HIDE DEF size
  <1>7. runs' \in Seq(S) /\ Len(runs') = Len(runs) - size /\ out' \in Seq(S)
    BY <1>1, <1>4, <1>5, <1>6
  <1>8. FanIn' = FanIn /\ BasePerRun' = BasePerRun
    BY <1>1 DEF FanIn, BasePerRun
  <1>9. RunCount' <= RunCount /\ RunCount \in Nat /\ RunCount' \in Nat /\ size <= RunCount
    BY <1>1, <1>5, <1>6, <1>7 DEF RunCount
  <1>10. PICK active \in Nat : /\ active * (BasePerRun + readBuffer) <= memory
                               /\ FanIn <= active \/ RunCount <= active
    BY <1>2 DEF BufferFits
  <1>11. BufferFits'
    <2>1. active * (BasePerRun' + readBuffer') <= memory'
      BY <1>1, <1>8, <1>10
    <2>2. RunCount <= active => RunCount' <= active
      BY <1>9
    <2>3. FanIn' <= active \/ RunCount' <= active
      BY <1>8, <1>10, <2>2
    <2> QED BY <2>1, <2>3 DEF BufferFits
  <1>12. size * (BasePerRun + readBuffer) <= memory
    <2>1. size <= active
      BY <1>3, <1>6, <1>9, <1>10
    <2>2. size * (BasePerRun + readBuffer) <= active * (BasePerRun + readBuffer)
      BY <1>3, <1>6, <2>1, ProductMonotone
    <2>3. size * (BasePerRun + readBuffer) \in Nat /\ active * (BasePerRun + readBuffer) \in Nat
      BY <1>3, <1>6
    <2> QED BY <1>3, <1>10, <2>2, <2>3
  <1> QED BY <1>1, <1>2, <1>3, <1>6, <1>7, <1>8, <1>11, <1>12 DEF MergeInv, GroupFits

LEMMA PopKeeps == ASSUME MergeInv, Pop PROVE MergeInv'
  <1>1. /\ phase = "merge" /\ group # NoGroup
        /\ UNCHANGED <<rows, memory, phase, next, maxRecord, runs, out, readBuffer>>
    BY DEF Pop, arena
  <1>2. DOMAIN group' = DOMAIN group /\ group'.size = group.size
    BY <1>1 DEF Pop, MergeInv
  <1>3. group' # NoGroup
    BY <1>1, <1>2 DEF MergeInv, NoGroup
  <1>4. FanIn' = FanIn /\ BasePerRun' = BasePerRun /\ RunCount' = RunCount
    BY <1>1, <1>3 DEF FanIn, BasePerRun, RunCount
  <1>5. BufferFits'
    BY <1>1, <1>4 DEF BufferFits, MergeInv
  <1> QED BY <1>1, <1>2, <1>3, <1>4, <1>5 DEF MergeInv, GroupFits

LEMMA EndGroupKeeps == ASSUME MergeInv, EndGroup PROVE MergeInv'
  <1> DEFINE written == Append(out, group.merged)
  <1>1. /\ phase = "merge" /\ group # NoGroup /\ group' = NoGroup
        /\ UNCHANGED <<rows, memory, next, maxRecord, readBuffer>>
        /\ phase' # "rows"
        /\ \/ runs # <<>> /\ runs' = runs /\ out' = written
           \/ runs = <<>> /\ runs' = written /\ out' = <<>>
           \/ phase' # "merge" /\ runs' = runs /\ out' \in {<<>>, written}
    BY DEF EndGroup, arena
  <1>2. PICK S : runs \in Seq(S) /\ out \in Seq(S)
    BY DEF MergeInv
  <1> DEFINE R == S \cup {group.merged}
  <1>3. runs \in Seq(R) /\ out \in Seq(R) /\ group.merged \in R
    BY <1>2
  <1> HIDE DEF R
  <1>4. written \in Seq(R) /\ Len(written) = Len(out) + 1 /\ Len(out) \in Nat
        /\ Len(runs) \in Nat /\ written # <<>>
    BY <1>3
  <1> HIDE DEF written
  <1>5. runs' \in Seq(R) /\ out' \in Seq(R)
    <2>1. <<>> \in Seq(R)
      OBVIOUS
    <2>2. runs' \in {runs, written} /\ out' \in {<<>>, written}
      BY <1>1
    <2> QED BY <1>3, <1>4, <2>1, <2>2
  <1>6. FanIn' = FanIn /\ BasePerRun' = BasePerRun
    BY <1>1 DEF FanIn, BasePerRun
  <1>7. phase' = "merge" => runs' # <<>> /\ RunCount' <= RunCount
    BY <1>1, <1>4 DEF RunCount
  <1>8. RunCount \in Nat /\ RunCount' \in Nat /\ FanIn \in Nat
    BY <1>1, <1>4, <1>5, FanInNat DEF RunCount, MergeInv
  <1>9. phase' = "merge" => BufferFits'
    BY <1>1, <1>6, <1>7, <1>8 DEF BufferFits, MergeInv
  <1> QED BY <1>1, <1>5, <1>6, <1>7, <1>9 DEF MergeInv, GroupFits

LEMMA MergeStep == MergeInv /\ [Next]_vars => MergeInv'
  <1> SUFFICES ASSUME MergeInv, [Next]_vars PROVE MergeInv'
    OBVIOUS
  <1>2. CASE OneArena
    BY <1>2, EndingKeeps DEF OneArena
  <1>3. CASE Abandon
    BY <1>3, EndingKeeps DEF Abandon
  <1>4. CASE UNCHANGED vars
    BY <1>4 DEF vars, arena, merge, MergeInv, GroupFits, BasePerRun, FanIn, BufferFits,
                RunCount
  <1> QED BY <1>2, <1>3, <1>4, TakeRowKeeps, RefuseRowKeeps, StartMergeKeeps, BeginGroupKeeps, PopKeeps,
             EndGroupKeeps DEF Next, Step

-----------------------------------------------------------------------------

\* A set of numbers that is not empty has a least one; the library states it of a
\* well-founded relation and any set.
LEMMA LeastNumber ==
    ASSUME NEW T, T \subseteq Nat, T # {}
    PROVE  \E m \in T : \A k \in T : m <= k
  <1> DEFINE R == {ss \in Nat \X Nat : ss[1] < ss[2]}
  <1>1. IsWellFoundedOn(R, Nat)
    BY NatLessThanWellFounded DEF OpToRel
  <1>2. PICK x \in T : \A y \in T : ~(<<y, x>> \in R)
    <2> HIDE DEF R
    <2> QED BY <1>1, WFMin, Zenon
  <1>3. ASSUME NEW k \in T PROVE x <= k
    <2>1. x \in Nat /\ k \in Nat
      OBVIOUS
    <2>2. <<k, x>> \notin R
      BY <1>2
    <2>3. ~(k < x)
      BY <2>1, <2>2
    <2> QED BY <2>1, <2>3
  <1> QED BY <1>3


\* The rows of a run, and of several.
Members(s) == {s[k] : k \in DOMAIN s}
Covered(ss) == UNION {Members(ss[i]) : i \in DOMAIN ss}

\* A run: rows in the order of the index, each once.
IsRun(s) ==
    /\ s \in Seq(Physical)
    /\ \A j, k \in DOMAIN s : j < k => Before(s[j], s[k])

LEMMA RowsTyped ==
    ASSUME rows \in Seq(RowType)
    PROVE  /\ Physical = 1..Len(rows) /\ Len(rows) \in Nat
           /\ \A x \in Physical : x \in Nat /\ rows[x].rank \in Nat
  <1>1. Physical = 1..Len(rows) /\ Len(rows) \in Nat
    BY DEF Physical
  <1>2. \A x \in Physical : rows[x] \in RowType
    BY <1>1
  <1>3. \A r \in RowType : r.rank \in Nat
    BY DEF RowType
  <1> QED BY <1>1, <1>2, <1>3

\* Before is a strict total order, as ordinals break the ties of equal texts.
LEMMA BeforeOrders ==
    ASSUME rows \in Seq(RowType)
    PROVE  /\ Physical \subseteq Nat
           /\ \A x \in Physical : ~Before(x, x)
           /\ \A x, y \in Physical : x = y \/ Before(x, y) \/ Before(y, x)
           /\ \A x, y, z \in Physical : Before(x, y) /\ Before(y, z) => Before(x, z)
           /\ \A x, y \in Physical : ~(Before(x, y) /\ Before(y, x))
  <1>1. \A x \in Physical : x \in Nat /\ rows[x].rank \in Nat
    BY RowsTyped
  <1> QED BY <1>1 DEF Before

\* The rows of a sequence without repetition, counted.
LEMMA MembersCounted ==
    ASSUME NEW S, NEW s \in Seq(S), \A j, k \in DOMAIN s : s[j] = s[k] => j = k
    PROVE  IsFiniteSet(Members(s)) /\ Cardinality(Members(s)) = Len(s)
  <1>1. Len(s) \in Nat /\ DOMAIN s = 1..Len(s) /\ s \in [1..Len(s) -> Members(s)]
    BY DEF Members
  <1>2. \A t \in Members(s) : \E k \in 1..Len(s) : s[k] = t
    BY <1>1 DEF Members
  <1>3. s \in Bijection(1..Len(s), Members(s))
    BY <1>1, <1>2, Fun_IsBij
  <1>4. ExistsBijection(1..Len(s), Members(s))
    BY <1>3 DEF ExistsBijection
  <1>5. IsFiniteSet(1..Len(s)) /\ Cardinality(1..Len(s)) = Len(s)
    BY <1>1, FS_Interval
  <1> QED BY <1>4, <1>5, FS_Bijection

LEMMA RunCounted ==
    ASSUME rows \in Seq(RowType), NEW s, IsRun(s)
    PROVE  /\ \A j, k \in DOMAIN s : s[j] = s[k] => j = k
           /\ IsFiniteSet(Members(s)) /\ Cardinality(Members(s)) = Len(s)
           /\ Members(s) \subseteq Physical
  <1>1. s \in Seq(Physical) /\ DOMAIN s \subseteq Nat /\ \A k \in DOMAIN s : s[k] \in Physical
    BY DEF IsRun
  <1>2. ASSUME NEW j \in DOMAIN s, NEW k \in DOMAIN s, s[j] = s[k] PROVE j = k
    <2>1. ~(j < k) /\ ~(k < j)
      BY <1>1, <1>2, BeforeOrders DEF IsRun
    <2>2. j \in Nat /\ k \in Nat
      BY <1>1
    <2> QED BY <2>1, <2>2
  <1>3. Members(s) \subseteq Physical
    BY <1>1 DEF Members
  <1> QED BY <1>1, <1>2, <1>3, MembersCounted

\* How many of the rows of S come before o.
Place(S, o) == Cardinality({p \in S : Before(p, o)})

LEMMA Places ==
    ASSUME rows \in Seq(RowType), NEW S, S \subseteq Physical, IsFiniteSet(S)
    PROVE  /\ \A o \in S : Place(S, o) \in 0..(Cardinality(S) - 1)
           /\ \A o, p \in S : Before(o, p) => Place(S, o) < Place(S, p)
           /\ \A o, p \in S : Place(S, o) = Place(S, p) => o = p
           /\ \A k \in 0..(Cardinality(S) - 1) : \E o \in S : Place(S, o) = k
  <1> DEFINE B(o) == {p \in S : Before(p, o)}
             n == Cardinality(S)
  <1>1. \A o \in S : IsFiniteSet(B(o)) /\ Cardinality(B(o)) \in Nat /\ o \notin B(o)
    <2> SUFFICES ASSUME NEW o \in S
                 PROVE  IsFiniteSet(B(o)) /\ Cardinality(B(o)) \in Nat /\ o \notin B(o)
      OBVIOUS
    <2>1. B(o) \in SUBSET S /\ o \notin B(o)
      BY BeforeOrders
    <2> HIDE DEF B
    <2>2. IsFiniteSet(B(o))
      BY <2>1, FS_Subset
    <2> QED BY <2>1, <2>2, FS_CardinalityType
  <1>2. n \in Nat
    BY FS_CardinalityType
  <1>3. ASSUME NEW o \in S, NEW T \in SUBSET S, B(o) \subseteq T, o \in T
        PROVE  Cardinality(B(o)) + 1 <= Cardinality(T) /\ Cardinality(T) \in Nat
    <2>1. IsFiniteSet(T) /\ Cardinality(T) \in Nat
      BY FS_Subset, FS_CardinalityType
    <2>2. B(o) \cup {o} \in SUBSET T
      BY <1>3
    <2>3. /\ IsFiniteSet(B(o) \cup {o})
          /\ Cardinality(B(o) \cup {o}) = Cardinality(B(o)) + 1
      <3> HIDE DEF B
      <3> QED BY <1>1, FS_AddElement
    <2>4. Cardinality(B(o) \cup {o}) <= Cardinality(T)
      <3> HIDE DEF B
      <3> QED BY <2>1, <2>2, FS_Subset
    <2> QED BY <2>1, <2>3, <2>4
  <1>4. \A o \in S : Cardinality(B(o)) \in 0..(n - 1)
    <2> SUFFICES ASSUME NEW o \in S PROVE Cardinality(B(o)) \in 0..(n - 1)
      OBVIOUS
    <2>1. S \in SUBSET S /\ B(o) \subseteq S
      OBVIOUS
    <2>2. Cardinality(B(o)) + 1 <= n
      BY <1>3, <2>1
    <2> HIDE DEF B, n
    <2> QED BY <1>1, <1>2, <2>2
  <1>5. ASSUME NEW o \in S, NEW p \in S, Before(o, p)
        PROVE  Cardinality(B(o)) < Cardinality(B(p))
    <2>1. B(p) \in SUBSET S /\ B(o) \subseteq B(p) /\ o \in B(p)
      BY <1>5, BeforeOrders
    <2>2. Cardinality(B(o)) + 1 <= Cardinality(B(p)) /\ Cardinality(B(p)) \in Nat
      BY <1>3, <2>1
    <2> HIDE DEF B
    <2> QED BY <1>1, <2>2
  <1>6. \A o \in S : Place(S, o) = Cardinality(B(o))
    BY DEF Place
  <1> HIDE DEF B
  <1>7. ASSUME NEW o \in S, NEW p \in S, Place(S, o) = Place(S, p) PROVE o = p
    <2>1. ~Before(o, p) /\ ~Before(p, o)
      BY <1>1, <1>5, <1>6, <1>7
    <2> QED BY <2>1, BeforeOrders
  <1>8. ASSUME NEW k \in 0..(n - 1) PROVE \E o \in S : Place(S, o) = k
    <2> DEFINE f == [o \in S |-> Cardinality(B(o))]
               T == 0..(n - 1)
    <2>1. f \in [S -> T]
      BY <1>4
    <2>2. \A o, p \in S : f[o] = f[p] => o = p
      BY <1>6, <1>7
    <2>3. IsFiniteSet(T) /\ Cardinality(T) = n
      BY <1>2, FS_Interval
    <2> HIDE DEF f, T
    <2>4. f \in Injection(S, T)
      BY <2>1, <2>2, Fun_IsInj
    <2>5. f \in Surjection(S, T)
      BY <2>3, <2>4, FS_Injection
    <2>6. \A t \in T : \E o \in S : f[o] = t
      BY <2>5, Fun_SurjectionProperties
    <2> QED BY <1>6, <2>6 DEF f, T
  <1> QED BY <1>4, <1>5, <1>6, <1>7, <1>8

\* sort_records: the same rows, in order.
LEMMA SortSound ==
    ASSUME rows \in Seq(RowType), NEW s \in Seq(Physical),
           \A j, k \in DOMAIN s : s[j] = s[k] => j = k
    PROVE  IsRun(SortRecords(s)) /\ Members(SortRecords(s)) = Members(s)
  <1> DEFINE S == Members(s)
             n == Len(s)
  <1>1. S \subseteq Physical /\ IsFiniteSet(S) /\ Cardinality(S) = n /\ n \in Nat
    BY MembersCounted DEF Members
  <1>2. PICK t : t = SortRecords(s)
    OBVIOUS
  <1>3. t = [k \in 1..n |-> CHOOSE o \in S : Place(S, o) = k - 1]
    BY <1>2 DEF SortRecords, Members, Place
  <1> HIDE DEF S, n
  <1>4. ASSUME NEW k \in 1..n PROVE t[k] \in S /\ Place(S, t[k]) = k - 1
    <2>1. k - 1 \in 0..(Cardinality(S) - 1)
      BY <1>1
    <2>2. \E o \in S : Place(S, o) = k - 1
      BY <1>1, <2>1, Places
    <2>3. t[k] = CHOOSE o \in S : Place(S, o) = k - 1
      BY <1>3
    <2> QED BY <2>2, <2>3
  <1>5. t \in Seq(Physical) /\ DOMAIN t = 1..n
    <2>1. DOMAIN t = 1..n /\ t \in [1..n -> Physical]
      BY <1>1, <1>3, <1>4
    <2> QED BY <1>1, <2>1
  <1>6. ASSUME NEW j \in 1..n, NEW k \in 1..n, j < k PROVE Before(t[j], t[k])
    <2>1. t[j] \in S /\ t[k] \in S /\ Place(S, t[j]) = j - 1 /\ Place(S, t[k]) = k - 1
      BY <1>4
    <2>2. Place(S, t[j]) < Place(S, t[k])
      BY <1>1, <1>6, <2>1
    <2>3. ~(Place(S, t[k]) < Place(S, t[j])) /\ t[j] # t[k]
      BY <1>1, <2>1, <2>2
    <2>4. ~Before(t[k], t[j])
      BY <1>1, <2>1, <2>3, Places
    <2>5. t[j] \in Physical /\ t[k] \in Physical
      BY <1>1, <2>1
    <2> QED BY <2>3, <2>4, <2>5, BeforeOrders
  <1>7. ASSUME NEW o \in S PROVE \E k \in 1..n : t[k] = o
    <2>1. Place(S, o) \in 0..(n - 1)
      BY <1>1, Places
    <2>2. PICK k \in 1..n : k - 1 = Place(S, o)
      <3>1. Place(S, o) + 1 \in 1..n /\ (Place(S, o) + 1) - 1 = Place(S, o)
        BY <1>1, <2>1
      <3> QED BY <3>1
    <2>3. t[k] \in S /\ Place(S, t[k]) = Place(S, o)
      BY <1>4, <2>2
    <2>4. t[k] = o
      BY <1>1, <2>3, Places
    <2> QED BY <2>4
  <1>8. Members(t) = S
    BY <1>4, <1>5, <1>7 DEF Members
  <1> QED BY <1>2, <1>5, <1>6, <1>8 DEF IsRun, S

\* A heap that is not empty has a record that comes before all others.
LEMMA LeastRecord ==
    ASSUME rows \in Seq(RowType), NEW H, H # {},
           \A g \in H : g.ordinal \in Physical,
           \A g, h \in H : g.ordinal = h.ordinal => g = h
    PROVE  \E g \in H : \A h \in H \ {g} : HeapBefore(g, h)
  <1> DEFINE K == {rows[g.ordinal].rank : g \in H}
  <1>1. \A g \in H : g.ordinal \in Nat /\ rows[g.ordinal].rank \in Nat
    BY RowsTyped
  <1>2. K \subseteq Nat /\ K # {}
    BY <1>1
  <1>3. PICK m \in K : \A k \in K : m <= k
    <2> HIDE DEF K
    <2> QED BY <1>2, LeastNumber
  <1> DEFINE O == {g.ordinal : g \in {g \in H : rows[g.ordinal].rank = m}}
  <1>4. O \subseteq Nat /\ O # {}
    BY <1>1, <1>3
  <1>5. PICK o \in O : \A p \in O : o <= p
    <2> HIDE DEF O
    <2> QED BY <1>4, LeastNumber
  <1>6. PICK g \in H : rows[g.ordinal].rank = m /\ g.ordinal = o
    BY <1>5
  <1>7. ASSUME NEW h \in H \ {g} PROVE HeapBefore(g, h)
    <2>1. /\ m <= rows[h.ordinal].rank
          /\ rows[h.ordinal].rank = m => o <= h.ordinal
          /\ o # h.ordinal
      BY <1>3, <1>5, <1>6
    <2>2. m \in Nat /\ o \in Nat /\ h.ordinal \in Nat /\ rows[h.ordinal].rank \in Nat
      BY <1>1, <1>2, <1>3, <1>4, <1>5
    <2> QED BY <1>6, <2>1, <2>2 DEF HeapBefore, Before
  <1> QED BY <1>7

-----------------------------------------------------------------------------

\* Runs that share no row.
AreRuns(ss) ==
    /\ ss \in Seq(Seq(Physical))
    /\ \A i \in DOMAIN ss : IsRun(ss[i])
    /\ \A i, j \in DOMAIN ss : i # j => Members(ss[i]) \cap Members(ss[j]) = {}

\* What a group has yet to write, of run r and in all, and all of its rows.
Part(g, r) == Members(g.cursors[r]) \cup {h.ordinal : h \in {h \in g.heap : h.run = r}}
Left(g) == UNION {Part(g, r) : r \in 1..g.size}
Whole(g) == Members(g.merged) \cup Left(g)

\* A group in the making: what is written comes before what is left, and of each run
\* that has rows left the first is in the heap.
GroupOK(g) ==
    /\ g = [size |-> g.size, cursors |-> g.cursors, heap |-> g.heap,
            rowCount |-> g.rowCount, merged |-> g.merged]
    /\ g.size \in Nat
    /\ DOMAIN g.cursors = 1..g.size /\ g.cursors = [r \in 1..g.size |-> g.cursors[r]]
    /\ \A r \in 1..g.size : IsRun(g.cursors[r])
    /\ g.heap \subseteq [ordinal : Physical, run : 1..g.size]
    /\ \A h \in g.heap : \A o \in Members(g.cursors[h.run]) : Before(h.ordinal, o)
    /\ \A r \in 1..g.size : g.cursors[r] # <<>> => \E h \in g.heap : h.run = r
    /\ \A r, s \in 1..g.size : r # s => Part(g, r) \cap Part(g, s) = {}
    /\ IsRun(g.merged)
    /\ \A m \in Members(g.merged) : \A o \in Left(g) : Before(m, o)
    /\ Cardinality(Whole(g)) = g.rowCount

\* The rows so far are in the runs and in the arena.
RowsOK ==
    /\ next <= Len(rows) + 1
    /\ buffer \in Seq(Physical)
    /\ \A j, k \in DOMAIN buffer : buffer[j] = buffer[k] => j = k
    /\ AreRuns(runs)
    /\ Covered(runs) \cap Members(buffer) = {}
    /\ Covered(runs) \cup Members(buffer) = 1..(next - 1)

\* All rows are in the runs read, the runs written and the group between them.
MergeOK ==
    /\ AreRuns(runs) /\ AreRuns(out) /\ Covered(runs) \cap Covered(out) = {}
    /\ group = NoGroup =>
          /\ Covered(runs) \cup Covered(out) = Physical
          /\ out = <<>> => Len(runs) > 1
          /\ final => out = <<>> /\ Len(runs) <= FanIn
    /\ group # NoGroup =>
          /\ GroupOK(group)
          /\ Whole(group) \cap (Covered(runs) \cup Covered(out)) = {}
          /\ Whole(group) \cup (Covered(runs) \cup Covered(out)) = Physical
          /\ final => out = <<>> /\ runs = <<>>

OrderInv ==
    /\ MergeInv
    /\ phase # "invalid"
    /\ phase = "rows" => RowsOK
    /\ phase = "merge" => MergeOK
    /\ OrderExact

-----------------------------------------------------------------------------

\* The first row of a run, and the rest.
LEMMA TailRun ==
    ASSUME rows \in Seq(RowType), NEW s, IsRun(s), s # <<>>
    PROVE  /\ Head(s) \in Physical /\ IsRun(Tail(s))
           /\ Members(s) = {Head(s)} \cup Members(Tail(s))
           /\ \A o \in Members(Tail(s)) : Before(Head(s), o)
  <1>1. s \in Seq(Physical) /\ Len(s) \in Nat /\ Len(s) # 0 /\ DOMAIN s = 1..Len(s)
        /\ \A k \in 1..Len(s) : s[k] \in Physical
    BY DEF IsRun
  <1>2. PICK t : t = Tail(s)
    OBVIOUS
  <1>3. /\ Head(s) = s[1] /\ t \in Seq(Physical) /\ Len(t) = Len(s) - 1
        /\ DOMAIN t = 1..(Len(s) - 1) /\ \A k \in DOMAIN t : t[k] = s[k + 1]
    BY <1>1, <1>2, HeadTailProperties
  <1>4. \A k \in DOMAIN t : k + 1 \in 1..Len(s) /\ 1 < k + 1 /\ k \in Nat
    BY <1>1, <1>3
  <1>5. 1 \in DOMAIN s
    BY <1>1
  <1>6. \A j, k \in DOMAIN t : j < k => Before(t[j], t[k])
    <2> SUFFICES ASSUME NEW j \in DOMAIN t, NEW k \in DOMAIN t, j < k PROVE Before(t[j], t[k])
      OBVIOUS
    <2>1. j + 1 \in DOMAIN s /\ k + 1 \in DOMAIN s /\ j + 1 < k + 1
      BY <1>1, <1>4
    <2> QED BY <1>3, <2>1 DEF IsRun
  <1>7. \A k \in DOMAIN t : Before(s[1], t[k])
    BY <1>1, <1>3, <1>4, <1>5 DEF IsRun
  <1>8. Members(s) = {s[1]} \cup Members(t)
    <2>1. ASSUME NEW k \in DOMAIN s PROVE k = 1 \/ (k - 1 \in DOMAIN t /\ t[k - 1] = s[k])
      <3>1. k # 1 => k - 1 \in DOMAIN t /\ (k - 1) + 1 = k
        BY <1>1, <1>3
      <3> QED BY <1>3, <3>1
    <2>2. \A k \in DOMAIN t : k + 1 \in DOMAIN s /\ s[k + 1] = t[k]
      BY <1>1, <1>3, <1>4
    <2> QED BY <1>5, <2>1, <2>2 DEF Members
  <1> QED BY <1>1, <1>2, <1>3, <1>5, <1>6, <1>7, <1>8 DEF IsRun, Members

\* A row behind a run.
LEMMA AppendRow ==
    ASSUME NEW S, NEW s \in Seq(S), NEW o \in S
    PROVE  /\ Members(Append(s, o)) = Members(s) \cup {o}
           /\ DOMAIN Append(s, o) = 1..(Len(s) + 1)
           /\ \A k \in 1..Len(s) : Append(s, o)[k] = s[k]
           /\ Append(s, o)[Len(s) + 1] = o
  <1>1. PICK t : t = Append(s, o)
    OBVIOUS
  <1>2. /\ t \in Seq(S) /\ DOMAIN t = 1..(Len(s) + 1) /\ Len(s) \in Nat /\ DOMAIN s = 1..Len(s)
        /\ \A k \in 1..Len(s) : t[k] = s[k]
        /\ t[Len(s) + 1] = o
    BY <1>1, AppendProperties, LenProperties
  <1>3. 1..(Len(s) + 1) = 1..Len(s) \cup {Len(s) + 1}
    BY <1>2
  <1>4. Members(t) = Members(s) \cup {o}
    BY <1>2, <1>3 DEF Members
  <1> QED BY <1>1, <1>2, <1>4

LEMMA AppendToRun ==
    ASSUME NEW s, IsRun(s), NEW o \in Physical, \A m \in Members(s) : Before(m, o)
    PROVE  IsRun(Append(s, o)) /\ Members(Append(s, o)) = Members(s) \cup {o}
  <1>1. PICK t : t = Append(s, o)
    OBVIOUS
  <1>2. /\ s \in Seq(Physical) /\ t \in Seq(Physical) /\ Len(s) \in Nat /\ DOMAIN s = 1..Len(s)
        /\ DOMAIN t = 1..(Len(s) + 1) /\ Members(t) = Members(s) \cup {o}
        /\ \A k \in 1..Len(s) : t[k] = s[k]
        /\ t[Len(s) + 1] = o
    BY <1>1, AppendRow DEF IsRun
  <1>3. ASSUME NEW j \in DOMAIN t, NEW k \in DOMAIN t, j < k PROVE Before(t[j], t[k])
    <2>1. j \in 1..Len(s) /\ t[j] = s[j]
      BY <1>2, <1>3
    <2>2. CASE k \in 1..Len(s)
      BY <1>2, <1>3, <2>1, <2>2 DEF IsRun
    <2>3. CASE k = Len(s) + 1
      <3>1. s[j] \in Members(s)
        BY <1>2, <2>1 DEF Members
      <3> QED BY <1>2, <2>1, <2>3, <3>1
    <2> QED BY <1>2, <2>2, <2>3
  <1> QED BY <1>1, <1>2, <1>3 DEF IsRun

\* A run behind the others.
LEMMA AppendRun ==
    ASSUME NEW ss, AreRuns(ss), NEW s, IsRun(s), Covered(ss) \cap Members(s) = {}
    PROVE  /\ AreRuns(Append(ss, s)) /\ Covered(Append(ss, s)) = Covered(ss) \cup Members(s)
           /\ Len(Append(ss, s)) = Len(ss) + 1 /\ Len(ss) \in Nat
           /\ ss = <<>> => Append(ss, s)[1] = s
  <1>1. PICK t : t = Append(ss, s)
    OBVIOUS
  <1>2. ss \in Seq(Seq(Physical)) /\ s \in Seq(Physical)
    BY DEF AreRuns, IsRun
  <1> DEFINE n == Len(ss)
  <1>3. /\ t \in Seq(Seq(Physical)) /\ n \in Nat /\ DOMAIN ss = 1..n /\ Len(t) = n + 1
        /\ DOMAIN t = 1..(n + 1)
        /\ \A k \in 1..n : t[k] = ss[k]
        /\ t[n + 1] = s
    BY <1>1, <1>2, AppendProperties, LenProperties
  <1>4. DOMAIN t = DOMAIN ss \cup {n + 1}
    BY <1>3
  <1> HIDE DEF n
  <1>5. \A i \in DOMAIN t : IsRun(t[i])
    BY <1>3, <1>4 DEF AreRuns
  <1>6. \A i \in DOMAIN ss : Members(ss[i]) \subseteq Covered(ss)
    BY DEF Covered
  <1>7. ASSUME NEW i \in DOMAIN t, NEW j \in DOMAIN t, i # j
        PROVE  Members(t[i]) \cap Members(t[j]) = {}
    <2>1. \A a \in DOMAIN ss : Members(ss[a]) \cap Members(s) = {}
      BY <1>6
    <2>2. (i \in DOMAIN ss /\ t[i] = ss[i]) \/ (i = n + 1 /\ t[i] = s)
      BY <1>3, <1>4
    <2>3. (j \in DOMAIN ss /\ t[j] = ss[j]) \/ (j = n + 1 /\ t[j] = s)
      BY <1>3, <1>4
    <2> QED BY <1>7, <2>1, <2>2, <2>3 DEF AreRuns
  <1>8. Covered(t) = Covered(ss) \cup Members(s)
    BY <1>3, <1>4 DEF Covered
  <1>9. ss = <<>> => t[1] = s
    BY <1>3 DEF n
  <1> QED BY <1>1, <1>3, <1>5, <1>7, <1>8, <1>9 DEF AreRuns, n

FirstRuns(ss, n) == SubSeq(ss, 1, n)
OtherRuns(ss, n) == SubSeq(ss, n + 1, Len(ss))

\* The first n runs and the others.
LEMMA CutRuns ==
    ASSUME NEW ss, AreRuns(ss), NEW n \in Nat, n <= Len(ss),
           NEW a, a = FirstRuns(ss, n), NEW b, b = OtherRuns(ss, n)
    PROVE  /\ AreRuns(a) /\ AreRuns(b) /\ Len(a) = n /\ Len(b) = Len(ss) - n
           /\ Covered(a) \cap Covered(b) = {} /\ Covered(a) \cup Covered(b) = Covered(ss)
  <1> DEFINE m == Len(ss)
             T == Seq(Physical)
  <1>1. ss \in Seq(T) /\ m \in Nat /\ DOMAIN ss = 1..m /\ \A i \in 1..m : ss[i] \in T
    BY DEF AreRuns
  <1> HIDE DEF T
  <1>2. /\ a \in Seq(T) /\ Len(a) = n /\ DOMAIN a = 1..n
        /\ \A i \in 1..n : a[i] = ss[i] /\ i \in 1..m
    <2>1. \A i \in 1..n : ss[i] \in T /\ i \in 1..m /\ 1 + i - 1 = i
      BY <1>1
    <2>2. SubSeq(ss, 1, n) \in Seq(T) /\ Len(SubSeq(ss, 1, n)) = n
      BY <2>1, SubSeqProperties
    <2>3. \A i \in 1..n : SubSeq(ss, 1, n)[i] = ss[i]
      BY <1>1, <2>1
    <2> QED BY <2>1, <2>2, <2>3 DEF FirstRuns
  <1>3. /\ b \in Seq(T) /\ Len(b) = m - n /\ DOMAIN b = 1..(m - n)
        /\ \A i \in 1..(m - n) : b[i] = ss[n + i] /\ n + i \in 1..m
    <2>1. \A i \in (n + 1)..m : ss[i] \in T
      BY <1>1
    <2>a. n + 1 \in Int /\ m \in Int
          /\ (IF n + 1 <= m THEN (m - (n + 1)) + 1 ELSE 0) = m - n
      <3>1. m \in Nat /\ n <= m
        BY <1>1
      <3> HIDE DEF m
      <3>2. CASE n + 1 <= m
        BY <3>1, <3>2
      <3>3. CASE ~(n + 1 <= m)
        <4>1. m - n = 0
          BY <3>1, <3>3
        <4> QED BY <3>1, <3>3, <4>1
      <3> QED BY <3>2, <3>3
    <2>2. SubSeq(ss, n + 1, m) \in Seq(T) /\ Len(SubSeq(ss, n + 1, m)) = m - n
      <3> HIDE DEF m
      <3>1. SubSeq(ss, n + 1, m) \in Seq(T)
        BY <1>1, <2>1, <2>a, SubSeqProperties
      <3>2. Len(SubSeq(ss, n + 1, m)) = IF n + 1 <= m THEN (m - (n + 1)) + 1 ELSE 0
        BY <1>1, <2>1, <2>a, SubSeqProperties
      <3> QED BY <2>a, <3>1, <3>2
    <2>3. \A i \in 1..(m - n) : SubSeq(ss, n + 1, m)[i] = ss[n + i] /\ n + i \in 1..m
      BY <1>1
    <2>4. b = SubSeq(ss, n + 1, m)
      BY DEF OtherRuns
    <2> HIDE DEF m
    <2>5. b \in Seq(T) /\ Len(b) = m - n /\ DOMAIN b = 1..Len(b)
      BY <2>2, <2>4
    <2> QED BY <2>3, <2>4, <2>5
  <1> HIDE DEF m
  <1>4. AreRuns(a)
    BY <1>1, <1>2 DEF AreRuns, T
  <1>5. AreRuns(b)
    <2>1. \A i \in DOMAIN b : IsRun(b[i])
      BY <1>1, <1>3 DEF AreRuns
    <2>2. ASSUME NEW i \in DOMAIN b, NEW j \in DOMAIN b, i # j
          PROVE  Members(b[i]) \cap Members(b[j]) = {}
      <3>1. n + i \in DOMAIN ss /\ n + j \in DOMAIN ss /\ n + i # n + j
        BY <1>1, <1>3, <2>2
      <3> QED BY <1>3, <3>1 DEF AreRuns
    <2> QED BY <1>3, <2>1, <2>2 DEF AreRuns, T
  <1>6. Covered(a) \cap Covered(b) = {}
    <2>1. ASSUME NEW i \in DOMAIN a, NEW j \in DOMAIN b
          PROVE  Members(a[i]) \cap Members(b[j]) = {}
      <3>1. i \in DOMAIN ss /\ n + j \in DOMAIN ss /\ i # n + j
        BY <1>1, <1>2, <1>3
      <3> QED BY <1>2, <1>3, <3>1 DEF AreRuns
    <2>2. ASSUME NEW x \in Covered(a), x \in Covered(b) PROVE FALSE
      <3>1. PICK i \in DOMAIN a : x \in Members(a[i])
        BY DEF Covered
      <3>2. PICK j \in DOMAIN b : x \in Members(b[j])
        BY <2>2 DEF Covered
      <3> QED BY <2>1, <3>1, <3>2
    <2> QED BY <2>2
  <1>7. Covered(a) \cup Covered(b) = Covered(ss)
    <2>1. ASSUME NEW i \in DOMAIN ss
          PROVE  (i \in DOMAIN a /\ a[i] = ss[i]) \/ (i - n \in DOMAIN b /\ b[i - n] = ss[i])
      <3>1. CASE i <= n
        BY <1>1, <1>2, <3>1
      <3>2. CASE ~(i <= n)
        <4>1. i - n \in 1..(m - n) /\ n + (i - n) = i
          BY <1>1, <3>2
        <4> QED BY <1>3, <4>1
      <3> QED BY <3>1, <3>2
    <2>2. Covered(ss) \subseteq Covered(a) \cup Covered(b)
      BY <2>1 DEF Covered
    <2>3. Covered(a) \subseteq Covered(ss) /\ Covered(b) \subseteq Covered(ss)
      BY <1>1, <1>2, <1>3 DEF Covered
    <2> QED BY <2>2, <2>3
  <1> QED BY <1>2, <1>3, <1>4, <1>5, <1>6, <1>7 DEF m

-----------------------------------------------------------------------------

\* The rows a group has left are rows; those of one run are those in its cursor and
\* in the heap.
LEMMA LeftMeaning ==
    ASSUME NEW g, NEW o
    PROVE  /\ o \in Left(g) <=> \E r \in 1..g.size : o \in Part(g, r)
           /\ \A r : o \in Part(g, r) <=>
                 o \in Members(g.cursors[r]) \/ \E h \in g.heap : h.run = r /\ h.ordinal = o
  BY DEF Left, Part

\* No two records of the heap are of the same row.
LEMMA HeapDistinct ==
    ASSUME NEW g, GroupOK(g)
    PROVE  /\ \A h \in g.heap : h.ordinal \in Physical /\ h.run \in 1..g.size
           /\ \A h, i \in g.heap : h.ordinal = i.ordinal => h = i
  <1>1. \A h \in g.heap : h \in [ordinal : Physical, run : 1..g.size]
    BY DEF GroupOK
  <1>2. \A h \in g.heap : h.ordinal \in Physical /\ h.run \in 1..g.size
    BY <1>1
  <1>3. ASSUME NEW h \in g.heap, NEW i \in g.heap, h.ordinal = i.ordinal PROVE h = i
    <2>1. h.ordinal \in Part(g, h.run) /\ i.ordinal \in Part(g, i.run)
      BY LeftMeaning
    <2>2. h.run = i.run
      <3>1. h.run # i.run => Part(g, h.run) \cap Part(g, i.run) = {}
        BY <1>2 DEF GroupOK
      <3> QED BY <1>3, <2>1, <3>1
    <2>3. h = [ordinal |-> h.ordinal, run |-> h.run] /\ i = [ordinal |-> i.ordinal, run |-> i.run]
      BY <1>1
    <2> QED BY <1>3, <2>2, <2>3
  <1> QED BY <1>2, <1>3

\* Reading a run: its next record goes to the heap, the others stay.
LEMMA ReadRun ==
    ASSUME rows \in Seq(RowType), NEW c, IsRun(c), NEW r,
           NEW d, d = Advanced(c), NEW F, F = Refill(c, r)
    PROVE  /\ IsRun(d)
           /\ F \subseteq [ordinal : Physical, run : {r}]
           /\ \A h \in F : h.run = r /\ h.ordinal \in Members(c)
           /\ \A h \in F : \A o \in Members(d) : Before(h.ordinal, o)
           /\ d # <<>> => F # {}
           /\ Members(d) \subseteq Members(c)
           /\ \A o \in Members(c) : o \in Members(d) \/ \E h \in F : h.ordinal = o
  <1>1. CASE c = <<>>
    <2>1. d = c /\ F = {}
      BY <1>1 DEF Advanced, Refill
    <2>2. Members(c) = {}
      BY <1>1 DEF Members
    <2> QED BY <1>1, <2>1, <2>2
  <1>2. CASE c # <<>>
    <2>1. d = Tail(c) /\ F = {[ordinal |-> Head(c), run |-> r]}
      BY <1>2 DEF Advanced, Refill
    <2>2. /\ Head(c) \in Physical /\ IsRun(d)
          /\ Members(c) = {Head(c)} \cup Members(d)
          /\ \A o \in Members(d) : Before(Head(c), o)
      BY <1>2, <2>1, TailRun
    <2>3. \A h \in F : h = [ordinal |-> Head(c), run |-> r] /\ h.ordinal = Head(c) /\ h.run = r
      BY <2>1
    <2>4. \E h \in F : h.ordinal = Head(c)
      BY <2>1
    <2>5. F \subseteq [ordinal : Physical, run : {r}]
      BY <2>1, <2>2
    <2> QED BY <2>2, <2>3, <2>4, <2>5
  <1> QED BY <1>1, <1>2

Popped(g, item) ==
    [g EXCEPT !.merged = Append(@, item.ordinal),
              !.heap = (@ \ {item}) \cup Refill(g.cursors[item.run], item.run),
              !.cursors[item.run] = Advanced(@)]

\* Writing the least record of a group and reading the next of its run.
LEMMA PopGroup ==
    ASSUME rows \in Seq(RowType), NEW g, GroupOK(g),
           NEW item \in g.heap, \A h \in g.heap \ {item} : HeapBefore(item, h),
           NEW n, n = Popped(g, item)
    PROVE  GroupOK(n) /\ Whole(n) = Whole(g)
  <1> DEFINE r == item.run
             c == g.cursors[r]
             d == Advanced(c)
             F == Refill(c, r)
             z == item.ordinal
  <1>1. /\ n = [size |-> n.size, cursors |-> n.cursors, heap |-> n.heap,
                rowCount |-> n.rowCount, merged |-> n.merged]
        /\ n.size = g.size /\ n.rowCount = g.rowCount
        /\ n.merged = Append(g.merged, z)
        /\ n.heap = (g.heap \ {item}) \cup F
        /\ n.cursors = [g.cursors EXCEPT ![r] = d]
    <2>1. PICK gs, gc, gh, gn, gm : g = [size |-> gs, cursors |-> gc, heap |-> gh,
                                        rowCount |-> gn, merged |-> gm]
      BY Zenon DEF GroupOK
    <2>2. gs = g.size /\ gc = g.cursors /\ gh = g.heap /\ gn = g.rowCount /\ gm = g.merged
      BY <2>1
    <2>3. PICK nm, nh, nc : nm = Append(g.merged, z) /\ nh = (g.heap \ {item}) \cup F
                            /\ nc = [g.cursors EXCEPT ![r] = d]
      OBVIOUS
    <2>4. n = [size |-> gs, cursors |-> nc, heap |-> nh, rowCount |-> gn, merged |-> nm]
      <3>1. n = [[[g EXCEPT !.merged = nm] EXCEPT !.heap = nh] EXCEPT !.cursors = nc]
        BY <2>3 DEF Popped
      <3> HIDE DEF r, c, d, F, z
      <3> QED BY <2>1, <3>1
    <2> HIDE DEF r, c, d, F, z
    <2> QED BY <2>2, <2>3, <2>4
  <1>2. r \in 1..g.size /\ z \in Physical
    BY HeapDistinct
  <1>3. IsRun(c) /\ \A h \in g.heap : h.run = r => \A o \in Members(c) : Before(h.ordinal, o)
    BY <1>2 DEF GroupOK
  <1>4. /\ IsRun(d)
        /\ F \subseteq [ordinal : Physical, run : 1..g.size]
        /\ \A h \in F : h.run = r /\ h.ordinal \in Members(c)
        /\ \A h \in F : \A o \in Members(d) : Before(h.ordinal, o)
        /\ d # <<>> => F # {}
        /\ Members(d) \subseteq Members(c)
        /\ \A o \in Members(c) : o \in Members(d) \/ \E h \in F : h.ordinal = o
    <2>0. d = Advanced(c) /\ F = Refill(c, r)
      OBVIOUS
    <2> HIDE DEF r, c, d, F
    <2>1. /\ F \subseteq [ordinal : Physical, run : {r}]
          /\ \A h \in F : h.run = r /\ h.ordinal \in Members(c)
          /\ \A h \in F : \A o \in Members(d) : Before(h.ordinal, o)
          /\ d # <<>> => F # {}
          /\ Members(d) \subseteq Members(c) /\ IsRun(d)
          /\ \A o \in Members(c) : o \in Members(d) \/ \E h \in F : h.ordinal = o
      BY <1>3, <2>0, ReadRun
    <2>2. F \subseteq [ordinal : Physical, run : 1..g.size]
      BY <1>2, <2>1
    <2> QED BY <2>1, <2>2
  <1>5. /\ DOMAIN n.cursors = 1..n.size /\ n.cursors = [s \in 1..n.size |-> n.cursors[s]]
        /\ n.cursors[r] = d
        /\ \A s \in 1..g.size : s # r => n.cursors[s] = g.cursors[s]
    <2>1. PICK gc : gc = g.cursors
      OBVIOUS
    <2>2. DOMAIN gc = 1..g.size /\ gc = [s \in 1..g.size |-> gc[s]]
      BY <2>1 DEF GroupOK
    <2> HIDE DEF r, c, d, F, z
    <2>3. n.cursors = [gc EXCEPT ![r] = d] /\ n.size = g.size
      BY <1>1, <2>1
    <2> QED BY <1>2, <2>1, <2>2, <2>3
  <1>6. IsRun(g.merged) /\ \A m \in Members(g.merged) : \A o \in Left(g) : Before(m, o)
    BY DEF GroupOK
  <1>7. \A s \in 1..g.size : IsRun(g.cursors[s])
    BY DEF GroupOK
  <1>8. \A h \in g.heap : \A o \in Members(g.cursors[h.run]) : Before(h.ordinal, o)
    BY DEF GroupOK
  <1>9. \A s \in 1..g.size : g.cursors[s] # <<>> => \E h \in g.heap : h.run = s
    BY DEF GroupOK
  <1>10. \A h \in g.heap : h = item \/ Before(z, h.ordinal)
    BY DEF HeapBefore
  <1>11. \A h \in g.heap : h.ordinal \in Physical /\ h.run \in 1..g.size
    BY HeapDistinct
  <1>12. \A s \in 1..g.size : Members(g.cursors[s]) \subseteq Physical
    BY <1>7, RunCounted
  <1>c. c = g.cursors[r] /\ r = item.run /\ z = item.ordinal
    OBVIOUS
  <1> HIDE DEF r, c, d, F, z
  <1>13. \A o \in Left(g) : o \in Physical /\ (o = z \/ Before(z, o))
    <2> SUFFICES ASSUME NEW o \in Left(g) PROVE o \in Physical /\ (o = z \/ Before(z, o))
      OBVIOUS
    <2>1. PICK s \in 1..g.size : o \in Part(g, s)
      BY LeftMeaning
    <2>2. CASE \E h \in g.heap : h.run = s /\ h.ordinal = o
      BY <1>10, <1>11, <1>c, <2>2
    <2>3. CASE o \in Members(g.cursors[s])
      <3>1. g.cursors[s] # <<>>
        BY <2>3 DEF Members
      <3>2. PICK h \in g.heap : h.run = s
        BY <1>9, <3>1
      <3>3. Before(h.ordinal, o) /\ o \in Physical
        BY <1>8, <1>12, <2>3, <3>2
      <3>4. h.ordinal = z \/ Before(z, h.ordinal)
        BY <1>10, <1>c
      <3> QED BY <1>2, <1>11, <3>3, <3>4, BeforeOrders
    <2> QED BY <2>1, <2>2, <2>3, LeftMeaning
  <1>14. \A s \in 1..g.size : \A o : o \in Part(n, s) <=> o \in Part(g, s) /\ o # z
    <2> SUFFICES ASSUME NEW s \in 1..g.size, NEW o
                 PROVE  o \in Part(n, s) <=> o \in Part(g, s) /\ o # z
      OBVIOUS
    <2>0. ASSUME NEW k
          PROVE  o \in Part(k, s) <=>
                    o \in Members(k.cursors[s]) \/ \E h \in k.heap : h.run = s /\ h.ordinal = o
      BY DEF Part
    <2>1. /\ o \in Part(g, s) <=>
                o \in Members(g.cursors[s]) \/ \E h \in g.heap : h.run = s /\ h.ordinal = o
          /\ o \in Part(n, s) <=>
                o \in Members(n.cursors[s]) \/ \E h \in n.heap : h.run = s /\ h.ordinal = o
      BY <2>0
    <2>2. ~Before(z, z)
      BY <1>2, BeforeOrders
    <2>3. \A h \in g.heap : h.ordinal = z => h = item
      BY <1>10, <2>2
    <2>4. z \notin Members(c)
      BY <1>3, <1>c, <2>2
    <2>5. CASE s = r
      <3>1. n.cursors[s] = d /\ g.cursors[s] = c
        BY <1>5, <1>c, <2>5
      <3>2. ASSUME o \in Part(n, s) PROVE o \in Part(g, s) /\ o # z
        <4>1. CASE o \in Members(d)
          BY <1>4, <2>1, <2>4, <3>1, <4>1
        <4>2. CASE \E h \in n.heap : h.run = s /\ h.ordinal = o
          <5>1. PICK h \in n.heap : h.run = s /\ h.ordinal = o
            BY <4>2
          <5>2. CASE h \in F
            BY <1>4, <2>1, <2>4, <3>1, <5>1, <5>2
          <5>3. CASE h \in g.heap /\ h # item
            BY <2>1, <2>3, <5>1, <5>3
          <5> QED BY <1>1, <5>2, <5>3
        <4> QED BY <2>1, <3>1, <3>2, <4>1, <4>2
      <3>3. ASSUME o \in Part(g, s), o # z PROVE o \in Part(n, s)
        <4>1. CASE o \in Members(c)
          <5>1. CASE o \in Members(d)
            BY <2>1, <3>1, <5>1
          <5>2. CASE \E h \in F : h.ordinal = o
            BY <1>1, <1>4, <2>1, <2>5, <5>2
          <5> QED BY <1>4, <4>1, <5>1, <5>2
        <4>2. CASE \E h \in g.heap : h.run = s /\ h.ordinal = o
          BY <1>1, <1>c, <2>1, <3>3, <4>2
        <4> QED BY <2>1, <3>1, <3>3, <4>1, <4>2
      <3> QED BY <3>2, <3>3
    <2>6. CASE s # r
      <3>1. n.cursors[s] = g.cursors[s]
        BY <1>5, <2>6
      <3>2. \A h : h \in n.heap /\ h.run = s <=> h \in g.heap /\ h.run = s
        BY <1>1, <1>4, <1>c, <2>6
      <3>3. o = z => o \notin Part(g, s)
        <4>1. z \in Part(g, r)
          BY <1>c, LeftMeaning
        <4>2. Part(g, r) \cap Part(g, s) = {}
          BY <1>2, <2>6 DEF GroupOK
        <4> QED BY <4>1, <4>2
      <3> QED BY <2>1, <3>1, <3>2, <3>3
    <2> QED BY <2>5, <2>6
  <1>15. z \in Left(g)
    BY <1>2, <1>c, LeftMeaning
  <1>16. \A o : o \in Left(n) <=> o \in Left(g) /\ o # z
    BY <1>1, <1>14, LeftMeaning
  <1>17. IsRun(n.merged) /\ Members(n.merged) = Members(g.merged) \cup {z}
    <2>1. \A m \in Members(g.merged) : Before(m, z)
      BY <1>6, <1>15
    <2> QED BY <1>1, <1>2, <1>6, <2>1, AppendToRun
  <1>18. Whole(n) = Whole(g)
    BY <1>15, <1>16, <1>17 DEF Whole
  <1>19. GroupOK(n)
    <2>1. n.heap \subseteq [ordinal : Physical, run : 1..n.size]
      <3>1. g.heap \subseteq [ordinal : Physical, run : 1..g.size]
        BY DEF GroupOK
      <3> QED BY <1>1, <1>4, <3>1
    <2>2. \A s \in 1..n.size : IsRun(n.cursors[s])
      BY <1>1, <1>4, <1>5, <1>7
    <2>3. ASSUME NEW h \in n.heap, NEW o \in Members(n.cursors[h.run]) PROVE Before(h.ordinal, o)
      <3>1. CASE h \in F
        BY <1>4, <1>5, <3>1, <2>3
      <3>2. CASE h \in g.heap /\ h.run = r
        BY <1>3, <1>4, <1>5, <2>3, <3>2
      <3>3. CASE h \in g.heap /\ h.run # r
        BY <1>5, <1>8, <1>11, <2>3, <3>3
      <3> QED BY <1>1, <3>1, <3>2, <3>3
    <2>4. ASSUME NEW s \in 1..n.size, n.cursors[s] # <<>> PROVE \E h \in n.heap : h.run = s
      <3>1. CASE s = r
        BY <1>1, <1>4, <1>5, <2>4, <3>1
      <3>2. CASE s # r
        BY <1>1, <1>5, <1>9, <1>c, <2>4, <3>2
      <3> QED BY <3>1, <3>2
    <2>5. \A s, t \in 1..n.size : s # t => Part(n, s) \cap Part(n, t) = {}
      <3>1. \A s, t \in 1..g.size : s # t => Part(g, s) \cap Part(g, t) = {}
        BY DEF GroupOK
      <3> QED BY <1>1, <1>14, <3>1
    <2>6. \A m \in Members(n.merged) : \A o \in Left(n) : Before(m, o)
      BY <1>6, <1>13, <1>16, <1>17
    <2>7. n.size \in Nat /\ Cardinality(Whole(n)) = n.rowCount
      <3>1. g.size \in Nat /\ Cardinality(Whole(g)) = g.rowCount
        BY DEF GroupOK
      <3> QED BY <1>1, <1>18, <3>1
    <2>8. n = [size |-> n.size, cursors |-> n.cursors, heap |-> n.heap,
               rowCount |-> n.rowCount, merged |-> n.merged]
      BY <1>1
    <2> QED BY <1>5, <1>17, <2>1, <2>2, <2>3, <2>4, <2>5, <2>6, <2>7, <2>8 DEF GroupOK
  <1> QED BY <1>18, <1>19

Begun(taken, size) ==
    [size |-> size,
     cursors |-> [r \in 1..size |-> Advanced(taken[r])],
     heap |-> UNION {Refill(taken[r], r) : r \in 1..size},
     rowCount |-> Cardinality(UNION {{r} \X DOMAIN taken[r] : r \in 1..size}),
     merged |-> <<>>]

LEMMA RunsTaken ==
    ASSUME NEW taken, AreRuns(taken), NEW size, Len(taken) = size
    PROVE  DOMAIN taken = 1..size /\ \A r \in 1..size : IsRun(taken[r])
  <1>1. PICK T : T = Seq(Physical)
    OBVIOUS
  <1>2. taken \in Seq(T)
    BY <1>1 DEF AreRuns
  <1>3. DOMAIN taken = 1..size
    BY <1>2, LenProperties
  <1> QED BY <1>3 DEF AreRuns

\* The headers of the runs of a group add up to the rows in them.
LEMMA RowsCounted ==
    ASSUME rows \in Seq(RowType), NEW taken, AreRuns(taken), NEW size \in Nat, Len(taken) = size
    PROVE  Cardinality(UNION {{r} \X DOMAIN taken[r] : r \in 1..size}) = Cardinality(Covered(taken))
  <1> DEFINE P == UNION {{r} \X DOMAIN taken[r] : r \in 1..size}
             C == Covered(taken)
             f == [p \in P |-> taken[p[1]][p[2]]]
  <1>1. DOMAIN taken = 1..size /\ \A r \in 1..size : IsRun(taken[r])
    BY RunsTaken
  <1>2. \A p \in P : p[1] \in 1..size /\ p[2] \in DOMAIN taken[p[1]] /\ p = <<p[1], p[2]>>
    OBVIOUS
  <1>3. \A r \in 1..size : \A k \in DOMAIN taken[r] :
           <<r, k>> \in P /\ taken[r][k] \in Members(taken[r]) /\ taken[r][k] \in C
    BY <1>1 DEF Covered, Members
  <1>4. IsFiniteSet(C)
    <2>1. C \in SUBSET Physical
      BY <1>1, RunCounted DEF Covered
    <2>2. IsFiniteSet(Physical)
      <3>1. Physical = 1..Len(rows) /\ Len(rows) \in Nat
        BY RowsTyped
      <3> QED BY <3>1, FS_Interval
    <2> HIDE DEF C
    <2> QED BY <2>1, <2>2, FS_Subset
  <1> HIDE DEF P
  <1>5. f \in [P -> C]
    BY <1>2, <1>3
  <1>6. ASSUME NEW p \in P, NEW q \in P, f[p] = f[q] PROVE p = q
    <2>1. PICK r, k, s, l : r = p[1] /\ k = p[2] /\ s = q[1] /\ l = q[2]
      OBVIOUS
    <2>2. /\ r \in 1..size /\ k \in DOMAIN taken[r] /\ p = <<r, k>>
          /\ s \in 1..size /\ l \in DOMAIN taken[s] /\ q = <<s, l>>
      BY <1>2, <2>1
    <2>3. taken[r][k] = taken[s][l]
      BY <1>6, <2>1
    <2> HIDE DEF C, f
    <2>4. r = s
      <3>1. r # s => Members(taken[r]) \cap Members(taken[s]) = {}
        BY <1>1, <2>2 DEF AreRuns
      <3>2. taken[r][k] \in Members(taken[r]) /\ taken[s][l] \in Members(taken[s])
        BY <1>3, <2>2
      <3> QED BY <2>3, <3>1, <3>2
    <2>5. k = l
      <3>1. IsRun(taken[r])
        BY <1>1, <2>2
      <3>2. \A i, j \in DOMAIN taken[r] : taken[r][i] = taken[r][j] => i = j
        BY <3>1, RunCounted
      <3> QED BY <2>2, <2>3, <2>4, <3>2
    <2> QED BY <2>2, <2>4, <2>5
  <1>7. ASSUME NEW c \in C PROVE \E p \in P : f[p] = c
    <2>1. PICK r \in 1..size : c \in Members(taken[r])
      BY <1>1 DEF Covered
    <2>2. PICK k \in DOMAIN taken[r] : c = taken[r][k]
      BY <2>1 DEF Members
    <2>3. <<r, k>> \in P /\ <<r, k>>[1] = r /\ <<r, k>>[2] = k
      BY <1>3
    <2>4. f[<<r, k>>] = c
      BY <2>2, <2>3
    <2> QED BY <2>3, <2>4
  <1> HIDE DEF C, f
  <1>8. f \in Injection(P, C) /\ f \in Surjection(P, C)
    BY <1>5, <1>6, <1>7, Fun_IsInj, Fun_IsSurj
  <1>9. Cardinality(P) = Cardinality(C)
    BY <1>4, <1>8, FS_Injection
  <1> QED BY <1>9 DEF P, C

\* A new group has all rows of its runs left.
LEMMA BeginsGroup ==
    ASSUME rows \in Seq(RowType), NEW taken, AreRuns(taken), NEW size \in Nat, Len(taken) = size,
           NEW n, n = Begun(taken, size)
    PROVE  GroupOK(n) /\ Whole(n) = Covered(taken)
  <1>1. DOMAIN taken = 1..size /\ \A r \in 1..size : IsRun(taken[r])
    BY RunsTaken
  <1>2. PICK cs : cs = [r \in 1..size |-> Advanced(taken[r])]
    OBVIOUS
  <1>3. PICK hs : hs = UNION {Refill(taken[r], r) : r \in 1..size}
    OBVIOUS
  <1>4. PICK count : count = Cardinality(UNION {{r} \X DOMAIN taken[r] : r \in 1..size})
    OBVIOUS
  <1>5. n = [size |-> size, cursors |-> cs, heap |-> hs, rowCount |-> count, merged |-> <<>>]
    BY <1>2, <1>3, <1>4 DEF Begun
  <1>6. /\ n.size = size /\ n.cursors = cs /\ n.heap = hs /\ n.rowCount = count
        /\ n.merged = <<>>
        /\ n = [size |-> n.size, cursors |-> n.cursors, heap |-> n.heap,
                rowCount |-> n.rowCount, merged |-> n.merged]
    BY <1>5
  <1>7. /\ DOMAIN cs = 1..size /\ cs = [r \in 1..size |-> cs[r]]
        /\ \A r \in 1..size : cs[r] = Advanced(taken[r])
    BY <1>2
  <1>8. \A h : h \in hs <=> \E r \in 1..size : h \in Refill(taken[r], r)
    BY <1>3
  <1>9. ASSUME NEW r \in 1..size
        PROVE  /\ IsRun(cs[r])
               /\ Refill(taken[r], r) \subseteq [ordinal : Physical, run : {r}]
               /\ \A h \in Refill(taken[r], r) : h.run = r /\ h.ordinal \in Members(taken[r])
               /\ \A h \in Refill(taken[r], r) : \A o \in Members(cs[r]) : Before(h.ordinal, o)
               /\ cs[r] # <<>> => Refill(taken[r], r) # {}
               /\ Members(cs[r]) \subseteq Members(taken[r])
               /\ \A o \in Members(taken[r]) :
                     o \in Members(cs[r]) \/ \E h \in Refill(taken[r], r) : h.ordinal = o
    BY <1>1, <1>7, ReadRun
  <1>10. \A h \in hs : h.run \in 1..size /\ h \in Refill(taken[h.run], h.run)
    BY <1>8, <1>9
  <1>11. \A r \in 1..size : \A h \in Refill(taken[r], r) : h \in hs
    BY <1>8
  <1>12. \A r \in 1..size : Part(n, r) = Members(taken[r])
    <2> SUFFICES ASSUME NEW r \in 1..size, NEW o
                 PROVE  o \in Part(n, r) <=> o \in Members(taken[r])
      OBVIOUS
    <2>1. o \in Part(n, r) <=> o \in Members(cs[r]) \/ \E h \in hs : h.run = r /\ h.ordinal = o
      BY <1>6 DEF Part
    <2> QED BY <1>9, <1>10, <1>11, <2>1
  <1>13. Left(n) = Covered(taken)
    <2> SUFFICES ASSUME NEW o PROVE o \in Left(n) <=> o \in Covered(taken)
      OBVIOUS
    <2>1. o \in Left(n) <=> \E r \in 1..size : o \in Part(n, r)
      BY <1>6, LeftMeaning
    <2>2. o \in Covered(taken) <=> \E r \in 1..size : o \in Members(taken[r])
      BY <1>1 DEF Covered
    <2> QED BY <1>12, <2>1, <2>2
  <1>14. Members(n.merged) = {} /\ IsRun(n.merged)
    <2>1. DOMAIN n.merged = {} /\ n.merged \in Seq(Physical)
      BY <1>6
    <2> QED BY <2>1 DEF Members, IsRun
  <1>15. Whole(n) = Covered(taken)
    BY <1>13, <1>14 DEF Whole
  <1>16. n.heap \subseteq [ordinal : Physical, run : 1..n.size]
    BY <1>6, <1>9, <1>10
  <1>17. \A h \in n.heap : \A o \in Members(n.cursors[h.run]) : Before(h.ordinal, o)
    BY <1>6, <1>9, <1>10
  <1>18. \A r \in 1..n.size : n.cursors[r] # <<>> => \E h \in n.heap : h.run = r
    BY <1>6, <1>9, <1>11
  <1>19. \A r, s \in 1..n.size : r # s => Part(n, r) \cap Part(n, s) = {}
    BY <1>1, <1>6, <1>12 DEF AreRuns
  <1>20. Cardinality(Whole(n)) = n.rowCount
    BY <1>4, <1>6, <1>15, RowsCounted
  <1>21. \A r \in 1..n.size : IsRun(n.cursors[r])
    BY <1>6, <1>9
  <1>22. n.size \in Nat /\ DOMAIN n.cursors = 1..n.size /\ n.cursors = [r \in 1..n.size |-> n.cursors[r]]
    BY <1>6, <1>7
  <1>23. GroupOK(n)
    BY <1>6, <1>14, <1>16, <1>17, <1>18, <1>19, <1>20, <1>21, <1>22 DEF GroupOK
  <1> QED BY <1>15, <1>23

-----------------------------------------------------------------------------

\* The rows do not change, and with them what is said of runs and groups.
LEMMA RowsKept ==
    ASSUME rows' = rows
    PROVE  /\ Physical' = Physical
           /\ \A x, y : Before(x, y)' <=> Before(x, y)
           /\ \A s : IsRun(s)' <=> IsRun(s)
           /\ \A ss : AreRuns(ss)' <=> AreRuns(ss)
           /\ \A g : GroupOK(g)' <=> GroupOK(g)
  <1>1. Physical' = Physical
    BY DEF Physical
  <1>2. \A x, y : Before(x, y)' <=> Before(x, y)
    BY DEF Before
  <1>3. \A s : IsRun(s)' <=> IsRun(s)
    BY <1>1, <1>2 DEF IsRun
  <1>4. \A ss : AreRuns(ss)' <=> AreRuns(ss)
    BY <1>1, <1>3 DEF AreRuns
  <1>5. \A g : GroupOK(g)' <=> GroupOK(g)
    BY <1>1, <1>2, <1>3 DEF GroupOK
  <1> QED BY <1>1, <1>2, <1>3, <1>4, <1>5

LEMMA OrderRows == ASSUME MergeInv PROVE rows \in Seq(RowType)
  BY SortAssumption DEF MergeInv

\* A run of all rows is the order of the index.
LEMMA RunIsOrder ==
    ASSUME rows \in Seq(RowType), NEW s, IsRun(s), Members(s) = Physical
    PROVE  /\ Len(s) = Len(rows) /\ {s[k] : k \in DOMAIN s} = Physical
           /\ \A j, k \in DOMAIN s : j < k => Before(s[j], s[k])
  <1>1. Cardinality(Members(s)) = Len(s)
    BY RunCounted
  <1>2. Physical = 1..Len(rows) /\ Len(rows) \in Nat
    BY RowsTyped
  <1>3. Cardinality(Physical) = Len(rows)
    BY <1>2, FS_Interval
  <1> QED BY <1>1, <1>3 DEF IsRun, Members

LEMMA BuiltIsExact ==
    ASSUME rows \in Seq(RowType), rows' = rows, NEW s, IsRun(s), Members(s) = Physical, order' = s
    PROVE  OrderExact'
  <1>1. /\ Len(s) = Len(rows') /\ {s[k] : k \in DOMAIN s} = Physical'
        /\ \A j, k \in DOMAIN s : j < k => Before(s[j], s[k])'
    BY RunIsOrder, RowsKept
  <1> QED BY <1>1 DEF OrderExact

LEMMA NothingCovered == Covered(<<>>) = {} /\ Members(<<>>) = {} /\ AreRuns(<<>>)
  <1>1. DOMAIN <<>> = {} /\ <<>> \in Seq(Seq(Physical))
    OBVIOUS
  <1> QED BY <1>1 DEF Covered, Members, AreRuns

LEMMA GroupIsAGroup == ASSUME NEW g, GroupOK(g) PROVE g # NoGroup
  <1>1. PICK a, b, c, d, e : g = [size |-> a, cursors |-> b, heap |-> c, rowCount |-> d, merged |-> e]
    BY Zenon DEF GroupOK
  <1>2. "heap" \in DOMAIN g
    BY <1>1
  <1>3. "heap" \notin DOMAIN NoGroup
    BY DEF NoGroup
  <1> QED BY <1>2, <1>3

-----------------------------------------------------------------------------

LEMMA TakeRowOrders == ASSUME OrderInv, TakeRow PROVE OrderInv'
  <1>1. /\ phase = "rows" /\ phase' = "rows" /\ next <= Len(rows) /\ rows' = rows
        /\ next' = next + 1
        /\ \/ runs' = Append(runs, SortRecords(buffer)) /\ buffer' = <<next>>
           \/ runs' = runs /\ buffer' = Append(buffer, next)
    BY DEF TakeRow
  <1>2. MergeInv' /\ RowsOK /\ rows \in Seq(RowType) /\ next \in Nat \ {0}
    BY <1>1, TakeRowKeeps, OrderRows DEF OrderInv, MergeInv
  <1>3. Physical = 1..Len(rows) /\ Len(rows) \in Nat /\ next \in Physical
    BY <1>1, <1>2, RowsTyped
  <1>4. /\ buffer \in Seq(Physical) /\ AreRuns(runs)
        /\ \A j, k \in DOMAIN buffer : buffer[j] = buffer[k] => j = k
        /\ Covered(runs) \cap Members(buffer) = {}
        /\ Covered(runs) \cup Members(buffer) = 1..(next - 1)
    BY <1>2 DEF RowsOK
  <1>5. next \notin Covered(runs) /\ next \notin Members(buffer)
    <2>1. next \notin 1..(next - 1)
      BY <1>2
    <2> QED BY <1>4, <2>1
  <1>6. 1..(next - 1) \cup {next} = 1..(next' - 1)
    BY <1>1, <1>2
  <1>7. next' <= Len(rows) + 1
    BY <1>1, <1>2, <1>3
  <1>8. /\ buffer' \in Seq(Physical) /\ AreRuns(runs')
        /\ \A j, k \in DOMAIN buffer' : buffer'[j] = buffer'[k] => j = k
        /\ Covered(runs') \cap Members(buffer') = {}
        /\ Covered(runs') \cup Members(buffer') = 1..(next' - 1)
    <2>1. CASE runs' = Append(runs, SortRecords(buffer)) /\ buffer' = <<next>>
      <3>1. PICK s : s = SortRecords(buffer)
        OBVIOUS
      <3>2. IsRun(s) /\ Members(s) = Members(buffer)
        BY <1>2, <1>4, <3>1, SortSound
      <3>3. AreRuns(runs') /\ Covered(runs') = Covered(runs) \cup Members(buffer)
        BY <1>4, <2>1, <3>1, <3>2, AppendRun
      <3>4. buffer' \in Seq(Physical) /\ DOMAIN buffer' = {1} /\ buffer'[1] = next
        BY <1>3, <2>1
      <3>5. Members(buffer') = {next}
        BY <3>4 DEF Members
      <3> QED BY <1>4, <1>5, <1>6, <3>3, <3>4, <3>5
    <2>2. CASE runs' = runs /\ buffer' = Append(buffer, next)
      <3>1. PICK t : t = buffer'
        OBVIOUS
      <3>2. /\ Members(t) = Members(buffer) \cup {next}
            /\ DOMAIN t = 1..(Len(buffer) + 1)
            /\ \A k \in 1..Len(buffer) : t[k] = buffer[k]
            /\ t[Len(buffer) + 1] = next
        BY <1>3, <1>4, <2>2, <3>1, AppendRow
      <3>3. t \in Seq(Physical) /\ Len(buffer) \in Nat /\ DOMAIN buffer = 1..Len(buffer)
        BY <1>3, <1>4, <2>2, <3>1
      <3>4. \A k \in DOMAIN buffer : buffer[k] # next
        BY <1>5 DEF Members
      <3>5. ASSUME NEW j \in DOMAIN t, NEW k \in DOMAIN t, t[j] = t[k] PROVE j = k
        <4>1. (j \in 1..Len(buffer) \/ j = Len(buffer) + 1)
              /\ (k \in 1..Len(buffer) \/ k = Len(buffer) + 1)
          BY <3>2, <3>3
        <4> QED BY <1>4, <3>2, <3>3, <3>4, <3>5, <4>1
      <3> QED BY <1>4, <1>5, <1>6, <2>2, <3>1, <3>2, <3>3, <3>5
    <2> QED BY <1>1, <2>1, <2>2
  <1>9. RowsOK'
    BY <1>1, <1>7, <1>8, RowsKept DEF RowsOK
  <1> QED BY <1>1, <1>2, <1>9 DEF OrderInv, OrderExact

LEMMA AllRowsTaken ==
    ASSUME OrderInv, phase = "rows", next > Len(rows)
    PROVE  /\ rows \in Seq(RowType) /\ AreRuns(runs)
           /\ IsRun(SortRecords(buffer)) /\ Members(SortRecords(buffer)) = Members(buffer)
           /\ Covered(runs) \cap Members(buffer) = {}
           /\ Covered(runs) \cup Members(buffer) = Physical
  <1>1. RowsOK /\ rows \in Seq(RowType) /\ next \in Nat
    BY OrderRows DEF OrderInv, MergeInv
  <1>2. Physical = 1..Len(rows) /\ Len(rows) \in Nat
    BY <1>1, RowsTyped
  <1>3. next - 1 = Len(rows)
    BY <1>1, <1>2 DEF RowsOK
  <1> QED BY <1>1, <1>2, <1>3, SortSound DEF RowsOK

LEMMA OneArenaOrders == ASSUME OrderInv, OneArena PROVE OrderInv'
  <1>1. /\ phase = "rows" /\ phase' = "built" /\ next > Len(rows) /\ rows' = rows
        /\ runs = <<>> /\ order' = SortRecords(buffer)
    BY DEF OneArena
  <1>2. MergeInv'
    BY EndingKeeps DEF OneArena, OrderInv
  <1>3. PICK s : s = SortRecords(buffer)
    OBVIOUS
  <1>4. rows \in Seq(RowType) /\ IsRun(s) /\ Members(s) = Physical
    BY <1>1, <1>3, AllRowsTaken, NothingCovered
  <1>5. OrderExact'
    BY <1>1, <1>3, <1>4, BuiltIsExact
  <1> QED BY <1>1, <1>2, <1>5 DEF OrderInv

LEMMA StartMergeOrders == ASSUME OrderInv, StartMerge PROVE OrderInv'
  <1>1. PICK all : all = Append(runs, SortRecords(buffer))
    OBVIOUS
  <1>2. /\ phase = "rows" /\ next > Len(rows) /\ runs # <<>> /\ runs' = all
        /\ phase' \in {"limit", "merge"}
        /\ final' = (Len(all) <= FanIn)
        /\ UNCHANGED <<rows, memory, maxRecord, out, group>>
    BY <1>1 DEF StartMerge
  <1>3. MergeInv' /\ group = NoGroup /\ out = <<>>
    BY <1>2, StartMergeKeeps DEF OrderInv, MergeInv
  <1>4. AreRuns(runs) /\ Covered(runs) \cap Members(buffer) = {}
        /\ Covered(runs) \cup Members(buffer) = Physical
    BY <1>2, AllRowsTaken
  <1>5. PICK s : s = SortRecords(buffer)
    OBVIOUS
  <1>6. IsRun(s) /\ Members(s) = Members(buffer)
    BY <1>2, <1>5, AllRowsTaken
  <1>7. AreRuns(all) /\ Covered(all) = Physical /\ Len(all) = Len(runs) + 1 /\ Len(runs) \in Nat
    BY <1>1, <1>4, <1>5, <1>6, AppendRun
  <1>8. Len(runs) # 0
    BY <1>2, <1>4 DEF AreRuns
  <1>9. Len(all) > 1
    BY <1>7, <1>8
  <1>10. FanIn' = FanIn
    BY <1>2 DEF FanIn, BasePerRun
  <1>11. MergeOK'
    <2>1. AreRuns(runs)' /\ AreRuns(out)'
      BY <1>2, <1>3, <1>7, RowsKept, NothingCovered
    <2>2. Covered(out') = {} /\ Covered(runs') = Physical' /\ out' = <<>> /\ group' = NoGroup
      BY <1>2, <1>3, <1>7, RowsKept, NothingCovered
    <2> QED BY <1>2, <1>9, <1>10, <2>1, <2>2 DEF MergeOK
  <1> QED BY <1>2, <1>3, <1>11 DEF OrderInv, OrderExact

LEMMA BeginGroupOrders == ASSUME OrderInv, BeginGroup PROVE OrderInv'
  <1>1. PICK size : size = Least(Len(runs), FanIn)
    OBVIOUS
  <1>2. PICK taken : taken = SubSeq(runs, 1, size)
    OBVIOUS
  <1>3. /\ phase = "merge" /\ group = NoGroup /\ group' = Begun(taken, size)
        /\ runs' = SubSeq(runs, size + 1, Len(runs))
        /\ UNCHANGED <<rows, memory, phase, maxRecord, out, final>>
    BY <1>1, <1>2 DEF BeginGroup, Begun, arena
  <1>4. MergeInv' /\ rows \in Seq(RowType) /\ MergeOK /\ FanIn \in Nat
    BY <1>3, BeginGroupKeeps, OrderRows, FanInNat DEF OrderInv, MergeInv
  <1>5. /\ AreRuns(runs) /\ AreRuns(out) /\ Covered(runs) \cap Covered(out) = {}
        /\ Covered(runs) \cup Covered(out) = Physical
        /\ final => out = <<>> /\ Len(runs) <= FanIn
    BY <1>3, <1>4 DEF MergeOK
  <1>6. Len(runs) \in Nat
    BY <1>5 DEF AreRuns
  <1>7. size \in Nat /\ size <= Len(runs) /\ (final => size = Len(runs))
    BY <1>1, <1>4, <1>5, <1>6 DEF Least
  <1>8. PICK rest : rest = SubSeq(runs, size + 1, Len(runs))
    OBVIOUS
  <1>9. /\ AreRuns(taken) /\ AreRuns(rest) /\ Len(taken) = size /\ Len(rest) = Len(runs) - size
        /\ Covered(taken) \cap Covered(rest) = {} /\ Covered(taken) \cup Covered(rest) = Covered(runs)
    <2>1. PICK ss : ss = runs
      OBVIOUS
    <2>2. AreRuns(ss) /\ size \in Nat /\ size <= Len(ss)
      BY <1>5, <1>7, <2>1
    <2>3. taken = FirstRuns(ss, size) /\ rest = OtherRuns(ss, size)
      BY <1>2, <1>8, <2>1 DEF FirstRuns, OtherRuns
    <2>4. /\ AreRuns(taken) /\ AreRuns(rest) /\ Len(taken) = size /\ Len(rest) = Len(ss) - size
          /\ Covered(taken) \cap Covered(rest) = {} /\ Covered(taken) \cup Covered(rest) = Covered(ss)
      BY <2>2, <2>3, CutRuns
    <2> QED BY <2>1, <2>4
  <1>10. PICK n : n = Begun(taken, size)
    OBVIOUS
  <1>11. GroupOK(n) /\ Whole(n) = Covered(taken) /\ n # NoGroup
    BY <1>4, <1>7, <1>9, <1>10, BeginsGroup, GroupIsAGroup
  <1>12. final => rest = <<>>
    <2>1. final => Len(rest) = 0
      BY <1>6, <1>7, <1>9
    <2> QED BY <1>9, <2>1 DEF AreRuns
  <1>13. MergeOK'
    <2>1. AreRuns(runs)' /\ AreRuns(out)' /\ GroupOK(group)' /\ group' # NoGroup
      BY <1>3, <1>5, <1>8, <1>9, <1>10, <1>11, RowsKept
    <2>2. /\ Covered(runs') \cap Covered(out') = {}
          /\ Whole(group') \cap (Covered(runs') \cup Covered(out')) = {}
          /\ Whole(group') \cup (Covered(runs') \cup Covered(out')) = Physical'
      <3>1. runs' = rest /\ out' = out /\ group' = n /\ Physical' = Physical
        BY <1>3, <1>8, <1>10, RowsKept
      <3> QED BY <1>5, <1>9, <1>11, <3>1
    <2>3. final' => out' = <<>> /\ runs' = <<>>
      BY <1>3, <1>5, <1>8, <1>12
    <2> QED BY <2>1, <2>2, <2>3 DEF MergeOK
  <1> QED BY <1>3, <1>4, <1>13 DEF OrderInv, OrderExact

LEMMA PopOrders == ASSUME OrderInv, Pop PROVE OrderInv'
  <1>1. PICK g : g = group
    OBVIOUS
  <1>2. PICK item : item = CHOOSE i \in g.heap : \A h \in g.heap \ {i} : HeapBefore(i, h)
    OBVIOUS
  <1>3. /\ phase = "merge" /\ g # NoGroup /\ g.heap # {}
        /\ UNCHANGED <<rows, memory, phase, maxRecord, runs, out, final>>
    BY <1>1 DEF Pop, arena
  <1>4. group' = Popped(g, item)
    BY <1>1, <1>2 DEF Pop, Popped
  <1>5. MergeInv' /\ rows \in Seq(RowType) /\ MergeOK
    BY <1>3, PopKeeps, OrderRows DEF OrderInv
  <1>6. /\ GroupOK(g) /\ AreRuns(runs) /\ AreRuns(out) /\ Covered(runs) \cap Covered(out) = {}
        /\ Whole(g) \cap (Covered(runs) \cup Covered(out)) = {}
        /\ Whole(g) \cup (Covered(runs) \cup Covered(out)) = Physical
        /\ final => out = <<>> /\ runs = <<>>
    BY <1>1, <1>3, <1>5 DEF MergeOK
  <1>7. item \in g.heap /\ \A h \in g.heap \ {item} : HeapBefore(item, h)
    <2>1. \E i \in g.heap : \A h \in g.heap \ {i} : HeapBefore(i, h)
      BY <1>3, <1>5, <1>6, HeapDistinct, LeastRecord
    <2> QED BY <1>2, <2>1
  <1>8. PICK n : n = Popped(g, item)
    OBVIOUS
  <1>9. GroupOK(n) /\ Whole(n) = Whole(g) /\ n # NoGroup
    BY <1>5, <1>6, <1>7, <1>8, PopGroup, GroupIsAGroup
  <1>10. MergeOK'
    <2>1. runs' = runs /\ out' = out /\ final' = final /\ group' = n /\ Physical' = Physical
      BY <1>3, <1>4, <1>8, RowsKept
    <2>2. AreRuns(runs)' /\ AreRuns(out)' /\ GroupOK(group)' /\ group' # NoGroup
      BY <1>3, <1>6, <1>9, <2>1, RowsKept
    <2> QED BY <1>6, <1>9, <2>1, <2>2 DEF MergeOK
  <1> QED BY <1>3, <1>5, <1>10 DEF OrderInv, OrderExact

\* A group whose heap is empty has written all of its rows.
LEMMA GroupDone ==
    ASSUME rows \in Seq(RowType), NEW g, GroupOK(g), g.heap = {}
    PROVE  IsRun(g.merged) /\ Whole(g) = Members(g.merged) /\ Len(g.merged) = g.rowCount
  <1>1. \A r \in 1..g.size : g.cursors[r] = <<>>
    BY DEF GroupOK
  <1>2. Left(g) = {}
    <2> SUFFICES ASSUME NEW o \in Left(g) PROVE FALSE
      OBVIOUS
    <2>1. PICK r \in 1..g.size : o \in Part(g, r)
      BY LeftMeaning
    <2>2. o \in Members(<<>>)
      BY <1>1, <2>1, LeftMeaning
    <2> QED BY <2>2, NothingCovered
  <1>3. IsRun(g.merged) /\ Whole(g) = Members(g.merged) /\ Cardinality(Whole(g)) = g.rowCount
    BY <1>2 DEF GroupOK, Whole
  <1> QED BY <1>3, RunCounted

LEMMA EndGroupOrders == ASSUME OrderInv, EndGroup PROVE OrderInv'
  <1>1. PICK g : g = group
    OBVIOUS
  <1>2. PICK m : m = g.merged
    OBVIOUS
  <1>3. PICK written : written = Append(out, m)
    OBVIOUS
  <1>4. phase = "merge" /\ g # NoGroup /\ g.heap = {} /\ group' = NoGroup
        /\ UNCHANGED <<rows, memory, maxRecord>>
    BY <1>1 DEF EndGroup, arena
  <1>5. MergeInv' /\ rows \in Seq(RowType) /\ MergeOK
    BY <1>4, EndGroupKeeps, OrderRows DEF OrderInv
  <1>6. /\ GroupOK(g) /\ AreRuns(runs) /\ AreRuns(out) /\ Covered(runs) \cap Covered(out) = {}
        /\ Whole(g) \cap (Covered(runs) \cup Covered(out)) = {}
        /\ Whole(g) \cup (Covered(runs) \cup Covered(out)) = Physical
        /\ final => out = <<>> /\ runs = <<>>
    BY <1>1, <1>4, <1>5 DEF MergeOK
  <1>7. IsRun(m) /\ Whole(g) = Members(m) /\ Len(m) = g.rowCount
    BY <1>2, <1>4, <1>5, <1>6, GroupDone
  <1>8. /\ AreRuns(written) /\ Covered(written) = Covered(out) \cup Members(m)
        /\ Len(written) = Len(out) + 1 /\ Len(out) \in Nat
        /\ out = <<>> => written[1] = m
    <2>1. Covered(out) \cap Members(m) = {}
      BY <1>6, <1>7
    <2> QED BY <1>3, <1>6, <1>7, <2>1, AppendRun
  <1>9. Len(out) = 0 => out = <<>>
    BY <1>6 DEF AreRuns
  <1>10. Len(written) = 1 <=> out = <<>>
    BY <1>8, <1>9
  <1>11. written # <<>>
    BY <1>8
  <1>12. CASE runs # <<>>
    <2>1. phase' = "merge" /\ runs' = runs /\ out' = written /\ final' = final
      BY <1>1, <1>2, <1>3, <1>7, <1>12 DEF EndGroup
    <2>2. AreRuns(runs)' /\ AreRuns(out)' /\ Physical' = Physical
      BY <1>4, <1>6, <1>8, <2>1, RowsKept
    <2>3. /\ Covered(runs') \cap Covered(out') = {}
          /\ Covered(runs') \cup Covered(out') = Physical'
      BY <1>6, <1>7, <1>8, <2>1, <2>2
    <2>4. MergeOK'
      BY <1>4, <1>6, <1>11, <1>12, <2>1, <2>2, <2>3 DEF MergeOK
    <2> QED BY <1>5, <2>1, <2>4 DEF OrderInv, OrderExact
  <1>13. CASE runs = <<>> /\ out = <<>>
    <2>1. Members(m) = Physical
      BY <1>6, <1>7, <1>13, NothingCovered
    <2>2. Len(m) = Len(rows)
      BY <1>5, <1>7, <2>1, RunIsOrder
    <2>3. Len(written) = 1 /\ written[1] = m
      BY <1>8, <1>10, <1>13
    <2>4. phase' = "built" /\ order' = m
      BY <1>1, <1>2, <1>3, <1>7, <1>13, <2>2, <2>3 DEF EndGroup
    <2>5. OrderExact'
      BY <1>4, <1>5, <1>7, <2>1, <2>4, BuiltIsExact
    <2> QED BY <1>5, <2>4, <2>5 DEF OrderInv
  <1>14. CASE runs = <<>> /\ out # <<>>
    <2>1. ~final /\ Len(written) # 1
      BY <1>6, <1>10, <1>14
    <2>2. /\ phase' = "merge" /\ runs' = written /\ out' = <<>>
          /\ final' = (Len(written) <= FanIn)
      BY <1>1, <1>2, <1>3, <1>7, <1>14, <2>1 DEF EndGroup
    <2>3. Len(written) > 1
      BY <1>8, <2>1
    <2>4. AreRuns(runs)' /\ AreRuns(out)' /\ Physical' = Physical
      BY <1>4, <1>8, <2>2, RowsKept, NothingCovered
    <2>5. /\ Covered(runs') \cap Covered(out') = {}
          /\ Covered(runs') \cup Covered(out') = Physical'
      BY <1>6, <1>7, <1>8, <1>14, <2>2, <2>4, NothingCovered
    <2>6. FanIn' = FanIn
      BY <1>4 DEF FanIn, BasePerRun
    <2>7. MergeOK'
      BY <1>4, <2>2, <2>3, <2>4, <2>5, <2>6 DEF MergeOK
    <2> QED BY <1>5, <2>2, <2>7 DEF OrderInv, OrderExact
  <1> QED BY <1>12, <1>13, <1>14

LEMMA OrderInit == Init => OrderInv
  <1> SUFFICES ASSUME Init PROVE OrderInv
    OBVIOUS
  <1>1. /\ MergeInv /\ phase = "rows" /\ next = 1 /\ buffer = <<>> /\ runs = <<>>
        /\ rows \in Seq(RowType)
    BY MergeInit, OrderRows DEF Init
  <1>2. buffer \in Seq(Physical) /\ DOMAIN buffer = {} /\ 1..(next - 1) = {}
    BY <1>1
  <1>3. next <= Len(rows) + 1
    BY <1>1
  <1> QED BY <1>1, <1>2, <1>3, NothingCovered DEF OrderInv, RowsOK, OrderExact

LEMMA OrderStep == OrderInv /\ [Next]_vars => OrderInv'
  <1> SUFFICES ASSUME OrderInv, [Next]_vars PROVE OrderInv'
    OBVIOUS
  <1>1. MergeInv'
    BY MergeStep DEF OrderInv
  <1>2. CASE RefuseRow \/ Abandon
    <2>1. phase' \in {"limit", "cancelled", "io"}
      BY <1>2 DEF RefuseRow, Abandon
    <2> QED BY <1>1, <2>1 DEF OrderInv, OrderExact
  <1>3. CASE UNCHANGED vars
    <2>1. rows' = rows /\ phase' = phase /\ next' = next /\ buffer' = buffer /\ runs' = runs
          /\ out' = out /\ group' = group /\ final' = final /\ order' = order
          /\ memory' = memory /\ maxRecord' = maxRecord
      BY <1>3 DEF vars, arena, merge
    <2>2. RowsOK => RowsOK'
      BY <2>1, RowsKept DEF RowsOK
    <2>3. FanIn' = FanIn
      BY <2>1 DEF FanIn, BasePerRun
    <2>4. MergeOK => MergeOK'
      BY <2>1, <2>3, RowsKept DEF MergeOK
    <2>5. OrderExact => OrderExact'
      BY <2>1, RowsKept DEF OrderExact
    <2> QED BY <1>1, <2>1, <2>2, <2>4, <2>5 DEF OrderInv
  <1> QED BY <1>2, <1>3, TakeRowOrders, OneArenaOrders, StartMergeOrders, BeginGroupOrders,
             PopOrders, EndGroupOrders DEF Next, Step

\* However the rows of a dictionary fall into arenas, the runs into groups and the
\* groups into passes, the order section of a finished build lists every physical row
\* once, by normalized text and then in physical order.
THEOREM OrderIsExact == Spec => []OrderExact
  <1>1. OrderInv => OrderExact
    BY DEF OrderInv
  <1> QED BY OrderInit, OrderStep, <1>1, PTL DEF Spec

\* The consistency checks of merge_runs never fire: a group writes as many rows as
\* the headers of its runs promise, the last pass as many as the dictionary has, and
\* no pass begins with a single run.
THEOREM NoMismatches == Spec => []NoMismatch
  <1>1. OrderInv => NoMismatch
    BY DEF OrderInv, MergeOK, NoMismatch
  <1> QED BY OrderInit, OrderStep, <1>1, PTL DEF Spec

-----------------------------------------------------------------------------

\* How far the two vectors of an arena can have grown for T bytes of text and N rows.
TextRoom(T) == IF T = 0 THEN 0 ELSE Greatest(2 * T, 8)
RecordRoom(N) == IF N = 0 THEN 0 ELSE Greatest(2 * (N - 1), 4)
Bounded(c, T, N) ==
    c \in [text : Nat, records : Nat] /\ c.text <= TextRoom(T) /\ c.records <= RecordRoom(N)

\* All rows before the next were planned at P bytes.
AllPlanned(P) == \A i \in 1..(next - 1) : Planned(i) = P

\* The arena holds what was planned for its rows.  Before the first run is written its
\* capacities are those of the rows in it; of rows that are all alike, those of the
\* largest number of them it ever held.
ArenaOK ==
    /\ buffer \in Seq(Nat) /\ textLen \in Nat /\ bufferBytes \in Nat
    /\ capacity \in [text : Nat, records : Nat]
    /\ textLen + Len(buffer) * ArenaRecordBytes <= bufferBytes
    /\ bufferBytes <= memory \div 2
    /\ buffer = <<>> => bufferBytes = 0
    /\ runs = <<>> =>
          Bounded(capacity, bufferBytes - Len(buffer) * ArenaRecordBytes, Len(buffer))
    /\ \A P \in Nat : P >= ArenaRecordBytes /\ AllPlanned(P) =>
          /\ bufferBytes = Len(buffer) * P
          /\ \E N \in Nat : /\ Len(buffer) <= N /\ N * P <= memory \div 2
                            /\ Bounded(capacity, N * (P - ArenaRecordBytes), N)

ArenaInv ==
    /\ MergeInv
    /\ phase = "rows" => ArenaOK
    /\ RefusedOnlyInReusedArena

-----------------------------------------------------------------------------

\* What is planned for a row covers its text and its record; a row that is not too long
\* is planned within a quarter of the memory.
LEMMA PlannedCovers ==
    ASSUME rows \in Seq(RowType), rows \in RowChoices, memory \in Nat, NEW o \in DOMAIN rows
    PROVE  /\ Planned(o) \in Nat /\ rows[o].norm \in Nat
           /\ rows[o].norm + ArenaRecordBytes <= Planned(o)
           /\ ~TooLong(o) => Planned(o) <= memory \div 4 /\ RunRecordBytes <= memory \div 4
  <1>1. PICK row : row = rows[o]
    OBVIOUS
  <1>2. row \in RowType
    BY <1>1
  <1>3. row.raw \in Nat /\ row.norm \in Nat
    BY <1>2 DEF RowType
  <1>4. row.ascii => row.norm <= row.raw
    BY <1>1, SortAssumption
  <1>5. ArenaRecordBytes \in Nat /\ RunRecordBytes \in Nat /\ ArenaRecordBytes + 2 <= RunRecordBytes
    BY SortAssumption
  <1>6. PICK q : q = memory \div 4
    OBVIOUS
  <1>7. q \in Nat
    BY <1>6
  <1>8. Planned(o) = IF row.ascii /\ row.raw + ArenaRecordBytes <= q THEN row.raw + ArenaRecordBytes
                     ELSE row.norm + ArenaRecordBytes
    BY <1>1, <1>6 DEF Planned, SingleLimit
  <1>9. TooLong(o) <=> row.norm + RunRecordBytes > q
    BY <1>1, <1>6 DEF TooLong, RecordBytes, SingleLimit
  <1>10. Planned(o) \in Nat /\ row.norm + ArenaRecordBytes <= Planned(o)
    BY <1>3, <1>4, <1>5, <1>8
  <1>11. ~TooLong(o) => Planned(o) <= q /\ RunRecordBytes <= q
    BY <1>3, <1>5, <1>7, <1>8, <1>9
  <1> QED BY <1>1, <1>3, <1>6, <1>10, <1>11

\* reserve_record grows the vectors by doubling at most.
LEMMA ReserveBounded ==
    ASSUME NEW T \in Nat, NEW N \in Nat, NEW U \in Nat, NEW M \in Nat, T <= U, N <= M,
           Bounded(capacity, T, N), NEW count \in Nat, NEW len \in Nat, NEW o,
           Planned(o) \in Nat, ArenaRecordBytes <= Planned(o),
           len + (Planned(o) - ArenaRecordBytes) <= U, count + 1 <= M
    PROVE  Bounded(Reserve(count, len, o), U, M)
  <1> DEFINE e == Planned(o) - ArenaRecordBytes
  <1>1. PICK t, r : t = capacity.text /\ r = capacity.records
    OBVIOUS
  <1>2. t \in Nat /\ r \in Nat /\ t <= TextRoom(T) /\ r <= RecordRoom(N)
    BY <1>1 DEF Bounded
  <1>3. e \in Nat /\ len + e <= U
    BY SortAssumption
  <1>4. PICK u, v : u = Grown(t, len, e, 8) /\ v = Grown(r, count, 1, 4)
    OBVIOUS
  <1>5. Reserve(count, len, o) = [text |-> u, records |-> v]
    BY <1>1, <1>4 DEF Reserve
  <1> HIDE DEF e
  <1>6. u \in Nat /\ u <= TextRoom(U)
    <2>1. TextRoom(T) <= TextRoom(U)
      BY DEF TextRoom, Greatest
    <2>2. CASE t - len >= e
      BY <1>2, <1>4, <2>1, <2>2 DEF Grown, TextRoom, Greatest
    <2>3. CASE ~(t - len >= e)
      <3>1. t < U /\ U # 0
        BY <1>2, <1>3, <2>3
      <3>2. u = Greatest(Greatest(2 * t, len + e), 8)
        BY <1>4, <2>3 DEF Grown
      <3> QED BY <1>2, <1>3, <3>1, <3>2 DEF TextRoom, Greatest
    <2> QED BY <2>2, <2>3
  <1>7. v \in Nat /\ v <= RecordRoom(M)
    <2>1. RecordRoom(N) <= RecordRoom(M)
      BY DEF RecordRoom, Greatest
    <2>2. CASE r - count >= 1
      BY <1>2, <1>4, <2>1, <2>2 DEF Grown, RecordRoom, Greatest
    <2>3. CASE ~(r - count >= 1)
      <3>1. r <= M - 1 /\ M # 0
        BY <1>2, <2>3
      <3>2. v = Greatest(Greatest(2 * r, count + 1), 4)
        BY <1>4, <2>3 DEF Grown
      <3> QED BY <1>2, <3>1, <3>2 DEF RecordRoom, Greatest
    <2> QED BY <2>2, <2>3
  <1> QED BY <1>5, <1>6, <1>7 DEF Bounded

\* Rows that fill no more than half of the memory leave room for doubling.
LEMMA RoomToDouble ==
    ASSUME memory \in Nat, NEW T \in Nat, NEW N \in Nat, N >= 1,
           T + N * ArenaRecordBytes <= memory \div 2,
           N = 1 => T + ArenaRecordBytes <= memory \div 4,
           RunRecordBytes <= memory \div 4,
           NEW c, Bounded(c, T, N)
    PROVE  AllocatedBytes(c) <= memory
  <1>1. PICK a : a = ArenaRecordBytes
    OBVIOUS
  <1>2. PICK t, r : t = c.text /\ r = c.records
    OBVIOUS
  <1>3. a \in Nat /\ a >= 3 /\ a + 2 <= RunRecordBytes /\ RunRecordBytes \in Nat
    BY <1>1, SortAssumption
  <1>4. 4 * a + 8 <= memory
    BY <1>3
  <1>5. t \in Nat /\ r \in Nat /\ t <= TextRoom(T) /\ r <= RecordRoom(N)
    BY <1>2 DEF Bounded
  <1>6. AllocatedBytes(c) = t + r * a
    BY <1>1, <1>2 DEF AllocatedBytes
  <1>7. CASE N <= 2
    <2>1. r <= 4
      BY <1>5, <1>7 DEF RecordRoom, Greatest
    <2>2. r * a <= 4 * a /\ r * a \in Nat
      BY <1>3, <1>5, <2>1, ProductMonotone
    <2>3. 2 * T + 4 * a <= memory
      <3>1. CASE N = 1
        BY <1>1, <1>3, <3>1
      <3>2. CASE N = 2
        BY <1>1, <1>3, <3>2
      <3> QED BY <1>7, <3>1, <3>2
    <2>4. t <= 2 * T \/ t <= 8
      BY <1>5 DEF TextRoom, Greatest
    <2> QED BY <1>3, <1>4, <1>5, <1>6, <2>2, <2>3, <2>4
  <1>8. CASE N >= 3
    <2>1. r <= 2 * (N - 1)
      BY <1>5, <1>8 DEF RecordRoom, Greatest
    <2>2. r * a <= (2 * (N - 1)) * a
      <3>1. 2 * (N - 1) \in Nat
        BY <1>8
      <3> QED BY <1>3, <1>5, <2>1, <3>1, ProductMonotone
    <2>3. (2 * (N - 1)) * a = 2 * (N * a) - 2 * a
      BY <1>3
    <2>4. PICK p : p = N * a
      OBVIOUS
    <2>5. p \in Nat /\ T + p <= memory \div 2
      BY <1>1, <1>3, <2>4
    <2>6. PICK x : x = r * a
      OBVIOUS
    <2>7. x \in Nat /\ x <= 2 * p - 2 * a
      BY <1>3, <1>5, <2>2, <2>3, <2>4, <2>6
    <2>8. t <= 2 * T \/ (t <= 8 /\ T >= 1)
      BY <1>5 DEF TextRoom, Greatest
    <2>9. 2 * T + 2 * p <= memory
      BY <2>5
    <2>10. t + x <= memory
      BY <1>3, <1>5, <2>5, <2>7, <2>8, <2>9
    <2> QED BY <1>6, <2>6, <2>10
  <1> QED BY <1>7, <1>8

\* A row that the first arena takes as it is finds room in it.
LEMMA FirstArenaTakes ==
    ASSUME MergeInv, ArenaOK, next <= Len(rows), ~TooLong(next), runs = <<>>, ~Spills(next)
    PROVE  /\ Bounded(ReserveFor(next),
                      (bufferBytes + Planned(next)) - (Len(buffer) + 1) * ArenaRecordBytes,
                      Len(buffer) + 1)
           /\ AllocatedBytes(ReserveFor(next)) <= memory
           /\ bufferBytes + Planned(next) <= memory \div 2
  <1>1. /\ rows \in Seq(RowType) /\ rows \in RowChoices /\ memory \in Nat /\ next \in DOMAIN rows
    BY OrderRows DEF MergeInv
  <1>2. PICK a, p, n, b : a = ArenaRecordBytes /\ p = Planned(next) /\ n = Len(buffer) /\ b = bufferBytes
    OBVIOUS
  <1>3. /\ p \in Nat /\ a <= p /\ p <= memory \div 4 /\ RunRecordBytes <= memory \div 4
        /\ a \in Nat
    <2>1. rows[next].norm \in Nat /\ rows[next].norm + a <= p /\ p \in Nat /\ a \in Nat
      BY <1>1, <1>2, PlannedCovers, SortAssumption
    <2> QED BY <1>1, <1>2, <2>1, PlannedCovers
  <1>4. n \in Nat /\ b \in Nat /\ textLen \in Nat
    BY <1>2 DEF ArenaOK
  <1>5. PICK x : x = n * a
    OBVIOUS
  <1>6. x \in Nat /\ (n + 1) * a = x + a
    BY <1>3, <1>4, <1>5
  <1>7. textLen + x <= b /\ (n = 0 => b = 0)
    <2>1. buffer \in Seq(Nat) /\ (buffer = <<>> => b = 0)
      BY <1>2 DEF ArenaOK
    <2>2. Len(buffer) = 0 => buffer = <<>>
      BY <2>1
    <2>3. textLen + x <= b
      BY <1>2, <1>5 DEF ArenaOK
    <2> QED BY <1>2, <2>1, <2>2, <2>3
  <1>8. b + p <= memory \div 2
    <2>1. CASE buffer = <<>>
      <3>1. b = 0
        BY <1>2, <2>1 DEF ArenaOK
      <3> QED BY <1>1, <1>3, <3>1
    <2>2. CASE buffer # <<>>
      BY <1>1, <1>2, <1>3, <1>4, <2>2 DEF Spills
    <2> QED BY <2>1, <2>2
  <1>9. PICK T, U : T = b - x /\ U = (b + p) - (x + a)
    OBVIOUS
  <1>10. T \in Nat /\ U \in Nat /\ T <= U /\ textLen + (p - a) <= U
    BY <1>3, <1>4, <1>6, <1>7, <1>9
  <1>11. Bounded(capacity, T, n)
    BY <1>2, <1>5, <1>9 DEF ArenaOK
  <1>12. ReserveFor(next) = Reserve(n, textLen, next)
    BY <1>2 DEF ReserveFor
  <1>13. Bounded(ReserveFor(next), U, n + 1)
    <2>1. n + 1 \in Nat /\ n <= n + 1 /\ n + 1 <= n + 1
      BY <1>4
    <2>2. Bounded(Reserve(n, textLen, next), U, n + 1)
      BY <1>2, <1>3, <1>4, <1>10, <1>11, <2>1, ReserveBounded
    <2> QED BY <1>12, <2>2
  <1>14. AllocatedBytes(ReserveFor(next)) <= memory
    <2>1. PICK N : N = n + 1
      OBVIOUS
    <2>2. N \in Nat /\ N >= 1 /\ N * a = x + a
      BY <1>4, <1>6, <2>1
    <2>3. U + N * a <= memory \div 2
      BY <1>3, <1>4, <1>6, <1>8, <1>9, <2>2
    <2>4. N = 1 => U + a <= memory \div 4
      <3>1. N = 1 => n = 0
        BY <1>4, <2>1
      <3>2. N = 1 => b = 0
        BY <1>7, <3>1
      <3> QED BY <1>1, <1>3, <1>6, <1>9, <3>2
    <2>5. PICK c : c = ReserveFor(next)
      OBVIOUS
    <2>6. Bounded(c, U, N)
      BY <1>13, <2>1, <2>5
    <2>7. AllocatedBytes(c) <= memory
      BY <1>1, <1>2, <1>3, <1>10, <2>2, <2>3, <2>4, <2>6, RoomToDouble
    <2> QED BY <2>5, <2>7
  <1> QED BY <1>2, <1>6, <1>8, <1>9, <1>13, <1>14

\* A row planned like all before it finds room in any arena.
LEMMA AlikeRowTaken ==
    ASSUME MergeInv, ArenaOK, next <= Len(rows), ~TooLong(next), NEW p, p = Planned(next),
           AllPlanned(p)
    PROVE  /\ AllocatedBytes(ReserveFor(next)) <= memory
           /\ p \in Nat /\ bufferBytes = Len(buffer) * p
           /\ \E N \in Nat : /\ (IF Spills(next) THEN 1 ELSE Len(buffer) + 1) <= N
                             /\ N * p <= memory \div 2
                             /\ Bounded(ReserveFor(next), N * (p - ArenaRecordBytes), N)
  <1>1. /\ rows \in Seq(RowType) /\ rows \in RowChoices /\ memory \in Nat /\ next \in DOMAIN rows
    BY OrderRows DEF MergeInv
  <1>2. PICK a, n, b : a = ArenaRecordBytes /\ n = Len(buffer) /\ b = bufferBytes
    OBVIOUS
  <1>3. /\ p \in Nat /\ a <= p /\ p <= memory \div 4 /\ RunRecordBytes <= memory \div 4
        /\ a \in Nat
    <2>1. rows[next].norm \in Nat /\ rows[next].norm + a <= p /\ p \in Nat /\ a \in Nat
      BY <1>1, <1>2, PlannedCovers, SortAssumption
    <2> QED BY <1>1, <1>2, <2>1, PlannedCovers
  <1>4. n \in Nat /\ b \in Nat /\ textLen \in Nat
    BY <1>2 DEF ArenaOK
  <1>5. PICK N \in Nat : n <= N /\ N * p <= memory \div 2 /\ Bounded(capacity, N * (p - a), N)
    BY <1>2, <1>3 DEF ArenaOK
  <1>6. b = n * p /\ textLen + n * a <= b
    BY <1>2, <1>3 DEF ArenaOK
  <1>7. PICK k : k = IF Spills(next) THEN 0 ELSE n
    OBVIOUS
  <1>8. PICK len : len = IF Spills(next) THEN 0 ELSE textLen
    OBVIOUS
  <1>9. /\ k \in Nat /\ k <= n /\ len \in Nat /\ ReserveFor(next) = Reserve(k, len, next)
        /\ Spills(next) => k = 0 /\ n # 0
        /\ ~Spills(next) => k = n
    <2>1. Spills(next) => n # 0
      BY <1>2 DEF ArenaOK, Spills
    <2> QED BY <1>2, <1>4, <1>7, <1>8, <2>1 DEF ReserveFor
  <1>10. PICK e : e = p - a
    OBVIOUS
  <1>11. e \in Nat /\ p = e + a
    BY <1>3, <1>10
  <1>12. len <= k * e
    <2>1. n * p = n * e + n * a /\ n * e \in Nat /\ n * a \in Nat
      BY <1>3, <1>4, <1>11
    <2>2. textLen <= n * e
      BY <1>4, <1>6, <2>1
    <2>3. CASE Spills(next)
      <3>1. k * e = 0 /\ len = 0
        BY <1>8, <1>9, <1>11, <2>3
      <3> QED BY <3>1
    <2>4. CASE ~Spills(next)
      <3>1. k = n /\ len = textLen
        BY <1>8, <1>9, <2>4
      <3> QED BY <2>2, <3>1
    <2> QED BY <2>3, <2>4
  <1>13. PICK M : M = IF k + 1 <= N THEN N ELSE k + 1
    OBVIOUS
  <1>14. M \in Nat /\ M >= 1 /\ N <= M /\ k + 1 <= M
    BY <1>5, <1>9, <1>13
  <1>15. M * p <= memory \div 2
    <2>1. CASE k + 1 <= N
      BY <1>5, <1>13, <2>1
    <2>2. CASE ~(k + 1 <= N)
      <3>1. M = k + 1 /\ k = n /\ ~Spills(next)
        BY <1>4, <1>5, <1>9, <1>13, <2>2
      <3>2. M * p = b + p
        BY <1>3, <1>4, <1>6, <3>1
      <3>3. CASE buffer = <<>>
        <4>1. b = 0
          BY <1>2, <3>3 DEF ArenaOK
        <4> QED BY <1>1, <1>3, <3>2, <4>1
      <3>4. CASE buffer # <<>>
        BY <1>1, <1>2, <1>3, <1>4, <3>1, <3>2, <3>4 DEF Spills
      <3> QED BY <3>3, <3>4
    <2> QED BY <2>1, <2>2
  <1>16. PICK T, U : T = N * e /\ U = M * e
    OBVIOUS
  <1>17. T \in Nat /\ U \in Nat /\ T <= U
    BY <1>5, <1>11, <1>14, <1>16, ProductMonotone
  <1>18. len + e <= U
    <2>1. (k + 1) * e <= M * e
      <3>1. k + 1 \in Nat
        BY <1>9
      <3> QED BY <1>11, <1>14, <3>1, ProductMonotone
    <2>2. (k + 1) * e = k * e + e /\ k * e \in Nat
      BY <1>9, <1>11
    <2> QED BY <1>9, <1>11, <1>12, <1>16, <1>17, <2>1, <2>2
  <1>19. PICK c : c = ReserveFor(next)
    OBVIOUS
  <1>20. Bounded(c, U, M)
    <2>1. Bounded(capacity, T, N)
      BY <1>5, <1>10, <1>16
    <2>2. Planned(next) \in Nat /\ ArenaRecordBytes <= Planned(next)
          /\ len + (Planned(next) - ArenaRecordBytes) <= U
      BY <1>2, <1>3, <1>10, <1>18
    <2>3. Bounded(Reserve(k, len, next), U, M)
      BY <1>5, <1>9, <1>14, <1>17, <2>1, <2>2, ReserveBounded
    <2> QED BY <1>9, <1>19, <2>3
  <1>21. AllocatedBytes(c) <= memory
    <2>1. M * p = U + M * a
      BY <1>3, <1>11, <1>14, <1>16
    <2>2. U + M * ArenaRecordBytes <= memory \div 2
      BY <1>2, <1>15, <2>1
    <2>3. M = 1 => U + a = p
      BY <1>3, <1>11, <1>16
    <2>4. M = 1 => U + ArenaRecordBytes <= memory \div 4
      BY <1>2, <1>3, <2>3
    <2> QED BY <1>1, <1>3, <1>14, <1>17, <1>20, <2>2, <2>4, RoomToDouble
  <1>22. (IF Spills(next) THEN 1 ELSE Len(buffer) + 1) <= M
    BY <1>2, <1>4, <1>9, <1>14
  <1>23. Bounded(ReserveFor(next), M * (p - ArenaRecordBytes), M)
    BY <1>2, <1>10, <1>16, <1>19, <1>20
  <1> QED BY <1>2, <1>3, <1>6, <1>14, <1>15, <1>19, <1>21, <1>22, <1>23

\* Rows and ceiling stay, and with them what is planned.
LEMMA PlansKept ==
    ASSUME rows' = rows, memory' = memory
    PROVE  /\ \A o : Planned(o)' = Planned(o)
           /\ \A o : TooLong(o)' <=> TooLong(o)
           /\ \A c, T, N : Bounded(c, T, N)' <=> Bounded(c, T, N)
  BY DEF Planned, SingleLimit, TooLong, RecordBytes, Bounded

LEMMA TakeRowFits == ASSUME ArenaInv, TakeRow PROVE ArenaInv'
  <1>1. /\ phase = "rows" /\ phase' = "rows" /\ next <= Len(rows) /\ rows' = rows /\ memory' = memory
        /\ ~TooLong(next) /\ next' = next + 1 /\ capacity' = ReserveFor(next)
    BY DEF TakeRow
  <1>2. /\ Spills(next) =>
              /\ runs' = Append(runs, SortRecords(buffer)) /\ buffer' = <<next>>
              /\ textLen' = rows[next].norm /\ bufferBytes' = Planned(next)
        /\ ~Spills(next) =>
              /\ runs' = runs /\ buffer' = Append(buffer, next)
              /\ textLen' = textLen + rows[next].norm
              /\ bufferBytes' = bufferBytes + Planned(next)
    BY DEF TakeRow
  <1>3. MergeInv /\ MergeInv' /\ ArenaOK /\ next \in Nat \ {0} /\ memory \in Nat
        /\ rows \in Seq(RowType) /\ rows \in RowChoices /\ next \in DOMAIN rows
    BY <1>1, TakeRowKeeps, OrderRows DEF ArenaInv, MergeInv
  <1>4. PICK a, p, w, n : a = ArenaRecordBytes /\ p = Planned(next) /\ w = rows[next].norm
                          /\ n = Len(buffer)
    OBVIOUS
  <1>5. /\ p \in Nat /\ w \in Nat /\ a \in Nat /\ w + a <= p /\ p <= memory \div 4
        /\ memory \div 4 <= memory \div 2 /\ memory \div 2 \in Nat /\ memory \div 4 \in Nat
    BY <1>1, <1>3, <1>4, PlannedCovers, SortAssumption
  <1>6. /\ n \in Nat /\ textLen \in Nat /\ bufferBytes \in Nat /\ buffer \in Seq(Nat)
        /\ textLen + n * a <= bufferBytes /\ (buffer = <<>> => bufferBytes = 0)
    BY <1>3, <1>4 DEF ArenaOK
  <1>7. PICK m : m = IF Spills(next) THEN 1 ELSE n + 1
    OBVIOUS
  <1>8. m \in Nat /\ Len(buffer') = m /\ buffer' \in Seq(Nat) /\ buffer' # <<>>
    <2>1. CASE Spills(next)
      <3>1. buffer' = <<next>> /\ m = 1
        BY <1>2, <1>7, <2>1
      <3>2. <<next>> \in Seq(Nat) /\ Len(<<next>>) = 1
        BY <1>3
      <3> QED BY <3>1, <3>2
    <2>2. CASE ~Spills(next)
      <3>1. buffer' = Append(buffer, next) /\ m = n + 1 /\ m # 0
        BY <1>2, <1>6, <1>7, <2>2
      <3>2. Append(buffer, next) \in Seq(Nat) /\ Len(Append(buffer, next)) = Len(buffer) + 1
        BY <1>3, <1>6, AppendProperties
      <3> QED BY <1>4, <1>6, <3>1, <3>2
    <2> QED BY <2>1, <2>2
  <1>9. /\ textLen' \in Nat /\ bufferBytes' \in Nat /\ textLen' + m * a <= bufferBytes'
    <2>1. CASE Spills(next)
      <3>1. m * a = a
        BY <1>5, <1>7, <2>1
      <3> QED BY <1>2, <1>4, <1>5, <2>1, <3>1
    <2>2. CASE ~Spills(next)
      <3>1. m * a = n * a + a /\ n * a \in Nat
        BY <1>5, <1>6, <1>7, <2>2
      <3>2. PICK x, y : x = n * a /\ y = m * a
        OBVIOUS
      <3>3. x \in Nat /\ y = x + a /\ textLen + x <= bufferBytes
        BY <1>6, <3>1, <3>2
      <3>4. (textLen + w) + y <= bufferBytes + p
        BY <1>5, <1>6, <3>3
      <3>5. textLen' = textLen + w /\ bufferBytes' = bufferBytes + p
        BY <1>2, <1>4, <2>2
      <3> QED BY <1>5, <1>6, <3>2, <3>4, <3>5
    <2> QED BY <2>1, <2>2
  <1>10. bufferBytes' <= memory \div 2
    <2>1. CASE Spills(next)
      BY <1>2, <1>4, <1>5, <2>1
    <2>2. CASE ~Spills(next) /\ buffer = <<>>
      BY <1>2, <1>4, <1>5, <1>6, <2>2
    <2>3. CASE ~Spills(next) /\ buffer # <<>>
      <3>1. ~(bufferBytes + p > memory \div 2)
        BY <1>4, <2>3 DEF Spills
      <3> QED BY <1>2, <1>4, <1>5, <1>6, <2>3, <3>1
    <2> QED BY <2>1, <2>2, <2>3
  <1>11. capacity' \in [text : Nat, records : Nat]
    <2>1. PICK t, r : capacity = [text |-> t, records |-> r] /\ t \in Nat /\ r \in Nat
      BY <1>3 DEF ArenaOK
    <2>2. \A c, l, e, x \in Nat : Grown(c, l, e, x) \in Nat
      BY DEF Grown, Greatest
    <2>3. ASSUME NEW c \in Nat, NEW l \in Nat PROVE Reserve(c, l, next) \in [text : Nat, records : Nat]
      <3>1. p - a \in Nat
        BY <1>5
      <3>2. Grown(capacity.text, l, p - a, 8) \in Nat /\ Grown(capacity.records, c, 1, 4) \in Nat
        BY <2>1, <2>2, <3>1
      <3> QED BY <1>4, <3>2 DEF Reserve
    <2>4. Reserve(0, 0, next) \in [text : Nat, records : Nat]
          /\ Reserve(n, textLen, next) \in [text : Nat, records : Nat]
      BY <1>6, <2>3
    <2> QED BY <1>1, <1>4, <2>4 DEF ReserveFor
  <1>12. runs' = <<>> => Bounded(capacity', bufferBytes' - m * a, m)
    <2>1. CASE Spills(next)
      <3>1. PICK S : runs \in Seq(S)
        BY <1>3 DEF MergeInv
      <3>2. Append(runs, SortRecords(buffer)) # <<>>
        OBVIOUS
      <3> QED BY <1>2, <2>1, <3>2
    <2>2. CASE ~Spills(next)
      <3>1. m = n + 1 /\ runs' = runs /\ bufferBytes' = bufferBytes + p
        BY <1>2, <1>4, <1>7, <2>2
      <3>2. runs = <<>> => Bounded(ReserveFor(next),
                  (bufferBytes + Planned(next)) - (Len(buffer) + 1) * ArenaRecordBytes,
                  Len(buffer) + 1)
        BY <1>1, <1>3, <2>2, FirstArenaTakes
      <3> QED BY <1>1, <1>4, <3>1, <3>2
    <2> QED BY <2>1, <2>2
  <1>13. ASSUME NEW P \in Nat, P >= a, AllPlanned(P)'
         PROVE  /\ bufferBytes' = m * P
                /\ \E N \in Nat : /\ m <= N /\ N * P <= memory \div 2
                                  /\ Bounded(capacity', N * (P - a), N)
    <2>1. \A i \in 1..next : Planned(i) = P
      <3>1. 1..(next' - 1) = 1..next
        BY <1>1, <1>3
      <3>2. \A i \in 1..(next' - 1) : Planned(i)' = P
        BY <1>13 DEF AllPlanned
      <3> QED BY <1>1, <3>1, <3>2, PlansKept
    <2>2. P = p /\ AllPlanned(P)
      <3>1. next \in 1..next /\ 1..(next - 1) \subseteq 1..next
        BY <1>3
      <3> QED BY <1>4, <2>1, <3>1 DEF AllPlanned
    <2>3. /\ bufferBytes = n * p
          /\ \E N \in Nat : /\ (IF Spills(next) THEN 1 ELSE Len(buffer) + 1) <= N
                            /\ N * p <= memory \div 2
                            /\ Bounded(ReserveFor(next), N * (p - ArenaRecordBytes), N)
      BY <1>1, <1>3, <1>4, <2>2, AlikeRowTaken
    <2>4. bufferBytes' = m * P
      <3>1. CASE Spills(next)
        <4>1. m * p = p
          BY <1>5, <1>7, <3>1
        <4> QED BY <1>2, <1>4, <2>2, <3>1, <4>1
      <3>2. CASE ~Spills(next)
        <4>1. m * p = n * p + p
          BY <1>5, <1>6, <1>7, <3>2
        <4> QED BY <1>2, <1>4, <2>2, <2>3, <3>2, <4>1
      <3> QED BY <3>1, <3>2
    <2> QED BY <1>1, <1>4, <1>7, <2>2, <2>3, <2>4
  <1>14. ArenaOK'
    <2>1. runs' = <<>> => Bounded(capacity, bufferBytes - Len(buffer) * ArenaRecordBytes, Len(buffer))'
      BY <1>1, <1>4, <1>8, <1>12, PlansKept
    <2>2. \A P \in Nat : P >= ArenaRecordBytes /\ AllPlanned(P)' =>
             /\ bufferBytes' = Len(buffer') * P
             /\ \E N \in Nat : /\ Len(buffer') <= N /\ N * P <= memory' \div 2
                               /\ Bounded(capacity', N * (P - ArenaRecordBytes), N)
      BY <1>1, <1>4, <1>8, <1>13
    <2>3. \A P \in Nat : P >= ArenaRecordBytes /\ AllPlanned(P)' =>
             /\ bufferBytes' = Len(buffer') * P
             /\ \E N \in Nat : /\ Len(buffer') <= N /\ N * P <= memory' \div 2
                               /\ Bounded(capacity, N * (P - ArenaRecordBytes), N)'
      BY <2>2 DEF Bounded
    <2> QED BY <1>1, <1>4, <1>8, <1>9, <1>10, <1>11, <2>1, <2>3 DEF ArenaOK
  <1> QED BY <1>1, <1>3, <1>14 DEF ArenaInv, RefusedOnlyInReusedArena

LEMMA RefuseRowReason == ASSUME ArenaInv, RefuseRow PROVE ArenaInv'
  <1>1. /\ phase = "rows" /\ phase' = "limit" /\ next <= Len(rows) /\ rows' = rows
        /\ memory' = memory /\ next' = next
        /\ TooLong(next) \/ AllocatedBytes(ReserveFor(next)) > memory
        /\ runs' = IF Planned(next) <= SingleLimit /\ Spills(next)
                   THEN Append(runs, SortRecords(buffer)) ELSE runs
    BY DEF RefuseRow
  <1>2. MergeInv /\ MergeInv' /\ ArenaOK
    BY <1>1, RefuseRowKeeps DEF ArenaInv
  <1>3. /\ rows \in Seq(RowType) /\ rows \in RowChoices /\ memory \in Nat
        /\ next \in DOMAIN rows /\ next \in Nat \ {0}
    BY <1>1, <1>2, OrderRows DEF MergeInv
  <1>4. ASSUME ~TooLong(next)
        PROVE  runs' # <<>> /\ \E i \in 1..next : Planned(i) # Planned(next)
    <2>1. Planned(next) <= SingleLimit
      BY <1>3, <1>4, PlannedCovers DEF SingleLimit
    <2>2. AllocatedBytes(ReserveFor(next)) > memory
      BY <1>1, <1>4
    <2>3. ~(AllocatedBytes(ReserveFor(next)) <= memory)
      <3>1. AllocatedBytes(ReserveFor(next)) \in Int
        <4>1. PICK t, r : capacity = [text |-> t, records |-> r] /\ t \in Nat /\ r \in Nat
          BY <1>2 DEF ArenaOK
        <4>2. \A c, l, e, x \in Int : Grown(c, l, e, x) \in Int
          BY DEF Grown, Greatest
        <4>3. Planned(next) - ArenaRecordBytes \in Int /\ textLen \in Int /\ Len(buffer) \in Int
              /\ ArenaRecordBytes \in Int
          BY <1>2, <1>3, PlannedCovers, SortAssumption DEF ArenaOK
        <4>4. ASSUME NEW c \in Int, NEW l \in Int PROVE AllocatedBytes(Reserve(c, l, next)) \in Int
          <5>1. PICK u, v : u = Grown(capacity.text, l, Planned(next) - ArenaRecordBytes, 8)
                            /\ v = Grown(capacity.records, c, 1, 4)
            OBVIOUS
          <5>2. u \in Int /\ v \in Int
            BY <4>1, <4>2, <4>3, <5>1
          <5>3. Reserve(c, l, next) = [text |-> u, records |-> v]
            BY <5>1 DEF Reserve
          <5> QED BY <4>3, <5>2, <5>3 DEF AllocatedBytes
        <4>5. AllocatedBytes(Reserve(0, 0, next)) \in Int
              /\ AllocatedBytes(Reserve(Len(buffer), textLen, next)) \in Int
          <5>1. 0 \in Int
            OBVIOUS
          <5> QED BY <4>3, <4>4, <5>1, Zenon
        <4>6. ReserveFor(next) = Reserve(0, 0, next)
              \/ ReserveFor(next) = Reserve(Len(buffer), textLen, next)
          BY DEF ReserveFor
        <4> QED BY <4>5, <4>6
      <3> QED BY <1>3, <2>2, <3>1
    <2>4. runs' # <<>>
      <3>1. CASE Spills(next)
        <4>1. Append(runs, SortRecords(buffer)) # <<>>
          OBVIOUS
        <4> QED BY <1>1, <2>1, <3>1, <4>1
      <3>2. CASE ~Spills(next)
        <4>1. runs # <<>>
          BY <1>1, <1>2, <1>4, <2>3, <3>2, FirstArenaTakes
        <4> QED BY <1>1, <3>2, <4>1
      <3> QED BY <3>1, <3>2
    <2>5. \E i \in 1..next : Planned(i) # Planned(next)
      <3> SUFFICES ASSUME \A i \in 1..next : Planned(i) = Planned(next) PROVE FALSE
        OBVIOUS
      <3>1. PICK p : p = Planned(next)
        OBVIOUS
      <3>2. 1..(next - 1) \subseteq 1..next
        BY <1>3
      <3>3. AllPlanned(p)
        BY <3>1, <3>2 DEF AllPlanned
      <3> QED BY <1>1, <1>2, <1>4, <2>3, <3>1, <3>3, AlikeRowTaken
    <2> QED BY <2>4, <2>5
  <1>5. RefusedOnlyInReusedArena'
    BY <1>1, <1>4, PlansKept DEF RefusedOnlyInReusedArena
  <1> QED BY <1>1, <1>2, <1>5 DEF ArenaInv

LEMMA ArenaInit == Init => ArenaInv
  <1> SUFFICES ASSUME Init PROVE ArenaInv
    OBVIOUS
  <1>1. /\ MergeInv /\ phase = "rows" /\ next = 1 /\ buffer = <<>> /\ textLen = 0
        /\ bufferBytes = 0 /\ capacity = [text |-> 0, records |-> 0] /\ memory \in Nat
    BY MergeInit DEF Init, MergeInv
  <1>2. ArenaRecordBytes \in Nat /\ Len(buffer) = 0 /\ buffer \in Seq(Nat)
        /\ memory \div 2 \in Nat
    BY <1>1, SortAssumption
  <1>3. \A x \in Int : 0 * x = 0
    OBVIOUS
  <1>4. Bounded(capacity, 0, 0)
    BY <1>1 DEF Bounded, TextRoom, RecordRoom
  <1>5. ASSUME NEW P \in Nat
        PROVE  /\ bufferBytes = Len(buffer) * P
               /\ \E N \in Nat : /\ Len(buffer) <= N /\ N * P <= memory \div 2
                                 /\ Bounded(capacity, N * (P - ArenaRecordBytes), N)
    <2>1. 0 * P = 0 /\ 0 * (P - ArenaRecordBytes) = 0
      BY <1>2, <1>3
    <2>2. Len(buffer) <= 0 /\ 0 * P <= memory \div 2
          /\ Bounded(capacity, 0 * (P - ArenaRecordBytes), 0)
      BY <1>2, <1>4, <2>1
    <2> QED BY <1>1, <1>2, <2>1, <2>2
  <1>6. ArenaOK
    <2>1. 0 * ArenaRecordBytes = 0
      BY <1>2
    <2>2. Bounded(capacity, bufferBytes - Len(buffer) * ArenaRecordBytes, Len(buffer))
      BY <1>1, <1>2, <1>4, <2>1
    <2>3. capacity \in [text : Nat, records : Nat]
      BY <1>1
    <2> QED BY <1>1, <1>2, <1>5, <2>1, <2>2, <2>3 DEF ArenaOK
  <1> QED BY <1>1, <1>6 DEF ArenaInv, RefusedOnlyInReusedArena

LEMMA ArenaStep == ArenaInv /\ [Next]_vars => ArenaInv'
  <1> SUFFICES ASSUME ArenaInv, [Next]_vars PROVE ArenaInv'
    OBVIOUS
  <1>1. MergeInv'
    BY MergeStep DEF ArenaInv
  <1>2. CASE OneArena \/ BeginGroup \/ Pop \/ EndGroup \/ Abandon
    <2>1. phase' \notin {"rows", "limit"}
      BY <1>2 DEF OneArena, BeginGroup, Pop, EndGroup, Abandon
    <2> QED BY <1>1, <2>1 DEF ArenaInv, RefusedOnlyInReusedArena
  <1>3. CASE StartMerge
    <2>1. next > Len(rows) /\ rows' = rows /\ next' = next /\ phase' # "rows"
      BY <1>3 DEF StartMerge
    <2>2. rows \in Seq(RowType) /\ next \in Nat
      BY OrderRows DEF ArenaInv, MergeInv
    <2>3. ~(next' <= Len(rows'))
      BY <2>1, <2>2
    <2> QED BY <1>1, <2>1, <2>3 DEF ArenaInv, RefusedOnlyInReusedArena
  <1>4. CASE UNCHANGED vars
    <2>1. /\ rows' = rows /\ memory' = memory /\ phase' = phase /\ next' = next /\ runs' = runs
          /\ buffer' = buffer /\ textLen' = textLen /\ bufferBytes' = bufferBytes
          /\ capacity' = capacity
      BY <1>4 DEF vars, arena, merge
    <2>2. RefusedOnlyInReusedArena => RefusedOnlyInReusedArena'
      BY <2>1, PlansKept DEF RefusedOnlyInReusedArena
    <2>3. \A P : AllPlanned(P)' <=> AllPlanned(P)
      BY <2>1, PlansKept DEF AllPlanned
    <2>4. ArenaOK => ArenaOK'
      BY <2>1, <2>3, PlansKept DEF ArenaOK
    <2> QED BY <1>1, <2>1, <2>2, <2>4 DEF ArenaInv
  <1> QED BY <1>2, <1>3, <1>4, TakeRowFits, RefuseRowReason DEF Next, Step

\* Spilling at half of the memory leaves room for how vectors grow, whatever the keys:
\* a row that is short enough by itself is refused only by an arena that was written
\* out before and had grown for rows of another size.
THEOREM RefusalsHaveAReason == Spec => []RefusedOnlyInReusedArena
  <1>1. ArenaInv => RefusedOnlyInReusedArena
    BY DEF ArenaInv
  <1> QED BY ArenaInit, ArenaStep, <1>1, PTL DEF Spec

-----------------------------------------------------------------------------

\* The arena is refused what would take it past the memory.
ArenaFits ==
    /\ memory \in MemoryChoices
    /\ phase = "rows" => AllocatedBytes(capacity) <= memory

LEMMA ArenaFitsInit == Init => ArenaFits
  <1> SUFFICES ASSUME Init PROVE ArenaFits
    OBVIOUS
  <1>1. capacity.text = 0 /\ capacity.records = 0 /\ memory \in MemoryChoices
    BY DEF Init
  <1>2. memory \in Nat /\ ArenaRecordBytes \in Nat
    BY <1>1, SortAssumption
  <1>3. AllocatedBytes(capacity) = 0
    BY <1>1, <1>2 DEF AllocatedBytes
  <1> QED BY <1>1, <1>2, <1>3 DEF ArenaFits

LEMMA ArenaFitsStep == ArenaFits /\ [Next]_vars => ArenaFits'
  <1> SUFFICES ASSUME ArenaFits, [Next]_vars PROVE ArenaFits'
    OBVIOUS
  <1>1. CASE TakeRow
    <2>1. /\ AllocatedBytes(ReserveFor(next)) <= memory
          /\ capacity' = ReserveFor(next) /\ memory' = memory
      BY <1>1 DEF TakeRow
    <2> QED BY <2>1 DEF ArenaFits, AllocatedBytes
  <1>2. CASE UNCHANGED vars
    BY <1>2 DEF vars, arena, ArenaFits, AllocatedBytes
  <1>3. memory' = memory
    BY DEF Next, Step, TakeRow, RefuseRow, OneArena, StartMerge, BeginGroup, Pop, EndGroup, Abandon, vars
  <1>4. CASE RefuseRow \/ OneArena \/ StartMerge \/ BeginGroup \/ Pop \/ EndGroup \/ Abandon
    <2>1. phase' # "rows"
      BY <1>4 DEF RefuseRow, OneArena, StartMerge, BeginGroup, Pop, EndGroup, Abandon
    <2> QED BY <1>3, <2>1 DEF ArenaFits
  <1> QED BY <1>1, <1>2, <1>4 DEF Next, Step

\* A write buffer is a sixteenth of the memory or less.
LEMMA WriteBufferBound ==
    ASSUME memory \in Nat, memory >= 256
    PROVE  WriteBuffer \in Nat /\ WriteBuffer <= memory \div 16 /\ memory \div 16 \in Nat
           /\ 4 * WriteBuffer <= memory \div 4 /\ memory \div 4 \in Nat
  <1>1. PICK w : w = memory \div 16
    OBVIOUS
  <1>2. w \in Nat /\ w >= 1 /\ 4 * w <= memory \div 4
    BY <1>1
  <1>4. WriteBuffer \in Nat /\ WriteBuffer <= w
    BY <1>1, <1>2, BufferAssumption DEF WriteBuffer, Least, Greatest
  <1> QED BY <1>1, <1>2, <1>4

\* with_build_memory_bytes: for every dictionary, ceiling and record size, the arena
\* and, in any pass, the records, cursors, heap places and read buffers of a group stay
\* within the memory; the write buffers beside them add a quarter of it while rows are
\* collected, and a sixteenth in a merge, or less.
THEOREM BuildMemoryIsBounded == Spec => []BuildMemoryBounded
  <1>1. ASSUME ArenaInv, ArenaFits PROVE BuildMemoryBounded
    <2>1. memory \in Nat /\ memory >= 256 /\ MergeInv
      BY <1>1, SortAssumption DEF ArenaInv, ArenaFits
    <2>2. WriteBuffer \in Nat /\ WriteBuffer <= memory \div 16 /\ memory \div 16 \in Nat
          /\ 4 * WriteBuffer <= memory \div 4 /\ memory \div 4 \in Nat
      BY <2>1, WriteBufferBound
    <2>3. ASSUME phase = "rows"
          PROVE  AllocatedBytes(capacity) + 4 * WriteBuffer <= memory + memory \div 4
      <3>1. PICK a : a = AllocatedBytes(capacity)
        OBVIOUS
      <3>2. capacity.text \in Nat /\ capacity.records \in Nat
        BY <1>1, <2>3 DEF ArenaInv, ArenaOK
      <3>3. a \in Nat /\ a <= memory
        BY <1>1, <2>3, <3>1, <3>2, SortAssumption DEF AllocatedBytes, ArenaFits
      <3> QED BY <2>1, <2>2, <3>1, <3>3
    <2>4. ASSUME group # NoGroup
          PROVE  group.size * (BasePerRun + readBuffer) + WriteBuffer <= memory + memory \div 16
      <3>1. PICK a : a = group.size * (BasePerRun + readBuffer)
        OBVIOUS
      <3>2. group.size \in Nat /\ readBuffer \in Nat /\ BasePerRun \in Nat
        BY <2>1, <2>4, FanInNat DEF MergeInv
      <3>3. a \in Nat /\ a <= memory
        BY <2>1, <2>4, <3>1, <3>2 DEF MergeInv, GroupFits
      <3> QED BY <2>1, <2>2, <3>1, <3>3
    <2> QED BY <2>3, <2>4 DEF BuildMemoryBounded
  <1> QED BY ArenaInit, ArenaStep, ArenaFitsInit, ArenaFitsStep, <1>1, PTL DEF Spec

=============================================================================
