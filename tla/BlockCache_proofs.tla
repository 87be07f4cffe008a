-------------------------- MODULE BlockCache_proofs -------------------------
(***************************************************************************)
(* For every layout and every file, however damaged, and whatever callers  *)
(* decode in whatever order: the two slots hold only what KeyCacheSound    *)
(* and RecordCacheSound allow, and a caller is never given anything else.  *)
(*                                                                         *)
(* KeyCacheSound is inductive together with file \in Files: a miss uses    *)
(* the slot only for the predecessor, which the induction hypothesis       *)
(* covers, and everything else it uses it has decoded itself.              *)
(***************************************************************************)
EXTENDS BlockCache, WellFoundedInduction, TLAPS

\* The two invariants, of any value a slot might have.
KeySlotSound(s) ==
    s # Empty =>
        /\ s.index \in KeyBlocks
        /\ SoundKeyResult(s.index, s.value)
        /\ IsFailure(s.value) => s.value.class # "transient"

RecordSlotSound(s) ==
    s # Empty =>
        /\ s.index \in RecordBlocks
        /\ s.value = OwnRecordResult(s.index)

CacheInv == file \in Files /\ KeyCacheSound /\ RecordCacheSound

-----------------------------------------------------------------------------

\* A set of numbers that is not empty has a least one; the library states it of a
\* well-founded relation and any set.
LEMMA LeastNumber ==
    ASSUME NEW T, T \subseteq Nat, T # {}
    PROVE  \E m \in T : \A k \in T : m <= k
  <1> DEFINE R == {ss \in Nat \X Nat : ss[1] < ss[2]}
  <1>1. IsWellFoundedOn(R, Nat)
    BY NatLessThanWellFounded DEF OpToRel
  <1>2. PICK x \in T : \A y \in T : ~(<<y, x>> \in R)
    <2> HIDE DEF R
    <2> QED BY <1>1, WFMin, Zenon
  <1>3. ASSUME NEW k \in T PROVE x <= k
    <2>1. x \in Nat /\ k \in Nat
      OBVIOUS
    <2>2. <<k, x>> \notin R
      BY <1>2
    <2>3. ~(k < x)
      BY <2>1, <2>2
    <2> QED BY <2>1, <2>3
  <1> QED BY <1>3

\* Induction, for a property given as the set of numbers that have it.
LEMMA SetInduction ==
    ASSUME NEW S, 0 \in S, \A n \in Nat : n \in S => n + 1 \in S
    PROVE  Nat \subseteq S
  <1> DEFINE T == Nat \ S
  <1> SUFFICES ASSUME T # {} PROVE FALSE
    OBVIOUS
  <1>1. PICK m \in T : \A k \in T : m <= k
    <2>1. T \subseteq Nat
      OBVIOUS
    <2> HIDE DEF T
    <2> QED BY <2>1, LeastNumber
  <1>2. m \in Nat /\ m # 0 /\ m - 1 \in Nat /\ m - 1 \notin T
    BY <1>1
  <1>3. (m - 1) + 1 \in S
    BY <1>2
  <1> QED BY <1>2, <1>3

\* g gives the running totals of the first n sizes.
Totals(g, sizes, n) == g = [i \in 0..n |-> IF i = 0 THEN 0 ELSE g[i - 1] + sizes[i]]

\* Running totals exist for any number of sizes, so that the recursive definition of
\* Starts defines them.
LEMMA TotalsExist ==
    ASSUME NEW sizes, NEW n \in Nat
    PROVE  \E g : Totals(g, sizes, n)
  <1> DEFINE S == {m \in Nat : \E g : Totals(g, sizes, m)}
  <1>1. 0 \in S
    <2>1. Totals([i \in 0..0 |-> 0], sizes, 0)
      BY DEF Totals
    <2> QED BY <2>1
  <1>2. ASSUME NEW m \in Nat, NEW g, Totals(g, sizes, m)
        PROVE  \E h : Totals(h, sizes, m + 1)
    <2> DEFINE h == [i \in 0..(m + 1) |-> IF i = m + 1 THEN g[m] + sizes[m + 1] ELSE g[i]]
               k == [i \in 0..(m + 1) |-> IF i = 0 THEN 0 ELSE h[i - 1] + sizes[i]]
    <2>1. \A i \in 0..m : g[i] = IF i = 0 THEN 0 ELSE g[i - 1] + sizes[i]
      BY <1>2 DEF Totals
    <2>2. ASSUME NEW i \in 0..(m + 1) PROVE h[i] = k[i]
      <3>1. CASE i = m + 1
        BY <3>1
      <3>2. CASE i # m + 1
        <4>1. i \in 0..m /\ h[i] = g[i] /\ (i # 0 => i - 1 \in 0..m /\ h[i - 1] = g[i - 1])
          BY <3>2
        <4> QED BY <2>1, <4>1
      <3> QED BY <3>1, <3>2
    <2>3. h = k
      BY <2>2, Zenon
    <2> QED BY <2>3, Zenon DEF Totals
  <1>3. \A m \in Nat : m \in S => m + 1 \in S
    BY <1>2
  <1> HIDE DEF S
  <1>4. n \in S
    BY <1>1, <1>3, SetInduction
  <1> QED BY <1>4 DEF S

\* Starts is what its definition says.
LEMMA StartsDef ==
    ASSUME NEW sizes \in Seq(Nat)
    PROVE  Totals(Starts(sizes), sizes, Len(sizes))
  <1>1. Len(sizes) \in Nat
    OBVIOUS
  <1>2. \E g : Totals(g, sizes, Len(sizes))
    BY <1>1, TotalsExist
  <1> QED BY <1>2, Zenon DEF Starts, Totals

\* Running totals start at 0 and grow by the sizes.
LEMMA TotalsStep ==
    ASSUME NEW sizes \in Seq(Nat), NEW g, Totals(g, sizes, Len(sizes))
    PROVE  /\ g[0] = 0
           /\ \A i \in 0..(Len(sizes) - 1) : g[i + 1] = g[i] + sizes[i + 1]
           /\ g \in [0..Len(sizes) -> Nat]
  <1> DEFINE n == Len(sizes)
  <1>1. n \in Nat /\ \A i \in 1..n : sizes[i] \in Nat
    OBVIOUS
  <1>2. Totals(g, sizes, n)
    OBVIOUS
  <1> HIDE DEF n
  <1>3. DOMAIN g = 0..n /\ \A i \in 0..n : g[i] = IF i = 0 THEN 0 ELSE g[i - 1] + sizes[i]
    BY <1>2 DEF Totals
  <1>a. g = [i \in 0..n |-> g[i]]
    BY <1>2, Zenon DEF Totals
  <1>4. g[0] = 0
    BY <1>1, <1>3
  <1>5. \A i \in 0..(n - 1) : g[i + 1] = g[i] + sizes[i + 1]
    <2> SUFFICES ASSUME NEW i \in 0..(n - 1) PROVE g[i + 1] = g[i] + sizes[i + 1]
      OBVIOUS
    <2>1. i + 1 \in 0..n /\ i + 1 # 0 /\ (i + 1) - 1 = i
      BY <1>1
    <2> QED BY <1>3, <2>1
  <1> DEFINE S == {m \in Nat : m <= n => g[m] \in Nat}
  <1>6. 0 \in S
    BY <1>4
  <1>7. ASSUME NEW m \in Nat, m \in S PROVE m + 1 \in S
    <2>1. CASE m + 1 <= n
      <3>1. m \in 0..(n - 1) /\ m + 1 \in 1..n /\ m <= n
        BY <1>1, <2>1
      <3>2. g[m + 1] = g[m] + sizes[m + 1] /\ sizes[m + 1] \in Nat
        BY <1>1, <1>5, <3>1
      <3>3. g[m] \in Nat
        BY <1>7, <3>1
      <3> QED BY <3>2, <3>3
    <2>2. CASE ~(m + 1 <= n)
      BY <2>2
    <2> QED BY <2>1, <2>2
  <1> HIDE DEF S
  <1>8. Nat \subseteq S
    BY <1>6, <1>7, SetInduction
  <1>9. \A i \in 0..n : g[i] \in Nat
    BY <1>1, <1>8 DEF S
  <1>10. g \in [0..n -> Nat]
    BY <1>9, <1>a
  <1> QED BY <1>4, <1>5, <1>10 DEF n

\* Running totals do not decrease.
LEMMA TotalsMonotone ==
    ASSUME NEW sizes \in Seq(Nat), NEW g, Totals(g, sizes, Len(sizes)),
           NEW i \in 0..Len(sizes), NEW j \in 0..Len(sizes), i <= j
    PROVE  g[i] <= g[j]
  <1> DEFINE n == Len(sizes)
             S == {m \in Nat : i <= m /\ m <= n => g[i] <= g[m]}
  <1>1. n \in Nat /\ \A k \in 1..n : sizes[k] \in Nat
    OBVIOUS
  <1>2. (\A k \in 0..(n - 1) : g[k + 1] = g[k] + sizes[k + 1]) /\ g \in [0..n -> Nat]
    BY TotalsStep
  <1>3. 0 \in S
    BY <1>1, <1>2
  <1>4. ASSUME NEW m \in Nat, m \in S PROVE m + 1 \in S
    <2>1. CASE i <= m /\ m + 1 <= n
      <3>1. m \in 0..(n - 1) /\ m + 1 \in 1..n /\ m <= n /\ i \in 0..n /\ m \in 0..n
        BY <1>1, <2>1
      <3>2. g[m + 1] = g[m] + sizes[m + 1] /\ sizes[m + 1] \in Nat /\ g[m] \in Nat /\ g[i] \in Nat
        BY <1>1, <1>2, <3>1
      <3>3. g[i] <= g[m]
        BY <1>4, <2>1, <3>1
      <3>4. g[i] <= g[m + 1]
        BY <3>2, <3>3
      <3> QED BY <3>4
    <2>2. CASE i = m + 1
      <3>1. g[i] \in Nat
        BY <1>2
      <3> QED BY <2>2, <3>1
    <2>3. CASE ~(i <= m + 1 /\ m + 1 <= n)
      BY <2>3
    <2> QED BY <2>1, <2>2, <2>3
  <1> HIDE DEF S
  <1>5. Nat \subseteq S
    BY <1>3, <1>4, SetInduction
  <1>6. j \in S
    BY <1>1, <1>5
  <1> QED BY <1>1, <1>6 DEF S

\* Blocks start at 0 and follow one another without a gap.
LEMMA StartsStep ==
    ASSUME NEW sizes \in Seq(Nat)
    PROVE  /\ Starts(sizes)[0] = 0
           /\ \A i \in 0..(Len(sizes) - 1) :
                 Starts(sizes)[i + 1] = Starts(sizes)[i] + sizes[i + 1]
           /\ Starts(sizes) \in [0..Len(sizes) -> Nat]
  BY StartsDef, TotalsStep

\* Later blocks do not start earlier.
LEMMA StartsMonotone ==
    ASSUME NEW sizes \in Seq(Nat), NEW i \in 0..Len(sizes), NEW j \in 0..Len(sizes), i <= j
    PROVE  Starts(sizes)[i] <= Starts(sizes)[j]
  BY StartsDef, TotalsMonotone

\* One round of the loop, which looks at the window w of the blocks, with the result f
\* of the windows it goes on with.
Round(f, lo, sizes, x, w) ==
    LET mid == (w[1] + w[2]) \div 2 IN
    IF w[1] >= w[2] THEN -1
    ELSE IF x < lo[mid] THEN f[<<w[1], mid>>]
    ELSE IF x >= lo[mid] + sizes[mid + 1] THEN f[<<mid + 1, w[2]>>]
    ELSE mid

\* The windows of the search: the blocks from w[1] up to w[2].
Windows(n) == (0..n) \X (0..n)

\* A round asks only about narrower windows.
LEMMA RoundNarrows ==
    ASSUME NEW n \in Nat, NEW w \in Windows(n), NEW lo, NEW sizes, NEW x, NEW f, NEW g,
           \A v \in Windows(n) : v[2] - v[1] < w[2] - w[1] => f[v] = g[v]
    PROVE  Round(f, lo, sizes, x, w) = Round(g, lo, sizes, x, w)
  <1> DEFINE mid == (w[1] + w[2]) \div 2
  <1>1. PICK l \in 0..n, r \in 0..n : w = <<l, r>> /\ w[1] = l /\ w[2] = r
    BY DEF Windows
  <1>2. CASE l >= r
    BY <1>1, <1>2 DEF Round
  <1>3. CASE l < r
    <2>1. mid \in 0..n /\ mid + 1 \in 0..n /\ mid - l < r - l /\ r - (mid + 1) < r - l
      BY <1>1, <1>3
    <2>2. f[<<l, mid>>] = g[<<l, mid>>]
      <3>1. <<l, mid>> \in Windows(n) /\ <<l, mid>>[1] = l /\ <<l, mid>>[2] = mid
        BY <2>1 DEF Windows
      <3> HIDE DEF mid
      <3> QED BY <1>1, <2>1, <3>1
    <2>3. f[<<mid + 1, r>>] = g[<<mid + 1, r>>]
      <3>1. <<mid + 1, r>> \in Windows(n) /\ <<mid + 1, r>>[1] = mid + 1
            /\ <<mid + 1, r>>[2] = r
        BY <2>1 DEF Windows
      <3> HIDE DEF mid
      <3> QED BY <1>1, <2>1, <3>1
    <2> QED BY <1>1, <1>3, <2>2, <2>3 DEF Round
  <1> QED BY <1>1, <1>2, <1>3

\* f is right about the windows of up to d blocks.
Finds(f, lo, sizes, x, n, d) ==
    \A w \in Windows(n) : w[2] - w[1] <= d => f[w] = Round(f, lo, sizes, x, w)

\* f is right about all windows: the function the search defines.
IsFind(f, lo, sizes, x, n) == f = [w \in Windows(n) |-> Round(f, lo, sizes, x, w)]

\* The search is well defined, by induction on the width of the windows.
LEMMA FindsExist ==
    ASSUME NEW lo, NEW sizes, NEW x, NEW n \in Nat
    PROVE  \E f : IsFind(f, lo, sizes, x, n)
  <1> DEFINE S == {k \in Nat : \E f : Finds(f, lo, sizes, x, n, k)}
  <1>w. \A w \in Windows(n) : w[1] \in 0..n /\ w[2] \in 0..n
    BY DEF Windows
  <1>1. 0 \in S
    <2> DEFINE f == [w \in Windows(n) |-> -1]
    <2>2. Finds(f, lo, sizes, x, n, 0)
      BY <1>w DEF Finds, Round
    <2> QED BY <2>2
  <1>2. ASSUME NEW k \in Nat, NEW f, Finds(f, lo, sizes, x, n, k)
        PROVE  \E g : Finds(g, lo, sizes, x, n, k + 1)
    <2> DEFINE g == [w \in Windows(n) |-> Round(f, lo, sizes, x, w)]
    <2>1. \A w \in Windows(n) : g[w] = Round(f, lo, sizes, x, w)
      OBVIOUS
    <2>2. \A w \in Windows(n) : w[2] - w[1] <= k => g[w] = f[w]
      BY <1>2, <2>1 DEF Finds
    <2> HIDE DEF g
    <2>3. ASSUME NEW w \in Windows(n), w[2] - w[1] <= k + 1
          PROVE  g[w] = Round(g, lo, sizes, x, w)
      <3>1. \A v \in Windows(n) : v[2] - v[1] < w[2] - w[1] => f[v] = g[v]
        BY <1>w, <2>2, <2>3
      <3>2. Round(f, lo, sizes, x, w) = Round(g, lo, sizes, x, w)
        BY <3>1, RoundNarrows
      <3> QED BY <2>1, <3>2
    <2> QED BY <2>3 DEF Finds
  <1>3. \A k \in Nat : k \in S => k + 1 \in S
    BY <1>2
  <1>4. n \in S
    <2> HIDE DEF S
    <2> QED BY <1>1, <1>3, SetInduction
  <1>5. PICK f : Finds(f, lo, sizes, x, n, n)
    BY <1>4
  <1> DEFINE g == [w \in Windows(n) |-> f[w]]
             h == [w \in Windows(n) |-> Round(g, lo, sizes, x, w)]
  <1>6. ASSUME NEW w \in Windows(n) PROVE g[w] = h[w]
    <2>1. w[2] - w[1] <= n
      BY <1>w
    <2>2. f[w] = Round(f, lo, sizes, x, w)
      BY <1>5, <2>1 DEF Finds
    <2>3. \A v \in Windows(n) : f[v] = g[v]
      OBVIOUS
    <2> HIDE DEF g
    <2>4. Round(f, lo, sizes, x, w) = Round(g, lo, sizes, x, w)
      BY <2>3, RoundNarrows
    <2> QED BY <2>2, <2>3, <2>4
  <1>7. g = h
    BY <1>6, Zenon
  <1> QED BY <1>7, Zenon DEF IsFind

\* Search is what its definition says.
LEMMA SearchDef ==
    ASSUME NEW lo, NEW sizes \in Seq(Nat), NEW x
    PROVE  \E f : /\ \A w \in Windows(Len(sizes)) : f[w] = Round(f, lo, sizes, x, w)
                  /\ Search(lo, sizes, x) = f[<<0, Len(sizes)>>]
  <1> DEFINE n == Len(sizes)
             f == CHOOSE g : IsFind(g, lo, sizes, x, n)
  <1>1. n \in Nat
    OBVIOUS
  <1>2. IsFind(f, lo, sizes, x, n)
    <2> HIDE DEF n
    <2>1. \E g : IsFind(g, lo, sizes, x, n)
      BY <1>1, FindsExist
    <2> QED BY <2>1, Zenon
  <1>3. \A w \in Windows(n) : f[w] = Round(f, lo, sizes, x, w)
    <2> HIDE DEF f
    <2> QED BY <1>2, Zenon DEF IsFind
  <1>4. Search(lo, sizes, x) = f[<<0, n>>]
    BY Zenon DEF Search, Round, Windows, IsFind
  <1> HIDE DEF f
  <1> QED BY <1>3, <1>4

\* Block m holds position x.
Holds(lo, sizes, x, m) ==
    m \in 0..(Len(sizes) - 1) /\ lo[m] <= x /\ x < lo[m] + sizes[m + 1]

\* The binary search finds the block of every position there is.
THEOREM SearchFinds ==
    ASSUME NEW sizes \in Seq(Nat), NEW x \in Nat, x < Starts(sizes)[Len(sizes)]
    PROVE  Holds(Starts(sizes), sizes, x, Search(Starts(sizes), sizes, x))
  <1> DEFINE lo == Starts(sizes)
             n == Len(sizes)
             Within(w) == lo[w[1]] <= x /\ x < lo[w[2]]
  <1>1. n \in Nat /\ \A k \in 1..n : sizes[k] \in Nat
    OBVIOUS
  <1>2. /\ lo[0] = 0 /\ lo \in [0..n -> Nat]
        /\ \A k \in 0..(n - 1) : lo[k + 1] = lo[k] + sizes[k + 1]
    BY StartsStep
  <1>3. \A i, j \in 0..n : i <= j => lo[i] <= lo[j]
    BY StartsMonotone
  <1>4. PICK f : /\ \A w \in Windows(n) : f[w] = Round(f, lo, sizes, x, w)
                 /\ Search(lo, sizes, x) = f[<<0, n>>]
    BY SearchDef
  <1> HIDE DEF lo, n
  <1> DEFINE S == {k \in Nat : \A w \in Windows(n) :
                      w[2] - w[1] <= k /\ Within(w) => Holds(lo, sizes, x, f[w])}
  <1>5. 0 \in S
    <2> SUFFICES ASSUME NEW w \in Windows(n), w[2] - w[1] <= 0, Within(w) PROVE FALSE
      BY Zenon
    <2>1. w[1] \in 0..n /\ w[2] \in 0..n
      BY DEF Windows
    <2> QED BY <1>1, <1>2, <1>3, <2>1
  <1>6. ASSUME NEW k \in Nat, k \in S PROVE k + 1 \in S
    <2> SUFFICES ASSUME NEW w \in Windows(n), w[2] - w[1] <= k + 1, Within(w)
                 PROVE  Holds(lo, sizes, x, f[w])
      OBVIOUS
    <2>1. PICK l \in 0..n, r \in 0..n : w = <<l, r>> /\ w[1] = l /\ w[2] = r
      BY DEF Windows
    <2> DEFINE mid == (l + r) \div 2
    <2>2. l < r
      BY <1>1, <1>2, <1>3, <2>1
    <2>3. /\ mid \in 0..n /\ mid + 1 \in 0..n /\ mid \in 0..(n - 1) /\ mid + 1 \in 1..n
          /\ mid - l <= k /\ r - (mid + 1) <= k
      BY <1>1, <2>1, <2>2
    <2>4. lo[mid] \in Nat /\ sizes[mid + 1] \in Nat /\ lo[mid + 1] = lo[mid] + sizes[mid + 1]
      <3> HIDE DEF mid
      <3> QED BY <1>1, <1>2, <2>3
    <2>5. f[w] = IF x < lo[mid] THEN f[<<l, mid>>]
                 ELSE IF x >= lo[mid] + sizes[mid + 1] THEN f[<<mid + 1, r>>] ELSE mid
      <3>1. f[w] = Round(f, lo, sizes, x, w)
        BY <1>4
      <3>2. ~(w[1] >= w[2])
        BY <2>1, <2>2
      <3> QED BY <2>1, <3>1, <3>2, Zenon DEF Round
    <2> HIDE DEF mid
    <2>6. CASE x < lo[mid]
      <3>1. <<l, mid>> \in Windows(n) /\ <<l, mid>>[1] = l /\ <<l, mid>>[2] = mid
        BY <2>3 DEF Windows
      <3>2. Within(<<l, mid>>)
        BY <2>1, <2>6, <3>1
      <3> HIDE DEF Within
      <3>3. Holds(lo, sizes, x, f[<<l, mid>>])
        BY <1>6, <2>3, <3>1, <3>2
      <3> QED BY <2>5, <2>6, <3>3
    <2>7. CASE ~(x < lo[mid]) /\ x >= lo[mid] + sizes[mid + 1]
      <3>1. <<mid + 1, r>> \in Windows(n) /\ <<mid + 1, r>>[1] = mid + 1
            /\ <<mid + 1, r>>[2] = r
        BY <2>3 DEF Windows
      <3>2. Within(<<mid + 1, r>>)
        BY <2>1, <2>4, <2>7, <3>1
      <3> HIDE DEF Within
      <3>3. Holds(lo, sizes, x, f[<<mid + 1, r>>])
        BY <1>6, <2>3, <3>1, <3>2
      <3> QED BY <2>5, <2>7, <3>3
    <2>8. CASE ~(x < lo[mid]) /\ ~(x >= lo[mid] + sizes[mid + 1])
      BY <2>3, <2>4, <2>5, <2>8 DEF Holds, n
    <2> QED BY <2>6, <2>7, <2>8
  <1>7. n \in S
    <2> HIDE DEF S
    <2>1. Nat \subseteq S
      BY <1>5, <1>6, SetInduction
    <2> QED BY <1>1, <2>1
  <1>8. <<0, n>> \in Windows(n) /\ <<0, n>>[1] = 0 /\ <<0, n>>[2] = n
    BY <1>1 DEF Windows
  <1>9. x < lo[n]
    BY DEF lo, n
  <1>10. Holds(lo, sizes, x, f[<<0, n>>])
    BY <1>1, <1>2, <1>7, <1>8, <1>9
  <1> QED BY <1>4, <1>10 DEF lo

\* The layout of the key blocks and of the record blocks.
LEMMA KeyLayout ==
    /\ NEntries \in Nat /\ NEntries = EntryStart[NKey] /\ EntryStart[0] = 0
    /\ EntryStart \in [0..NKey -> Nat]
    /\ \A b \in KeyBlocks :
          /\ EntryCount(b) \in Nat /\ EntryCount(b) > 0
          /\ EntryStart[b + 1] = EntryStart[b] + EntryCount(b)
          /\ EntryStart[b + 1] <= NEntries
    /\ \A b \in KeyBlocks, c \in 0..NKey : b < c => EntryStart[b + 1] <= EntryStart[c]
  <1>1. KeyCounts \in Seq(Nat) /\ NKey \in Nat /\ NKey = Len(KeyCounts)
    BY LayoutAssumption DEF NKey
  <1>2. \A b \in KeyBlocks : EntryCount(b) \in Nat /\ EntryCount(b) > 0
    BY LayoutAssumption DEF NKey, KeyBlocks, EntryCount
  <1>3. /\ EntryStart[0] = 0 /\ EntryStart \in [0..NKey -> Nat]
        /\ \A b \in 0..(NKey - 1) : EntryStart[b + 1] = EntryStart[b] + KeyCounts[b + 1]
    BY <1>1, StartsStep DEF EntryStart
  <1>4. \A b, c \in 0..NKey : b <= c => EntryStart[b] <= EntryStart[c]
    BY <1>1, StartsMonotone DEF EntryStart
  <1>5. \A b \in KeyBlocks : b \in Nat /\ b + 1 \in 0..NKey /\ b + 1 <= NKey
    BY <1>1 DEF KeyBlocks
  <1>6. NKey \in 0..NKey
    BY <1>1
  <1>7. \A b \in KeyBlocks, c \in 0..NKey : b < c => EntryStart[b + 1] <= EntryStart[c]
    BY <1>1, <1>4, <1>5
  <1> QED BY <1>1, <1>2, <1>3, <1>4, <1>5, <1>6, <1>7 DEF NEntries, KeyBlocks, EntryCount

LEMMA KeyBlockFound ==
    ASSUME NEW o \in Nat, o < NEntries
    PROVE  /\ FindKeyBlock(o) \in KeyBlocks
           /\ EntryStart[FindKeyBlock(o)] <= o /\ o < EntryStart[FindKeyBlock(o) + 1]
  <1>1. KeyCounts \in Seq(Nat)
    BY LayoutAssumption
  <1>2. Holds(EntryStart, KeyCounts, o, FindKeyBlock(o))
    BY <1>1, SearchFinds DEF FindKeyBlock, EntryStart, NEntries, NKey
  <1>3. FindKeyBlock(o) \in KeyBlocks
    BY <1>2 DEF Holds, KeyBlocks, NKey
  <1> QED BY <1>2, <1>3, KeyLayout DEF Holds, EntryCount

LEMMA RecordLayout ==
    /\ TotalLen \in Nat
    /\ DecompOffset \in [0..NRecord -> Nat]
    /\ \A i \in RecordBlocks :
          /\ DecompSize(i) \in Nat
          /\ DecompOffset[i + 1] = DecompOffset[i] + DecompSize(i)
          /\ DecompOffset[i] \in Nat
  <1>1. RecordSizes \in Seq(Nat) /\ NRecord \in Nat /\ NRecord = Len(RecordSizes)
    BY LayoutAssumption DEF NRecord
  <1>2. \A i \in RecordBlocks : DecompSize(i) \in Nat
    BY LayoutAssumption DEF NRecord, RecordBlocks, DecompSize
  <1>3. /\ DecompOffset \in [0..NRecord -> Nat]
        /\ \A i \in 0..(NRecord - 1) :
              DecompOffset[i + 1] = DecompOffset[i] + RecordSizes[i + 1]
    BY <1>1, StartsStep DEF DecompOffset
  <1>4. NRecord \in 0..NRecord /\ \A i \in RecordBlocks : i \in 0..NRecord
    BY <1>1 DEF RecordBlocks
  <1> QED BY <1>2, <1>3, <1>4 DEF TotalLen, RecordBlocks, DecompSize

LEMMA RecordBlockFound ==
    ASSUME NEW x \in Nat, x < TotalLen
    PROVE  /\ FindRecordBlock(x) \in RecordBlocks
           /\ DecompOffset[FindRecordBlock(x)] <= x
           /\ x < DecompOffset[FindRecordBlock(x) + 1]
  <1>1. RecordSizes \in Seq(Nat)
    BY LayoutAssumption
  <1>2. Holds(DecompOffset, RecordSizes, x, FindRecordBlock(x))
    BY <1>1, SearchFinds DEF FindRecordBlock, DecompOffset, TotalLen, NRecord
  <1>3. FindRecordBlock(x) \in RecordBlocks
    BY <1>2 DEF Holds, RecordBlocks, NRecord
  <1> QED BY <1>2, <1>3, RecordLayout DEF Holds, DecompSize

-----------------------------------------------------------------------------

\* The numbers of blocks.
LEMMA BlockNumbers ==
    /\ NKey \in Nat /\ NRecord \in Nat
    /\ \A b \in KeyBlocks : b \in Int /\ 0 <= b /\ (b # 0 => b - 1 \in KeyBlocks)
    /\ \A i \in RecordBlocks : i \in Int /\ 0 <= i
  BY LayoutAssumption DEF NKey, NRecord, KeyBlocks, RecordBlocks

\* A block that does not decode fails for good, and is at fault.
LEMMA OwnKeyResultSound ==
    ASSUME file \in Files, NEW b \in KeyBlocks
    PROVE  /\ OwnKeyResult(b).tag \in {"ready", "failed"}
           /\ IsFailure(OwnKeyResult(b)) =>
                 /\ OwnKeyResult(b) \in Failures /\ FaultyKeyBlock(b)
                 /\ OwnKeyResult(b).class # "transient"
  <1>1. file.keyFault[b] \in Faults
    BY LayoutAssumption
  <1>2. OwnKeyResult(b).tag \in {"ready", "failed"}
    BY DEF OwnKeyResult, Failed
  <1>3. IsFailure(OwnKeyResult(b)) =>
           OwnKeyResult(b) \in Failures /\ OwnKeyResult(b).class # "transient"
    BY <1>1, BlockNumbers DEF OwnKeyResult, Failed, IsFailure, Faults, Failures
  <1> QED
    BY <1>2, <1>3 DEF FaultyKeyBlock

LEMMA OwnRecordResultSound ==
    ASSUME file \in Files, NEW i \in RecordBlocks
    PROVE  /\ OwnRecordResult(i).tag \in {"ready", "failed"}
           /\ IsFailure(OwnRecordResult(i)) => OwnRecordResult(i).class \in {"format", "data"}
  <1>1. file.recordFault[i] \in Faults
    BY LayoutAssumption
  <1> QED
    BY <1>1 DEF OwnRecordResult, Failed, IsFailure, Faults

\* What a hit hands out is what the slot holds, or a transient failure.
LEMMA FromCacheSound ==
    ASSUME NEW v, NEW r \in FromCache(v)
    PROVE  r = v \/ r = Transient
  BY DEF FromCache, Replay

\* The predecessor block b is checked against: sound rows of block b - 1, or a
\* failure with a cause before block b.
LEMMA PredecessorSound ==
    ASSUME CacheInv, NEW b \in KeyBlocks, NEW p \in Predecessor(b)
    PROVE  IF IsFailure(p)
           THEN /\ p \in Failures
                /\ p # Transient =>
                      \E j \in 0..b : FaultyKeyBlock(j) /\ p = BlockFailure(j)
           ELSE b = 0 \/ (p = OwnKeyResult(b - 1) /\ ~IsFailure(OwnKeyResult(b - 1)))
  <1>1. CASE b = 0
    <2>1. p = NoPredecessor
      BY <1>1 DEF Predecessor
    <2>2. ~IsFailure(p)
      BY <2>1 DEF NoPredecessor, IsFailure
    <2> QED BY <1>1, <2>2
  <1>2. CASE b # 0
    <2>0. b - 1 \in KeyBlocks /\ b \in Int /\ b > 0
      BY <1>2, BlockNumbers
    <2>t. IsFailure(Transient) /\ Transient.class = "transient" /\ Transient \in Failures
      BY DEF Transient, Failed, IsFailure, Failures
    <2>1. CASE keyCache.index = b - 1
      <3>1. keyCache # Empty
        BY <2>0, <2>1 DEF Empty
      <3>2. SoundKeyResult(b - 1, keyCache.value)
        BY <3>1, <2>1 DEF CacheInv, KeyCacheSound
      <3>3. p = keyCache.value \/ p = Transient
        BY <1>2, <2>1, FromCacheSound DEF Predecessor
      <3>4. CASE p = Transient
        BY <3>4, <2>t
      <3>5. CASE p = keyCache.value /\ IsFailure(p)
        <4>1. /\ p \in Failures
              /\ p # Transient =>
                    \E j \in 0..(b - 1) : FaultyKeyBlock(j) /\ p = BlockFailure(j)
          BY <3>5, <3>2 DEF SoundKeyResult
        <4> QED BY <4>1, <3>5, <2>0
      <3>6. CASE p = keyCache.value /\ ~IsFailure(p)
        BY <3>6, <3>2 DEF SoundKeyResult
      <3> QED BY <3>3, <3>4, <3>5, <3>6
    <2>2. CASE keyCache.index # b - 1
      <3>1. p = OwnKeyResult(b - 1) \/ p = Transient
        BY <1>2, <2>2 DEF Predecessor, DecodeKeyBlockUncached
      <3>2. IsFailure(OwnKeyResult(b - 1)) =>
               /\ FaultyKeyBlock(b - 1) /\ OwnKeyResult(b - 1) \in Failures
               /\ OwnKeyResult(b - 1) = BlockFailure(b - 1)
        BY <2>0, OwnKeyResultSound DEF CacheInv, BlockFailure
      <3>3. b - 1 \in 0..b
        BY <2>0, BlockNumbers
      <3> QED BY <3>1, <3>2, <3>3, <2>t
    <2> QED BY <2>1, <2>2
  <1> QED BY <1>1, <1>2

\* Decoding block b against an accepted predecessor.
LEMMA CheckedSound ==
    ASSUME CacheInv, NEW b \in KeyBlocks, NEW own \in DecodeKeyBlockUncached(b),
           NEW p, b = 0 \/ (p = OwnKeyResult(b - 1) /\ ~IsFailure(OwnKeyResult(b - 1)))
    PROVE  SoundKeyResult(b, Checked(b, p, own))
  <1>0. b \in Int /\ 0 <= b /\ b \in 0..b
    BY BlockNumbers
  <1>t. IsFailure(Transient) /\ Transient.class = "transient" /\ Transient \in Failures
    BY DEF Transient, Failed, IsFailure, Failures
  <1>1. own = OwnKeyResult(b) \/ own = Transient
    BY DEF DecodeKeyBlockUncached
  <1>2. CASE own = Transient
    BY <1>2, <1>t DEF Checked, SoundKeyResult
  <1>3. CASE own = OwnKeyResult(b) /\ IsFailure(own)
    <2>1. FaultyKeyBlock(b) /\ own \in Failures /\ own = BlockFailure(b)
      BY <1>3, OwnKeyResultSound DEF CacheInv, BlockFailure
    <2>2. Checked(b, p, own) = own
      BY <1>3 DEF Checked
    <2> QED BY <2>1, <2>2, <1>0, <1>3 DEF SoundKeyResult
  <1>4. CASE own = OwnKeyResult(b) /\ ~IsFailure(own) /\ b = 0
    <2>1. Checked(b, p, own) = own
      BY <1>4 DEF Checked
    <2>2. ~FaultyKeyBlock(b)
      BY <1>4 DEF FaultyKeyBlock
    <2> QED BY <2>1, <2>2, <1>0, <1>4 DEF SoundKeyResult
  <1>5. CASE own = OwnKeyResult(b) /\ ~IsFailure(own) /\ b # 0
    <2>0. p = OwnKeyResult(b - 1) /\ ~IsFailure(OwnKeyResult(b - 1)) /\ b > 0
      BY <1>5, <1>0
    <2>1. CASE LastStart(b - 1, p) > own.rows[0].start
      <3>1. FaultyKeyBlock(b)
        BY <2>0, <2>1, <1>5 DEF FaultyKeyBlock
      <3>2. Checked(b, p, own) = Failed("data", b) /\ Failed("data", b) = BlockFailure(b)
        BY <2>1, <1>5 DEF Checked, BlockFailure
      <3>3. IsFailure(Checked(b, p, own)) /\ Checked(b, p, own) \in Failures
        BY <3>2, <1>0 DEF Failed, IsFailure, Failures
      <3> QED BY <3>1, <3>2, <3>3, <1>0 DEF SoundKeyResult
    <2>2. CASE ~(LastStart(b - 1, p) > own.rows[0].start)
      <3>1. Checked(b, p, own) = own
        BY <2>2, <1>5 DEF Checked
      <3>2. ~FaultyKeyBlock(b)
        BY <2>0, <2>2, <1>5 DEF FaultyKeyBlock
      <3> QED BY <3>1, <3>2, <2>0, <1>5 DEF SoundKeyResult
    <2> QED BY <2>1, <2>2
  <1> QED BY <1>1, <1>2, <1>3, <1>4, <1>5

\* Storing a sound result, or leaving the slot at a sound base, is sound.
LEMMA SettleSound ==
    ASSUME NEW b \in KeyBlocks, NEW r, SoundKeyResult(b, r),
           NEW base, KeySlotSound(base), NEW d \in Settle(b, r, base)
    PROVE  d.result = r /\ KeySlotSound(d.slot)
  <1>1. d.result = r
    BY DEF Settle
  <1>2. CASE IsFailure(r)
    <2>1. d.slot \in Capture(b, r, base)
      BY <1>2 DEF Settle
    <2>2. d.slot = base \/ (d.slot = [index |-> b, value |-> r] /\ r.class # "transient")
      BY <2>1 DEF Capture
    <2> QED BY <1>1, <2>2 DEF KeySlotSound
  <1>3. CASE ~IsFailure(r)
    <2>1. d.slot = [index |-> b, value |-> r]
      BY <1>3 DEF Settle
    <2> QED BY <1>1, <1>3, <2>1 DEF KeySlotSound
  <1> QED BY <1>2, <1>3

\* decode_key_block: a caller is given the block's own rows, checked against the
\* block before, or a failure that is transient or has a cause in the file; and
\* the slot is left sound.
THEOREM DecodeKeyBlockSound ==
    ASSUME CacheInv, NEW b \in KeyBlocks, NEW d \in DecodeKeyBlock(b)
    PROVE  SoundKeyResult(b, d.result) /\ KeySlotSound(d.slot)
  <1>t. IsFailure(Transient) /\ Transient.class = "transient" /\ Transient \in Failures
    BY DEF Transient, Failed, IsFailure, Failures
  <1>k. KeySlotSound(keyCache)
    BY DEF CacheInv, KeyCacheSound, KeySlotSound
  <1>e. KeySlotSound(Empty)
    BY DEF KeySlotSound
  <1>1. CASE keyCache.index = b
    <2>1. PICK r \in FromCache(keyCache.value) : d = [result |-> r, slot |-> keyCache]
      BY <1>1 DEF DecodeKeyBlock
    <2>2. keyCache # Empty
      BY <1>1, BlockNumbers DEF Empty
    <2>3. SoundKeyResult(b, keyCache.value)
      BY <1>1, <2>2 DEF CacheInv, KeyCacheSound
    <2>4. r = keyCache.value \/ r = Transient
      BY FromCacheSound
    <2>5. SoundKeyResult(b, r)
      BY <2>3, <2>4, <1>t DEF SoundKeyResult
    <2> QED BY <2>1, <2>5, <1>k
  <1>2. CASE keyCache.index # b
    <2>1. PICK p \in Predecessor(b) :
              d \in IF IsFailure(p) THEN Settle(b, p, keyCache)
                    ELSE UNION {Settle(b, Checked(b, p, own), Empty) :
                                   own \in DecodeKeyBlockUncached(b)}
      BY <1>2 DEF DecodeKeyBlock
    <2>2. CASE IsFailure(p)
      <3>1. SoundKeyResult(b, p)
        BY <2>2, PredecessorSound DEF SoundKeyResult
      <3>2. d \in Settle(b, p, keyCache)
        BY <2>1, <2>2
      <3>3. d.result = p /\ KeySlotSound(d.slot)
        BY <3>1, <3>2, <1>k, SettleSound
      <3> QED BY <3>1, <3>3
    <2>3. CASE ~IsFailure(p)
      <3>1. PICK own \in DecodeKeyBlockUncached(b) : d \in Settle(b, Checked(b, p, own), Empty)
        BY <2>1, <2>3
      <3>2. b = 0 \/ (p = OwnKeyResult(b - 1) /\ ~IsFailure(OwnKeyResult(b - 1)))
        BY <2>3, PredecessorSound
      <3>3. SoundKeyResult(b, Checked(b, p, own))
        BY <3>2, CheckedSound
      <3>4. d.result = Checked(b, p, own) /\ KeySlotSound(d.slot)
        BY <3>1, <3>3, <1>e, SettleSound
      <3> QED BY <3>3, <3>4
    <2> QED BY <2>2, <2>3
  <1> QED BY <1>1, <1>2

\* decode_record_block: what a fresh decode would give, or a transient failure.
THEOREM DecodeRecordBlockSound ==
    ASSUME CacheInv, NEW i \in RecordBlocks, NEW d \in DecodeRecordBlock(i)
    PROVE  /\ d.result = OwnRecordResult(i) \/ d.result = Transient
           /\ RecordSlotSound(d.slot)
  <1>t. IsFailure(Transient) /\ Transient.class = "transient" /\ Transient \in Failures
    BY DEF Transient, Failed, IsFailure, Failures
  <1>1. CASE recordCache.index = i
    <2>1. PICK r \in FromCache(recordCache.value) : d = [result |-> r, slot |-> recordCache]
      BY <1>1 DEF DecodeRecordBlock
    <2>2. recordCache # Empty
      BY <1>1, BlockNumbers DEF Empty
    <2>3. recordCache.value = OwnRecordResult(i)
      BY <1>1, <2>2 DEF CacheInv, RecordCacheSound
    <2>4. r = recordCache.value \/ r = Transient
      BY FromCacheSound
    <2> QED BY <2>1, <2>3, <2>4 DEF CacheInv, RecordCacheSound, RecordSlotSound
  <1>2. CASE recordCache.index # i
    <2>1. PICK r \in DecodeRecordBlockUncached(i) : d \in Settle(i, r, Empty)
      BY <1>2 DEF DecodeRecordBlock
    <2>2. r = OwnRecordResult(i) \/ r = Transient
      BY DEF DecodeRecordBlockUncached
    <2>3. d.result = r
      BY <2>1 DEF Settle
    <2>4. d.slot = Empty \/ (d.slot = [index |-> i, value |-> r] /\ r # Transient)
      <3>1. CASE IsFailure(r)
        BY <2>1, <3>1, <1>t DEF Settle, Capture
      <3>2. CASE ~IsFailure(r)
        BY <2>1, <3>2, <1>t DEF Settle
      <3> QED BY <3>1, <3>2
    <2> QED BY <2>2, <2>3, <2>4 DEF RecordSlotSound
  <1> QED BY <1>1, <1>2

-----------------------------------------------------------------------------

\* One access of any caller to either cache keeps both sound.
LEMMA CacheStep == CacheInv /\ [CacheNext]_<<file, keyCache, recordCache>> => CacheInv'
  <1> SUFFICES ASSUME CacheInv, [CacheNext]_<<file, keyCache, recordCache>>
               PROVE  CacheInv'
    OBVIOUS
  <1>k. CacheInv /\ file' = file /\ KeySlotSound(keyCache') => KeyCacheSound'
    <2> SUFFICES ASSUME file' = file, KeySlotSound(keyCache')
                 PROVE  KeyCacheSound'
      OBVIOUS
    <2>1. \A b : OwnKeyResult(b)' = OwnKeyResult(b)
      BY DEF OwnKeyResult, RowsValid, Rows
    <2>2. \A b : FaultyKeyBlock(b)' <=> FaultyKeyBlock(b)
      BY <2>1 DEF FaultyKeyBlock
    <2>3. \A b : BlockFailure(b)' = BlockFailure(b)
      BY <2>1 DEF BlockFailure
    <2>4. \A b, r : SoundKeyResult(b, r)' <=> SoundKeyResult(b, r)
      BY <2>1, <2>2, <2>3 DEF SoundKeyResult
    <2> QED BY <2>4 DEF KeySlotSound, KeyCacheSound
  <1>r. CacheInv /\ file' = file /\ RecordSlotSound(recordCache') => RecordCacheSound'
    BY DEF RecordSlotSound, RecordCacheSound, OwnRecordResult
  <1>1. KeySlotSound(keyCache) /\ RecordSlotSound(recordCache)
    BY DEF CacheInv, KeyCacheSound, RecordCacheSound, KeySlotSound, RecordSlotSound
  <1>2. CASE UNCHANGED <<file, keyCache, recordCache>>
    BY <1>1, <1>2, <1>k, <1>r DEF CacheInv
  <1>3. ASSUME NEW b \in KeyBlocks, NEW d \in DecodeKeyBlock(b), keyCache' = d.slot,
               UNCHANGED <<file, recordCache>>
        PROVE  CacheInv'
    <2>1. KeySlotSound(keyCache')
      BY <1>3, DecodeKeyBlockSound
    <2> QED BY <1>1, <1>3, <2>1, <1>k, <1>r DEF CacheInv
  <1>4. ASSUME NEW i \in RecordBlocks, NEW d \in DecodeRecordBlock(i), recordCache' = d.slot,
               UNCHANGED <<file, keyCache>>
        PROVE  CacheInv'
    <2>1. RecordSlotSound(recordCache')
      BY <1>4, DecodeRecordBlockSound
    <2> QED BY <1>1, <1>4, <2>1, <1>k, <1>r DEF CacheInv
  <1> QED BY <1>2, <1>3, <1>4 DEF CacheNext

\* In every state of every behaviour of the callers, what the two slots hold is
\* sound: no transient failure is retained, no failure without a cause in the
\* file, no block that was not checked against its predecessor, and no record
\* block that a fresh decode would not give.
THEOREM CachesSound == CacheSpec => [](KeyCacheSound /\ RecordCacheSound)
  <1>1. CacheInit => CacheInv
    BY DEF CacheInit, CacheInv, KeyCacheSound, RecordCacheSound
  <1>2. CacheInv /\ [CacheNext]_<<file, keyCache, recordCache>> => CacheInv'
    BY CacheStep
  <1>3. CacheInv => KeyCacheSound /\ RecordCacheSound
    BY DEF CacheInv
  <1> QED
    BY <1>1, <1>2, <1>3, PTL DEF CacheSpec

=============================================================================
