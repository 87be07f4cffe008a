------------------------ MODULE MemoryBudget_proofs -------------------------
(***************************************************************************)
(* The budget's accounting, for any number of tokens, any ceiling and any  *)
(* set of request sizes.                                                   *)
(***************************************************************************)
EXTENDS MemoryBudget, TLAPS

\* The inductive invariant: the ledger balances, the charge stays between zero
\* and the high-water mark, the mark stays under the ceiling, and everything
\* the observer holds was a charge really made.
IInv ==
    /\ TypeOK
    /\ LedgerBalances
    /\ used <= highWater
    /\ highWater <= MaxBytes
    /\ \A t \in Tokens : pc[t] = "raise" => cur[t] + want[t] <= highWater
    /\ PeakExact
    /\ ocur <= highWater
    /\ report.current <= report.peak
    /\ report.peak <= highWater

-----------------------------------------------------------------------------

\* A ledger's total covers every single entry.
LEMMA LedgerCovers ==
    ASSUME NEW S \in [0..NTokens -> 0..MaxBytes],
           NEW f \in [Tokens -> Nat], NEW total \in Nat,
           IsLedger(S, f, total), NEW k \in Tokens
    PROVE  f[k] <= total
  <1>1. k \in 0..NTokens /\ k-1 \in 0..NTokens /\ NTokens \in 0..NTokens
    BY BudgetAssumption DEF Tokens
  <1>2. S[k] = S[k-1] + f[k] /\ S[k] <= S[NTokens] /\ S[NTokens] = total
    BY <1>1 DEF IsLedger, Tokens
  <1>3. S[k-1] \in Nat /\ f[k] \in Nat /\ S[k] \in Nat
    BY <1>1, BudgetAssumption DEF Usize
  <1> QED BY <1>2, <1>3

\* Changing what one token owes and the total by the same amount keeps a ledger:
\* shift every running total from that token on.
LEMMA LedgerShift ==
    ASSUME NEW S \in [0..NTokens -> 0..MaxBytes],
           NEW f \in [Tokens -> Nat], NEW total \in Nat,
           IsLedger(S, f, total),
           NEW k \in Tokens, NEW d \in Int, f[k] + d >= 0,
           total + d <= MaxBytes
    PROVE  \E R \in [0..NTokens -> 0..MaxBytes] :
              IsLedger(R, [f EXCEPT ![k] = f[k] + d], total + d)
  <1> DEFINE R == [i \in 0..NTokens |-> IF i >= k THEN S[i] + d ELSE S[i]]
             g == [f EXCEPT ![k] = f[k] + d]
  <1>0. MaxBytes \in Nat /\ NTokens \in Nat /\ NTokens >= 1
    BY BudgetAssumption DEF Usize
  <1>1. k \in 0..NTokens /\ k-1 \in 0..NTokens /\ NTokens \in 0..NTokens /\ k \in Int
    BY <1>0 DEF Tokens
  <1>2. \A i \in 0..NTokens : S[i] \in Int /\ 0 <= S[i] /\ S[i] <= MaxBytes
    BY <1>0
  <1>3. /\ S[0] = 0
        /\ \A i \in Tokens : S[i] = S[i-1] + f[i]
        /\ \A i, j \in 0..NTokens : i <= j => S[i] <= S[j]
        /\ S[NTokens] = total
    BY DEF IsLedger
  <1>4. S[k] = S[k-1] + f[k] /\ S[k-1] >= 0 /\ f[k] \in Nat
    BY <1>1, <1>2, <1>3
  <1>5. \A i \in 0..NTokens : i >= k => S[k] <= S[i] /\ S[i] <= total
    BY <1>1, <1>3
  <1>6. \A i \in 0..NTokens : i < k => S[i] <= S[k-1]
    BY <1>1, <1>3
  <1>7. R \in [0..NTokens -> 0..MaxBytes]
    <2> SUFFICES ASSUME NEW i \in 0..NTokens
                 PROVE  (IF i >= k THEN S[i] + d ELSE S[i]) \in 0..MaxBytes
      OBVIOUS
    <2>1. CASE i >= k
      <3>1. S[i] \in Int /\ S[k] <= S[i] /\ S[i] <= total
        BY <2>1, <1>2, <1>5
      <3>2. S[i] + d >= 0
        BY <3>1, <1>4, <1>1, <1>2
      <3> QED BY <2>1, <3>1, <3>2, <1>0
    <2>2. CASE ~(i >= k)
      BY <2>2, <1>2, <1>0
    <2> QED BY <2>1, <2>2
  <1>8. R[0] = 0
    BY <1>3, <1>0, <1>1 DEF Tokens
  <1>9. ASSUME NEW i \in Tokens PROVE R[i] = R[i-1] + g[i]
    <2>1. i \in 0..NTokens /\ i-1 \in 0..NTokens /\ i \in Int
      BY <1>0 DEF Tokens
    <2>2. S[i] = S[i-1] + f[i] /\ S[i] \in Int /\ S[i-1] \in Int /\ f[i] \in Int
      BY <2>1, <1>2, <1>3
    <2>3. CASE i = k
      BY <2>1, <2>2, <2>3
    <2>4. CASE i > k
      BY <2>1, <2>2, <2>4, <1>1
    <2>5. CASE i < k
      BY <2>1, <2>2, <2>5, <1>1
    <2> QED BY <2>3, <2>4, <2>5, <2>1, <1>1
  <1>10. ASSUME NEW i \in 0..NTokens, NEW j \in 0..NTokens, i <= j
         PROVE  R[i] <= R[j]
    <2>1. S[i] <= S[j] /\ S[i] \in Int /\ S[j] \in Int /\ S[k] \in Int /\ S[k-1] \in Int
      BY <1>10, <1>1, <1>2, <1>3
    <2>2. CASE i >= k \/ j < k
      BY <2>1, <2>2, <1>10, <1>1
    <2>3. CASE i < k /\ j >= k
      BY <2>1, <2>3, <1>4, <1>5, <1>6
    <2> QED BY <2>2, <2>3, <1>1
  <1>11. R[NTokens] = total + d
    BY <1>0, <1>1, <1>3 DEF Tokens
  <1>12. IsLedger(R, g, total + d)
    BY <1>8, <1>9, <1>10, <1>11 DEF IsLedger
  <1> HIDE DEF R
  <1> QED BY <1>7, <1>12

-----------------------------------------------------------------------------

owed == [t \in Tokens |-> Owed(t)]

\* What a token owes is a number, and the charge covers it.
LEMMA OwedCovered ==
    ASSUME IInv
    PROVE  /\ owed \in [Tokens -> Nat]
           /\ \A t \in Tokens : Owed(t) \in Nat /\ Owed(t) <= used
  <1>1. owed \in [Tokens -> Nat] /\ used \in Nat
    BY BudgetAssumption DEF IInv, TypeOK, owed, Owed, Usize
  <1>2. PICK S \in [0..NTokens -> 0..MaxBytes] : IsLedger(S, owed, used)
    BY DEF IInv, LedgerBalances, owed
  <1>3. \A t \in Tokens : owed[t] <= used
    BY <1>1, <1>2, LedgerCovers
  <1> QED BY <1>1, <1>3 DEF owed

\* A step that changes only what token t owes, by d, and the charge by d too,
\* keeps the ledger.
LEMMA OneTokenStep ==
    ASSUME IInv, NEW t \in Tokens, NEW d \in Int,
           Owed(t)' = Owed(t) + d, Owed(t) + d >= 0,
           \A u \in Tokens \ {t} : Owed(u)' = Owed(u),
           used' = used + d, used + d <= MaxBytes
    PROVE  LedgerBalances'
  <1>1. owed \in [Tokens -> Nat] /\ used \in Nat
    BY OwedCovered, BudgetAssumption DEF IInv, TypeOK, Usize
  <1>2. PICK S \in [0..NTokens -> 0..MaxBytes] : IsLedger(S, owed, used)
    BY DEF IInv, LedgerBalances, owed
  <1>3. owed[t] + d >= 0
    BY DEF owed
  <1>4. \E R \in [0..NTokens -> 0..MaxBytes] :
           IsLedger(R, [owed EXCEPT ![t] = owed[t] + d], used + d)
    BY <1>1, <1>2, <1>3, LedgerShift
  <1>5. [owed EXCEPT ![t] = owed[t] + d] = [u \in Tokens |-> Owed(u)']
    BY DEF owed
  <1> QED BY <1>4, <1>5 DEF LedgerBalances

\* A step that changes neither the charge nor what anyone owes keeps it too.
LEMMA NoTokenStep ==
    ASSUME IInv, \A u \in Tokens : Owed(u)' = Owed(u), used' = used
    PROVE  LedgerBalances'
  <1>1. [u \in Tokens |-> Owed(u)'] = [u \in Tokens |-> Owed(u)]
    OBVIOUS
  <1> QED BY <1>1 DEF IInv, LedgerBalances

\* A new budget satisfies the invariant.
LEMMA InitIInv == Init => IInv
  <1> SUFFICES ASSUME Init PROVE IInv
    OBVIOUS
  <1> USE BudgetAssumption DEF Usize
  <1>1. TypeOK
    BY DEF Init, TypeOK, PC
  <1>2. LedgerBalances
    <2> DEFINE S == [i \in 0..NTokens |-> 0]
    <2>1. S \in [0..NTokens -> 0..MaxBytes]
      OBVIOUS
    <2>2. IsLedger(S, [t \in Tokens |-> Owed(t)], used)
      BY DEF Init, IsLedger, Owed, Tokens
    <2> HIDE DEF S
    <2> QED BY <2>1, <2>2 DEF LedgerBalances
  <1> QED BY <1>1, <1>2 DEF Init, IInv, PeakExact

-----------------------------------------------------------------------------

\* Every step keeps it: only ExchangeOk and Drop move the charge, each by exactly
\* what one token owes; only ExchangeOk moves the high-water mark.
LEMMA NextIInv == IInv /\ [Next]_vars => IInv'
  <1> SUFFICES ASSUME IInv, [Next]_vars PROVE IInv'
    OBVIOUS
  <1>0. /\ UsizeMax \in Nat /\ MaxBytes \in Nat /\ MaxBytes <= UsizeMax
        /\ \A n \in Requests : n \in Usize
        /\ \A t \in Tokens : Owed(t) \in Nat /\ Owed(t) <= used
    BY OwedCovered, BudgetAssumption DEF Usize
  <1>1. ASSUME NEW t \in Tokens, NEW n \in Requests, Reserve(t, n) \/ Grow(t, n)
        PROVE  IInv'
    <2>1. TypeOK'
      BY <1>0, <1>1 DEF IInv, TypeOK, Reserve, Grow, PC, observer
    <2>2. LedgerBalances'
      <3>1. \A u \in Tokens : Owed(u)' = Owed(u)
        BY <1>1 DEF IInv, TypeOK, Reserve, Grow, Owed
      <3> QED BY <1>1, <3>1, NoTokenStep DEF Reserve, Grow
    <2>3. \A u \in Tokens : pc'[u] = "raise" <=> pc[u] = "raise"
      BY <1>1 DEF IInv, TypeOK, Reserve, Grow
    <2>4. \A u \in Tokens : pc[u] = "raise" => want'[u] = want[u] /\ cur'[u] = cur[u]
      BY <1>1 DEF IInv, TypeOK, Reserve, Grow
    <2> QED BY <1>1, <2>1, <2>2, <2>3, <2>4
            DEF IInv, PeakExact, Reserve, Grow, observer
  <1>2. ASSUME NEW t \in Tokens, Load(t) PROVE IInv'
    <2>1. TypeOK'
      BY <1>0, <1>2 DEF IInv, TypeOK, Load, PC, observer
    <2>2. LedgerBalances'
      <3>1. \A u \in Tokens : Owed(u)' = Owed(u)
        BY <1>2 DEF IInv, TypeOK, Load, Owed
      <3> QED BY <1>2, <3>1, NoTokenStep DEF Load
    <2>3. \A u \in Tokens : pc'[u] = "raise" <=> pc[u] = "raise"
      BY <1>2 DEF IInv, TypeOK, Load
    <2>4. \A u \in Tokens : pc[u] = "raise" => want'[u] = want[u] /\ cur'[u] = cur[u]
      BY <1>2 DEF IInv, TypeOK, Load
    <2> QED BY <1>2, <2>1, <2>2, <2>3, <2>4 DEF IInv, PeakExact, Load, observer
  <1>3. ASSUME NEW t \in Tokens, Refuse(t) \/ ExchangeFail(t) PROVE IInv'
    <2>1. TypeOK'
      BY <1>0, <1>3 DEF IInv, TypeOK, Refuse, ExchangeFail, PC, observer, Usize
    <2>2. LedgerBalances'
      <3>1. \A u \in Tokens : Owed(u)' = Owed(u)
        BY <1>3 DEF IInv, TypeOK, Refuse, ExchangeFail, Owed
      <3> QED BY <1>3, <3>1, NoTokenStep DEF Refuse, ExchangeFail
    <2>3. \A u \in Tokens : pc'[u] = "raise" <=> pc[u] = "raise"
      BY <1>3 DEF IInv, TypeOK, Refuse, ExchangeFail
    <2>4. \A u \in Tokens : pc[u] = "raise" => want'[u] = want[u] /\ cur'[u] = cur[u]
      BY <1>3 DEF IInv, TypeOK, Refuse, ExchangeFail
    <2> QED BY <1>3, <2>1, <2>2, <2>3, <2>4
            DEF IInv, PeakExact, Refuse, ExchangeFail, observer
  <1>4. ASSUME NEW t \in Tokens, ExchangeOk(t) PROVE IInv'
    <2>1. /\ pc[t] = "exchange" /\ used' = used + want[t] /\ used' <= MaxBytes
          /\ want[t] \in Nat /\ used \in Nat /\ highWater \in Nat
          /\ used' = cur[t] + want[t]
      BY <1>0, <1>4 DEF IInv, TypeOK, ExchangeOk, Fits, Usize
    <2>2. highWater' \in Usize /\ highWater' >= used' /\ highWater' <= MaxBytes
          /\ highWater' >= highWater
      BY <1>0, <1>4, <2>1 DEF IInv, ExchangeOk, Larger, Usize
    <2>3. TypeOK'
      BY <1>0, <1>4, <2>1, <2>2 DEF IInv, TypeOK, ExchangeOk, PC, observer, Usize
    <2>4. LedgerBalances'
      <3>1. Owed(t)' = Owed(t) + want[t]
        BY <1>0, <1>4, <2>1 DEF IInv, TypeOK, ExchangeOk, Owed, Usize
      <3>2. \A u \in Tokens \ {t} : Owed(u)' = Owed(u)
        BY <1>4 DEF IInv, TypeOK, ExchangeOk, Owed
      <3> QED BY <1>0, <2>1, <3>1, <3>2, OneTokenStep
    <2>5. \A u \in Tokens : pc'[u] = "raise" => cur'[u] + want'[u] <= highWater'
      BY <1>0, <1>4, <2>1, <2>2 DEF IInv, TypeOK, ExchangeOk, Usize
    <2>6. PeakExact'
      <3>1. CASE highWater' = highWater
        BY <1>4, <3>1 DEF IInv, TypeOK, PeakExact, ExchangeOk
      <3>2. CASE highWater' = used'
        BY <1>0, <1>4, <2>1, <2>2, <3>2 DEF IInv, TypeOK, PeakExact, ExchangeOk, Usize
      <3> QED BY <1>4, <3>1, <3>2 DEF ExchangeOk, Larger
    <2> QED BY <1>0, <1>4, <2>1, <2>2, <2>3, <2>4, <2>5, <2>6
            DEF IInv, TypeOK, ExchangeOk, observer, Usize
  <1>5. ASSUME NEW t \in Tokens, RaisePeak(t) PROVE IInv'
    <2>1. /\ pc[t] = "raise" /\ cur[t] + want[t] <= highWater
          /\ Owed(t) = bytes[t] + want[t]
          /\ bytes[t] + want[t] <= UsizeMax
          /\ peak' = Larger(peak, cur[t] + want[t])
      BY <1>0, <1>5 DEF IInv, TypeOK, RaisePeak, Owed, Usize
    <2>2. peak' \in Usize /\ peak' >= peak /\ peak' <= highWater
          /\ peak' >= cur[t] + want[t]
      BY <1>0, <2>1 DEF IInv, TypeOK, PeakExact, Larger, Usize
    <2>3. TypeOK'
      BY <1>0, <1>5, <2>1, <2>2 DEF IInv, TypeOK, RaisePeak, PC, observer, Usize
    <2>4. LedgerBalances'
      <3>1. \A u \in Tokens : Owed(u)' = Owed(u)
        BY <1>0, <1>5, <2>1 DEF IInv, TypeOK, RaisePeak, Owed, Usize
      <3> QED BY <1>5, <3>1, NoTokenStep DEF RaisePeak
    <2>5. PeakExact'
      <3>1. CASE peak = highWater \/ cur[t] + want[t] = highWater
        <4>1. highWater' = highWater /\ peak \in Int /\ peak' \in Int
              /\ highWater \in Int
          BY <1>0, <1>5, <2>2 DEF IInv, TypeOK, RaisePeak, Usize
        <4>2. peak' = highWater
          BY <2>2, <3>1, <4>1
        <4> QED BY <4>1, <4>2 DEF PeakExact
      <3>2. CASE \E u \in Tokens \ {t} : pc[u] = "raise" /\ cur[u] + want[u] = highWater
        BY <1>0, <1>5, <2>2, <3>2 DEF IInv, TypeOK, PeakExact, RaisePeak, Usize
      <3> QED BY <3>1, <3>2 DEF IInv, PeakExact
    <2>6. \A u \in Tokens : pc'[u] = "raise" => cur'[u] + want'[u] <= highWater'
      BY <1>5 DEF IInv, TypeOK, RaisePeak
    <2> QED BY <1>5, <2>3, <2>4, <2>5, <2>6 DEF IInv, RaisePeak, observer
  <1>6. ASSUME NEW t \in Tokens, Drop(t) PROVE IInv'
    <2>1. /\ pc[t] = "idle" /\ Owed(t) = bytes[t] /\ bytes[t] \in Nat /\ used \in Nat
          /\ bytes[t] <= used /\ used' = used - bytes[t] /\ used <= MaxBytes
      BY <1>0, <1>6 DEF IInv, TypeOK, Drop, Owed, FetchSub, Usize
    <2>2. TypeOK'
      BY <1>0, <1>6, <2>1 DEF IInv, TypeOK, Drop, PC, observer, Usize
    <2>3. LedgerBalances'
      <3>1. Owed(t)' = Owed(t) + (0 - bytes[t])
        BY <1>6, <2>1 DEF IInv, TypeOK, Drop, Owed
      <3>2. \A u \in Tokens \ {t} : Owed(u)' = Owed(u)
        BY <1>6 DEF IInv, TypeOK, Drop, Owed
      <3>3. 0 - bytes[t] \in Int /\ used' = used + (0 - bytes[t])
            /\ Owed(t) + (0 - bytes[t]) >= 0 /\ used + (0 - bytes[t]) <= MaxBytes
        BY <1>0, <2>1
      <3> QED BY <3>1, <3>2, <3>3, OneTokenStep
    <2> QED BY <1>0, <1>6, <2>1, <2>2, <2>3
            DEF IInv, TypeOK, PeakExact, Drop, observer, Usize
  <1>7. ASSUME ObserveUsed \/ ObservePeak PROVE IInv'
    <2>1. /\ ocur' \in Usize /\ ocur' <= highWater
          /\ report' \in [current : Usize, peak : Usize]
          /\ report'.current <= report'.peak /\ report'.peak <= highWater
      BY <1>0, <1>7 DEF IInv, TypeOK, PeakExact, ObserveUsed, ObservePeak, Larger, Usize
    <2>2. TypeOK'
      BY <1>7, <2>1 DEF IInv, TypeOK, ObserveUsed, ObservePeak, PC
    <2>3. LedgerBalances'
      <3>1. \A u \in Tokens : Owed(u)' = Owed(u)
        BY <1>7 DEF ObserveUsed, ObservePeak, Owed
      <3> QED BY <1>7, <3>1, NoTokenStep DEF ObserveUsed, ObservePeak
    <2> QED BY <1>7, <2>1, <2>2, <2>3 DEF IInv, PeakExact, ObserveUsed, ObservePeak
  <1>8. CASE UNCHANGED vars
    <2>1. \A u \in Tokens : Owed(u)' = Owed(u)
      BY <1>8 DEF vars, Owed
    <2>2. LedgerBalances'
      BY <1>8, <2>1, NoTokenStep DEF vars
    <2> QED BY <1>8, <2>2 DEF IInv, TypeOK, PeakExact, vars
  <1> QED BY <1>1, <1>2, <1>3, <1>4, <1>5, <1>6, <1>7, <1>8 DEF Next

-----------------------------------------------------------------------------

\* Type correctness of the budget: in particular no counter ever leaves usize,
\* so neither fetch_sub nor the additions of claim and grow wrap.
THEOREM TypeCorrect == Spec => []TypeOK
  <1>1. IInv => TypeOK
    BY DEF IInv
  <1> QED BY InitIInv, NextIInv, <1>1, PTL DEF Spec

\* For every number of concurrent reservations, every ceiling and every request
\* sizes, `used' is the sum of what the reservations owe (MemoryBudget::claim,
\* MemoryReservation::grow and Drop neither leak nor double-release).
THEOREM Accounting == Spec => [](LedgerBalances /\ NoUnderflow)
  <1>1. IInv => LedgerBalances /\ NoUnderflow
    <2> SUFFICES ASSUME IInv, NEW t \in Tokens PROVE bytes[t] <= used
      BY DEF IInv, NoUnderflow
    <2>1. Owed(t) <= used /\ bytes[t] \in Nat /\ want[t] \in Nat /\ used \in Nat
      BY OwedCovered, BudgetAssumption DEF IInv, TypeOK, Usize
    <2> QED BY <2>1 DEF Owed
  <1> QED BY InitIInv, NextIInv, <1>1, PTL DEF Spec

\* The configured working_memory_bytes is a ceiling of every interleaving.
THEOREM Ceiling == Spec => []WithinBudget
  <1>1. IInv => WithinBudget
    BY BudgetAssumption DEF IInv, TypeOK, PeakExact, WithinBudget, Usize
  <1> QED BY InitIInv, NextIInv, <1>1, PTL DEF Spec

\* The peak is exact up to the claims that are about to raise it.
THEOREM PeakIsExact == Spec => []PeakExact
  <1>1. IInv => PeakExact
    BY DEF IInv
  <1> QED BY InitIInv, NextIInv, <1>1, PTL DEF Spec

\* What memory_usage reports lies between the truth and the ceiling, although it
\* reads the two counters one after the other.
THEOREM ReportsAreConsistent == Spec => []ReportConsistent
  <1>1. IInv => ReportConsistent
    BY BudgetAssumption DEF IInv, TypeOK, ReportConsistent, Usize
  <1> QED BY InitIInv, NextIInv, <1>1, PTL DEF Spec

=============================================================================
