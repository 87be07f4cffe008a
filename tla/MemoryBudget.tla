---------------------------- MODULE MemoryBudget ----------------------------
(***************************************************************************)
(* The aggregate memory budget of one open dictionary (src/limits.rs).     *)
(*                                                                         *)
(* Every parser path reserves its estimate before it reads or allocates.   *)
(* MemoryBudget holds two atomics, used and peak; a MemoryReservation is   *)
(* an owned token that remembers how many bytes it must give back.  Many   *)
(* threads use one budget, so `claim' is a load followed by a loop of      *)
(* compare_exchange_weak, and the peak is raised by a separate fetch_max   *)
(* after the exchange succeeded.  Each of those is a step here.            *)
(*                                                                         *)
(* A token is operated on by at most one thread at a time (grow takes      *)
(* &mut self, drop consumes it), so the agents of this module are the      *)
(* tokens themselves: all of them may be in the middle of a call at once,  *)
(* which is what enough threads can produce.  One more agent, the          *)
(* observer, calls MdictFile::memory_usage.  Atomic accesses are           *)
(* sequentially consistent.                                                *)
(***************************************************************************)
EXTENDS Integers

CONSTANTS
    NTokens,    \* number of reservation tokens that may exist at once
    MaxBytes,   \* Limits::working_memory_bytes, the `max' of the budget
    UsizeMax,   \* largest usize
    Requests    \* the sizes a caller may ask for

Tokens == 1..NTokens

Usize == 0..UsizeMax

\* The limit is itself a usize, and so is every request.
ASSUME BudgetAssumption ==
    /\ NTokens \in Nat \ {0}
    /\ UsizeMax \in Nat
    /\ MaxBytes \in Usize
    /\ Requests \subseteq Usize

VARIABLES
    used,       \* MemoryBudget.used
    peak,       \* MemoryBudget.peak
    live,       \* live[t]: the MemoryReservation t exists
    bytes,      \* bytes[t]: MemoryReservation.bytes, 0 while it does not exist
    pc,         \* pc[t]: where the call that operates on t stands
    want,       \* want[t]: the bytes the pending claim asks for
    cur,        \* cur[t]: `current', the value of used the claim last observed
    opc,        \* where the observer stands in memory_usage
    ocur,       \* the observer's current_bytes
    report,     \* the last MemoryUsage the observer returned
    highWater   \* history: the largest value used has ever had

vars == <<used, peak, live, bytes, pc, want, cur, opc, ocur, report, highWater>>

observer == <<opc, ocur, report>>

PC == {"idle", "load", "exchange", "raise"}

Larger(a, b) == IF a >= b THEN a ELSE b

-----------------------------------------------------------------------------

\* MemoryBudget::new
Init ==
    /\ used = 0
    /\ peak = 0
    /\ live = [t \in Tokens |-> FALSE]
    /\ bytes = [t \in Tokens |-> 0]
    /\ pc = [t \in Tokens |-> "idle"]
    /\ want = [t \in Tokens |-> 0]
    /\ cur = [t \in Tokens |-> 0]
    /\ opc = "idle"
    /\ ocur = 0
    /\ report = [current |-> 0, peak |-> 0]
    /\ highWater = 0

\* MemoryBudget::reserve: enters claim; the token exists only if that succeeds.
Reserve(t, n) ==
    /\ pc[t] = "idle" /\ ~live[t]
    /\ pc' = [pc EXCEPT ![t] = "load"]
    /\ want' = [want EXCEPT ![t] = n]
    /\ UNCHANGED <<used, peak, live, bytes, cur, observer, highWater>>

\* MemoryReservation::grow: the token's own size is checked before the claim.
\* On overflow the call returns InvalidFormat and changes nothing.
Grow(t, n) ==
    /\ pc[t] = "idle" /\ live[t]
    /\ bytes[t] + n <= UsizeMax
    /\ pc' = [pc EXCEPT ![t] = "load"]
    /\ want' = [want EXCEPT ![t] = n]
    /\ UNCHANGED <<used, peak, live, bytes, cur, observer, highWater>>

\* The first load of `claim'.
Load(t) ==
    /\ pc[t] = "load"
    /\ cur' = [cur EXCEPT ![t] = used]
    /\ pc' = [pc EXCEPT ![t] = "exchange"]
    /\ UNCHANGED <<used, peak, live, bytes, want, observer, highWater>>

\* Bug: only the overflow of the sum is tested.
Fits_Unlimited(t) == cur[t] + want[t] <= UsizeMax

\* Neither test at the head of the loop returns LimitExceeded.
Fits(t) ==
    /\ cur[t] + want[t] <= UsizeMax
    /\ cur[t] + want[t] <= MaxBytes

\* LimitExceeded { limit: "working_memory_bytes" }: the caller gets an error, a
\* reserve leaves no token and a grow leaves the token as it was.
Refuse(t) ==
    /\ pc[t] = "exchange"
    /\ ~Fits(t)
    /\ pc' = [pc EXCEPT ![t] = "idle"]
    /\ want' = [want EXCEPT ![t] = 0]
    /\ cur' = [cur EXCEPT ![t] = 0]
    /\ UNCHANGED <<used, peak, live, bytes, observer, highWater>>

\* Bug: a plain store instead of the exchange.
ExchangeOk_Store(t) ==
    /\ pc[t] = "exchange"
    /\ Fits(t)
    /\ used' = cur[t] + want[t]
    /\ highWater' = Larger(highWater, used')
    /\ pc' = [pc EXCEPT ![t] = "raise"]
    /\ UNCHANGED <<peak, live, bytes, want, cur, observer>>

\* compare_exchange_weak succeeds.
ExchangeOk(t) ==
    /\ pc[t] = "exchange"
    /\ Fits(t)
    /\ used = cur[t]
    /\ used' = cur[t] + want[t]
    /\ highWater' = Larger(highWater, used')
    /\ pc' = [pc EXCEPT ![t] = "raise"]
    /\ UNCHANGED <<peak, live, bytes, want, cur, observer>>

\* compare_exchange_weak fails and hands back what it observed; it may also
\* fail spuriously, which with an unchanged `used' is a stuttering step.
ExchangeFail(t) ==
    /\ pc[t] = "exchange"
    /\ Fits(t)
    /\ cur' = [cur EXCEPT ![t] = used]
    /\ UNCHANGED <<used, peak, live, bytes, pc, want, observer, highWater>>

\* Bug: a plain store instead of fetch_max.
RaisePeak_Store(t) ==
    /\ pc[t] = "raise"
    /\ peak' = cur[t] + want[t]
    /\ live' = [live EXCEPT ![t] = TRUE]
    /\ bytes' = [bytes EXCEPT ![t] = @ + want[t]]
    /\ pc' = [pc EXCEPT ![t] = "idle"]
    /\ want' = [want EXCEPT ![t] = 0]
    /\ cur' = [cur EXCEPT ![t] = 0]
    /\ UNCHANGED <<used, observer, highWater>>

\* peak.fetch_max(next), and the return into reserve or grow.
RaisePeak(t) ==
    /\ pc[t] = "raise"
    /\ peak' = Larger(peak, cur[t] + want[t])
    /\ live' = [live EXCEPT ![t] = TRUE]
    /\ bytes' = [bytes EXCEPT ![t] = @ + want[t]]
    /\ pc' = [pc EXCEPT ![t] = "idle"]
    /\ want' = [want EXCEPT ![t] = 0]
    /\ cur' = [cur EXCEPT ![t] = 0]
    /\ UNCHANGED <<used, observer, highWater>>

\* AtomicUsize::fetch_sub wraps around below zero.
FetchSub(a, b) == IF a >= b THEN a - b ELSE a - b + UsizeMax + 1

\* Drop for MemoryReservation
Drop(t) ==
    /\ pc[t] = "idle" /\ live[t]
    /\ used' = FetchSub(used, bytes[t])
    /\ live' = [live EXCEPT ![t] = FALSE]
    /\ bytes' = [bytes EXCEPT ![t] = 0]
    /\ UNCHANGED <<peak, pc, want, cur, observer, highWater>>

\* MdictFile::memory_usage, first the load of used ...
ObserveUsed ==
    /\ opc = "idle"
    /\ ocur' = used
    /\ opc' = "peak"
    /\ UNCHANGED <<used, peak, live, bytes, pc, want, cur, report, highWater>>

\* ... then the load of peak, which other threads may not have raised yet.
ObservePeak ==
    /\ opc = "peak"
    /\ report' = [current |-> ocur, peak |-> Larger(peak, ocur)]
    /\ ocur' = 0
    /\ opc' = "idle"
    /\ UNCHANGED <<used, peak, live, bytes, pc, want, cur, highWater>>

Next ==
    \/ \E t \in Tokens, n \in Requests : Reserve(t, n) \/ Grow(t, n)
    \/ \E t \in Tokens :
          \/ Load(t) \/ Refuse(t) \/ ExchangeOk(t) \/ ExchangeFail(t)
          \/ RaisePeak(t) \/ Drop(t)
    \/ ObserveUsed
    \/ ObservePeak

Spec == Init /\ [][Next]_vars

-----------------------------------------------------------------------------

\* Every variable has its type.
TypeOK ==
    /\ used \in Usize /\ peak \in Usize
    /\ live \in [Tokens -> BOOLEAN]
    /\ bytes \in [Tokens -> Usize]
    /\ pc \in [Tokens -> PC]
    /\ want \in [Tokens -> Usize]
    /\ cur \in [Tokens -> Usize]
    /\ opc \in {"idle", "peak"}
    /\ ocur \in Usize
    /\ report \in [current : Usize, peak : Usize]
    /\ highWater \in Usize

\* What token t has taken out of the budget: what it will give back when it is
\* dropped, and what its pending claim has exchanged in but not recorded yet.
Owed(t) == bytes[t] + (IF pc[t] = "raise" THEN want[t] ELSE 0)

\* S is the running total of f over 1..NTokens, ending in total.
IsLedger(S, f, total) ==
    /\ S[0] = 0
    /\ \A i \in Tokens : S[i] = S[i-1] + f[i]
    /\ \A i, j \in 0..NTokens : i <= j => S[i] <= S[j]
    /\ S[NTokens] = total

\* Whatever the interleaving of claims, grows, refusals and drops, the counter
\* equals the sum of what the tokens owe: nothing is leaked by a refused grow,
\* lost by two racing exchanges, or given back twice.
LedgerBalances ==
  \E S \in [0..NTokens -> 0..MaxBytes] :
    IsLedger(S, [t \in Tokens |-> Owed(t)], used)

\* The debug_assert of Drop: no token gives back more than is charged, so
\* fetch_sub never wraps (a wrap would make every later claim fail).
NoUnderflow == \A t \in Tokens : bytes[t] <= used

\* The configured ceiling is never exceeded, not even between an exchange and
\* the fetch_max, and the peak never claims that it was.
WithinBudget == used <= MaxBytes /\ peak <= MaxBytes

\* The fetch_max is not atomic with the exchange, but it is never lost: peak
\* and the claims about to raise it account for the highest charge ever made,
\* and once no claim is pending the peak is exactly that charge.
PeakExact ==
    /\ peak <= highWater
    /\ \/ peak = highWater
       \/ \E t \in Tokens : pc[t] = "raise" /\ cur[t] + want[t] = highWater

\* What memory_usage returns is a possible picture: the peak covers the current
\* charge (the .max(current_bytes) is needed for that), was really reached, and
\* both respect the ceiling.
ReportConsistent ==
    /\ report.current <= report.peak
    /\ report.peak <= highWater
    /\ report.peak <= MaxBytes

=============================================================================
