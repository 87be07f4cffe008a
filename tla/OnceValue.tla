------------------------------ MODULE OnceValue -----------------------------
(***************************************************************************)
(* What callers may rely on from a lazily built, shared value: it is       *)
(* published at most once, every caller is answered with the published     *)
(* value, and a call that cannot publish says either what is true of the   *)
(* value or that it could not find out this time.                          *)
(***************************************************************************)

CONSTANTS
    Callers,
    Unset,        \* nothing published yet
    NoAnswer,     \* the caller has not been answered yet
    Retry         \* the answer "could not find out this time"

VARIABLES
    cell,         \* the published value or failure
    truth,        \* the one value or failure that may rightly be published
    answer        \* the last answer of each caller

vars == <<cell, truth, answer>>

Init ==
    /\ cell = Unset
    /\ answer = [t \in Callers |-> NoAnswer]

\* The caller finds out and publishes what it found.
Publish(t) ==
    /\ cell = Unset
    /\ cell' = truth
    /\ answer' = [answer EXCEPT ![t] = truth]
    /\ UNCHANGED truth

\* The caller is answered from the cell.
Recall(t) ==
    /\ cell # Unset
    /\ answer' = [answer EXCEPT ![t] = cell]
    /\ UNCHANGED <<cell, truth>>

\* The caller could not find out, or a failure it found could not be retained;
\* a value that was found is always retained.
GiveUp(t) ==
    /\ \/ answer' = [answer EXCEPT ![t] = Retry]
       \/ truth.tag = "failed" /\ answer' = [answer EXCEPT ![t] = truth]
    /\ UNCHANGED <<cell, truth>>

Next == \E t \in Callers : Publish(t) \/ Recall(t) \/ GiveUp(t)

Spec == Init /\ [][Next]_vars

=============================================================================
