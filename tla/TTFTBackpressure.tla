-------------------------- MODULE TTFTBackpressure --------------------------
(***************************************************************************)
(* The controller of a provider's effective cold-prefill budget            *)
(* (pkg/handler/ttft-backpressure.go) as a value b and the operations on   *)
(* it, each of which runs under the controller's own lock: budget, whether *)
(* an observation was ever made, the index of the current window, and the  *)
(* window's samples (kept sorted, their order does not matter) and failure *)
(* flag.  Times are in ticks.  ColdStartGate holds the controller and      *)
(* makes the calls.                                                        *)
(***************************************************************************)
EXTENDS Integers, FiniteSets, Sequences, SequencesExt

CONSTANTS
    Ceiling,       \* coldPrefillBudgetTokens
    Threshold,     \* ttftBackpressureThresholdSeconds, 0 when the loop is off
    CleanMedian,   \* backpressureCleanMedianSeconds
    GrowthStep,    \* backpressureGrowthStep
    FloorDivisor,  \* backpressureFloorDivisor
    RollWindow     \* backpressureWindow

ASSUME BackpressureAssumption ==
    /\ {Ceiling, Threshold, CleanMedian} \subseteq Nat
    /\ {GrowthStep, FloorDivisor, RollWindow} \subseteq Nat \ {0}

\* NewTTFTBackpressure returns nil, an inert controller, unless both are set.
Attached == Threshold > 0 /\ Ceiling > 0

Floor == IF Ceiling \div FloorDivisor < 1 THEN 1 ELSE Ceiling \div FloorDivisor

NewTTFTBackpressure ==
    [budget |-> Ceiling, started |-> FALSE, windowIndex |-> 0, samples |-> <<>>, failed |-> FALSE]

\* Twice the median, so that the mean of the two central values is a number.
TwiceMedian(samples) ==
    LET n == Len(samples)
    IN  CASE n = 0 -> 0
          [] n % 2 = 1 -> 2 * samples[(n \div 2) + 1]
          [] OTHER -> samples[n \div 2] + samples[(n \div 2) + 1]

\* The budget the window that ends leaves: halved, grown or held.
evaluateLocked(b) ==
    LET halved == b.budget \div 2
        grown  == b.budget + GrowthStep
        hot    == b.failed \/ TwiceMedian(b.samples) > 2 * Threshold
    IN  CASE hot -> (IF halved < Floor THEN Floor ELSE halved)
          [] ~hot /\ TwiceMedian(b.samples) < 2 * CleanMedian ->
               (IF grown > Ceiling THEN Ceiling ELSE grown)
          [] OTHER -> b.budget

WindowOf(t) == t \div RollWindow

\* Faulty variant: the failure flag survives the roll.
rollLocked_KeepsFailed(b, t) ==
    IF b.started /\ WindowOf(t) # b.windowIndex
    THEN [b EXCEPT !.budget = evaluateLocked(b), !.samples = <<>>, !.windowIndex = WindowOf(t)]
    ELSE [b EXCEPT !.started = TRUE, !.windowIndex = WindowOf(t)]

\* The first observation of another window evaluates the one it leaves, once.
rollLocked(b, t) ==
    IF b.started /\ WindowOf(t) # b.windowIndex
    THEN [budget |-> evaluateLocked(b), started |-> TRUE, windowIndex |-> WindowOf(t),
          samples |-> <<>>, failed |-> FALSE]
    ELSE [b EXCEPT !.started = TRUE, !.windowIndex = WindowOf(t)]

\* Sorted samples with one more among them, behind those that are no larger.
Inserted(samples, seconds) ==
    InsertAt(samples, Cardinality({i \in DOMAIN samples : samples[i] <= seconds}) + 1, seconds)

ObserveColdTTFT(b, t, seconds) ==
    [rollLocked(b, t) EXCEPT !.samples = Inserted(@, seconds)]

\* status >= 500 marks the window, anything below only rolls it.
ObserveStatus(b, t, failure) ==
    [rollLocked(b, t) EXCEPT !.failed = @ \/ failure]

=============================================================================
