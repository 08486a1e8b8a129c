------------------------ MODULE ColdStartGateProofs -------------------------
(***************************************************************************)
(* Proofs about the cold-start gate and its backpressure controller, for   *)
(* every set of requests, estimates, budget, threshold, interval, window   *)
(* and queue capacity.  IInv conjoins one invariant per part of the state: *)
(*                                                                         *)
(*   ClockInv     nobody carries a clock value from the future, although   *)
(*                the clock is read before the lock                        *)
(*   ControlInv   the history of the window describes the controller's     *)
(*                window, so that its median can be over the threshold     *)
(*                only when a sample was                                   *)
(*   SeenInv      an entry missing from the seen map has expired           *)
(*   RateInv      the bucket holds at most one token                       *)
(*   CountersInv  the counters are what the goroutines hold                *)
(*   WaitInv      who sleeps has a reason to                               *)
(*                                                                         *)
(* BudgetRespected needs CountersInv (what is released was reserved) and   *)
(* ControlInv (the budget in force is never above the configured one);     *)
(* WaitInv needs RateInv for the time a refill timer is set to.            *)
(***************************************************************************)
EXTENDS ColdStartGate, FiniteSetTheorems, SequenceTheorems, TLAPS

-----------------------------------------------------------------------------
(* Arithmetic and counting                                                 *)

\* Go's integer division of non-negative numbers.
LEMMA Quotient ==
    ASSUME NEW a \in Nat, NEW b \in Nat \ {0}
    PROVE  /\ a \div b \in Nat
           /\ (a \div b) * b <= a
           /\ a < (a \div b) * b + b
           /\ a \div b <= a
  OBVIOUS

\* The smaller of two numbers.
LEMMA MinOfTwo ==
    ASSUME NEW a \in Nat, NEW b \in Nat
    PROVE  Min({a, b}) = IF a <= b THEN a ELSE b
  <1> DEFINE m == IF a <= b THEN a ELSE b
  <1>1. m \in {a, b} /\ \A y \in {a, b} : m <= y
    OBVIOUS
  <1>2. \A x \in {a, b} : (\A y \in {a, b} : x <= y) => x = m
    OBVIOUS
  <1> QED
    BY <1>1, <1>2 DEF Min

\* An interval from 1 has as many elements as its upper end says.
LEMMA CountedFromOne ==
    \A m \in Nat : IsFiniteSet(1..m) /\ Cardinality(1..m) = m
  BY FS_Interval

\* One request holds as many tokens as its estimate.
LEMMA TokensOfOne ==
    ASSUME NEW r \in Requests
    PROVE  /\ IsFiniteSet({r} \X (1..Estimate[r]))
           /\ Cardinality({r} \X (1..Estimate[r])) = Estimate[r]
           /\ Estimate[r] \in Nat
  <1>1. Estimate[r] \in Nat
    BY GateAssumption DEF GateAssumption
  <1>2. IsFiniteSet(1..Estimate[r]) /\ Cardinality(1..Estimate[r]) = Estimate[r]
    BY <1>1, CountedFromOne
  <1>3. IsFiniteSet({r}) /\ Cardinality({r}) = 1
    BY FS_Singleton
  <1>4. /\ IsFiniteSet({r} \X (1..Estimate[r]))
        /\ Cardinality({r} \X (1..Estimate[r])) = Cardinality({r}) * Cardinality(1..Estimate[r])
    BY <1>2, <1>3, FS_Product
  <1> QED
    BY <1>1, <1>2, <1>3, <1>4

\* A reservation adds its estimate to the tokens held.
LEMMA TokensReserve ==
    ASSUME NEW S \in SUBSET Requests, IsFiniteSet(TokensOf(S)), NEW r \in Requests \ S
    PROVE  /\ IsFiniteSet(TokensOf(S \cup {r}))
           /\ Cardinality(TokensOf(S \cup {r})) = Cardinality(TokensOf(S)) + Estimate[r]
  <1> DEFINE R == {r} \X (1..Estimate[r])
  <1>1. TokensOf(S \cup {r}) = TokensOf(S) \cup R
    BY Zenon DEF TokensOf
  <1>2. TokensOf(S) \cap R = {}
    BY DEF TokensOf
  <1>3. IsFiniteSet(R) /\ Cardinality(R) = Estimate[r]
    BY TokensOfOne
  <1> HIDE DEF R
  <1>4. /\ IsFiniteSet(TokensOf(S) \cup R)
        /\ Cardinality(TokensOf(S) \cup R) = Cardinality(TokensOf(S)) + Cardinality(R) - 0
    BY <1>2, <1>3, FS_Union, FS_EmptySet
  <1>5. Cardinality(TokensOf(S)) \in Nat /\ Estimate[r] \in Nat
    BY FS_CardinalityType, TokensOfOne
  <1>6. Cardinality(TokensOf(S) \cup R) = Cardinality(TokensOf(S)) + Estimate[r]
    BY <1>3, <1>4, <1>5
  <1> QED
    BY <1>1, <1>4, <1>6, Zenon

\* The tokens of finitely many requests are finitely many.
LEMMA TokensFinite ==
    ASSUME NEW S \in SUBSET Requests
    PROVE  IsFiniteSet(TokensOf(S)) /\ Cardinality(TokensOf(S)) \in Nat
  <1> DEFINE f == [r \in S |-> {r} \X (1..Estimate[r])]
             T == {{r} \X (1..Estimate[r]) : r \in S}
  <1>1. IsFiniteSet(S)
    BY GateAssumption, FS_Subset DEF GateAssumption
  <1>2. f \in Surjection(S, T)
    BY DEF Surjection
  <1>3. \A U \in T : IsFiniteSet(U)
    BY TokensOfOne
  <1>4. IsFiniteSet(T)
    <2> HIDE DEF f, T
    <2> QED
      BY <1>1, <1>2, FS_Surjection
  <1>5. IsFiniteSet(UNION T)
    <2> HIDE DEF f, T
    <2> QED
      BY <1>3, <1>4, FS_UNION
  <1> QED
    BY <1>5, FS_CardinalityType DEF TokensOf

\* A release takes its estimate off the tokens held.
LEMMA TokensRelease ==
    ASSUME NEW S \in SUBSET Requests, NEW r \in S
    PROVE  /\ Cardinality(TokensOf(S \ {r})) = Cardinality(TokensOf(S)) - Estimate[r]
           /\ Estimate[r] <= Cardinality(TokensOf(S))
  <1> DEFINE U == S \ {r}
  <1>1. U \in SUBSET Requests /\ r \in Requests \ U
    OBVIOUS
  <1>2. S = U \cup {r}
    OBVIOUS
  <1>3. IsFiniteSet(TokensOf(U)) /\ Cardinality(TokensOf(U)) \in Nat /\ Estimate[r] \in Nat
    BY <1>1, TokensFinite, TokensOfOne
  <1> HIDE DEF U
  <1>4. Cardinality(TokensOf(U \cup {r})) = Cardinality(TokensOf(U)) + Estimate[r]
    BY <1>1, <1>3, TokensReserve
  <1>5. Cardinality(TokensOf(S)) = Cardinality(TokensOf(U)) + Estimate[r]
    BY <1>2, <1>4, Zenon
  <1>6. /\ Cardinality(TokensOf(U)) = Cardinality(TokensOf(S)) - Estimate[r]
        /\ Estimate[r] <= Cardinality(TokensOf(S))
    BY <1>3, <1>5
  <1> QED
    BY <1>6 DEF U

\* Nobody holds tokens without a request that reserved them.
LEMMA TokensOfNone == Cardinality(TokensOf({})) = 0
  <1>1. TokensOf({}) = {}
    BY DEF TokensOf
  <1> QED
    BY <1>1, FS_EmptySet

-----------------------------------------------------------------------------
(* The controller                                                          *)

\* The floor of the budget lies between one token and the ceiling.
LEMMA FloorBounds ==
    ASSUME Attached
    PROVE  Floor \in Nat \ {0} /\ Floor <= Ceiling
  <1>1. Ceiling \in Nat \ {0} /\ FloorDivisor \in Nat \ {0}
    BY BackpressureAssumption DEF BackpressureAssumption, Attached
  <1>2. Ceiling \div FloorDivisor \in Nat /\ Ceiling \div FloorDivisor <= Ceiling
    BY <1>1, Quotient
  <1> QED
    BY <1>1, <1>2 DEF Floor

\* Inserting a sample keeps the others: every entry is an old one or the new.
LEMMA InsertedEntries ==
    ASSUME NEW s \in Seq(Nat), NEW x \in Nat
    PROVE  /\ Inserted(s, x) \in Seq(Nat)
           /\ \A i \in DOMAIN Inserted(s, x) :
                 Inserted(s, x)[i] = x \/ \E j \in DOMAIN s : Inserted(s, x)[i] = s[j]
  <1> DEFINE K == {i \in DOMAIN s : s[i] <= x}
             n == Cardinality(K)
             a == SubSeq(s, 1, n)
             b == SubSeq(s, n + 1, Len(s))
  <1>1. n \in 0..Len(s)
    <2>1. Len(s) \in Nat /\ K \subseteq 1..Len(s)
      OBVIOUS
    <2> HIDE DEF K
    <2>2. IsFiniteSet(1..Len(s)) /\ Cardinality(1..Len(s)) = Len(s)
      BY <2>1, CountedFromOne, Zenon
    <2>3. IsFiniteSet(K) /\ Cardinality(K) <= Len(s)
      BY <2>1, <2>2, FS_Subset
    <2>4. Cardinality(K) \in Nat
      BY <2>3, FS_CardinalityType
    <2> QED
      BY <2>1, <2>3, <2>4
  <1>2. Inserted(s, x) = (a \o <<x>>) \o b
    <2>1. (n + 1) - 1 = n
      BY <1>1
    <2> QED
      BY <2>1 DEF Inserted, InsertAt
  <1> HIDE DEF K, n
  <1>3. /\ a \in Seq(Nat) /\ Len(a) = n
        /\ \A k \in 1..n : a[k] = s[k]
    BY <1>1, SubSeqProperties
  <1>4. /\ b \in Seq(Nat) /\ Len(b) = Len(s) - n
        /\ \A k \in 1..(Len(s) - n) : b[k] = s[n + k]
    BY <1>1, SubSeqProperties
  <1> HIDE DEF a, b
  <1> DEFINE c == a \o <<x>>
  <1>5. /\ c \in Seq(Nat) /\ Len(c) = n + 1
        /\ \A k \in 1..(n + 1) : c[k] = IF k <= n THEN a[k] ELSE x
    BY <1>1, <1>3
  <1> HIDE DEF c
  <1>6. /\ c \o b \in Seq(Nat) /\ Len(c \o b) = Len(c) + Len(b)
        /\ \A k \in 1..(Len(c) + Len(b)) : (c \o b)[k] = IF k <= Len(c) THEN c[k] ELSE b[k - Len(c)]
    BY <1>4, <1>5, ConcatProperties
  <1>7. Inserted(s, x) = c \o b
    BY <1>2 DEF c
  <1>8. ASSUME NEW i \in 1..(Len(c) + Len(b))
        PROVE  (c \o b)[i] = x \/ \E j \in DOMAIN s : (c \o b)[i] = s[j]
    <2>1. CASE i <= n
      <3>1. (c \o b)[i] = c[i] /\ c[i] = a[i]
        BY <1>1, <1>5, <1>6, <2>1, SMTT(20)
      <3>2. a[i] = s[i] /\ i \in DOMAIN s
        BY <1>1, <1>3, <2>1
      <3> QED
        BY <3>1, <3>2
    <2>2. CASE i = n + 1
      BY <1>1, <1>5, <1>6, <2>2
    <2>3. CASE i > n + 1
      <3>1. i - (n + 1) \in 1..(Len(s) - n) /\ n + (i - (n + 1)) \in 1..Len(s)
        BY <1>1, <1>4, <1>5, <2>3, SMTT(20)
      <3>2. (c \o b)[i] = b[i - (n + 1)]
        BY <1>1, <1>5, <1>6, <2>3, SMTT(20)
      <3>3. b[i - (n + 1)] = s[n + (i - (n + 1))]
        <4> DEFINE k == i - (n + 1)
        <4>1. k \in 1..(Len(s) - n)
          BY <3>1
        <4> HIDE DEF k
        <4>2. b[k] = s[n + k]
          BY <1>4, <4>1
        <4> QED
          BY <4>2 DEF k
      <3> QED
        BY <3>1, <3>2, <3>3
    <2> QED
      BY <1>1, <2>1, <2>2, <2>3, SMTT(20)
  <1> QED
    BY <1>6, <1>7, <1>8, SMTT(20)

\* A median is over the threshold only when a sample is.
LEMMA MedianOfFast ==
    ASSUME NEW s \in Seq(Nat), \A i \in DOMAIN s : s[i] <= Threshold
    PROVE  TwiceMedian(s) \in Nat /\ TwiceMedian(s) <= 2 * Threshold
  <1>1. Threshold \in Nat /\ Len(s) \in Nat
    BY BackpressureAssumption DEF BackpressureAssumption
  <1>2. CASE Len(s) = 0
    BY <1>1, <1>2 DEF TwiceMedian
  <1>3. CASE Len(s) # 0
    <2>1. Len(s) \div 2 + 1 \in 1..Len(s) /\ Len(s) \div 2 \in 0..Len(s)
      BY <1>1, <1>3
    <2>2. s[Len(s) \div 2 + 1] \in Nat /\ s[Len(s) \div 2 + 1] <= Threshold
      BY <2>1
    <2>3. CASE Len(s) % 2 = 1
      BY <1>1, <1>3, <2>2, <2>3 DEF TwiceMedian
    <2>4. CASE Len(s) % 2 # 1
      <3>1. Len(s) \div 2 \in 1..Len(s)
        BY <1>1, <1>3, <2>4
      <3>2. s[Len(s) \div 2] \in Nat /\ s[Len(s) \div 2] <= Threshold
        BY <3>1
      <3>3. TwiceMedian(s) = s[Len(s) \div 2] + s[Len(s) \div 2 + 1]
        BY <1>3, <2>4 DEF TwiceMedian
      <3> QED
        BY <1>1, <2>2, <3>2, <3>3
    <2> QED
      BY <2>3, <2>4
  <1> QED
    BY <1>2, <1>3

Controllers ==
    [budget : Nat, started : BOOLEAN, windowIndex : Nat, samples : Seq(Nat), failed : BOOLEAN]

\* c is what b becomes when the window is rolled at t.
IsRolled(b, t, c) ==
    /\ c \in Controllers /\ c.started /\ c.windowIndex = WindowOf(t) /\ WindowOf(t) \in Nat
    /\ b.started /\ WindowOf(t) # b.windowIndex
          => c.budget = evaluateLocked(b) /\ c.samples = <<>> /\ c.failed = FALSE
    /\ ~(b.started /\ WindowOf(t) # b.windowIndex)
          => c.budget = b.budget /\ c.samples = b.samples /\ c.failed = b.failed

\* What rolling the window leaves of each field.
LEMMA RollFields ==
    ASSUME NEW b \in Controllers, NEW t \in Nat, NEW c, c = rollLocked(b, t),
           evaluateLocked(b) \in Nat
    PROVE  IsRolled(b, t, c)
  <1> USE DEF IsRolled
  <1>1. WindowOf(t) \in Nat
    BY Quotient, BackpressureAssumption DEF WindowOf, BackpressureAssumption
  <1>2. CASE b.started /\ WindowOf(t) # b.windowIndex
    <2>1. c = [budget |-> evaluateLocked(b), started |-> TRUE, windowIndex |-> WindowOf(t),
               samples |-> <<>>, failed |-> FALSE]
      BY <1>2, Zenon DEF rollLocked
    <2>2. <<>> \in Seq(Nat)
      OBVIOUS
    <2>3. c \in Controllers
      BY <1>1, <2>1, <2>2 DEF Controllers
    <2>4. /\ c.budget = evaluateLocked(b) /\ c.started = TRUE /\ c.windowIndex = WindowOf(t)
          /\ c.samples = <<>> /\ c.failed = FALSE
      BY <2>1
    <2> QED
      BY <1>1, <1>2, <2>3, <2>4
  <1>3. CASE ~(b.started /\ WindowOf(t) # b.windowIndex)
    <2>1. c = [b EXCEPT !.started = TRUE, !.windowIndex = WindowOf(t)]
      BY <1>3, Zenon DEF rollLocked
    <2> QED
      BY <1>1, <1>3, <2>1 DEF Controllers
  <1> QED
    BY <1>2, <1>3

\* evaluateLocked keeps the budget between the floor and the ceiling, and moves
\* it the way the window's failure flag and median say.
LEMMA EvaluateBounds ==
    ASSUME Attached, NEW b \in Controllers, b.budget \in Floor..Ceiling
    PROVE  /\ evaluateLocked(b) \in Floor..Ceiling
           /\ evaluateLocked(b) > b.budget => ~b.failed
           /\ evaluateLocked(b) < b.budget => b.failed \/ TwiceMedian(b.samples) > 2 * Threshold
  <1>1. /\ Floor \in Nat \ {0} /\ Ceiling \in Nat /\ Floor <= Ceiling /\ GrowthStep \in Nat \ {0}
        /\ b.budget \in Nat
    BY FloorBounds, BackpressureAssumption DEF BackpressureAssumption, Controllers
  <1> DEFINE slow == TwiceMedian(b.samples) > 2 * Threshold
             clean == TwiceMedian(b.samples) < 2 * CleanMedian
  <1>2. CASE b.failed \/ slow
    <2>1. evaluateLocked(b) = IF b.budget \div 2 < Floor THEN Floor ELSE b.budget \div 2
      BY <1>2 DEF evaluateLocked
    <2>2. b.budget \div 2 \in Nat /\ b.budget \div 2 <= b.budget
      BY <1>1
    <2>3. evaluateLocked(b) \in Floor..Ceiling /\ evaluateLocked(b) <= b.budget
      BY <1>1, <2>1, <2>2
    <2> QED
      BY <1>1, <1>2, <2>3
  <1>3. CASE ~(b.failed \/ slow) /\ clean
    <2>1. evaluateLocked(b) = IF b.budget + GrowthStep > Ceiling THEN Ceiling
                              ELSE b.budget + GrowthStep
      BY <1>3 DEF evaluateLocked
    <2>2. evaluateLocked(b) \in Floor..Ceiling /\ evaluateLocked(b) >= b.budget
      BY <1>1, <2>1
    <2> QED
      BY <1>1, <1>3, <2>2
  <1>4. CASE ~(b.failed \/ slow) /\ ~clean
    <2>1. evaluateLocked(b) = b.budget
      BY <1>4 DEF evaluateLocked
    <2> QED
      BY <1>1, <2>1
  <1> QED
    BY <1>2, <1>3, <1>4

\* A sample is recorded: the other fields stay.
LEMMA SetSamples ==
    ASSUME NEW c \in Controllers, NEW s \in Seq(Nat), NEW e, e = [c EXCEPT !.samples = s]
    PROVE  /\ e \in Controllers /\ e.samples = s /\ e.budget = c.budget
           /\ e.started = c.started /\ e.windowIndex = c.windowIndex /\ e.failed = c.failed
  BY DEF Controllers

\* A failure is recorded: the other fields stay.
LEMMA SetFailed ==
    ASSUME NEW c \in Controllers, NEW f \in BOOLEAN, NEW e, e = [c EXCEPT !.failed = f]
    PROVE  /\ e \in Controllers /\ e.failed = f /\ e.budget = c.budget
           /\ e.started = c.started /\ e.windowIndex = c.windowIndex /\ e.samples = c.samples
  BY DEF Controllers

Evidences == [window : Nat, failed : BOOLEAN, slow : BOOLEAN]

\* The history describes the window the controller is on.
EvidenceCurrent ==
    /\ evidence.window = bp.windowIndex
    /\ evidence.failed = bp.failed
    /\ ~evidence.slow => \A i \in DOMAIN bp.samples : bp.samples[i] <= Threshold

\* Before the first observation the controller and the history are as created.
ControlUnused ==
    /\ bp.failed = FALSE /\ bp.samples = <<>>
    /\ evidence.failed = FALSE /\ evidence.slow = FALSE

\* The controller, the history, and the budget's bounds; a provider without a
\* controller never reaches the step that informs one.
ControlInv ==
    /\ bp \in Controllers /\ evidence \in Evidences
    /\ bp.started => EvidenceCurrent
    /\ ~bp.started => ControlUnused
    /\ Attached => bp.budget \in Floor..Ceiling
    /\ \A r \in Requests : pc[r] = "measure" => Attached

\* What the step does to the budget, as BudgetFollowsEvidence has it.
BudgetStep ==
    /\ Attached => bp'.budget \in Floor..Ceiling
    /\ bp'.budget # bp.budget => evidence'.window # evidence.window
    /\ bp'.budget > bp.budget => ~evidence.failed
    /\ bp'.budget < bp.budget => evidence.failed \/ evidence.slow

\* What an observation at this instant leaves in the history.
LEMMA SeenFields ==
    ASSUME evidence \in Evidences, NEW f \in BOOLEAN, NEW s \in BOOLEAN, now \in Nat
    PROVE  /\ Seen(f, s) \in Evidences /\ Seen(f, s).window = WindowOf(now)
           /\ evidence.window = WindowOf(now)
                 => /\ Seen(f, s).failed = (evidence.failed \/ f)
                    /\ Seen(f, s).slow = (evidence.slow \/ s)
           /\ evidence.window # WindowOf(now)
                 => Seen(f, s).failed = f /\ Seen(f, s).slow = s
  <1>1. WindowOf(now) \in Nat
    BY Quotient, BackpressureAssumption DEF WindowOf, BackpressureAssumption
  <1> DEFINE new == [window |-> WindowOf(now), failed |-> FALSE, slow |-> FALSE]
             old == IF evidence.window = WindowOf(now) THEN evidence ELSE new
  <1>2. /\ old \in Evidences /\ old.window = WindowOf(now)
        /\ evidence.window = WindowOf(now) => old = evidence
        /\ evidence.window # WindowOf(now) => ~old.failed /\ ~old.slow
    BY <1>1 DEF Evidences
  <1>3. Seen(f, s) = [old EXCEPT !.failed = @ \/ f, !.slow = @ \/ s]
    BY Zenon DEF Seen
  <1> HIDE DEF old
  <1>4. old.failed \in BOOLEAN /\ old.slow \in BOOLEAN
    BY <1>2 DEF Evidences
  <1>5. /\ Seen(f, s) \in Evidences /\ Seen(f, s).window = old.window
        /\ Seen(f, s).failed = (old.failed \/ f) /\ Seen(f, s).slow = (old.slow \/ s)
    BY <1>2, <1>3, <1>4 DEF Evidences
  <1> QED
    BY <1>1, <1>2, <1>4, <1>5

\* c is the controller after rolling the window, before the observation itself is
\* recorded: the budget has moved as the history allows, and what is left of the
\* samples and of the failure flag is covered by the history.
RolledWithEvidence(c) ==
    /\ c \in Controllers /\ c.started /\ c.windowIndex = WindowOf(now)
    /\ c.budget \in Floor..Ceiling
    /\ c.budget # bp.budget => WindowOf(now) # evidence.window
    /\ c.budget > bp.budget => ~evidence.failed
    /\ c.budget < bp.budget => evidence.failed \/ evidence.slow
    /\ evidence.window # WindowOf(now) => ~c.failed /\ c.samples = <<>>
    /\ evidence.window = WindowOf(now)
          => /\ c.failed = evidence.failed
             /\ ~evidence.slow => \A i \in DOMAIN c.samples : c.samples[i] <= Threshold

\* rollLocked follows the history.
LEMMA RollFollowsEvidence ==
    ASSUME Attached, ControlInv, now \in Nat, NEW c, c = rollLocked(bp, now)
    PROVE  RolledWithEvidence(c)
  <1> USE DEF RolledWithEvidence
  <1>1. bp \in Controllers /\ bp.budget \in Floor..Ceiling
    BY DEF ControlInv
  <1>2. /\ evaluateLocked(bp) \in Floor..Ceiling
        /\ evaluateLocked(bp) > bp.budget => ~bp.failed
        /\ evaluateLocked(bp) < bp.budget => bp.failed \/ TwiceMedian(bp.samples) > 2 * Threshold
    BY <1>1, EvaluateBounds
  <1>3. evaluateLocked(bp) \in Nat
    BY <1>2, FloorBounds
  <1>4. IsRolled(bp, now, c)
    BY <1>1, <1>3, RollFields
  <1>5. CASE bp.started /\ WindowOf(now) # bp.windowIndex
    <2>1. EvidenceCurrent
      BY <1>5 DEF ControlInv
    <2>2. ~evidence.slow => ~(TwiceMedian(bp.samples) > 2 * Threshold)
      <3>1. SUFFICES ASSUME ~evidence.slow PROVE ~(TwiceMedian(bp.samples) > 2 * Threshold)
        OBVIOUS
      <3>2. bp.samples \in Seq(Nat)
        BY <1>1 DEF Controllers
      <3>3. TwiceMedian(bp.samples) \in Nat /\ TwiceMedian(bp.samples) <= 2 * Threshold
        BY <2>1, <3>1, <3>2, MedianOfFast DEF EvidenceCurrent
      <3>4. Threshold \in Nat
        BY BackpressureAssumption DEF BackpressureAssumption
      <3> QED
        BY <3>3, <3>4
    <2> QED
      BY <1>2, <1>4, <1>5, <2>1, <2>2 DEF EvidenceCurrent, IsRolled
  <1>6. CASE bp.started /\ WindowOf(now) = bp.windowIndex
    <2>1. c.budget = bp.budget /\ c.samples = bp.samples /\ c.failed = bp.failed /\ EvidenceCurrent
      BY <1>4, <1>6 DEF ControlInv, IsRolled
    <2>2. bp.budget \in Nat
      BY <1>1 DEF Controllers
    <2> QED
      BY <1>1, <1>4, <1>6, <2>1, <2>2 DEF EvidenceCurrent, IsRolled
  <1>7. CASE ~bp.started
    <2>1. c.budget = bp.budget /\ c.samples = <<>> /\ c.failed = FALSE
      BY <1>4, <1>7 DEF ControlInv, ControlUnused, IsRolled
    <2>2. bp.budget \in Nat /\ evidence.failed = FALSE
      BY <1>1, <1>7 DEF Controllers, ControlInv, ControlUnused
    <2>3. \A i \in DOMAIN c.samples : c.samples[i] <= Threshold
      BY <2>1
    <2>4. ~(c.budget > bp.budget) /\ ~(c.budget < bp.budget)
      BY <2>1, <2>2
    <2>5. c \in Controllers /\ c.started /\ c.windowIndex = WindowOf(now)
      BY <1>4 DEF IsRolled
    <2> QED
      BY <1>1, <2>1, <2>2, <2>3, <2>4, <2>5, Zenon
  <1> QED
    BY <1>5, <1>6, <1>7

\* Telling the controller of a status keeps history and controller together.
LEMMA StatusFollowsEvidence ==
    ASSUME Attached, ControlInv, now \in Nat, NEW f \in BOOLEAN,
           bp' = ObserveStatus(bp, now, f), evidence' = Seen(f, FALSE),
           \A r \in Requests : pc'[r] = "measure" => pc[r] = "measure"
    PROVE  ControlInv' /\ BudgetStep
  <1> DEFINE c == rollLocked(bp, now)
  <1>1. evidence \in Evidences
    BY DEF ControlInv
  <1>2. bp' = [c EXCEPT !.failed = @ \/ f]
    BY DEF ObserveStatus
  <1>3. RolledWithEvidence(c)
    BY RollFollowsEvidence
  <1> HIDE DEF c
  <1> USE DEF RolledWithEvidence
  <1>4. (c.failed \/ f) \in BOOLEAN
    OBVIOUS
  <1>5. /\ bp' \in Controllers /\ bp'.failed = (c.failed \/ f) /\ bp'.budget = c.budget
        /\ bp'.started = c.started /\ bp'.windowIndex = c.windowIndex /\ bp'.samples = c.samples
    <2> DEFINE g == c.failed \/ f
    <2>1. c \in Controllers /\ g \in BOOLEAN /\ bp' = [c EXCEPT !.failed = g]
      BY <1>2, <1>3, <1>4, Zenon
    <2> HIDE DEF g
    <2>2. /\ bp' \in Controllers /\ bp'.failed = g /\ bp'.budget = c.budget
          /\ bp'.started = c.started /\ bp'.windowIndex = c.windowIndex /\ bp'.samples = c.samples
      BY <2>1, SetFailed
    <2> QED
      BY <2>2 DEF g
  <1>6. /\ evidence' \in Evidences /\ evidence'.window = WindowOf(now)
        /\ evidence.window = WindowOf(now)
              => evidence'.failed = (evidence.failed \/ f) /\ evidence'.slow = evidence.slow
        /\ evidence.window # WindowOf(now) => evidence'.failed = f /\ evidence'.slow = FALSE
    <2>1. evidence.slow \in BOOLEAN
      BY <1>1 DEF Evidences
    <2> QED
      BY <1>1, <2>1, SeenFields
  <1>7. EvidenceCurrent'
    <2>1. CASE evidence.window = WindowOf(now)
      BY <1>3, <1>5, <1>6, <2>1 DEF EvidenceCurrent
    <2>2. CASE evidence.window # WindowOf(now)
      <3>1. DOMAIN bp'.samples = {}
        BY <1>3, <1>5, <2>2
      <3>2. c.failed = FALSE
        BY <1>3, <2>2 DEF Controllers
      <3> QED
        BY <1>3, <1>5, <1>6, <2>2, <3>1, <3>2 DEF EvidenceCurrent
    <2> QED
      BY <2>1, <2>2
  <1>8. ControlInv'
    BY <1>3, <1>5, <1>6, <1>7 DEF ControlInv
  <1>9. BudgetStep
    BY <1>3, <1>5, <1>6 DEF BudgetStep
  <1> QED
    BY <1>8, <1>9

\* Telling the controller of a first delta does, too: a window whose history has
\* seen no slow sample holds none.
LEMMA MeasureFollowsEvidence ==
    ASSUME Attached, ControlInv, now \in Nat, NEW d \in Nat,
           bp' = ObserveColdTTFT(bp, now, d), evidence' = Seen(FALSE, d > Threshold),
           \A r \in Requests : pc'[r] = "measure" => pc[r] = "measure"
    PROVE  ControlInv' /\ BudgetStep
  <1> DEFINE c == rollLocked(bp, now)
  <1>1. evidence \in Evidences
    BY DEF ControlInv
  <1>2. bp' = [c EXCEPT !.samples = Inserted(c.samples, d)]
    BY DEF ObserveColdTTFT
  <1>3. RolledWithEvidence(c)
    BY RollFollowsEvidence
  <1> HIDE DEF c
  <1> USE DEF RolledWithEvidence
  <1>4. /\ Inserted(c.samples, d) \in Seq(Nat)
        /\ \A i \in DOMAIN Inserted(c.samples, d) :
              \/ Inserted(c.samples, d)[i] = d
              \/ \E j \in DOMAIN c.samples : Inserted(c.samples, d)[i] = c.samples[j]
    <2>1. c.samples \in Seq(Nat)
      BY <1>3 DEF Controllers
    <2> QED
      BY <2>1, InsertedEntries
  <1>5. /\ bp' \in Controllers /\ bp'.failed = c.failed /\ bp'.budget = c.budget
        /\ bp'.started = c.started /\ bp'.windowIndex = c.windowIndex
        /\ bp'.samples = Inserted(c.samples, d)
    <2>1. c \in Controllers /\ Inserted(c.samples, d) \in Seq(Nat)
      BY <1>3, <1>4
    <2> QED
      BY <1>2, <2>1, SetSamples
  <1>6. /\ evidence' \in Evidences /\ evidence'.window = WindowOf(now)
        /\ evidence.window = WindowOf(now)
              => /\ evidence'.failed = evidence.failed
                 /\ evidence'.slow = (evidence.slow \/ d > Threshold)
        /\ evidence.window # WindowOf(now)
              => evidence'.failed = FALSE /\ evidence'.slow = (d > Threshold)
    <2>1. evidence.failed \in BOOLEAN /\ (d > Threshold) \in BOOLEAN
      BY <1>1 DEF Evidences
    <2> QED
      BY <1>1, <2>1, SeenFields
  <1>7. EvidenceCurrent'
    <2>1. ASSUME ~evidence'.slow, NEW i \in DOMAIN bp'.samples
          PROVE  bp'.samples[i] <= Threshold
      <3>1. ~(d > Threshold)
        BY <1>6, <2>1
      <3>2. d <= Threshold
        BY <3>1, BackpressureAssumption DEF BackpressureAssumption
      <3>3. \A j \in DOMAIN c.samples : c.samples[j] <= Threshold
        <4>1. CASE evidence.window = WindowOf(now)
          BY <1>3, <1>6, <2>1, <4>1
        <4>2. CASE evidence.window # WindowOf(now)
          BY <1>3, <4>2
        <4> QED
          BY <4>1, <4>2
      <3> QED
        BY <1>4, <1>5, <2>1, <3>2, <3>3
    <2>2. evidence'.failed = bp'.failed
      <3>1. CASE evidence.window = WindowOf(now)
        BY <1>3, <1>5, <1>6, <3>1
      <3>2. CASE evidence.window # WindowOf(now)
        <4>1. c.failed = FALSE
          BY <1>3, <3>2 DEF Controllers
        <4> QED
          BY <1>5, <1>6, <3>2, <4>1
      <3> QED
        BY <3>1, <3>2
    <2> QED
      BY <1>3, <1>5, <1>6, <2>1, <2>2 DEF EvidenceCurrent
  <1>8. ControlInv'
    BY <1>3, <1>5, <1>6, <1>7 DEF ControlInv
  <1>9. BudgetStep
    BY <1>3, <1>5, <1>6 DEF BudgetStep
  <1> QED
    BY <1>8, <1>9

-----------------------------------------------------------------------------
(* The steps of one request                                                *)

\* Where the goroutines are and the clock values they carry, none of them from
\* the future.
ClockInv ==
    /\ now \in 0..MaxTime
    /\ pc \in [Requests -> PCs]
    /\ at \in [Requests -> 0..MaxTime]
    /\ \A r \in Requests : at[r] <= now

\* tryAdmitLocked, with whatever verdict.
Attempt(r) == AdmitWarm(r) \/ AdmitCold(r) \/ BlockBudget(r) \/ BlockRate(r)

\* A step of r moves r alone, and what r remembers of the clock is what it did
\* before, nothing, or the present.
LEMMA OneMoves ==
    ASSUME ClockInv, NEW r \in Requests, ServeHTTP(r)
    PROVE  /\ now' = now
           /\ \E x \in PCs : pc' = [pc EXCEPT ![r] = x]
           /\ \E y \in {0, now, at[r]} : at' = [at EXCEPT ![r] = y]
  <1>1. at = [at EXCEPT ![r] = at[r]]
    BY DEF ClockInv
  <1>2. \A to : DispatchedAt(to) \in {0, now}
    BY DEF DispatchedAt
  <1>3. Forward(r) \in PCs
    BY DEF Forward, PCs
  <1>4. CASE Arrive(r) \/ Wake(r) \/ GiveUp(r) \/ RefuseFull(r)
    BY <1>1, <1>4 DEF Arrive, Wake, GiveUp, RefuseFull, PCs
  <1>5. CASE AdmitAtOnce(r)
    BY <1>2, <1>3, <1>5 DEF AdmitAtOnce, PCs
  <1>6. CASE Enqueue(r) \/ RetryBlocked(r)
    BY <1>6 DEF Enqueue, RetryBlocked, Park, PCs
  <1>7. CASE RetryAdmit(r)
    BY <1>7 DEF RetryAdmit, PCs
  <1>8. CASE LeaveQueue(r)
    BY <1>2, <1>3, <1>8 DEF LeaveQueue, PCs
  <1>9. CASE FirstDelta(r)
    BY <1>1, <1>9 DEF FirstDelta, PCs
  <1>10. CASE Measure(r) \/ ReturnCold(r)
    BY <1>10 DEF Measure, ReturnCold, PCs
  <1>11. CASE ReleaseDeferred(r) \/ ReturnPassed(r)
    BY <1>1, <1>11 DEF ReleaseDeferred, ReturnPassed, PCs
  <1> QED
    BY <1>4, <1>5, <1>6, <1>7, <1>8, <1>9, <1>10, <1>11 DEF ServeHTTP

\* The clock values stay in the past.
LEMMA NextClockInv ==
    ASSUME ClockInv, [Next]_vars
    PROVE  ClockInv' /\ now' \in Nat /\ now' >= now
  <1>0. MaxTime \in Nat
    BY GateAssumption DEF GateAssumption
  <1>1. CASE UNCHANGED vars
    BY <1>0, <1>1 DEF ClockInv, vars
  <1>2. CASE Tick
    <2>1. now' = now + 1 /\ now < MaxTime /\ pc' = pc /\ at' = at
      BY <1>2 DEF Tick
    <2> QED
      BY <1>0, <2>1 DEF ClockInv
  <1>3. ASSUME NEW r \in Requests, ServeHTTP(r) PROVE ClockInv' /\ now' \in Nat /\ now' >= now
    <2>1. PICK x \in PCs : pc' = [pc EXCEPT ![r] = x]
      BY <1>3, OneMoves
    <2>2. PICK y \in {0, now, at[r]} : at' = [at EXCEPT ![r] = y]
      BY <1>3, OneMoves
    <2>3. now' = now /\ now \in 0..MaxTime
      BY <1>3, OneMoves DEF ClockInv
    <2>4. y \in 0..MaxTime /\ y <= now
      BY <1>0, <2>2, <2>3 DEF ClockInv
    <2> QED
      BY <1>0, <2>1, <2>2, <2>3, <2>4 DEF ClockInv
  <1> QED
    BY <1>1, <1>2, <1>3 DEF Next

\* The gate's own fields change in an attempt or in a release, and nowhere else.
LEMMA GateSteps ==
    ASSUME NEW r \in Requests, ServeHTTP(r)
    PROVE  \/ UNCHANGED <<seen, lastPrune, inFlight, tokens, lastRefill, admittedAt>>
           \/ Attempt(r) /\ pc[r] \in {"arrived", "retry"}
           \/ release(r) /\ UNCHANGED <<seen, lastPrune, tokens, lastRefill, admittedAt>>
  <1>1. CASE Arrive(r) \/ Wake(r) \/ GiveUp(r) \/ LeaveQueue(r) \/ Measure(r)
             \/ ReturnCold(r) \/ ReturnPassed(r)
    BY <1>1 DEF Arrive, Wake, GiveUp, LeaveQueue, Measure, ReturnCold, ReturnPassed, gate
  <1>2. CASE AdmitAtOnce(r) \/ RetryAdmit(r) \/ RefuseFull(r)
    BY <1>2 DEF AdmitAtOnce, RetryAdmit, RefuseFull, Attempt
  <1>3. CASE Enqueue(r) \/ RetryBlocked(r)
    BY <1>3 DEF Enqueue, RetryBlocked, Park, Attempt
  <1>4. CASE FirstDelta(r) \/ ReleaseDeferred(r)
    BY <1>4 DEF FirstDelta, ReleaseDeferred
  <1> QED
    BY <1>1, <1>2, <1>3, <1>4 DEF ServeHTTP

\* The controller changes only when it is told of a first delta or of a status.
LEMMA ControlSteps ==
    ASSUME NEW r \in Requests, ServeHTTP(r)
    PROVE  \/ UNCHANGED <<bp, evidence>>
           \/ Measure(r)
           \/ /\ Attached
              /\ \E failure \in BOOLEAN :
                    bp' = ObserveStatus(bp, now, failure) /\ evidence' = Seen(failure, FALSE)
              /\ ReturnCold(r) \/ ReturnPassed(r)
  <1>1. CASE Arrive(r) \/ Wake(r) \/ GiveUp(r) \/ LeaveQueue(r) \/ AdmitAtOnce(r) \/ RetryAdmit(r)
             \/ RefuseFull(r) \/ Enqueue(r) \/ RetryBlocked(r) \/ FirstDelta(r) \/ ReleaseDeferred(r)
    BY <1>1 DEF Arrive, Wake, GiveUp, LeaveQueue, AdmitAtOnce, RetryAdmit, RefuseFull, Enqueue,
                RetryBlocked, FirstDelta, ReleaseDeferred, control
  <1>2. CASE ReturnCold(r) \/ ReturnPassed(r)
    BY <1>2 DEF ReturnCold, ReturnPassed, ReportStatus, control
  <1> QED
    BY <1>1, <1>2 DEF ServeHTTP

\* A request is told to measure only where a controller is attached.
LEMMA MeasureNeedsController ==
    ASSUME ClockInv, NEW r \in Requests, ServeHTTP(r)
    PROVE  \A q \in Requests : pc'[q] = "measure" => pc[q] = "measure" \/ Attached
  <1>1. PICK x \in PCs : pc' = [pc EXCEPT ![r] = x]
    BY OneMoves
  <1>2. x = "measure" => Attached
    <2>1. pc'[r] = x
      BY <1>1 DEF ClockInv
    <2>2. CASE FirstDelta(r)
      BY <2>1, <2>2 DEF FirstDelta, ClockInv
    <2>3. CASE ~FirstDelta(r)
      BY <2>1, <2>3 DEF ClockInv, ServeHTTP, Arrive, AdmitAtOnce, Enqueue, RefuseFull, Wake,
            RetryAdmit, RetryBlocked, Park, GiveUp, LeaveQueue, Forward, Measure, ReturnCold,
            ReleaseDeferred, ReturnPassed
    <2> QED
      BY <2>2, <2>3
  <1> QED
    BY <1>1, <1>2 DEF ClockInv

\* Every step keeps the controller and its history together.
LEMMA NextControlInv ==
    ASSUME ClockInv, ControlInv, [Next]_vars
    PROVE  ControlInv' /\ [BudgetStep]_vars
  <1>0. now \in Nat
    BY GateAssumption DEF ClockInv, GateAssumption
  <1>1. ASSUME UNCHANGED <<bp, evidence>>,
               \A q \in Requests : pc'[q] = "measure" => pc[q] = "measure" \/ Attached
        PROVE  ControlInv' /\ BudgetStep
    <2>1. ControlInv'
      BY <1>1 DEF ControlInv, EvidenceCurrent, ControlUnused
    <2>2. bp.budget \in Nat
      BY DEF ControlInv, Controllers
    <2> QED
      BY <1>1, <2>1, <2>2 DEF BudgetStep, ControlInv
  <1>2. CASE UNCHANGED vars \/ Tick
    BY <1>1, <1>2 DEF vars, control, Tick
  <1>3. ASSUME NEW r \in Requests, ServeHTTP(r) PROVE ControlInv' /\ BudgetStep
    <2>1. CASE UNCHANGED <<bp, evidence>>
      BY <1>1, <1>3, <2>1, MeasureNeedsController
    <2>2. CASE Measure(r)
      <3>1. Attached /\ now - at[r] \in Nat
        BY <1>0, <2>2, GateAssumption DEF Measure, ControlInv, ClockInv, GateAssumption
      <3>2. \A q \in Requests : pc'[q] = "measure" => pc[q] = "measure"
        BY <2>2 DEF Measure, ClockInv
      <3>3. bp' = ObserveColdTTFT(bp, now, now - at[r])
            /\ evidence' = Seen(FALSE, now - at[r] > Threshold)
        BY <2>2 DEF Measure
      <3> DEFINE d == now - at[r]
      <3>4. d \in Nat /\ bp' = ObserveColdTTFT(bp, now, d) /\ evidence' = Seen(FALSE, d > Threshold)
        BY <3>1, <3>3
      <3> HIDE DEF d
      <3> QED
        BY <1>0, <3>1, <3>2, <3>4, MeasureFollowsEvidence
    <2>3. CASE /\ Attached
               /\ \E failure \in BOOLEAN :
                     bp' = ObserveStatus(bp, now, failure) /\ evidence' = Seen(failure, FALSE)
               /\ ReturnCold(r) \/ ReturnPassed(r)
      <3>1. PICK f \in BOOLEAN : bp' = ObserveStatus(bp, now, f) /\ evidence' = Seen(f, FALSE)
        BY <2>3
      <3>2. \A q \in Requests : pc'[q] = "measure" => pc[q] = "measure"
        BY <2>3 DEF ReturnCold, ReturnPassed, ClockInv
      <3> QED
        BY <1>0, <2>3, <3>1, <3>2, StatusFollowsEvidence
    <2> QED
      BY <1>3, <2>1, <2>2, <2>3, ControlSteps
  <1> QED
    BY <1>2, <1>3 DEF Next

-----------------------------------------------------------------------------
(* Sessions                                                                *)

\* The seen map holds what the history holds, except for entries that no
\* admission would count any more.
SeenInv ==
    /\ DOMAIN seen \subseteq Sessions
    /\ \A s \in DOMAIN seen : seen[s] \in 0..now
    /\ lastPrune \in Int
    /\ \A s \in DOMAIN admittedAt : admittedAt[s] \in 0..now
    /\ \A s \in DOMAIN admittedAt :
          (s \in DOMAIN seen /\ seen[s] = admittedAt[s]) \/ now - admittedAt[s] >= Window

\* The prune walk drops entries outside the window and touches no other.
LEMMA PruneDropsExpired ==
    ASSUME NEW t
    PROVE  /\ DOMAIN Pruned(t) \subseteq DOMAIN seen
           /\ \A s \in DOMAIN Pruned(t) : Pruned(t)[s] = seen[s]
           /\ \A s \in DOMAIN seen \ DOMAIN Pruned(t) : ~(t - seen[s] < Window)
  <1>1. CASE PruneDue(t)
    BY <1>1 DEF Pruned, Restrict
  <1>2. CASE ~PruneDue(t)
    BY <1>2 DEF Pruned
  <1> QED
    BY <1>1, <1>2

\* Every step keeps the map and its history together.
LEMMA NextSeenInv ==
    ASSUME ClockInv, SeenInv, [Next]_vars
    PROVE  SeenInv'
  <1>0. /\ now \in Nat /\ now' \in Nat /\ now' >= now /\ Window \in Nat
        /\ \A r \in Requests : at[r] \in Nat /\ at[r] <= now
    <2>1. now' \in Nat /\ now' >= now
      BY NextClockInv
    <2> QED
      BY <2>1, GateAssumption DEF ClockInv, GateAssumption
  <1>1. CASE UNCHANGED <<seen, lastPrune, admittedAt>>
    BY <1>0, <1>1 DEF SeenInv
  <1>2. ASSUME NEW r \in Requests, ServeHTTP(r), Attempt(r) PROVE SeenInv'
    <2>1. now' = now
      BY <1>2, OneMoves
    <2>2. lastPrune' \in Int
      BY <1>0, <1>2 DEF Attempt, AdmitWarm, AdmitCold, BlockBudget, BlockRate, Prune, SeenInv
    <2> DEFINE t == at[r]
               P == Pruned(t)
    <2>3. /\ DOMAIN P \subseteq DOMAIN seen
          /\ \A s \in DOMAIN P : P[s] = seen[s]
          /\ \A s \in DOMAIN seen \ DOMAIN P : now - seen[s] >= Window
      <3>1. \A s \in DOMAIN seen \ DOMAIN P : ~(t - seen[s] < Window)
        BY PruneDropsExpired
      <3>2. \A s \in DOMAIN seen : seen[s] \in Nat
        BY <1>0 DEF SeenInv
      <3> QED
        BY <1>0, <3>1, <3>2, PruneDropsExpired
    <2>4. t \in 0..now
      BY <1>0
    <2> HIDE DEF P, t
    <2>5. /\ DOMAIN P \subseteq Sessions
          /\ \A s \in DOMAIN P : P[s] \in 0..now
          /\ \A s \in DOMAIN admittedAt :
                (s \in DOMAIN P /\ P[s] = admittedAt[s]) \/ now - admittedAt[s] >= Window
      BY <2>3 DEF SeenInv
    <2>6. CASE seen' = P /\ admittedAt' = admittedAt
      BY <2>1, <2>2, <2>5, <2>6 DEF SeenInv
    <2>7. CASE seen' = MarkSeen(P, r, t) /\ admittedAt' = MarkSeen(admittedAt, r, t)
      <3>1. CASE SessionOf[r] = NoSession
        <4>1. seen' = P /\ admittedAt' = admittedAt
          BY <2>7, <3>1 DEF MarkSeen
        <4> QED
          BY <2>6, <4>1
      <3>2. CASE SessionOf[r] # NoSession
        <4>1. /\ DOMAIN seen' = DOMAIN P \cup {SessionOf[r]} /\ seen'[SessionOf[r]] = t
              /\ \A s \in DOMAIN P \ {SessionOf[r]} : seen'[s] = P[s]
              /\ SessionOf[r] \in Sessions
          BY <2>7, <3>2 DEF MarkSeen, Sessions
        <4>2. /\ DOMAIN admittedAt' = DOMAIN admittedAt \cup {SessionOf[r]}
              /\ admittedAt'[SessionOf[r]] = t
              /\ \A s \in DOMAIN admittedAt \ {SessionOf[r]} : admittedAt'[s] = admittedAt[s]
          BY <2>7, <3>2 DEF MarkSeen, Sessions
        <4>3. DOMAIN seen' \subseteq Sessions /\ \A s \in DOMAIN seen' : seen'[s] \in 0..now'
          BY <2>1, <2>4, <2>5, <4>1
        <4>4. \A s \in DOMAIN admittedAt' : admittedAt'[s] \in 0..now'
          BY <2>1, <2>4, <4>2 DEF SeenInv
        <4>5. ASSUME NEW s \in DOMAIN admittedAt'
              PROVE  (s \in DOMAIN seen' /\ seen'[s] = admittedAt'[s])
                     \/ now' - admittedAt'[s] >= Window
          BY <2>1, <2>5, <4>1, <4>2
        <4> QED
          BY <2>2, <4>3, <4>4, <4>5 DEF SeenInv
      <3> QED
        BY <3>1, <3>2
    <2> QED
      BY <1>2, <2>6, <2>7 DEF Attempt, AdmitWarm, AdmitCold, BlockBudget, BlockRate, P, t
  <1> QED
    BY <1>1, <1>2, GateSteps DEF Next, Tick, vars, gate

-----------------------------------------------------------------------------
(* The rate bucket                                                         *)

RateInv == tokens \in 0..1 /\ lastRefill \in Nat

\* refillLocked keeps at most one token, and an anchor after the start.
LEMMA RefillBounds ==
    ASSUME RateInv, NEW t \in Nat
    PROVE  TokensAfterRefill(t) \in 0..1 /\ AnchorAfterRefill(t) \in Nat
  <1>0. Interval \in Nat
    BY GateAssumption DEF GateAssumption
  <1>1. CASE Interval = 0
    BY <1>1 DEF RateInv, TokensAfterRefill, AnchorAfterRefill, refillLocked
  <1>2. CASE Interval > 0 /\ tokens >= 1
    BY <1>0, <1>2 DEF RateInv, TokensAfterRefill, AnchorAfterRefill, refillLocked
  <1>3. CASE Interval > 0 /\ tokens < 1 /\ Earned(t, lastRefill) <= 0
    BY <1>0, <1>3 DEF RateInv, TokensAfterRefill, AnchorAfterRefill, refillLocked
  <1>4. CASE Interval > 0 /\ tokens < 1 /\ ~(Earned(t, lastRefill) <= 0)
    <2>1. refillLocked(t) = <<1, lastRefill + Earned(t, lastRefill) * Interval>>
      BY <1>0, <1>4 DEF RateInv, refillLocked
    <2>2. Earned(t, lastRefill) \in Nat
      <3>1. CASE t >= lastRefill
        <4>1. t - lastRefill \in Nat /\ Interval \in Nat \ {0}
          BY <1>0, <1>4, <3>1 DEF RateInv
        <4> QED
          BY <3>1, <4>1, Quotient DEF Earned
      <3>2. CASE ~(t >= lastRefill)
        <4>1. lastRefill - t \in Nat /\ Interval \in Nat \ {0}
          BY <1>0, <1>4, <3>2 DEF RateInv
        <4>2. (lastRefill - t) \div Interval \in Nat
          BY <4>1, Quotient
        <4> QED
          BY <1>4, <3>2, <4>2 DEF Earned
      <3> QED
        BY <3>1, <3>2
    <2>3. lastRefill + Earned(t, lastRefill) * Interval \in Nat
      BY <1>0, <2>2 DEF RateInv
    <2> QED
      BY <2>1, <2>3 DEF TokensAfterRefill, AnchorAfterRefill
  <1> QED
    BY <1>0, <1>1, <1>2, <1>3, <1>4 DEF RateInv

\* A waiter that the rate blocks is due within two intervals, although the
\* instant it read may lie before the anchor.
LEMMA RateWaitBounds ==
    ASSUME RateInv, NEW t \in Nat, Interval > 0
    PROVE  rateWaitLocked(t) \in 1..(2 * Interval)
  <1> DEFINE a == AnchorAfterRefill(t)
  <1>1. a \in Nat /\ Interval \in Nat \ {0}
    BY RefillBounds, GateAssumption DEF GateAssumption
  <1> DEFINE due == a + (Earned(t, a) + 1) * Interval - t
  <1>2. rateWaitLocked(t) = IF due > 0 THEN due ELSE Interval
    BY DEF rateWaitLocked
  <1> HIDE DEF a
  <1>5. SUFFICES due \in 1..(2 * Interval)
    BY <1>2
  <1>3. CASE t >= a
    <2> DEFINE q == (t - a) \div Interval
    <2>1. t - a \in Nat
      BY <1>1, <1>3
    <2>2. q \in Nat /\ q * Interval <= t - a /\ t - a < q * Interval + Interval
      BY <1>1, <2>1, Quotient
    <2>3. Earned(t, a) = q
      BY <1>3 DEF Earned
    <2> HIDE DEF q
    <2>4. (q + 1) * Interval = q * Interval + Interval /\ q * Interval \in Nat
      BY <1>1, <2>2
    <2> QED
      BY <1>1, <2>2, <2>3, <2>4
  <1>4. CASE t < a
    <2> DEFINE q == (a - t) \div Interval
    <2>1. a - t \in Nat
      BY <1>1, <1>4
    <2>2. q \in Nat /\ q * Interval <= a - t /\ a - t < q * Interval + Interval
      BY <1>1, <2>1, Quotient
    <2>3. Earned(t, a) = 0 - q
      BY <1>1, <1>4 DEF Earned
    <2> HIDE DEF q
    <2>4. ((0 - q) + 1) * Interval = Interval - q * Interval /\ q * Interval \in Nat
      BY <1>1, <2>2
    <2> QED
      BY <1>1, <2>2, <2>3, <2>4
  <1> QED
    BY <1>1, <1>3, <1>4

\* Every step keeps the bucket at zero or one token.
LEMMA NextRateInv ==
    ASSUME ClockInv, RateInv, [Next]_vars
    PROVE  RateInv'
  <1>1. CASE UNCHANGED <<tokens, lastRefill>>
    BY <1>1 DEF RateInv
  <1>2. ASSUME NEW r \in Requests, Attempt(r) PROVE RateInv'
    <2>1. at[r] \in Nat /\ Interval \in Nat
      BY GateAssumption DEF ClockInv, GateAssumption
    <2>2. TokensAfterRefill(at[r]) \in 0..1 /\ AnchorAfterRefill(at[r]) \in Nat
      BY <2>1, RefillBounds
    <2>3. CASE AdmitCold(r)
      BY <2>1, <2>2, <2>3 DEF AdmitCold, RateBlocked, RateInv
    <2>4. CASE AdmitWarm(r) \/ BlockBudget(r) \/ BlockRate(r)
      BY <1>1, <2>2, <2>4 DEF AdmitWarm, BlockBudget, BlockRate, RateInv
    <2> QED
      BY <1>2, <2>3, <2>4 DEF Attempt
  <1> QED
    BY <1>1, <1>2, GateSteps DEF Next, Tick, vars, gate

-----------------------------------------------------------------------------
(* The counters                                                            *)

ReservedPCs == {"leaveCold", "cold", "ending"}

Unreserved(r) == Reserved' = Reserved /\ inFlight' = inFlight

Reserves(r) ==
    /\ r \notin Reserved /\ Reserved' = Reserved \cup {r}
    /\ AdmitCold(r) /\ inFlight' = inFlight + Estimate[r]

Releases(r) ==
    /\ r \in Reserved /\ Reserved' = Reserved \ {r}
    /\ inFlight' = inFlight - Min({Estimate[r], inFlight})

LeavesEmpty(r) ==
    /\ r \in Reserved /\ Reserved' = Reserved \ {r}
    /\ Estimate[r] = 0 /\ inFlight' = inFlight

\* A reservation begins with an admission as cold and ends with the release, or
\* with the queue slot when the estimate is empty.
LEMMA ReservationSteps ==
    ASSUME ClockInv, inFlight \in Nat, NEW r \in Requests, ServeHTTP(r)
    PROVE  Unreserved(r) \/ Reserves(r) \/ Releases(r) \/ LeavesEmpty(r)
  <1>0. r \in Reserved <=> pc[r] \in ReservedPCs
    BY DEF Reserved, ReservedPCs
  <1> USE DEF ReservedPCs
  <1>1. CASE Arrive(r) \/ Wake(r) \/ GiveUp(r)
    <2>1. /\ pc[r] \in {"idle", "wait"} /\ inFlight' = inFlight
          /\ \E x \in {"arrived", "retry", "drop"} : pc' = [pc EXCEPT ![r] = x]
      BY <1>1 DEF Arrive, Wake, GiveUp, gate
    <2> QED
      BY <1>0, <2>1 DEF ClockInv, Reserved, Unreserved
  <1>2. CASE RefuseFull(r)
    <2>1. pc[r] = "arrived" /\ inFlight' = inFlight /\ pc' = [pc EXCEPT ![r] = "idle"]
      BY <1>2 DEF RefuseFull, BlockBudget, BlockRate
    <2> QED
      BY <1>0, <2>1 DEF ClockInv, Reserved, Unreserved
  <1>3. CASE Enqueue(r) \/ RetryBlocked(r)
    <2>1. /\ pc[r] \in {"arrived", "retry"} /\ inFlight' = inFlight
          /\ pc' = [pc EXCEPT ![r] = "wait"]
      BY <1>3 DEF Enqueue, RetryBlocked, Park, BlockBudget, BlockRate
    <2> QED
      BY <1>0, <2>1 DEF ClockInv, Reserved, Unreserved
  <1>4. CASE AdmitAtOnce(r) \/ RetryAdmit(r)
    <2>1. pc[r] \in {"arrived", "retry"}
      BY <1>4 DEF AdmitAtOnce, RetryAdmit
    <2>2. \/ /\ AdmitWarm(r)
             /\ \E x \in {"passed", "leaveWarm"} : pc' = [pc EXCEPT ![r] = x]
          \/ /\ AdmitCold(r)
             /\ \E x \in {Forward(r), "leaveCold"} : pc' = [pc EXCEPT ![r] = x]
      BY <1>4 DEF AdmitAtOnce, RetryAdmit
    <2>3. CASE AdmitWarm(r) /\ \E x \in {"passed", "leaveWarm"} : pc' = [pc EXCEPT ![r] = x]
      BY <1>0, <2>1, <2>3 DEF ClockInv, Reserved, AdmitWarm, Unreserved
    <2>4. CASE AdmitCold(r) /\ \E x \in {Forward(r), "leaveCold"} : pc' = [pc EXCEPT ![r] = x]
      <3>1. inFlight' = inFlight + Estimate[r]
        BY <2>4 DEF AdmitCold
      <3>2. PICK x \in {Forward(r), "leaveCold"} : pc' = [pc EXCEPT ![r] = x]
        BY <2>4
      <3>3. CASE x \in {"cold", "leaveCold"}
        BY <1>0, <2>1, <2>4, <3>1, <3>2, <3>3 DEF ClockInv, Reserved, Reserves
      <3>4. CASE x = "passed" /\ Estimate[r] = 0
        BY <1>0, <2>1, <3>1, <3>2, <3>4 DEF ClockInv, Reserved, Unreserved
      <3> QED
        BY <3>2, <3>3, <3>4 DEF Forward
    <2> QED
      BY <2>2, <2>3, <2>4
  <1>5. CASE LeaveQueue(r)
    <2>1. inFlight' = inFlight
      BY <1>5 DEF LeaveQueue, gate
    <2>2. CASE pc[r] = "leaveCold"
      <3>1. pc' = [pc EXCEPT ![r] = Forward(r)]
        BY <1>5, <2>2 DEF LeaveQueue
      <3>2. CASE Estimate[r] = 0
        BY <1>0, <2>1, <2>2, <3>1, <3>2 DEF ClockInv, Reserved, Forward, LeavesEmpty
      <3>3. CASE Estimate[r] # 0
        BY <1>0, <2>1, <2>2, <3>1, <3>3 DEF ClockInv, Reserved, Forward, Unreserved
      <3> QED
        BY <3>2, <3>3
    <2>3. CASE pc[r] \in {"leaveWarm", "drop"}
      <3>1. \E x \in {"passed", "idle"} : pc' = [pc EXCEPT ![r] = x]
        BY <1>5, <2>3 DEF LeaveQueue
      <3> QED
        BY <1>0, <2>1, <2>3, <3>1 DEF ClockInv, Reserved, Unreserved
    <2> QED
      BY <1>5, <2>2, <2>3 DEF LeaveQueue
  <1>6. CASE FirstDelta(r) \/ ReleaseDeferred(r)
    <2>1. /\ pc[r] \in {"cold", "ending"} /\ inFlight' = inFlight - Min({Estimate[r], inFlight})
          /\ \E x \in {"measure", "passed", "idle"} : pc' = [pc EXCEPT ![r] = x]
      BY <1>6 DEF FirstDelta, ReleaseDeferred, release
    <2> QED
      BY <1>0, <2>1 DEF ClockInv, Reserved, Releases
  <1>7. CASE Measure(r) \/ ReturnPassed(r)
    <2>1. /\ pc[r] \in {"measure", "passed"} /\ inFlight' = inFlight
          /\ \E x \in {"passed", "idle"} : pc' = [pc EXCEPT ![r] = x]
      BY <1>7 DEF Measure, ReturnPassed, gate
    <2> QED
      BY <1>0, <2>1 DEF ClockInv, Reserved, Unreserved
  <1>8. CASE ReturnCold(r)
    <2>1. pc[r] = "cold" /\ inFlight' = inFlight /\ pc' = [pc EXCEPT ![r] = "ending"]
      BY <1>8 DEF ReturnCold, gate
    <2> QED
      BY <1>0, <2>1 DEF ClockInv, Reserved, Unreserved
  <1> QED
    BY <1>1, <1>2, <1>3, <1>4, <1>5, <1>6, <1>7, <1>8 DEF ServeHTTP

\* A queue slot is taken by the first blocked attempt and given back on leaving.
LEMMA QueueSteps ==
    ASSUME ClockInv, NEW r \in Requests, ServeHTTP(r)
    PROVE  \/ Queued' = Queued /\ queue' = queue
           \/ /\ r \notin Queued /\ Queued' = Queued \cup {r}
              /\ queue < QueueCapacity /\ queue' = queue + 1
           \/ r \in Queued /\ Queued' = Queued \ {r} /\ queue' = queue - 1
  <1> USE DEF ClockInv, Queued
  <1>1. CASE Enqueue(r)
    BY <1>1 DEF Enqueue, Park
  <1>2. CASE LeaveQueue(r)
    <2>1. pc[r] \in {"leaveCold", "leaveWarm", "drop"} /\ queue' = queue - 1
      BY <1>2 DEF LeaveQueue
    <2>2. \E x \in {"cold", "passed", "idle"} : pc' = [pc EXCEPT ![r] = x]
      BY <1>2 DEF LeaveQueue, Forward
    <2> QED
      BY <2>1, <2>2
  <1>3. CASE RetryAdmit(r) \/ RetryBlocked(r) \/ Wake(r) \/ GiveUp(r)
    <2>1. /\ pc[r] \in {"wait", "retry"} /\ queue' = queue
          /\ \E x \in {"wait", "retry", "drop", "leaveCold", "leaveWarm"} :
                pc' = [pc EXCEPT ![r] = x]
      BY <1>3 DEF RetryAdmit, RetryBlocked, Wake, GiveUp, Park
    <2> QED
      BY <2>1
  <1>4. CASE Arrive(r) \/ RefuseFull(r) \/ FirstDelta(r) \/ Measure(r) \/ ReturnCold(r)
             \/ ReleaseDeferred(r) \/ ReturnPassed(r)
    <2>1. /\ pc[r] \in {"idle", "arrived", "cold", "measure", "ending", "passed"}
          /\ queue' = queue
          /\ \E x \in {"idle", "arrived", "measure", "ending", "passed"} :
                pc' = [pc EXCEPT ![r] = x]
      BY <1>4 DEF Arrive, RefuseFull, FirstDelta, Measure, ReturnCold, ReleaseDeferred,
                  ReturnPassed
    <2> QED
      BY <2>1
  <1>5. CASE AdmitAtOnce(r)
    <2>1. /\ pc[r] = "arrived" /\ queue' = queue
          /\ \E x \in {"cold", "passed"} : pc' = [pc EXCEPT ![r] = x]
      BY <1>5 DEF AdmitAtOnce, Forward
    <2> QED
      BY <2>1
  <1> QED
    BY <1>1, <1>2, <1>3, <1>4, <1>5 DEF ServeHTTP

\* The counters and their bounds.
CountersInv ==
    /\ CountersAccounted
    /\ queue <= QueueCapacity

\* The counters are natural numbers, the requests they count finitely many.
LEMMA CountersAreNat ==
    ASSUME CountersInv
    PROVE  /\ inFlight \in Nat /\ queue \in Nat
           /\ Reserved \in SUBSET Requests /\ IsFiniteSet(Queued)
           /\ IsFiniteSet(TokensOf(Reserved)) /\ Cardinality(TokensOf(Reserved)) = inFlight
           /\ Cardinality(Queued) = queue
  <1>1. Reserved \in SUBSET Requests /\ Queued \in SUBSET Requests
    BY DEF Reserved, Queued
  <1>2. IsFiniteSet(Queued) /\ Cardinality(Queued) \in Nat
    BY <1>1, GateAssumption, FS_Subset, FS_CardinalityType DEF GateAssumption
  <1> QED
    BY <1>1, <1>2, TokensFinite DEF CountersInv, CountersAccounted

\* Reserving and releasing keep the account: the release finds at least the
\* tokens it gives back, so its clamp to zero never acts.
LEMMA ReservationsAccounted ==
    ASSUME ClockInv, CountersInv, NEW r \in Requests, ServeHTTP(r)
    PROVE  /\ inFlight' = Cardinality(TokensOf(Reserved'))
           /\ Releases(r) => inFlight' = inFlight - Estimate[r]
  <1>1. /\ inFlight \in Nat /\ Reserved \in SUBSET Requests
        /\ IsFiniteSet(TokensOf(Reserved)) /\ Cardinality(TokensOf(Reserved)) = inFlight
        /\ Estimate[r] \in Nat
    BY CountersAreNat, TokensOfOne
  <1>2. CASE Unreserved(r) /\ ~Releases(r)
    BY <1>1, <1>2, Zenon DEF Unreserved
  <1>3. CASE Reserves(r) /\ ~Releases(r)
    <2>1. r \in Requests \ Reserved /\ Reserved' = Reserved \cup {r}
          /\ inFlight' = inFlight + Estimate[r]
      BY <1>3 DEF Reserves
    <2>2. Cardinality(TokensOf(Reserved \cup {r})) = Cardinality(TokensOf(Reserved)) + Estimate[r]
      BY <1>1, <2>1, TokensReserve
    <2> QED
      BY <1>1, <1>3, <2>1, <2>2, Zenon
  <1>4. ASSUME r \in Reserved, Reserved' = Reserved \ {r}
        PROVE  /\ Cardinality(TokensOf(Reserved')) = inFlight - Estimate[r]
               /\ Estimate[r] <= inFlight
    <2>1. /\ Cardinality(TokensOf(Reserved \ {r})) = Cardinality(TokensOf(Reserved)) - Estimate[r]
          /\ Estimate[r] <= Cardinality(TokensOf(Reserved))
      BY <1>1, <1>4, TokensRelease
    <2> QED
      BY <1>1, <1>4, <2>1, Zenon
  <1>5. CASE Releases(r)
    <2>1. r \in Reserved /\ Reserved' = Reserved \ {r}
          /\ inFlight' = inFlight - Min({Estimate[r], inFlight})
      BY <1>5 DEF Releases
    <2>2. Cardinality(TokensOf(Reserved')) = inFlight - Estimate[r] /\ Estimate[r] <= inFlight
      BY <1>4, <2>1
    <2>3. Min({Estimate[r], inFlight}) = Estimate[r]
      BY <1>1, <2>2, MinOfTwo
    <2> QED
      BY <2>1, <2>2, <2>3, Zenon
  <1>6. CASE LeavesEmpty(r) /\ ~Releases(r)
    <2>1. r \in Reserved /\ Reserved' = Reserved \ {r} /\ Estimate[r] = 0 /\ inFlight' = inFlight
      BY <1>6 DEF LeavesEmpty
    <2>2. Cardinality(TokensOf(Reserved')) = inFlight - Estimate[r]
      BY <1>4, <2>1
    <2>3. inFlight - Estimate[r] = inFlight
      BY <1>1, <2>1
    <2> QED
      BY <1>6, <2>1, <2>2, <2>3, Zenon
  <1> QED
    BY <1>1, <1>2, <1>3, <1>5, <1>6, ReservationSteps

\* Every step keeps both counters.
LEMMA NextCountersInv ==
    ASSUME ClockInv, CountersInv, [Next]_vars
    PROVE  CountersInv'
  <1>1. CASE UNCHANGED vars \/ Tick
    <2>1. pc' = pc /\ inFlight' = inFlight /\ queue' = queue
      BY <1>1 DEF vars, gate, Tick
    <2>2. Reserved' = Reserved /\ Queued' = Queued
      BY <2>1 DEF Reserved, Queued
    <2> QED
      BY <2>1, <2>2, Zenon DEF CountersInv, CountersAccounted, TokensOf
  <1>2. ASSUME NEW r \in Requests, ServeHTTP(r) PROVE CountersInv'
    <2>1. inFlight' = Cardinality(TokensOf(Reserved'))
      BY <1>2, ReservationsAccounted
    <2>2. queue \in Nat /\ IsFiniteSet(Queued) /\ Cardinality(Queued) = queue
          /\ queue <= QueueCapacity /\ QueueCapacity \in Nat
      BY CountersAreNat, GateAssumption DEF CountersInv, GateAssumption
    <2>3. queue' = Cardinality(Queued') /\ queue' <= QueueCapacity
      <3>1. CASE Queued' = Queued /\ queue' = queue
        BY <2>2, <3>1
      <3>2. CASE /\ r \notin Queued /\ Queued' = Queued \cup {r}
                 /\ queue < QueueCapacity /\ queue' = queue + 1
        <4>1. Cardinality(Queued \cup {r}) = Cardinality(Queued) + 1
          BY <2>2, <3>2, FS_AddElement
        <4> QED
          BY <2>2, <3>2, <4>1
      <3>3. CASE r \in Queued /\ Queued' = Queued \ {r} /\ queue' = queue - 1
        <4>1. Cardinality(Queued \ {r}) = Cardinality(Queued) - 1
          BY <2>2, <3>3, FS_RemoveElement
        <4> QED
          BY <2>2, <3>3, <4>1
      <3> QED
        BY <1>2, <3>1, <3>2, <3>3, QueueSteps
    <2> QED
      BY <2>1, <2>3 DEF CountersInv, CountersAccounted, TokensOf
  <1> QED
    BY <1>1, <1>2 DEF Next

-----------------------------------------------------------------------------
(* The budget and the waiters                                              *)

\* The budget in force is positive and at most the configured one, if that is
\* set.
LEMMA EffectiveBudgetBounds ==
    ASSUME ControlInv
    PROVE  /\ effectiveBudget \in Nat
           /\ Ceiling > 0 => effectiveBudget \in 1..Ceiling
  <1>1. Ceiling \in Nat
    BY BackpressureAssumption DEF BackpressureAssumption
  <1>2. CASE Attached
    BY <1>1, <1>2, FloorBounds DEF ControlInv, effectiveBudget
  <1>3. CASE ~Attached
    BY <1>1, <1>3 DEF effectiveBudget
  <1> QED
    BY <1>2, <1>3

\* Every step keeps the reservations within the budget, or to a single request.
LEMMA NextBudgetRespected ==
    ASSUME ClockInv, CountersInv, ControlInv, BudgetRespected, [Next]_vars
    PROVE  BudgetRespected'
  <1>0. Ceiling \in Nat /\ inFlight \in Nat
    BY BackpressureAssumption, CountersAreNat DEF BackpressureAssumption
  <1>1. CASE UNCHANGED vars \/ Tick
    <2>1. Reserved' = Reserved /\ inFlight' = inFlight
      BY <1>1 DEF Reserved, vars, gate, Tick
    <2> QED
      BY <2>1 DEF BudgetRespected
  <1>2. ASSUME NEW r \in Requests, ServeHTTP(r) PROVE BudgetRespected'
    <2>0. Estimate[r] \in Nat
      BY TokensOfOne
    <2>1. SUFFICES ASSUME Ceiling > 0, inFlight' > Ceiling
                   PROVE  \E q \in Reserved' : inFlight' = Estimate[q]
      BY DEF BudgetRespected
    <2>2. CASE Unreserved(r)
      BY <2>1, <2>2 DEF Unreserved, BudgetRespected
    <2>3. CASE Reserves(r)
      <3>1. ~OverBudget(r) /\ inFlight' = inFlight + Estimate[r] /\ r \in Reserved'
        BY <2>3 DEF Reserves, AdmitCold
      <3>2. effectiveBudget \in 1..Ceiling
        BY <2>1, EffectiveBudgetBounds
      <3>3. inFlight = 0
        BY <1>0, <2>0, <2>1, <3>1, <3>2 DEF OverBudget
      <3> QED
        BY <2>0, <3>1, <3>3
    <2>4. ASSUME inFlight' = inFlight - Estimate[r], r \in Reserved, Reserved' = Reserved \ {r}
          PROVE  \E q \in Reserved' : inFlight' = Estimate[q]
      <3>1. inFlight > Ceiling
        BY <1>0, <2>0, <2>1, <2>4
      <3>2. PICK q \in Reserved : inFlight = Estimate[q]
        BY <2>1, <3>1 DEF BudgetRespected
      <3>3. q # r
        BY <1>0, <2>1, <2>4, <3>2
      <3>4. q \in Reserved' /\ Reserved' \in SUBSET Requests
        BY <2>4, <3>2, <3>3, CountersAreNat
      <3>5. Estimate[q] <= inFlight'
        <4>1. Estimate[q] <= Cardinality(TokensOf(Reserved'))
          BY <3>4, TokensRelease, Zenon
        <4> QED
          BY <1>2, <4>1, ReservationsAccounted
      <3> QED
        BY <1>0, <2>0, <2>4, <3>2, <3>4, <3>5
    <2>5. CASE Releases(r)
      BY <1>2, <2>4, <2>5, ReservationsAccounted DEF Releases
    <2>6. CASE LeavesEmpty(r)
      <3>1. inFlight' = inFlight - Estimate[r]
        BY <1>0, <2>6 DEF LeavesEmpty
      <3> QED
        BY <2>4, <2>6, <3>1 DEF LeavesEmpty
    <2> QED
      BY <1>0, <1>2, <2>2, <2>3, <2>5, <2>6, ReservationSteps
  <1> QED
    BY <1>1, <1>2 DEF Next

Waits == [why : {"", "budget", "rate"}, woken : BOOLEAN, refillAt : Nat, under : Nat]

\* Why a request that has not been woken is right to sleep.
RightToSleep(r) ==
    \/ /\ wait[r].why = "budget"
       /\ inFlight > 0 /\ inFlight + Estimate[r] > wait[r].under
    \/ wait[r].why = "rate" /\ wait[r].refillAt \in 1..(now + 2 * Interval)

WaitInv ==
    /\ wait \in [Requests -> Waits]
    /\ \A r \in Asleep : RightToSleep(r)

\* A blocked attempt parks with a reason.
LEMMA ParkedRightly ==
    ASSUME ClockInv, RateInv, ControlInv, CountersInv, WaitInv, NEW r \in Requests,
           Enqueue(r) \/ RetryBlocked(r)
    PROVE  /\ wait' \in [Requests -> Waits]
           /\ \A q \in Requests \ {r} : wait'[q] = wait[q] /\ pc'[q] = pc[q]
           /\ inFlight' = inFlight
           /\ RightToSleep(r)'
  <1>0. /\ now \in Nat /\ at[r] \in Nat /\ Interval \in Nat /\ effectiveBudget \in Nat
        /\ inFlight \in Nat /\ Estimate[r] \in Nat
    BY GateAssumption, EffectiveBudgetBounds, CountersAreNat, TokensOfOne
       DEF ClockInv, GateAssumption
  <1>1. Park(r) /\ now' = now
    BY DEF Enqueue, RetryBlocked
  <1>2. pc' = [pc EXCEPT ![r] = "wait"] /\ inFlight' = inFlight
    BY <1>1 DEF Park, BlockBudget, BlockRate
  <1>3. PICK why \in {"budget", "rate"} :
           /\ why = "budget" => BlockBudget(r)
           /\ why = "rate" => BlockRate(r)
           /\ wait' = [wait EXCEPT ![r] = [why |-> why, woken |-> FALSE,
                                           refillAt |-> refillTimer(r, why),
                                           under |-> effectiveBudget]]
    BY <1>1 DEF Park
  <1>4. /\ why = "rate" => refillTimer(r, why) \in 1..(now + 2 * Interval)
        /\ refillTimer(r, why) \in Nat
    <2>1. CASE why = "rate"
      <3>1. Interval > 0
        BY <1>3, <2>1 DEF BlockRate, RateBlocked
      <3>2. rateWaitLocked(at[r]) \in 1..(2 * Interval)
        BY <1>0, <3>1, RateWaitBounds
      <3> QED
        BY <1>0, <2>1, <3>2 DEF refillTimer
    <2>2. CASE why = "budget"
      BY <1>0, <2>2 DEF refillTimer
    <2> QED
      BY <2>1, <2>2
  <1> DEFINE w == [why |-> why, woken |-> FALSE, refillAt |-> refillTimer(r, why),
                   under |-> effectiveBudget]
  <1>5. /\ w \in Waits /\ w.why = why /\ w.refillAt = refillTimer(r, why)
        /\ w.under = effectiveBudget
    BY <1>0, <1>4 DEF Waits
  <1>6. wait' = [wait EXCEPT ![r] = w]
    BY <1>3
  <1> HIDE DEF w
  <1>7. /\ wait' \in [Requests -> Waits] /\ wait'[r] = w
        /\ \A q \in Requests \ {r} : wait'[q] = wait[q] /\ pc'[q] = pc[q]
    BY <1>2, <1>5, <1>6 DEF WaitInv, ClockInv
  <1>8. RightToSleep(r)'
    <2>1. CASE why = "rate"
      BY <1>1, <1>4, <1>5, <1>7, <2>1 DEF RightToSleep
    <2>2. CASE why = "budget"
      <3>1. inFlight > 0 /\ inFlight + Estimate[r] > effectiveBudget
        BY <1>3, <2>2 DEF BlockBudget, OverBudget
      <3> QED
        BY <1>2, <1>5, <1>7, <2>2, <3>1 DEF RightToSleep
    <2> QED
      BY <2>1, <2>2
  <1> QED
    BY <1>2, <1>7, <1>8

\* A sleeper stays right while the reservations do not shrink.
LEMMA StaysRight ==
    ASSUME WaitInv, NEW q \in Asleep, wait'[q] = wait[q],
           inFlight \in Nat, inFlight' \in Nat, inFlight' >= inFlight,
           now \in Nat, now' \in Nat, now' >= now
    PROVE  RightToSleep(q)'
  <1>1. q \in Requests /\ RightToSleep(q)
    BY DEF WaitInv, Asleep
  <1>2. wait[q] \in Waits /\ Estimate[q] \in Nat /\ Interval \in Nat
    BY <1>1, TokensOfOne, GateAssumption DEF WaitInv, GateAssumption
  <1>3. wait[q].under \in Nat /\ wait[q].refillAt \in Nat
    BY <1>2 DEF Waits
  <1>4. CASE wait[q].why = "budget" /\ inFlight > 0 /\ inFlight + Estimate[q] > wait[q].under
    BY <1>2, <1>3, <1>4 DEF RightToSleep
  <1>5. CASE wait[q].why = "rate" /\ wait[q].refillAt \in 1..(now + 2 * Interval)
    BY <1>2, <1>3, <1>5 DEF RightToSleep
  <1> QED
    BY <1>1, <1>4, <1>5 DEF RightToSleep

\* Every step leaves the sleepers with a reason to sleep: a release wakes all of
\* them, and nothing else takes the reason away.
LEMMA NextWaitInv ==
    ASSUME ClockInv, RateInv, ControlInv, CountersInv, WaitInv, [Next]_vars
    PROVE  WaitInv'
  <1>0. now \in Nat /\ now' \in Nat /\ now' >= now /\ inFlight \in Nat /\ inFlight' \in Nat
    <2>1. now' \in Nat /\ now' >= now /\ CountersInv'
      BY NextClockInv, NextCountersInv
    <2>2. inFlight' \in Nat
      <3>1. Reserved' \in SUBSET Requests
        BY DEF Reserved
      <3>2. inFlight' = Cardinality(TokensOf(Reserved'))
        BY <2>1 DEF CountersInv, CountersAccounted, TokensOf
      <3> QED
        BY <3>1, <3>2, TokensFinite
    <2> QED
      BY <2>1, <2>2, CountersAreNat, GateAssumption DEF ClockInv, GateAssumption
  <1>1. CASE UNCHANGED vars \/ Tick
    <2>1. wait' = wait /\ pc' = pc /\ inFlight' = inFlight
      BY <1>1 DEF vars, gate, Tick
    <2>2. Asleep' = Asleep
      BY <2>1 DEF Asleep
    <2>3. \A q \in Asleep : RightToSleep(q)'
      BY <1>0, <2>1, StaysRight
    <2> QED
      BY <2>1, <2>2, <2>3 DEF WaitInv
  <1>2. ASSUME NEW r \in Requests, Enqueue(r) \/ RetryBlocked(r) PROVE WaitInv'
    <2>1. /\ wait' \in [Requests -> Waits]
          /\ \A q \in Requests \ {r} : wait'[q] = wait[q] /\ pc'[q] = pc[q]
          /\ inFlight' = inFlight
          /\ RightToSleep(r)'
      BY <1>2, ParkedRightly
    <2>2. ASSUME NEW q \in Asleep' PROVE RightToSleep(q)'
      <3>1. CASE q = r
        BY <2>1, <3>1
      <3>2. CASE q # r
        <4>1. q \in Asleep /\ wait'[q] = wait[q]
          BY <2>1, <2>2, <3>2 DEF Asleep
        <4> QED
          BY <1>0, <2>1, <4>1, StaysRight
      <3> QED
        BY <3>1, <3>2
    <2> QED
      BY <2>1, <2>2 DEF WaitInv
  <1>3. ASSUME NEW r \in Requests, release(r), FirstDelta(r) \/ ReleaseDeferred(r) PROVE WaitInv'
    <2>1. wait' = Freed /\ \E x \in {"measure", "passed", "idle"} : pc' = [pc EXCEPT ![r] = x]
      BY <1>3 DEF release, FirstDelta, ReleaseDeferred
    <2>2. \A q \in Requests :
             wait'[q] = IF pc[q] = "wait" THEN [wait[q] EXCEPT !.woken = TRUE] ELSE wait[q]
      BY <2>1 DEF Freed
    <2>3. \A w \in Waits : [w EXCEPT !.woken = TRUE] \in Waits /\ [w EXCEPT !.woken = TRUE].woken
      BY DEF Waits
    <2>4. wait' \in [Requests -> Waits]
      <3>1. \A q \in Requests : wait'[q] \in Waits
        BY <2>2, <2>3 DEF WaitInv
      <3>2. wait' = [q \in Requests |-> wait'[q]]
        BY <2>1, Zenon DEF Freed
      <3> QED
        BY <3>1, <3>2
    <2>5. Asleep' = {}
      <3>1. SUFFICES ASSUME NEW q \in Requests, pc'[q] = "wait" PROVE wait'[q].woken
        BY DEF Asleep
      <3>2. pc[q] = "wait"
        BY <2>1, <3>1 DEF ClockInv
      <3> QED
        BY <2>2, <2>3, <3>2 DEF WaitInv
    <2> QED
      BY <2>4, <2>5 DEF WaitInv
  <1>4. ASSUME NEW r \in Requests, wait' \in [Requests -> Waits], inFlight' >= inFlight,
               \A q \in Requests \ {r} : wait'[q] = wait[q] /\ pc'[q] = pc[q],
               pc'[r] # "wait"
        PROVE  WaitInv'
    <2>1. ASSUME NEW q \in Asleep' PROVE RightToSleep(q)'
      <3>1. q \in Asleep /\ wait'[q] = wait[q]
        BY <1>4, <2>1 DEF Asleep
      <3> QED
        BY <1>0, <1>4, <3>1, StaysRight
    <2> QED
      BY <1>4, <2>1 DEF WaitInv
  <1>5. ASSUME NEW r \in Requests, LeaveQueue(r) PROVE WaitInv'
    <2>1. /\ wait' = [wait EXCEPT ![r] = NotWaiting] /\ inFlight' = inFlight
          /\ \E x \in {"cold", "passed", "idle"} : pc' = [pc EXCEPT ![r] = x]
      BY <1>5 DEF LeaveQueue, Forward, gate
    <2>2. NotWaiting \in Waits
      BY DEF NotWaiting, Waits
    <2>3. /\ wait' \in [Requests -> Waits] /\ pc'[r] # "wait"
          /\ \A q \in Requests \ {r} : wait'[q] = wait[q] /\ pc'[q] = pc[q]
      BY <2>1, <2>2 DEF WaitInv, ClockInv
    <2> QED
      BY <1>0, <1>4, <2>1, <2>3
  <1>6. ASSUME NEW r \in Requests,
               Arrive(r) \/ AdmitAtOnce(r) \/ RefuseFull(r) \/ Wake(r) \/ RetryAdmit(r) \/ GiveUp(r)
               \/ Measure(r) \/ ReturnCold(r) \/ ReturnPassed(r)
        PROVE  WaitInv'
    <2>1. /\ wait' = wait
          /\ \E x \in PCs \ {"wait"} : pc' = [pc EXCEPT ![r] = x]
      BY <1>6 DEF Arrive, AdmitAtOnce, RefuseFull, Wake, RetryAdmit, GiveUp, Measure, ReturnCold,
                  ReturnPassed, Forward, PCs
    <2>2. inFlight' >= inFlight
      <3>1. inFlight' = inFlight \/ inFlight' = inFlight + Estimate[r]
        BY <1>6 DEF Arrive, AdmitAtOnce, RefuseFull, Wake, RetryAdmit, GiveUp, Measure,
                    ReturnCold, ReturnPassed, gate, AdmitWarm, AdmitCold, BlockBudget, BlockRate
      <3>2. Estimate[r] \in Nat
        BY TokensOfOne
      <3> QED
        BY <1>0, <3>1, <3>2
    <2>3. /\ wait' \in [Requests -> Waits] /\ pc'[r] # "wait"
          /\ \A q \in Requests \ {r} : wait'[q] = wait[q] /\ pc'[q] = pc[q]
      BY <2>1 DEF WaitInv, ClockInv
    <2> QED
      BY <1>4, <2>2, <2>3
  <1> QED
    BY <1>1, <1>2, <1>3, <1>5, <1>6 DEF Next, ServeHTTP, FirstDelta, ReleaseDeferred

-----------------------------------------------------------------------------
(* The theorems                                                            *)

IInv ==
    /\ ClockInv /\ ControlInv /\ SeenInv /\ RateInv /\ CountersInv
    /\ BudgetRespected /\ WaitInv

\* The gate starts empty, with a full bucket and the configured budget.
LEMMA InitIInv == Init => IInv
  <1> SUFFICES ASSUME Init PROVE IInv
    OBVIOUS
  <1>0. MaxTime \in Nat /\ Ceiling \in Nat /\ PruneInterval \in Nat /\ QueueCapacity \in Nat
    BY GateAssumption, BackpressureAssumption DEF GateAssumption, BackpressureAssumption
  <1>1. ClockInv
    BY <1>0 DEF Init, ClockInv, PCs
  <1>2. Reserved = {} /\ Queued = {} /\ Asleep = {}
    BY DEF Init, Reserved, Queued, Asleep
  <1>3. CountersInv /\ BudgetRespected
    BY <1>0, <1>2, TokensOfNone, FS_EmptySet
       DEF Init, CountersInv, CountersAccounted, BudgetRespected
  <1>4. WaitInv
    <2>1. NotWaiting \in Waits
      BY DEF NotWaiting, Waits
    <2> QED
      BY <1>2, <2>1 DEF Init, WaitInv
  <1>5. RateInv /\ SeenInv
    BY <1>0 DEF Init, RateInv, SeenInv
  <1>6. ControlInv
    <2>1. bp = [budget |-> Ceiling, started |-> FALSE, windowIndex |-> 0, samples |-> <<>>,
                failed |-> FALSE]
      BY DEF Init, NewTTFTBackpressure
    <2>2. bp \in Controllers /\ bp.budget = Ceiling /\ bp.started = FALSE /\ bp.failed = FALSE
          /\ bp.samples = <<>>
      <3>1. <<>> \in Seq(Nat)
        OBVIOUS
      <3> QED
        BY <1>0, <2>1, <3>1 DEF Controllers
    <2>3. evidence \in Evidences /\ evidence.failed = FALSE /\ evidence.slow = FALSE
      BY DEF Init, Evidences
    <2>4. Attached => bp.budget \in Floor..Ceiling
      BY <1>0, <2>2, FloorBounds
    <2>5. \A r \in Requests : pc[r] # "measure"
      BY DEF Init
    <2> QED
      BY <2>2, <2>3, <2>4, <2>5 DEF ControlInv, ControlUnused
  <1> QED
    BY <1>1, <1>3, <1>4, <1>5, <1>6 DEF IInv

\* The invariant is inductive.
LEMMA NextIInv == IInv /\ [Next]_vars => IInv'
  BY NextClockInv, NextControlInv, NextSeenInv, NextRateInv, NextCountersInv,
     NextBudgetRespected, NextWaitInv DEF IInv

\* The invariant holds in every state of the gate.
THEOREM GateInvariant == Spec => []IInv
  BY InitIInv, NextIInv, PTL DEF Spec

\* The fields of coldStartGate and TTFTBackpressure and the goroutines' locals
\* keep their types.
THEOREM GateTypes == Spec => []TypeOK
  <1>1. IInv => TypeOK
    <2> SUFFICES ASSUME IInv PROVE TypeOK
      OBVIOUS
    <2>1. inFlight \in Nat /\ queue \in 0..QueueCapacity
      BY CountersAreNat, GateAssumption DEF IInv, CountersInv, GateAssumption
    <2> QED
      BY <2>1 DEF IInv, TypeOK, ClockInv, SeenInv, RateInv, WaitInv, Waits, ControlInv, Controllers
  <1> QED
    BY <1>1, GateInvariant, PTL

\* tryAdmitLocked's reservations and forwardCold's releases pair up, and so do
\* the queue slots taken and given back in admit.
THEOREM GateCountersAccounted == Spec => []CountersAccounted
  <1>1. IInv => CountersAccounted
    BY DEF IInv, CountersInv
  <1> QED
    BY <1>1, GateInvariant, PTL

\* The prefill tokens in flight exceed coldPrefillBudgetTokens only while one
\* oversized request has the provider to itself, wherever the controller has
\* moved the budget.
THEOREM GateBudgetRespected == Spec => []BudgetRespected
  <1>1. IInv => BudgetRespected
    BY DEF IInv
  <1> QED
    BY <1>1, GateInvariant, PTL

\* A request sleeps in admit's select only with a reason that still holds: some
\* release, which broadcasts, is to come, or its refill timer is armed.
THEOREM GateNoLostWakeup == Spec => []NoLostWakeup
  <1>1. IInv => NoLostWakeup
    <2> SUFFICES ASSUME IInv, NEW r \in Asleep
                 PROVE  \/ /\ wait[r].why = "budget"
                           /\ Reserved # {} /\ inFlight > 0
                           /\ inFlight + Estimate[r] > wait[r].under
                        \/ wait[r].why = "rate" /\ wait[r].refillAt \in 1..(now + 2 * Interval)
      BY DEF NoLostWakeup
    <2>1. RightToSleep(r)
      BY DEF IInv, WaitInv
    <2>2. inFlight > 0 => Reserved # {}
      <3>1. inFlight = Cardinality(TokensOf(Reserved))
        BY DEF IInv, CountersInv, CountersAccounted
      <3> QED
        BY <3>1, TokensOfNone
    <2> QED
      BY <2>1, <2>2 DEF RightToSleep
  <1> QED
    BY <1>1, GateInvariant, PTL

\* The controller's budget stays between its floor and the configured budget,
\* and moves only at a change of window, in the direction of what it has seen.
THEOREM GateBudgetFollowsEvidence == Spec => BudgetFollowsEvidence
  <1>1. IInv /\ [Next]_vars => [BudgetStep]_vars
    BY NextControlInv DEF IInv
  <1> QED
    BY <1>1, GateInvariant, PTL DEF Spec, BudgetFollowsEvidence, BudgetStep

\* pruneLocked changes no admission decision: a session is charged as new only
\* when its last admission lies a window back.
THEOREM GateChargedOncePerWindow == Spec => ChargedOncePerWindow
  <1> DEFINE Charged ==
        \A s \in Sessions :
          /\ s \in DOMAIN admittedAt
          /\ \E r \in Requests : SessionOf[r] = s /\ r \notin Reserved /\ r \in Reserved'
          => now - admittedAt[s] >= Window
  <1>1. ASSUME IInv, [Next]_vars PROVE [Charged]_vars
    <2> SUFFICES ASSUME NEW q \in Requests, SessionOf[q] \in DOMAIN admittedAt,
                        q \notin Reserved, q \in Reserved'
                 PROVE  now - admittedAt[SessionOf[q]] >= Window
      OBVIOUS
    <2>1. Reserved' # Reserved
      OBVIOUS
    <2>2. ~UNCHANGED vars /\ ~Tick
      BY <2>1 DEF vars, Tick, Reserved
    <2>3. PICK r \in Requests : ServeHTTP(r)
      BY <1>1, <2>2 DEF Next
    <2>4. AdmitCold(r) /\ r = q
      <3>1. inFlight \in Nat
        BY <1>1, CountersAreNat DEF IInv
      <3> QED
        BY <1>1, <2>3, <3>1, ReservationSteps
           DEF IInv, Unreserved, Reserves, Releases, LeavesEmpty
    <2> DEFINE s == SessionOf[q]
               t == at[q]
    <2>5. ~(s \in DOMAIN Pruned(t) /\ t - Pruned(t)[s] < Window)
      BY <2>4 DEF AdmitCold, Warm
    <2>6. s \in DOMAIN seen /\ seen[s] = admittedAt[s] => ~(t - admittedAt[s] < Window)
      BY <2>5, PruneDropsExpired
    <2>7. /\ t \in Nat /\ t <= now /\ now \in Nat /\ admittedAt[s] \in Nat /\ Window \in Nat
          /\ (s \in DOMAIN seen /\ seen[s] = admittedAt[s]) \/ now - admittedAt[s] >= Window
      BY <1>1, GateAssumption DEF IInv, ClockInv, SeenInv, GateAssumption
    <2> HIDE DEF s, t
    <2>8. now - admittedAt[s] >= Window
      BY <2>6, <2>7
    <2> QED
      BY <2>8 DEF s
  <1> QED
    BY <1>1, GateInvariant, PTL DEF Spec, ChargedOncePerWindow, Charged

=============================================================================
