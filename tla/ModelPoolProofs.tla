-------------------------- MODULE ModelPoolProofs ---------------------------
(***************************************************************************)
(* Proofs about member selection, for every number of requests and         *)
(* members and whatever their weights, caps and windows are.               *)
(*                                                                         *)
(* What Resolve promises at its end is about loops whose every reading is  *)
(* a step of its own, so the invariant says what each loop has established *)
(* of the members it has passed: AtStep gives that for every place in the  *)
(* code.  The loads may move at any time, and what was said of them is     *)
(* then only said of the requests that are still quiet.                    *)
(***************************************************************************)
EXTENDS ModelPool, FiniteSetTheorems, WellFoundedInduction, TLAPS

\* A member, or none yet.
MemberOrNone == Members \cup {0}

Modes == {"", "least", "pin", "over", "gone"}

Jobs == [by : Modes, hash : Hashes \cup {0}, k : Nat,
         idx : Seq(Members), min : Nat, ties : Seq(Members), pinned : MemberOrNone,
         chosen : MemberOrNone, quiet : BOOLEAN]

Types ==
    /\ load \in [Members -> Nat]
    /\ rr \in Nat
    /\ pc \in [Requests -> PCs]
    /\ job \in [Requests -> Jobs]

Increasing(s) == \A a, b \in DOMAIN s : a < b => s[a] < s[b]

\* eligibleIndices: the members found so far, in order.
InScan(j) ==
    /\ j.k \in Members
    /\ Increasing(j.idx) /\ \A a \in DOMAIN j.idx : j.idx[a] < j.k
    /\ Len(j.idx) < j.k
    /\ j.by \in {"least", "pin", "over"}
    /\ j.ties = <<>> /\ j.chosen = 0

\* A loop over a set of eligible members that is not empty.
InLoop(j) ==
    /\ Increasing(j.idx) /\ Len(j.idx) <= N
    /\ j.k \in 1..Len(j.idx)

\* The minimum of the loads read so far; ld are the loads.
InLeast(j, ld) ==
    /\ InLoop(j) /\ j.by = "least" /\ j.ties = <<>>
    /\ j.quiet =>
          /\ \A a \in DOMAIN j.idx : a < j.k => j.min <= ld[j.idx[a]]
          /\ j.k > 1 => \E a \in DOMAIN j.idx : a < j.k /\ ld[j.idx[a]] = j.min

\* What is known of the minimum when all loads have been read once.
Least(j, ld) ==
    /\ \A a \in DOMAIN j.idx : j.min <= ld[j.idx[a]]
    /\ \A i \in DOMAIN j.ties : ld[j.ties[i]] = j.min

\* The ties among the members passed so far.
InTies(j, ld) ==
    /\ InLoop(j) /\ j.by = "least"
    /\ Increasing(j.ties) /\ \A i \in DOMAIN j.ties : j.ties[i] < j.idx[j.k]
    /\ Len(j.ties) < j.k
    /\ j.quiet =>
          /\ Least(j, ld)
          /\ \E a \in DOMAIN j.idx : ld[j.idx[a]] = j.min /\ (a < j.k => j.ties # <<>>)

AtPick(j, ld) ==
    /\ j.by = "least"
    /\ Increasing(j.ties) /\ Len(j.ties) <= N
    /\ j.quiet => Least(j, ld) /\ j.ties # <<>>

AtPin(j) ==
    /\ j.by = "pin" /\ j.k = 1 /\ j.ties = <<>> /\ j.chosen = 0
    /\ Increasing(j.idx)

\* The sibling m is as good as those before position n; it is one of those that
\* the scan found.
BestSibling(j, ld, m, n) ==
    /\ m # j.pinned /\ \E a \in DOMAIN j.idx : m = j.idx[a]
    /\ j.quiet => \A a \in DOMAIN j.idx : a < n /\ j.idx[a] # j.pinned => ld[m] <= ld[j.idx[a]]

\* The best sibling so far, or none among the members passed.
InOver(j, ld) ==
    /\ InLoop(j) /\ j.by = "over"
    /\ j.chosen = 0 => \A a \in DOMAIN j.idx : a < j.k => j.idx[a] = j.pinned
    /\ j.chosen # 0 => BestSibling(j, ld, j.chosen, j.k) /\ (j.quiet => j.min = ld[j.chosen])

\* What Resolve has returned.
AtDone(j, ld) ==
    /\ j.by = "least" /\ j.quiet => \A a \in DOMAIN j.idx : ld[j.chosen] <= ld[j.idx[a]]
    /\ j.by = "over" /\ (\E a \in DOMAIN j.idx : j.idx[a] # j.pinned)
         => BestSibling(j, ld, j.chosen, Len(j.idx) + 1)

\* What holds of the locals j at step s.
AtStep(s, j, ld) ==
    /\ s = "scan" => InScan(j)
    /\ s = "least" => InLeast(j, ld)
    /\ s = "ties" => InTies(j, ld)
    /\ s = "pick" => AtPick(j, ld)
    /\ s = "pin" => AtPin(j)
    /\ s = "over" => InOver(j, ld)
    /\ s = "done" => AtDone(j, ld)

LoopsHold == \A r \in Requests : AtStep(pc[r], job[r], load)

\* The last round-robin pick was made one count ago.
LastPick ==
    /\ last.ties \in Seq(Members) /\ Len(last.ties) <= N
    /\ last.ties # <<>> =>
          \E q \in Nat : /\ rr = (q + 1) % RRPeriod
                         /\ last.chosen = last.ties[(q % Len(last.ties)) + 1]

IInv == Types /\ LoopsHold /\ LastPick

-----------------------------------------------------------------------------
(* The ring                                                                *)

\* A set of numbers that is not empty has a smallest one.
LEMMA SmallestNumber ==
    ASSUME NEW S, S \subseteq Nat, S # {}
    PROVE  \E m \in S : \A n \in S : m <= n
  <1>1. PICK m \in S : \A n \in S : <<n, m>> \notin OpToRel(<, Nat)
    BY NatLessThanWellFounded, WFMin
  <1>2. \A n \in S : ~(n < m)
    BY <1>1 DEF OpToRel
  <1> QED
    BY <1>2

\* The ring has no slots before its first member, and one more member adds its
\* weight.
LEMMA RingSlotsGrow ==
    ASSUME NEW idx \in Seq(Members), NEW i \in Nat, i < Len(idx), IsFiniteSet(RingSlots(idx, i))
    PROVE  /\ IsFiniteSet(RingSlots(idx, i + 1))
           /\ Cumulative(idx, i + 1) = Cumulative(idx, i) + Weight[idx[i + 1]]
  <1>1. PICK w \in Nat : w = Weight[idx[i + 1]]
    <2>1. Len(idx) \in Nat /\ i + 1 \in 1..Len(idx)
      OBVIOUS
    <2>2. idx[i + 1] \in Members
      BY <2>1
    <2> QED
      BY <2>2, PoolAssumption DEF PoolAssumption
  <1> DEFINE New == {i + 1} \X (1..w)
  <1>2. IsFiniteSet(New) /\ Cardinality(New) = w
    <2>1. IsFiniteSet({i + 1}) /\ Cardinality({i + 1}) = 1
      BY FS_Singleton
    <2>2. IsFiniteSet(1..w) /\ Cardinality(1..w) = w
      <3>0. 1 \in Int /\ w \in Int
        OBVIOUS
      <3>1. /\ IsFiniteSet(1..w)
            /\ Cardinality(1..w) = IF 1 > w THEN 0 ELSE w - 1 + 1
        BY <3>0, FS_Interval, Zenon
      <3> QED
        BY <3>1
    <2>3. IsFiniteSet(New) /\ Cardinality(New) = 1 * w
      BY <2>1, <2>2, FS_Product
    <2> QED
      BY <2>3
  <1>3. RingSlots(idx, i + 1) = RingSlots(idx, i) \cup New
    <2>1. 1..(i + 1) = 1..i \cup {i + 1}
      OBVIOUS
    <2> QED
      BY <1>1, <2>1 DEF RingSlots
  <1>4. RingSlots(idx, i) \cap New = {}
    <2>1. i + 1 \notin 1..i
      OBVIOUS
    <2> QED
      BY <2>1 DEF RingSlots
  <1> HIDE DEF New
  <1>5. /\ IsFiniteSet(RingSlots(idx, i) \cup New)
        /\ Cardinality(RingSlots(idx, i) \cup New)
             = Cardinality(RingSlots(idx, i)) + Cardinality(New) - Cardinality(RingSlots(idx, i) \cap New)
    BY <1>2, FS_Union
  <1>6. Cardinality({}) = 0 /\ Cardinality(RingSlots(idx, i)) \in Nat
    BY FS_EmptySet, FS_CardinalityType
  <1>7. Cardinality(RingSlots(idx, i + 1)) = Cardinality(RingSlots(idx, i)) + w - 0
    BY <1>2, <1>3, <1>4, <1>5, <1>6, Zenon
  <1>8. Cardinality(RingSlots(idx, i + 1)) = Cardinality(RingSlots(idx, i)) + w
    BY <1>6, <1>7
  <1> QED
    BY <1>1, <1>3, <1>5, <1>8, Zenon DEF Cumulative

\* There are finitely many slots.
LEMMA RingFinite ==
    ASSUME NEW idx \in Seq(Members), NEW i \in 0..Len(idx)
    PROVE  IsFiniteSet(RingSlots(idx, i)) /\ Cumulative(idx, i) \in Nat
  <1> DEFINE Bad == {n \in 0..Len(idx) : ~IsFiniteSet(RingSlots(idx, n))}
  <1>0. Len(idx) \in Nat
    OBVIOUS
  <1>1. Bad = {}
    <2> SUFFICES ASSUME Bad # {} PROVE FALSE
      OBVIOUS
    <2>1. PICK n \in Bad : \A x \in Bad : n <= x
      <3>1. Bad \subseteq Nat
        BY <1>0
      <3> HIDE DEF Bad
      <3> QED
        BY <3>1, SmallestNumber
    <2>2. n \in 0..Len(idx) /\ ~IsFiniteSet(RingSlots(idx, n))
      OBVIOUS
    <2>3. n # 0
      <3>1. RingSlots(idx, 0) = {}
        BY DEF RingSlots
      <3> QED
        BY <2>2, <3>1, FS_EmptySet
    <2>4. n - 1 \in Nat /\ n - 1 < Len(idx) /\ n - 1 \in 0..Len(idx) /\ (n - 1) + 1 = n /\ ~(n <= n - 1)
      BY <1>0, <2>2, <2>3
    <2>5. IsFiniteSet(RingSlots(idx, n - 1))
      BY <2>1, <2>4
    <2>6. IsFiniteSet(RingSlots(idx, (n - 1) + 1))
      BY <2>4, <2>5, RingSlotsGrow
    <2> QED
      BY <2>2, <2>4, <2>6
  <1>2. IsFiniteSet(RingSlots(idx, i))
    BY <1>1
  <1> QED
    BY <1>2, FS_CardinalityType DEF Cumulative

\* The cumulative weights start at 0 and grow from member to member.
LEMMA CumulativeGrows ==
    ASSUME NEW idx \in Seq(Members)
    PROVE  /\ Cumulative(idx, 0) = 0
           /\ \A i \in 1..Len(idx) : Cumulative(idx, i) = Cumulative(idx, i - 1) + Weight[idx[i]]
           /\ \A i, k \in 0..Len(idx) : i <= k => Cumulative(idx, i) <= Cumulative(idx, k)
  <1>0. Len(idx) \in Nat
    OBVIOUS
  <1>1. Cumulative(idx, 0) = 0
    <2>1. RingSlots(idx, 0) = {}
      BY DEF RingSlots
    <2> QED
      BY <2>1, FS_EmptySet DEF Cumulative
  <1>2. ASSUME NEW i \in 1..Len(idx)
        PROVE  Cumulative(idx, i) = Cumulative(idx, i - 1) + Weight[idx[i]]
    <2>1. i - 1 \in Nat /\ i - 1 < Len(idx) /\ i - 1 \in 0..Len(idx) /\ (i - 1) + 1 = i
      BY <1>0
    <2>2. IsFiniteSet(RingSlots(idx, i - 1))
      BY <2>1, RingFinite
    <2>3. Cumulative(idx, (i - 1) + 1) = Cumulative(idx, i - 1) + Weight[idx[(i - 1) + 1]]
      BY <2>1, <2>2, RingSlotsGrow
    <2> QED
      BY <2>1, <2>3
  <1>3. ASSUME NEW i \in 0..Len(idx), NEW k \in 0..Len(idx), i <= k
        PROVE  Cumulative(idx, i) <= Cumulative(idx, k)
    <2>1. 1..i \subseteq 1..k
      BY <1>0, <1>3
    <2>2. RingSlots(idx, i) \subseteq RingSlots(idx, k)
      BY <2>1 DEF RingSlots
    <2>3. IsFiniteSet(RingSlots(idx, k))
      BY RingFinite
    <2> QED
      BY <2>2, <2>3, FS_Subset DEF Cumulative
  <1> QED
    BY <1>1, <1>2, <1>3

\* The slot of a hash lies in the stretch of the ring of exactly one eligible
\* member.
LEMMA PinSlotFinds ==
    ASSUME NEW idx \in Seq(Members), idx # <<>>, NEW hash \in Nat
    PROVE  /\ Total(idx) \in Nat \ {0} /\ (hash % Total(idx)) \in 0..(Total(idx) - 1)
           /\ \E i \in 1..Len(idx) : /\ PinSlot(idx, hash) = idx[i]
                                     /\ Cumulative(idx, i - 1) <= hash % Total(idx)
                                     /\ hash % Total(idx) < Cumulative(idx, i)
  <1>0. Len(idx) \in Nat /\ Len(idx) # 0 /\ Len(idx) \in 1..Len(idx)
    OBVIOUS
  <1>1. Total(idx) \in Nat \ {0}
    <2>1. Weight[idx[Len(idx)]] \in Nat \ {0}
      <3>1. idx[Len(idx)] \in Members
        BY <1>0
      <3> QED
        BY <3>1, PoolAssumption DEF PoolAssumption
    <2>2. Len(idx) - 1 \in 0..Len(idx) /\ Len(idx) \in 0..Len(idx)
      BY <1>0
    <2>3. Cumulative(idx, Len(idx) - 1) \in Nat
      BY <2>2, RingFinite
    <2>4. Total(idx) = Cumulative(idx, Len(idx) - 1) + Weight[idx[Len(idx)]]
      BY <1>0, CumulativeGrows DEF Total
    <2> QED
      BY <2>1, <2>3, <2>4
  <1>2. PICK s \in 0..(Total(idx) - 1) : s = hash % Total(idx)
    BY <1>1
  <1> DEFINE K == {i \in 1..Len(idx) : Cumulative(idx, i) > s}
  <1>3. Len(idx) \in K
    BY <1>0, <1>1, <1>2 DEF Total
  <1>4. PICK k \in K : \A n \in K : k <= n
    <2>1. K \subseteq Nat /\ K # {}
      BY <1>0, <1>3
    <2> HIDE DEF K
    <2> QED
      BY <2>1, SmallestNumber
  <1>5. Min(K) = k
    <2>1. K \subseteq Int
      BY <1>0
    <2> HIDE DEF K
    <2>2. Min(K) \in K /\ \A n \in K : Min(K) <= n
      BY <1>4 DEF Min
    <2>3. Min(K) <= k /\ k <= Min(K) /\ Min(K) \in Int /\ k \in Int
      BY <1>4, <2>1, <2>2
    <2> QED
      BY <2>3
  <1>6. PinSlot(idx, hash) = idx[k]
    BY <1>2, <1>5 DEF PinSlot
  <1>7. k \in 1..Len(idx) /\ Cumulative(idx, k) > s
    OBVIOUS
  <1>8. Cumulative(idx, k - 1) <= s
    <2>1. CASE k = 1
      <3>1. Cumulative(idx, 0) = 0
        BY CumulativeGrows
      <3> QED
        BY <1>1, <2>1, <3>1
    <2>2. CASE k # 1
      <3>1. k - 1 \in 1..Len(idx) /\ k - 1 \in 0..Len(idx) /\ ~(k <= k - 1)
        BY <1>0, <1>7, <2>2
      <3>2. k - 1 \notin K
        BY <1>4, <3>1
      <3>3. ~(Cumulative(idx, k - 1) > s)
        BY <3>1, <3>2
      <3>4. Cumulative(idx, k - 1) \in Nat /\ s \in Nat
        BY <1>1, <3>1, RingFinite
      <3> QED
        BY <3>3, <3>4
    <2> QED
      BY <2>1, <2>2
  <1>9. k \in 0..Len(idx) /\ Cumulative(idx, k) \in Nat /\ s \in Nat
    <2>1. k \in 0..Len(idx)
      BY <1>7
    <2> QED
      BY <1>1, <2>1, RingFinite
  <1>10. s < Cumulative(idx, k)
    BY <1>7, <1>9
  <1> HIDE DEF K
  <1> QED
    BY <1>1, <1>2, <1>6, <1>7, <1>8, <1>10

\* The ring answers with a member, and without an eligible one with the first.
LEMMA PinSlotIsMember ==
    ASSUME NEW idx \in Seq(Members), NEW hash \in Nat
    PROVE  PinSlot(idx, hash) \in Members
  <1>1. CASE idx = <<>>
    <2>1. 1 \in Members
      BY PoolAssumption DEF PoolAssumption, Members
    <2> QED
      BY <1>1, <2>1 DEF PinSlot
  <1>2. CASE idx # <<>>
    <2>1. PICK i \in 1..Len(idx) : PinSlot(idx, hash) = idx[i]
      BY <1>2, PinSlotFinds
    <2> QED
      BY <2>1
  <1> QED
    BY <1>1, <1>2

\* The members found eligible are told apart by their positions.
LEMMA IncreasingInjective ==
    ASSUME NEW idx \in Seq(Members), Increasing(idx),
           NEW a \in 1..Len(idx), NEW b \in 1..Len(idx), idx[a] = idx[b]
    PROVE  a = b
  <1>1. DOMAIN idx = 1..Len(idx) /\ Len(idx) \in Nat /\ idx[a] \in Members /\ idx[b] \in Members
    OBVIOUS
  <1>2. Members \subseteq Nat
    BY PoolAssumption DEF PoolAssumption, Members
  <1>3. ~(idx[a] < idx[b]) /\ ~(idx[b] < idx[a])
    <2>1. PICK x \in Nat : x = idx[a] /\ x = idx[b]
      BY <1>1, <1>2
    <2> QED
      BY <2>1
  <1>4. ~(a < b) /\ ~(b < a)
    BY <1>1, <1>3 DEF Increasing
  <1>5. a \in Nat /\ b \in Nat
    BY <1>1
  <1> QED
    BY <1>4, <1>5

\* A number smaller than the divisor is its own remainder.
LEMMA RemainderOfSmall ==
    ASSUME NEW t \in Nat \ {0}, NEW s \in 0..(t - 1)
    PROVE  s \in Nat /\ s % t = s
  BY SMTT(20)

\* The stretches of two members do not meet, so every member has as many slots
\* as its weight.
LEMMA SlotsOfMember ==
    ASSUME NEW idx \in Seq(Members), Increasing(idx), NEW k \in 1..Len(idx)
    PROVE  Cardinality({s \in 0..(Total(idx) - 1) : PinSlot(idx, s) = idx[k]}) = Weight[idx[k]]
  <1>0. Len(idx) \in Nat /\ idx # <<>>
    OBVIOUS
  <1>1. PICK lo \in Nat, hi \in Nat, t \in Nat \ {0} :
           lo = Cumulative(idx, k - 1) /\ hi = Cumulative(idx, k) /\ t = Total(idx) /\ hi <= t
    <2>1. k - 1 \in 0..Len(idx) /\ k \in 0..Len(idx) /\ Len(idx) \in 0..Len(idx) /\ k <= Len(idx)
      BY <1>0
    <2>2. Cumulative(idx, k - 1) \in Nat /\ Cumulative(idx, k) \in Nat
      BY <2>1, RingFinite
    <2>3. Total(idx) \in Nat \ {0}
      <3>1. 0 \in Nat
        OBVIOUS
      <3> QED
        BY <1>0, <3>1, PinSlotFinds
    <2>4. Cumulative(idx, k) <= Total(idx)
      BY <2>1, CumulativeGrows DEF Total
    <2> QED
      BY <2>2, <2>3, <2>4
  <1>2. PICK w \in Nat \ {0} : w = Weight[idx[k]] /\ hi = lo + w
    <2>1. Weight[idx[k]] \in Nat \ {0}
      <3>1. idx[k] \in Members
        OBVIOUS
      <3> QED
        BY <3>1, PoolAssumption DEF PoolAssumption
    <2>2. Cumulative(idx, k) = Cumulative(idx, k - 1) + Weight[idx[k]]
      BY CumulativeGrows
    <2> QED
      BY <1>1, <2>1, <2>2
  <1>3. ASSUME NEW s \in 0..(t - 1)
        PROVE  PinSlot(idx, s) = idx[k] <=> lo <= s /\ s < hi
    <2>1. s \in Nat /\ s % t = s
      BY RemainderOfSmall
    <2>2. PICK i \in 1..Len(idx) : /\ PinSlot(idx, s) = idx[i]
                                   /\ Cumulative(idx, i - 1) <= s /\ s < Cumulative(idx, i)
      BY <1>0, <1>1, <2>1, PinSlotFinds
    <2>3. ASSUME PinSlot(idx, s) = idx[k] PROVE lo <= s /\ s < hi
      <3>1. i = k
        BY <2>2, <2>3, IncreasingInjective
      <3> QED
        BY <1>1, <2>2, <3>1
    <2>4. ASSUME lo <= s, s < hi PROVE PinSlot(idx, s) = idx[k]
      <3>1. /\ i - 1 \in 0..Len(idx) /\ i \in 0..Len(idx) /\ k - 1 \in 0..Len(idx) /\ k \in 0..Len(idx)
        BY <1>0
      <3>2. Cumulative(idx, i - 1) \in Nat /\ Cumulative(idx, i) \in Nat
        BY <3>1, RingFinite
      <3>3. ~(i < k)
        <4>1. i < k => i <= k - 1
          OBVIOUS
        <4>2. i <= k - 1 => Cumulative(idx, i) <= lo
          BY <1>1, <3>1, CumulativeGrows
        <4> QED
          BY <2>1, <2>2, <2>4, <3>2, <4>1, <4>2
      <3>4. ~(k < i)
        <4>1. k < i => k <= i - 1
          OBVIOUS
        <4>2. k <= i - 1 => hi <= Cumulative(idx, i - 1)
          BY <1>1, <3>1, CumulativeGrows
        <4> QED
          BY <2>1, <2>2, <2>4, <3>2, <4>1, <4>2
      <3>5. i = k
        BY <3>3, <3>4
      <3> QED
        BY <2>2, <3>5
    <2> QED
      BY <2>3, <2>4
  <1>4. {s \in 0..(t - 1) : PinSlot(idx, s) = idx[k]} = lo..(hi - 1)
    <2>1. \A s \in lo..(hi - 1) : s \in 0..(t - 1) /\ lo <= s /\ s < hi
      BY <1>1
    <2>2. \A s \in 0..(t - 1) : lo <= s /\ s < hi => s \in lo..(hi - 1)
      BY <1>1
    <2> QED
      BY <1>3, <2>1, <2>2
  <1>5. Cardinality(lo..(hi - 1)) = w
    <2>1. lo \in Int /\ hi - 1 \in Int /\ ~(lo > hi - 1) /\ (hi - 1) - lo + 1 = w
      BY <1>2, SMTT(20)
    <2> QED
      BY <2>1, FS_Interval
  <1> QED
    BY <1>1, <1>2, <1>4, <1>5

-----------------------------------------------------------------------------
(* Steps of one request                                                    *)

\* Nobody's locals but r's move, and the loads stay.
LEMMA StepTo ==
    ASSUME Types, LoopsHold, NEW r \in Requests, NEW s \in PCs, NEW j \in Jobs,
           Goto(r, s, j), load' = load, rr' \in Nat, AtStep(s, j, load)
    PROVE  Types' /\ LoopsHold'
  <1>1. /\ pc' \in [Requests -> PCs] /\ job' \in [Requests -> Jobs]
        /\ pc'[r] = s /\ job'[r] = j
        /\ \A q \in Requests : q # r => pc'[q] = pc[q] /\ job'[q] = job[q]
    BY DEF Types, Goto
  <1>2. Types'
    BY <1>1 DEF Types
  <1>3. ASSUME NEW q \in Requests PROVE AtStep(pc'[q], job'[q], load')
    <2>1. CASE q = r
      BY <1>1, <2>1
    <2>2. CASE q # r
      BY <1>1, <2>2 DEF LoopsHold
    <2> QED
      BY <2>1, <2>2
  <1> QED
    BY <1>2, <1>3 DEF LoopsHold

\* Changing one local leaves the others: the position,
LEMMA SetK ==
    ASSUME NEW j \in Jobs, NEW n \in Nat, NEW e, e = [j EXCEPT !.k = n]
    PROVE  /\ e \in Jobs /\ e.k = n /\ e.by = j.by /\ e.idx = j.idx /\ e.min = j.min
           /\ e.ties = j.ties /\ e.pinned = j.pinned /\ e.chosen = j.chosen
           /\ e.quiet = j.quiet
  BY DEF Jobs

\* the minimum,
LEMMA SetMin ==
    ASSUME NEW j \in Jobs, NEW n \in Nat, NEW e, e = [j EXCEPT !.min = n]
    PROVE  /\ e \in Jobs /\ e.k = j.k /\ e.by = j.by /\ e.idx = j.idx /\ e.min = n
           /\ e.ties = j.ties /\ e.pinned = j.pinned /\ e.chosen = j.chosen
           /\ e.quiet = j.quiet
  BY DEF Jobs

\* the ties,
LEMMA SetTies ==
    ASSUME NEW j \in Jobs, NEW s \in Seq(Members), NEW e, e = [j EXCEPT !.ties = s]
    PROVE  /\ e \in Jobs /\ e.k = j.k /\ e.by = j.by /\ e.idx = j.idx /\ e.min = j.min
           /\ e.ties = s /\ e.pinned = j.pinned /\ e.chosen = j.chosen
           /\ e.quiet = j.quiet
  BY DEF Jobs

\* the chosen member.
LEMMA SetChosen ==
    ASSUME NEW j \in Jobs, NEW m \in MemberOrNone, NEW e, e = [j EXCEPT !.chosen = m]
    PROVE  /\ e \in Jobs /\ e.k = j.k /\ e.by = j.by /\ e.idx = j.idx /\ e.min = j.min
           /\ e.ties = j.ties /\ e.pinned = j.pinned /\ e.chosen = m
           /\ e.quiet = j.quiet
  BY DEF Jobs

\* The locals of a request that has just come.
LEMMA NoJobIsJob ==
    /\ NoJob \in Jobs
    /\ 1 \in Members /\ {0, 1} \subseteq MemberOrNone
  <1>1. 1 \in Members
    BY PoolAssumption DEF PoolAssumption, Members
  <1>2. {0, 1} \subseteq MemberOrNone
    BY <1>1 DEF MemberOrNone
  <1>3. NoJob \in Jobs
    BY <1>2 DEF NoJob, Jobs, Modes
  <1> QED
    BY <1>1, <1>2, <1>3

\* The hash is a number.
LEMMA HashIsNumber ==
    ASSUME NEW j \in Jobs
    PROVE  j.hash \in Nat
  <1>1. Hashes \subseteq Nat
    BY PoolAssumption DEF PoolAssumption
  <1>2. Hashes \cup {0} \subseteq Nat
    BY <1>1
  <1>3. j.hash \in Hashes \cup {0}
    BY DEF Jobs
  <1> QED
    BY <1>2, <1>3

\* Resolve is called, and is over.
LEMMA BeginStep ==
    ASSUME IInv, NEW r \in Requests, Begin(r) \/ Dispatch(r)
    PROVE  (Types /\ LoopsHold)'
  <1>1. CASE Dispatch(r)
    <2>1. AtStep("idle", NoJob, load)
      BY DEF AtStep
    <2>2. Goto(r, "idle", NoJob) /\ load' = load /\ rr' = rr /\ "idle" \in PCs
      BY <1>1 DEF Dispatch, PCs
    <2> QED
      BY <2>1, <2>2, StepTo, NoJobIsJob DEF IInv, Types
  <1>2. CASE Begin(r)
    <2>1. PICK h \in Hashes \cup {NoSession} :
             Goto(r, "scan",
                  [NoJob EXCEPT !.by = IF h = NoSession THEN "least" ELSE "pin",
                                !.hash = IF h = NoSession THEN 0 ELSE h,
                                !.quiet = TRUE])
      BY <1>2 DEF Begin
    <2>2. PICK j : j = [NoJob EXCEPT !.by = IF h = NoSession THEN "least" ELSE "pin",
                                     !.hash = IF h = NoSession THEN 0 ELSE h,
                                     !.quiet = TRUE]
      OBVIOUS
    <2>3. /\ j \in Jobs
          /\ j.k = 1 /\ j.idx = <<>> /\ j.ties = <<>> /\ j.chosen = 0
          /\ j.by \in {"least", "pin"}
      BY <2>2, NoJobIsJob DEF NoJob, Jobs, Modes
    <2>4. AtStep("scan", j, load)
      BY <2>3, NoJobIsJob DEF AtStep, InScan, Increasing
    <2>5. Goto(r, "scan", j) /\ load' = load /\ rr' = rr /\ "scan" \in PCs
      BY <1>2, <2>1, <2>2 DEF Begin, PCs
    <2> QED
      BY <2>3, <2>4, <2>5, StepTo DEF IInv, Types
  <1> QED
    BY <1>1, <1>2

\* A client that leaves ends every loop; nothing is said of what is chosen.
LEMMA ClientGoneStep ==
    ASSUME IInv, NEW r \in Requests, ClientGone(r)
    PROVE  (Types /\ LoopsHold)'
  <1>1. PICK j \in Jobs : j = job[r]
    BY DEF IInv, Types
  <1>2. PICK e : e = [j EXCEPT !.by = "gone", !.chosen = Fallback(j)]
    OBVIOUS
  <1>3. Fallback(j) \in MemberOrNone
    BY NoJobIsJob DEF Fallback, Jobs
  <1>4. e \in Jobs /\ e.by = "gone"
    BY <1>2, <1>3 DEF Jobs, Modes
  <1>5. AtStep("done", e, load)
    BY <1>4 DEF AtStep, AtDone
  <1>6. Goto(r, "done", e) /\ load' = load /\ rr' = rr /\ "done" \in PCs
    BY <1>1, <1>2 DEF ClientGone, PCs
  <1> QED
    BY <1>4, <1>5, <1>6, StepTo DEF IInv, Types

\* One more member is looked at: those found stay in order.
LEMMA EligibleStepKeeps ==
    ASSUME IInv, NEW r \in Requests, EligibleStep(r)
    PROVE  (Types /\ LoopsHold)'
  <1>1. PICK j \in Jobs : j = job[r]
    BY DEF IInv, Types
  <1>2. InScan(j) /\ load' = load /\ rr' = rr /\ rr \in Nat
    BY <1>1 DEF EligibleStep, IInv, LoopsHold, AtStep, Types
  <1>3. N \in Nat /\ j.k \in 1..N /\ j.idx \in Seq(Members) /\ Len(j.idx) \in Nat
    <2>1. N \in Nat /\ j.k \in 1..N
      BY <1>2, PoolAssumption DEF PoolAssumption, Members, InScan
    <2>2. j.idx \in Seq(Members) /\ Len(j.idx) \in Nat
      BY <1>1 DEF Jobs
    <2> QED
      BY <2>1, <2>2
  <1>4. PICK idx : idx = IF j.k \in open THEN Append(j.idx, j.k) ELSE j.idx
    OBVIOUS
  <1>5. /\ idx \in Seq(Members) /\ Len(idx) \in Nat
        /\ Increasing(idx) /\ \A a \in DOMAIN idx : idx[a] < j.k + 1
        /\ Len(idx) < j.k + 1
    <2>1. CASE j.k \in open
      <3>1. idx = Append(j.idx, j.k)
        BY <1>4, <2>1
      <3>2. /\ idx \in Seq(Members) /\ Len(idx) = Len(j.idx) + 1
            /\ DOMAIN idx = 1..(Len(j.idx) + 1)
            /\ \A a \in 1..Len(j.idx) : idx[a] = j.idx[a]
            /\ idx[Len(j.idx) + 1] = j.k
        BY <1>3, <3>1 DEF Members
      <3>3. /\ DOMAIN j.idx = 1..Len(j.idx)
            /\ \A a \in 1..Len(j.idx) : j.idx[a] \in 1..N
        BY <1>3 DEF Members
      <3>4. ASSUME NEW a \in DOMAIN idx, NEW b \in DOMAIN idx, a < b
            PROVE  idx[a] < idx[b]
        <4>1. a \in 1..Len(j.idx)
          BY <1>3, <3>2, <3>4
        <4>2. CASE b = Len(j.idx) + 1
          BY <1>2, <3>2, <3>3, <4>1, <4>2 DEF InScan
        <4>3. CASE b # Len(j.idx) + 1
          <5>1. b \in 1..Len(j.idx)
            BY <1>3, <3>2, <4>3
          <5> QED
            BY <1>2, <3>2, <3>3, <3>4, <4>1, <5>1 DEF InScan, Increasing
        <4> QED
          BY <4>2, <4>3
      <3>5. ASSUME NEW a \in DOMAIN idx PROVE idx[a] < j.k + 1
        <4>1. CASE a = Len(j.idx) + 1
          BY <1>3, <3>2, <4>1
        <4>2. CASE a # Len(j.idx) + 1
          <5>1. a \in 1..Len(j.idx)
            BY <1>3, <3>2, <4>2
          <5>2. j.idx[a] < j.k
            BY <1>2, <3>3, <5>1 DEF InScan
          <5> QED
            BY <1>3, <3>2, <3>3, <5>1, <5>2
        <4> QED
          BY <4>1, <4>2
      <3> QED
        BY <1>2, <1>3, <3>2, <3>4, <3>5 DEF Increasing, InScan
    <2>2. CASE j.k \notin open
      <3>1. idx = j.idx
        BY <1>4, <2>2
      <3>2. ASSUME NEW a \in DOMAIN idx PROVE idx[a] < j.k + 1
        <4>1. idx[a] < j.k /\ idx[a] \in 1..N
          BY <1>2, <1>3, <3>1 DEF InScan, Members
        <4> QED
          BY <1>3, <4>1
      <3> QED
        BY <1>2, <1>3, <3>1, <3>2 DEF InScan
    <2> QED
      BY <2>1, <2>2
  <1>6. CASE j.k < N /\ Goto(r, "scan", [j EXCEPT !.idx = idx, !.k = j.k + 1])
    <2>1. PICK e : e = [j EXCEPT !.idx = idx, !.k = j.k + 1]
      OBVIOUS
    <2>2. /\ e \in Jobs /\ e.k = j.k + 1 /\ e.by = j.by /\ e.idx = idx
          /\ e.ties = j.ties /\ e.chosen = j.chosen
      <3>1. idx \in Seq(Members) /\ j.k + 1 \in Nat
        BY <1>3, <1>5
      <3> QED
        BY <2>1, <3>1 DEF Jobs
    <2>3. j.k + 1 \in Members
      BY <1>3, <1>6 DEF Members
    <2>4. AtStep("scan", e, load)
      BY <1>2, <1>5, <2>2, <2>3 DEF AtStep, InScan
    <2> QED
      BY <1>2, <1>6, <2>1, <2>2, <2>4, StepTo DEF IInv, PCs
  <1>7. CASE /\ j.k = N /\ (idx # <<>> \/ j.by = "pin")
             /\ Goto(r, j.by, [j EXCEPT !.idx = idx, !.k = 1])
    <2>1. PICK e : e = [j EXCEPT !.idx = idx, !.k = 1]
      OBVIOUS
    <2>2. /\ e \in Jobs /\ e.k = 1 /\ e.by = j.by /\ e.idx = idx
          /\ e.ties = j.ties /\ e.chosen = j.chosen
      <3>1. idx \in Seq(Members) /\ 1 \in Nat
        BY <1>5
      <3> QED
        BY <2>1, <3>1 DEF Jobs
    <2>3. /\ j.by \in {"least", "pin", "over"} /\ j.by \in PCs
          /\ e.ties = <<>> /\ e.chosen = 0
      BY <1>2, <2>2 DEF InScan, PCs
    <2>4. CASE j.by = "pin"
      <3>1. AtStep(j.by, e, load)
        BY <1>5, <2>2, <2>3, <2>4 DEF AtStep, AtPin
      <3> QED
        BY <1>2, <1>7, <2>1, <2>2, <2>3, <3>1, StepTo DEF IInv
    <2>5. CASE j.by # "pin"
      <3>1. InLoop(e)
        BY <1>3, <1>5, <1>7, <2>2, <2>5 DEF InLoop
      <3>2. DOMAIN e.idx = 1..Len(e.idx) /\ Len(e.idx) \in Nat
        BY <1>5, <2>2
      <3>3. \A a \in DOMAIN e.idx : ~(a < e.k)
        BY <2>2, <3>2
      <3>4. j.by = "least" => InLeast(e, load)
        BY <2>2, <2>3, <3>1, <3>3 DEF InLeast
      <3>5. j.by = "over" => InOver(e, load)
        BY <2>2, <2>3, <3>1, <3>3 DEF InOver
      <3>6. AtStep(j.by, e, load)
        BY <2>3, <2>5, <3>4, <3>5 DEF AtStep
      <3> QED
        BY <1>2, <1>7, <2>1, <2>2, <2>3, <3>6, StepTo DEF IInv
    <2> QED
      BY <2>4, <2>5
  <1>8. CASE j.k = N /\ idx = <<>> /\ j.by # "pin" /\ Resolved(r, Fallback(j))
    <2>1. Fallback(j) \in MemberOrNone
      BY NoJobIsJob DEF Fallback, Jobs
    <2>2. PICK e : e = [j EXCEPT !.chosen = Fallback(j)]
      OBVIOUS
    <2>3. e \in Jobs /\ e.idx = j.idx
      BY <2>1, <2>2, SetChosen
    <2>4. j.idx = <<>>
      <3>1. Len(idx) = 0
        BY <1>8
      <3> QED
        BY <1>3, <1>4, <1>8, <3>1
    <2>5. AtStep("done", e, load)
      BY <2>3, <2>4 DEF AtStep, AtDone
    <2>6. Goto(r, "done", e) /\ "done" \in PCs
      BY <1>1, <1>8, <2>2 DEF Resolved, PCs
    <2> QED
      BY <1>2, <2>3, <2>5, <2>6, StepTo DEF IInv
  <1> QED
    BY <1>1, <1>4, <1>6, <1>7, <1>8 DEF EligibleStep

\* What the loops work on.
LEMMA LoopTypes ==
    ASSUME Types, NEW j \in Jobs, InLoop(j)
    PROVE  /\ j.idx \in Seq(Members) /\ Len(j.idx) \in Nat /\ DOMAIN j.idx = 1..Len(j.idx)
           /\ N \in Nat /\ Len(j.idx) <= N
           /\ j.k \in 1..Len(j.idx) /\ j.min \in Nat
           /\ \A a \in 1..Len(j.idx) : j.idx[a] \in Members /\ load[j.idx[a]] \in Nat
  <1>1. j.idx \in Seq(Members) /\ j.min \in Nat
    BY DEF Jobs
  <1>2. Len(j.idx) \in Nat /\ DOMAIN j.idx = 1..Len(j.idx)
    BY <1>1
  <1>3. \A a \in 1..Len(j.idx) : j.idx[a] \in Members /\ load[j.idx[a]] \in Nat
    BY <1>1, <1>2 DEF Types
  <1>4. N \in Nat /\ Len(j.idx) <= N /\ j.k \in 1..Len(j.idx)
    BY PoolAssumption DEF PoolAssumption, InLoop
  <1> QED
    BY <1>1, <1>2, <1>3, <1>4

\* The first reading of a load: the minimum of those read so far.
LEMMA FindMinStep ==
    ASSUME IInv, NEW r \in Requests, FindMin(r)
    PROVE  (Types /\ LoopsHold)'
  <1>1. PICK j \in Jobs : j = job[r]
    BY DEF IInv, Types
  <1>2. InLeast(j, load) /\ load' = load /\ rr' = rr /\ rr \in Nat /\ pc[r] = "least" /\ Types
    BY <1>1 DEF FindMin, IInv, LoopsHold, AtStep, Types
  <1>3. /\ j.idx \in Seq(Members) /\ Len(j.idx) \in Nat /\ DOMAIN j.idx = 1..Len(j.idx)
        /\ N \in Nat /\ Len(j.idx) <= N
        /\ j.k \in 1..Len(j.idx) /\ j.min \in Nat
        /\ \A a \in 1..Len(j.idx) : j.idx[a] \in Members /\ load[j.idx[a]] \in Nat
    BY <1>2, LoopTypes DEF InLeast
  <1>4. PICK x \in Nat : x = load[j.idx[j.k]]
    BY <1>3
  <1>5. PICK n \in Nat : n = IF Smaller(j, x) THEN x ELSE j.min
    BY <1>3, <1>4
  <1>6. PICK e : e = [j EXCEPT !.min = n]
    OBVIOUS
  <1>7. /\ e \in Jobs /\ e.k = j.k /\ e.by = "least" /\ e.idx = j.idx /\ e.min = n
        /\ e.ties = <<>> /\ e.quiet = j.quiet
    BY <1>2, <1>6, SetMin DEF InLeast
  <1>8. /\ j.quiet => \A a \in 1..Len(j.idx) : a < j.k + 1 => n <= load[j.idx[a]]
        /\ j.quiet => \E a \in 1..Len(j.idx) : a < j.k + 1 /\ load[j.idx[a]] = n
    <2> SUFFICES ASSUME j.quiet
                 PROVE  /\ \A a \in 1..Len(j.idx) : a < j.k + 1 => n <= load[j.idx[a]]
                        /\ \E a \in 1..Len(j.idx) : a < j.k + 1 /\ load[j.idx[a]] = n
      OBVIOUS
    <2>1. /\ \A a \in 1..Len(j.idx) : a < j.k => j.min <= load[j.idx[a]]
          /\ j.k > 1 => \E a \in 1..Len(j.idx) : a < j.k /\ load[j.idx[a]] = j.min
      BY <1>2, <1>3 DEF InLeast
    <2>2. CASE Smaller(j, x)
      <3>1. n = x
        BY <1>5, <2>2
      <3>2. ASSUME NEW a \in 1..Len(j.idx), a < j.k + 1 PROVE n <= load[j.idx[a]]
        <4>1. CASE a = j.k
          BY <1>3, <1>4, <3>1, <4>1
        <4>2. CASE a # j.k
          <5>1. a < j.k /\ j.k # 1
            BY <1>3, <3>2, <4>2
          <5>2. x < j.min
            BY <2>2, <5>1 DEF Smaller
          <5>3. j.min <= load[j.idx[a]] /\ load[j.idx[a]] \in Nat
            BY <1>3, <2>1, <5>1
          <5> QED
            BY <1>3, <1>4, <3>1, <5>2, <5>3, SMTT(20)
        <4> QED
          BY <4>1, <4>2
      <3>3. j.k < j.k + 1 /\ load[j.idx[j.k]] = n
        BY <1>3, <1>4, <3>1
      <3> QED
        BY <1>3, <3>2, <3>3
    <2>3. CASE ~Smaller(j, x)
      <3>1. n = j.min /\ j.k # 1 /\ ~(x < j.min)
        BY <1>5, <2>3 DEF Smaller
      <3>2. ASSUME NEW a \in 1..Len(j.idx), a < j.k + 1 PROVE n <= load[j.idx[a]]
        <4>1. CASE a = j.k
          BY <1>3, <1>4, <3>1, <4>1
        <4>2. CASE a # j.k
          BY <1>3, <2>1, <3>1, <3>2, <4>2
        <4> QED
          BY <4>1, <4>2
      <3>3. PICK a \in 1..Len(j.idx) : a < j.k /\ load[j.idx[a]] = j.min
        BY <1>3, <2>1, <3>1
      <3>4. a < j.k + 1
        BY <1>3, <3>3
      <3> QED
        BY <3>1, <3>2, <3>3, <3>4
    <2> QED
      BY <2>2, <2>3
  <1>9. Continue(r, "ties", e)
    BY <1>1, <1>4, <1>5, <1>6 DEF FindMin
  <1>10. CASE e.k < Len(e.idx)
    <2>1. PICK f : f = [e EXCEPT !.k = e.k + 1]
      OBVIOUS
    <2>2. Goto(r, "least", f)
      BY <1>2, <1>9, <1>10, <2>1 DEF Continue
    <2>3. /\ f \in Jobs /\ f.k = j.k + 1 /\ f.by = "least" /\ f.idx = j.idx /\ f.min = n
          /\ f.ties = <<>> /\ f.quiet = j.quiet
      <3>1. e.k + 1 \in Nat
        BY <1>3, <1>7
      <3> QED
        BY <1>7, <2>1, <3>1, SetK
    <2>4. InLoop(f)
      BY <1>2, <1>3, <1>7, <1>10, <2>3 DEF InLeast, InLoop
    <2>5. InLeast(f, load)
      BY <1>3, <1>8, <2>3, <2>4 DEF InLeast
    <2>6. AtStep("least", f, load)
      BY <2>5 DEF AtStep
    <2> QED
      BY <1>2, <2>2, <2>3, <2>6, StepTo DEF IInv, PCs
  <1>11. CASE ~(e.k < Len(e.idx))
    <2>1. PICK f : f = [e EXCEPT !.k = 1]
      OBVIOUS
    <2>2. Goto(r, "ties", f)
      BY <1>9, <1>11, <2>1 DEF Continue
    <2>3. /\ f \in Jobs /\ f.k = 1 /\ f.by = "least" /\ f.idx = j.idx /\ f.min = n
          /\ f.ties = <<>> /\ f.quiet = j.quiet
      BY <1>7, <2>1 DEF Jobs
    <2>4. InLoop(f)
      BY <1>2, <1>3, <2>3 DEF InLeast, InLoop
    <2>5. j.k = Len(j.idx)
      BY <1>3, <1>7, <1>11
    <2>6. f.quiet => /\ Least(f, load)
                     /\ \E a \in DOMAIN f.idx : load[f.idx[a]] = f.min /\ (a < f.k => f.ties # <<>>)
      <3> SUFFICES ASSUME f.quiet
                   PROVE  /\ Least(f, load)
                          /\ \E a \in DOMAIN f.idx : load[f.idx[a]] = f.min /\ (a < f.k => f.ties # <<>>)
        OBVIOUS
      <3>1. \A a \in DOMAIN f.idx : f.min <= load[f.idx[a]]
        BY <1>3, <1>8, <2>3, <2>5, SMTT(20)
      <3>2. PICK a \in 1..Len(j.idx) : load[j.idx[a]] = n
        BY <1>8, <2>3
      <3>3. ~(a < f.k)
        BY <1>3, <2>3
      <3> QED
        BY <1>3, <2>3, <3>1, <3>2, <3>3 DEF Least
    <2>7. InTies(f, load)
      BY <2>3, <2>4, <2>6 DEF InTies, Increasing
    <2>8. AtStep("ties", f, load)
      BY <2>7 DEF AtStep
    <2> QED
      BY <1>2, <2>2, <2>3, <2>8, StepTo DEF IInv, PCs
  <1> QED
    BY <1>10, <1>11

\* The second reading of a load: another tie, or not.
LEMMA CollectTiesStep ==
    ASSUME IInv, NEW r \in Requests, CollectTies(r)
    PROVE  (Types /\ LoopsHold)'
  <1>1. PICK j \in Jobs : j = job[r]
    BY DEF IInv, Types
  <1>2. InTies(j, load) /\ load' = load /\ rr' = rr /\ rr \in Nat /\ pc[r] = "ties" /\ Types
    BY <1>1 DEF CollectTies, IInv, LoopsHold, AtStep, Types
  <1>3. /\ j.idx \in Seq(Members) /\ Len(j.idx) \in Nat /\ DOMAIN j.idx = 1..Len(j.idx)
        /\ N \in Nat /\ Len(j.idx) <= N
        /\ j.k \in 1..Len(j.idx) /\ j.min \in Nat
        /\ \A a \in 1..Len(j.idx) : j.idx[a] \in Members /\ load[j.idx[a]] \in Nat
    BY <1>2, LoopTypes DEF InTies
  <1>4. PICK m \in Members : m = j.idx[j.k]
    BY <1>3
  <1>5. /\ j.ties \in Seq(Members) /\ Len(j.ties) \in Nat /\ DOMAIN j.ties = 1..Len(j.ties)
        /\ \A i \in 1..Len(j.ties) : j.ties[i] \in Members
    <2>1. j.ties \in Seq(Members)
      BY DEF Jobs
    <2> QED
      BY <2>1
  <1>6. m \in Nat /\ \A i \in 1..Len(j.ties) : j.ties[i] \in Nat /\ j.ties[i] < m
    BY <1>2, <1>4, <1>5 DEF InTies, Members
  <1>7. PICK t : t = IF load[m] = j.min THEN Append(j.ties, m) ELSE j.ties
    OBVIOUS
  <1>8. /\ t \in Seq(Members) /\ Len(t) \in Nat /\ DOMAIN t = 1..Len(t)
        /\ Len(t) <= j.k /\ Increasing(t)
        /\ \A i \in 1..Len(t) : t[i] <= m /\ (j.quiet => load[t[i]] = j.min)
        /\ j.ties # <<>> => t # <<>>
        /\ load[m] = j.min => t # <<>>
    <2>1. /\ Len(j.ties) < j.k /\ Increasing(j.ties)
          /\ j.quiet => \A i \in 1..Len(j.ties) : load[j.ties[i]] = j.min
      BY <1>2, <1>5 DEF InTies, Least
    <2>2. CASE load[m] = j.min
      <3>1. t = Append(j.ties, m)
        BY <1>7, <2>2
      <3>2. /\ t \in Seq(Members) /\ Len(t) = Len(j.ties) + 1
            /\ DOMAIN t = 1..(Len(j.ties) + 1) /\ t # <<>>
            /\ \A i \in 1..Len(j.ties) : t[i] = j.ties[i]
            /\ t[Len(j.ties) + 1] = m
        BY <1>5, <3>1
      <3>3. ASSUME NEW a \in DOMAIN t, NEW b \in DOMAIN t, a < b
            PROVE  t[a] < t[b]
        <4>1. a \in 1..Len(j.ties)
          BY <1>5, <3>2, <3>3
        <4>2. CASE b = Len(j.ties) + 1
          BY <1>6, <3>2, <4>1, <4>2
        <4>3. CASE b # Len(j.ties) + 1
          <5>1. b \in 1..Len(j.ties)
            BY <1>5, <3>2, <4>3
          <5> QED
            BY <1>5, <2>1, <3>2, <3>3, <4>1, <5>1 DEF Increasing
        <4> QED
          BY <4>2, <4>3
      <3>4. ASSUME NEW i \in DOMAIN t PROVE t[i] <= m /\ (j.quiet => load[t[i]] = j.min)
        <4>1. CASE i = Len(j.ties) + 1
          BY <1>6, <2>2, <3>2, <4>1
        <4>2. CASE i # Len(j.ties) + 1
          <5>1. i \in 1..Len(j.ties)
            BY <1>5, <3>2, <4>2
          <5> QED
            BY <1>6, <2>1, <3>2, <5>1
        <4> QED
          BY <4>1, <4>2
      <3>5. Len(t) \in Nat /\ Len(t) <= j.k /\ DOMAIN t = 1..Len(t)
        BY <1>3, <1>5, <2>1, <3>2
      <3> QED
        BY <3>2, <3>3, <3>4, <3>5 DEF Increasing
    <2>3. CASE load[m] # j.min
      <3>1. t = j.ties
        BY <1>7, <2>3
      <3>2. ASSUME NEW i \in 1..Len(t) PROVE t[i] <= m /\ (j.quiet => load[t[i]] = j.min)
        BY <1>6, <2>1, <3>1
      <3>3. Len(t) <= j.k
        BY <1>3, <1>5, <2>1, <3>1
      <3> QED
        BY <1>5, <2>1, <2>3, <3>1, <3>2, <3>3
    <2> QED
      BY <2>2, <2>3
  <1>9. PICK e : e = [j EXCEPT !.ties = t]
    OBVIOUS
  <1>10. /\ e \in Jobs /\ e.k = j.k /\ e.by = "least" /\ e.idx = j.idx /\ e.min = j.min
         /\ e.ties = t /\ e.quiet = j.quiet
    <2>1. t \in Seq(Members) /\ j.by = "least"
      BY <1>2, <1>8 DEF InTies
    <2> QED
      BY <1>9, <2>1, SetTies
  <1>11. Continue(r, "pick", e)
    BY <1>1, <1>4, <1>7, <1>9 DEF CollectTies
  <1>12. j.quiet => \A a \in 1..Len(j.idx) : j.min <= load[j.idx[a]]
    BY <1>2, <1>3 DEF InTies, Least
  <1>13. CASE e.k < Len(e.idx)
    <2>1. PICK f : f = [e EXCEPT !.k = e.k + 1]
      OBVIOUS
    <2>2. Goto(r, "ties", f)
      BY <1>2, <1>11, <1>13, <2>1 DEF Continue
    <2>3. /\ f \in Jobs /\ f.k = j.k + 1 /\ f.by = "least" /\ f.idx = j.idx /\ f.min = j.min
          /\ f.ties = t /\ f.quiet = j.quiet
      <3>1. e.k + 1 \in Nat
        BY <1>3, <1>10
      <3> QED
        BY <1>10, <2>1, <3>1, SetK
    <2>4. j.k + 1 \in 1..Len(j.idx)
      BY <1>3, <1>10, <1>13
    <2>5. InLoop(f)
      BY <1>2, <2>3, <2>4 DEF InTies, InLoop
    <2>6. ASSUME NEW i \in DOMAIN t PROVE t[i] < f.idx[f.k]
      <3>1. j.idx[j.k] < j.idx[j.k + 1]
        <4>1. j.k \in DOMAIN j.idx /\ j.k + 1 \in DOMAIN j.idx /\ j.k < j.k + 1
          BY <1>3, <2>4
        <4> QED
          BY <1>2, <4>1 DEF InTies, InLoop, Increasing
      <3>2. t[i] \in Nat /\ j.idx[j.k + 1] \in Nat
        <4>1. t[i] \in Members /\ j.idx[j.k + 1] \in Members
          BY <1>3, <1>8, <2>4
        <4> QED
          BY <4>1 DEF Members
      <3>3. t[i] <= m
        BY <1>8
      <3> QED
        BY <1>4, <1>6, <2>3, <3>1, <3>2, <3>3
    <2>7. f.quiet => /\ Least(f, load)
                     /\ \E a \in DOMAIN f.idx : load[f.idx[a]] = f.min /\ (a < f.k => f.ties # <<>>)
      <3> SUFFICES ASSUME f.quiet
                   PROVE  /\ Least(f, load)
                          /\ \E a \in DOMAIN f.idx : load[f.idx[a]] = f.min /\ (a < f.k => f.ties # <<>>)
        OBVIOUS
      <3>1. Least(f, load)
        BY <1>3, <1>8, <1>12, <2>3 DEF Least
      <3>2. PICK a \in 1..Len(j.idx) : load[j.idx[a]] = j.min /\ (a < j.k => j.ties # <<>>)
        BY <1>2, <1>3, <2>3 DEF InTies
      <3>3. a < j.k + 1 => t # <<>>
        <4>1. CASE a = j.k
          BY <1>4, <1>8, <3>2, <4>1
        <4>2. CASE a # j.k
          BY <1>3, <1>8, <3>2, <4>2
        <4> QED
          BY <4>1, <4>2
      <3> QED
        BY <1>3, <2>3, <3>1, <3>2, <3>3
    <2>8. InTies(f, load)
      <3>1. Len(f.ties) < f.k
        BY <1>3, <1>8, <2>3
      <3>2. Increasing(f.ties) /\ f.by = "least" /\ \A i \in DOMAIN f.ties : f.ties[i] < f.idx[f.k]
        BY <1>8, <2>3, <2>6
      <3> QED
        BY <2>5, <2>7, <3>1, <3>2 DEF InTies
    <2>9. AtStep("ties", f, load)
      BY <2>8 DEF AtStep
    <2> QED
      BY <1>2, <2>2, <2>3, <2>9, StepTo DEF IInv, PCs
  <1>14. CASE ~(e.k < Len(e.idx))
    <2>1. PICK f : f = [e EXCEPT !.k = 1]
      OBVIOUS
    <2>2. Goto(r, "pick", f)
      BY <1>11, <1>14, <2>1 DEF Continue
    <2>3. /\ f \in Jobs /\ f.k = 1 /\ f.by = "least" /\ f.idx = j.idx /\ f.min = j.min
          /\ f.ties = t /\ f.quiet = j.quiet
      <3>1. 1 \in Nat
        OBVIOUS
      <3> QED
        BY <1>10, <2>1, <3>1, SetK
    <2>4. j.k = Len(j.idx)
      BY <1>3, <1>10, <1>14
    <2>5. f.quiet => Least(f, load) /\ f.ties # <<>>
      <3> SUFFICES ASSUME f.quiet PROVE Least(f, load) /\ f.ties # <<>>
        OBVIOUS
      <3>1. Least(f, load)
        BY <1>3, <1>8, <1>12, <2>3 DEF Least
      <3>2. PICK a \in 1..Len(j.idx) : load[j.idx[a]] = j.min /\ (a < j.k => j.ties # <<>>)
        BY <1>2, <1>3, <2>3 DEF InTies
      <3>3. t # <<>>
        <4>1. CASE a = j.k
          BY <1>4, <1>8, <3>2, <4>1
        <4>2. CASE a # j.k
          BY <1>3, <1>8, <2>4, <3>2, <4>2
        <4> QED
          BY <4>1, <4>2
      <3> QED
        BY <2>3, <3>1, <3>3
    <2>6. Len(f.ties) <= N
      BY <1>3, <1>8, <2>3
    <2>7. AtPick(f, load)
      BY <1>8, <2>3, <2>5, <2>6 DEF AtPick
    <2>8. AtStep("pick", f, load)
      BY <2>7 DEF AtStep
    <2> QED
      BY <1>2, <2>2, <2>3, <2>8, StepTo DEF IInv, PCs
  <1> QED
    BY <1>13, <1>14

\* A remainder is below what is divided by.
LEMMA Remainder ==
    ASSUME NEW a \in Nat, NEW n \in Nat \ {0}
    PROVE  a % n \in 0..(n - 1)
  OBVIOUS

\* The pick among the ties, and the panic without any.
LEMMA PickStep ==
    ASSUME IInv, NEW r \in Requests, PickTie(r) \/ DivideByZero(r)
    PROVE  IInv'
  <1>1. PICK j \in Jobs : j = job[r]
    BY DEF IInv, Types
  <1>2. AtPick(j, load) /\ load' = load /\ rr \in Nat /\ Types
    BY <1>1 DEF PickTie, DivideByZero, IInv, LoopsHold, AtStep, Types
  <1>3. rr' = (rr + 1) % RRPeriod /\ rr' \in Nat
    <2>1. rr' = (rr + 1) % RRPeriod
      BY DEF PickTie, DivideByZero, NextRR
    <2>2. RRPeriod \in Nat \ {0} /\ rr + 1 \in Nat
      BY <1>2, PeriodAssumption DEF PeriodAssumption
    <2>3. (rr + 1) % RRPeriod \in 0..(RRPeriod - 1)
      BY <2>2, Remainder
    <2> QED
      BY <2>1, <2>2, <2>3
  <1>4. /\ j.ties \in Seq(Members) /\ Len(j.ties) \in Nat /\ DOMAIN j.ties = 1..Len(j.ties)
        /\ \A i \in 1..Len(j.ties) : j.ties[i] \in Members
        /\ Len(j.ties) <= N
    <2>1. j.ties \in Seq(Members)
      BY DEF Jobs
    <2> QED
      BY <1>2, <2>1 DEF AtPick
  <1>5. CASE PickTie(r)
    <2>1. j.ties # <<>>
      BY <1>1, <1>5 DEF PickTie
    <2>2. Len(j.ties) \in Nat \ {0}
      BY <1>4, <2>1
    <2>3. (rr % Len(j.ties)) + 1 \in 1..Len(j.ties)
      <3>1. rr % Len(j.ties) \in 0..(Len(j.ties) - 1)
        BY <1>2, <2>2, Remainder
      <3> QED
        BY <2>2, <3>1
    <2>4. PICK m \in Members : m = j.ties[(rr % Len(j.ties)) + 1]
      BY <1>4, <2>3
    <2>5. PICK e : e = [j EXCEPT !.chosen = m]
      OBVIOUS
    <2>6. m \in MemberOrNone
      BY DEF MemberOrNone
    <2>7. /\ e \in Jobs /\ e.by = "least" /\ e.idx = j.idx /\ e.chosen = m /\ e.quiet = j.quiet
      BY <1>2, <2>5, <2>6, SetChosen DEF AtPick
    <2>8. AtDone(e, load)
      BY <1>2, <1>4, <2>3, <2>4, <2>7 DEF AtDone, AtPick, Least
    <2>9. AtStep("done", e, load)
      BY <2>8 DEF AtStep
    <2>10. Goto(r, "done", e) /\ "done" \in PCs
      BY <1>1, <1>5, <2>4, <2>5 DEF PickTie, Resolved, PCs
    <2>11. Types' /\ LoopsHold'
      BY <1>2, <1>3, <2>7, <2>9, <2>10, StepTo DEF IInv
    <2>12. last'.ties = j.ties /\ last'.chosen = m
      BY <1>1, <1>5, <2>4 DEF PickTie
    <2>13. LastPick'
      BY <1>2, <1>3, <1>4, <2>4, <2>12 DEF LastPick
    <2> QED
      BY <2>11, <2>13 DEF IInv
  <1>6. CASE DivideByZero(r)
    <2>1. AtStep("idle", NoJob, load)
      BY DEF AtStep
    <2>2. Goto(r, "idle", NoJob) /\ "idle" \in PCs
      BY <1>6 DEF DivideByZero, PCs
    <2>3. Types' /\ LoopsHold'
      BY <1>2, <1>3, <2>1, <2>2, StepTo, NoJobIsJob DEF IInv
    <2>4. last'.ties = <<>>
      BY <1>6 DEF DivideByZero
    <2>5. <<>> \in Seq(Members) /\ Len(<<>>) <= N
      BY PoolAssumption DEF PoolAssumption
    <2>6. LastPick'
      BY <2>4, <2>5 DEF LastPick
    <2> QED
      BY <2>3, <2>6 DEF IInv
  <1> QED
    BY <1>5, <1>6

\* The ring gives a member: its own, or the second scan begins.
LEMMA PinStep ==
    ASSUME IInv, NEW r \in Requests, Pin(r)
    PROVE  (Types /\ LoopsHold)'
  <1>1. PICK j \in Jobs : j = job[r]
    BY DEF IInv, Types
  <1>2. AtPin(j) /\ load' = load /\ rr' = rr /\ rr \in Nat /\ Types
    BY <1>1 DEF Pin, IInv, LoopsHold, AtStep, Types
  <1>3. PICK p : p = PinSlot(j.idx, j.hash)
    OBVIOUS
  <1>4. p \in MemberOrNone
    <2>1. j.idx \in Seq(Members) /\ j.hash \in Hashes \cup {0}
      BY DEF Jobs
    <2>2. j.hash \in Nat
      BY HashIsNumber
    <2> QED
      BY <1>3, <2>1, <2>2, PinSlotIsMember DEF MemberOrNone
  <1>5. CASE Goto(r, "scan", [j EXCEPT !.by = "over", !.pinned = p, !.idx = <<>>])
    <2>1. PICK e : e = [j EXCEPT !.by = "over", !.pinned = p, !.idx = <<>>]
      OBVIOUS
    <2>2. "over" \in Modes
      BY DEF Modes
    <2>3. /\ e \in Jobs /\ e.k = j.k /\ e.by = "over" /\ e.idx = <<>>
          /\ e.ties = j.ties /\ e.chosen = j.chosen
      <3>1. PICK empty \in Seq(Members) : empty = <<>>
        <4>1. <<>> \in Seq(Members)
          OBVIOUS
        <4> QED
          BY <4>1, Zenon
      <3>2. e = [j EXCEPT !.by = "over", !.pinned = p, !.idx = empty]
        BY <2>1, <3>1
      <3>3. /\ e \in Jobs /\ e.k = j.k /\ e.by = "over" /\ e.idx = empty
            /\ e.ties = j.ties /\ e.chosen = j.chosen
        BY <1>4, <2>2, <3>2 DEF Jobs
      <3> QED
        BY <3>1, <3>3
    <2>4. InScan(e)
      <3>1. Increasing(e.idx) /\ Len(e.idx) = 0 /\ DOMAIN e.idx = {}
        BY <2>3 DEF Increasing
      <3>2. e.k = 1 /\ e.ties = <<>> /\ e.chosen = 0
        BY <1>2, <2>3 DEF AtPin
      <3> QED
        BY <2>3, <3>1, <3>2, NoJobIsJob DEF InScan
    <2>5. AtStep("scan", e, load)
      BY <2>4 DEF AtStep
    <2> QED
      BY <1>2, <1>5, <2>1, <2>3, <2>5, StepTo DEF IInv, PCs
  <1>6. CASE Goto(r, "done", [j EXCEPT !.pinned = p, !.chosen = p])
    <2>1. PICK e : e = [j EXCEPT !.pinned = p, !.chosen = p]
      OBVIOUS
    <2>2. e \in Jobs /\ e.by = "pin"
      BY <1>2, <1>4, <2>1 DEF Jobs, AtPin
    <2>3. AtStep("done", e, load)
      BY <2>2 DEF AtStep, AtDone
    <2> QED
      BY <1>2, <1>6, <2>1, <2>2, <2>3, StepTo DEF IInv, PCs
  <1> QED
    BY <1>1, <1>3, <1>5, <1>6 DEF Pin

\* One more member is compared, unless it is the one that overflows.
LEMMA OverflowStepKeeps ==
    ASSUME IInv, NEW r \in Requests, OverflowStep(r)
    PROVE  (Types /\ LoopsHold)'
  <1>1. PICK j \in Jobs : j = job[r]
    BY DEF IInv, Types
  <1>2. InOver(j, load) /\ load' = load /\ rr' = rr /\ rr \in Nat /\ Types
    BY <1>1 DEF OverflowStep, IInv, LoopsHold, AtStep, Types
  <1>3. /\ j.idx \in Seq(Members) /\ Len(j.idx) \in Nat /\ DOMAIN j.idx = 1..Len(j.idx)
        /\ N \in Nat /\ Len(j.idx) <= N
        /\ j.k \in 1..Len(j.idx) /\ j.min \in Nat
        /\ \A a \in 1..Len(j.idx) : j.idx[a] \in Members /\ load[j.idx[a]] \in Nat
    BY <1>2, LoopTypes DEF InOver
  <1>4. PICK m \in Members : m = j.idx[j.k]
    BY <1>3
  <1>5. m \in MemberOrNone /\ m # 0 /\ load[m] \in Nat
    BY <1>3, <1>4 DEF MemberOrNone, Members
  <1>6. PICK best : best = IF Sibling(j, m) /\ (j.chosen = 0 \/ load[m] < j.min)
                           THEN [j EXCEPT !.chosen = m, !.min = load[m]] ELSE j
    OBVIOUS
  <1>7. /\ best \in Jobs /\ best.k = j.k /\ best.by = "over" /\ best.idx = j.idx
        /\ best.pinned = j.pinned /\ best.quiet = j.quiet
        /\ best.chosen = 0 => \A a \in 1..Len(j.idx) : a < j.k + 1 => j.idx[a] = j.pinned
        /\ best.chosen # 0 => /\ BestSibling(j, load, best.chosen, j.k + 1)
                              /\ j.quiet => best.min = load[best.chosen]
    <2>1. /\ j.by = "over"
          /\ j.chosen = 0 => \A a \in 1..Len(j.idx) : a < j.k => j.idx[a] = j.pinned
          /\ j.chosen # 0 => /\ BestSibling(j, load, j.chosen, j.k)
                             /\ j.quiet => j.min = load[j.chosen]
      BY <1>2, <1>3 DEF InOver
    <2>2. CASE Sibling(j, m) /\ (j.chosen = 0 \/ load[m] < j.min)
      <3>1. best = [j EXCEPT !.chosen = m, !.min = load[m]]
        BY <1>6, <2>2
      <3>2. /\ best \in Jobs /\ best.k = j.k /\ best.by = j.by /\ best.idx = j.idx
            /\ best.pinned = j.pinned /\ best.quiet = j.quiet
            /\ best.chosen = m /\ best.min = load[m]
        BY <1>5, <3>1 DEF Jobs
      <3>3. m # j.pinned
        BY <2>2 DEF Sibling
      <3>4. ASSUME j.quiet, NEW a \in 1..Len(j.idx), a < j.k + 1, j.idx[a] # j.pinned
            PROVE  load[m] <= load[j.idx[a]]
        <4>1. CASE a = j.k
          BY <1>4, <1>5, <4>1
        <4>2. CASE a # j.k
          <5>1. a < j.k
            BY <1>3, <3>4, <4>2
          <5>2. j.chosen # 0
            BY <2>1, <3>4, <5>1
          <5>3. load[j.chosen] <= load[j.idx[a]] /\ j.min = load[j.chosen] /\ load[m] < j.min
            BY <1>3, <2>1, <2>2, <3>4, <5>1, <5>2 DEF BestSibling
          <5> QED
            BY <1>3, <1>5, <5>3
        <4> QED
          BY <4>1, <4>2
      <3>5. BestSibling(j, load, m, j.k + 1)
        BY <1>3, <1>4, <3>3, <3>4 DEF BestSibling
      <3> QED
        BY <1>5, <2>1, <3>2, <3>5
    <2>3. CASE ~(Sibling(j, m) /\ (j.chosen = 0 \/ load[m] < j.min))
      <3>1. best = j
        BY <1>6, <2>3
      <3>2. ASSUME j.chosen = 0, NEW a \in 1..Len(j.idx), a < j.k + 1
            PROVE  j.idx[a] = j.pinned
        <4>1. CASE a = j.k
          BY <1>4, <2>3, <3>2, <4>1 DEF Sibling
        <4>2. CASE a # j.k
          <5>1. a < j.k
            BY <1>3, <3>2, <4>2
          <5> QED
            BY <2>1, <3>2, <5>1
        <4> QED
          BY <4>1, <4>2
      <3>3. ASSUME j.chosen # 0 PROVE BestSibling(j, load, j.chosen, j.k + 1)
        <4>1. BestSibling(j, load, j.chosen, j.k)
          BY <2>1, <3>3
        <4>2. ASSUME j.quiet, NEW a \in 1..Len(j.idx), a < j.k + 1, j.idx[a] # j.pinned
              PROVE  load[j.chosen] <= load[j.idx[a]]
          <5>1. CASE a = j.k
            <6>1. ~(load[m] < j.min)
              BY <1>4, <2>3, <4>2, <5>1 DEF Sibling
            <6>2. j.min = load[j.chosen]
              BY <2>1, <3>3, <4>2
            <6> QED
              BY <1>3, <1>4, <1>5, <5>1, <6>1, <6>2
          <5>2. CASE a # j.k
            <6>1. a < j.k
              BY <1>3, <4>2, <5>2
            <6> QED
              BY <1>3, <4>1, <4>2, <6>1 DEF BestSibling
          <5> QED
            BY <5>1, <5>2
        <4> QED
          BY <1>3, <4>1, <4>2 DEF BestSibling
      <3> QED
        BY <2>1, <3>1, <3>2, <3>3
    <2> QED
      BY <2>2, <2>3
  <1>8. CASE j.k < Len(j.idx) /\ Goto(r, "over", [best EXCEPT !.k = j.k + 1])
    <2>1. PICK f : f = [best EXCEPT !.k = j.k + 1]
      OBVIOUS
    <2>2. /\ f \in Jobs /\ f.k = j.k + 1 /\ f.by = "over" /\ f.idx = j.idx
          /\ f.min = best.min /\ f.pinned = j.pinned /\ f.chosen = best.chosen
          /\ f.quiet = j.quiet
      <3>1. j.k + 1 \in Nat
        BY <1>3
      <3> QED
        BY <1>7, <2>1, <3>1, SetK
    <2>3. InLoop(f)
      BY <1>2, <1>3, <1>8, <2>2 DEF InOver, InLoop
    <2>4. f.chosen # 0 => /\ BestSibling(f, load, f.chosen, f.k)
                          /\ f.quiet => f.min = load[f.chosen]
      BY <1>7, <2>2 DEF BestSibling
    <2>5. InOver(f, load)
      BY <1>3, <1>7, <2>2, <2>3, <2>4 DEF InOver
    <2>6. AtStep("over", f, load)
      BY <2>5 DEF AtStep
    <2> QED
      BY <1>2, <1>8, <2>1, <2>2, <2>6, StepTo DEF IInv, PCs
  <1>9. CASE /\ j.k = Len(j.idx)
             /\ Goto(r, "done", [best EXCEPT !.chosen =
                                    IF best.chosen = 0 THEN j.pinned ELSE best.chosen])
    <2>1. PICK c \in MemberOrNone : c = IF best.chosen = 0 THEN j.pinned ELSE best.chosen
      BY <1>7 DEF Jobs
    <2>2. PICK f : f = [best EXCEPT !.chosen = c]
      OBVIOUS
    <2>3. /\ f \in Jobs /\ f.by = "over" /\ f.idx = j.idx /\ f.pinned = j.pinned
          /\ f.chosen = c /\ f.quiet = j.quiet
      BY <1>7, <2>2, SetChosen
    <2>4. ASSUME NEW a \in DOMAIN f.idx, f.idx[a] # f.pinned
          PROVE  BestSibling(f, load, f.chosen, Len(f.idx) + 1)
      <3>1. best.chosen # 0
        <4>1. a \in 1..Len(j.idx) /\ a < j.k + 1
          BY <1>3, <1>9, <2>3
        <4> QED
          BY <1>7, <2>3, <2>4, <4>1
      <3>2. c = best.chosen /\ BestSibling(j, load, c, j.k + 1)
        BY <1>7, <2>1, <3>1
      <3> QED
        BY <1>9, <2>3, <3>2 DEF BestSibling
    <2>5. AtDone(f, load)
      BY <2>3, <2>4 DEF AtDone
    <2>6. AtStep("done", f, load)
      BY <2>5 DEF AtStep
    <2> QED
      BY <1>2, <1>9, <2>1, <2>2, <2>3, <2>6, StepTo DEF IInv, PCs
  <1> QED
    BY <1>1, <1>4, <1>6, <1>8, <1>9 DEF OverflowStep

-----------------------------------------------------------------------------
(* The rest of the router, and the theorems                                *)

\* A load moves: nothing is said any more of the loads that were read.
LEMMA LoadMovesStep ==
    ASSUME IInv, NEW m \in Members, LoadMoves(m)
    PROVE  IInv'
  <1>1. load' \in [Members -> Nat]
    <2>1. load \in [Members -> Nat] /\ load[m] \in Nat /\ Cap[m] \in Nat
      BY PoolAssumption DEF PoolAssumption, IInv, Types
    <2> QED
      BY <2>1 DEF LoadMoves
  <1>2. UNCHANGED <<rr, pc, last>> /\ job' = [r \in Requests |-> [job[r] EXCEPT !.quiet = FALSE]]
    BY DEF LoadMoves
  <1>3. ASSUME NEW r \in Requests
        PROVE  job'[r] \in Jobs /\ AtStep(pc'[r], job'[r], load')
    <2>1. PICK j \in Jobs : j = job[r]
      BY DEF IInv, Types
    <2>2. PICK e : e = [j EXCEPT !.quiet = FALSE]
      OBVIOUS
    <2>3. /\ e \in Jobs /\ e.k = j.k /\ e.by = j.by /\ e.idx = j.idx /\ e.min = j.min
          /\ e.ties = j.ties /\ e.pinned = j.pinned /\ e.chosen = j.chosen
          /\ ~e.quiet
      <3>1. FALSE \in BOOLEAN
        OBVIOUS
      <3>2. /\ e.k = j.k /\ e.by = j.by /\ e.idx = j.idx /\ e.min = j.min
            /\ e.ties = j.ties /\ e.pinned = j.pinned /\ e.chosen = j.chosen
            /\ e.quiet = FALSE
        BY <2>2 DEF Jobs
      <3>3. e \in Jobs
        BY <2>2, <3>1 DEF Jobs
      <3> QED
        BY <3>2, <3>3
    <2>4. AtStep(pc[r], j, load)
      BY <2>1 DEF IInv, LoopsHold
    <2>5. AtStep(pc[r], e, load')
      <3>1. pc[r] = "scan" => InScan(e)
        BY <2>3, <2>4 DEF AtStep, InScan
      <3>2. pc[r] = "least" => InLeast(e, load')
        BY <2>3, <2>4 DEF AtStep, InLeast, InLoop
      <3>3. pc[r] = "ties" => InTies(e, load')
        BY <2>3, <2>4 DEF AtStep, InTies, InLoop
      <3>4. pc[r] = "pick" => AtPick(e, load')
        BY <2>3, <2>4 DEF AtStep, AtPick
      <3>5. pc[r] = "pin" => AtPin(e)
        BY <2>3, <2>4 DEF AtStep, AtPin
      <3>6. pc[r] = "over" => InOver(e, load')
        BY <2>3, <2>4 DEF AtStep, InOver, InLoop, BestSibling
      <3>7. pc[r] = "done" => AtDone(e, load')
        BY <2>3, <2>4 DEF AtStep, AtDone, BestSibling
      <3> QED
        BY <3>1, <3>2, <3>3, <3>4, <3>5, <3>6, <3>7 DEF AtStep
    <2>6. job'[r] = e /\ pc'[r] = pc[r]
      BY <1>2, <2>1, <2>2
    <2> QED
      BY <2>3, <2>5, <2>6
  <1>4. job' \in [Requests -> Jobs]
    BY <1>2, <1>3
  <1>5. Types'
    BY <1>1, <1>2, <1>4 DEF IInv, Types
  <1>6. LoopsHold'
    BY <1>3 DEF LoopsHold
  <1>7. LastPick'
    BY <1>2 DEF IInv, LastPick
  <1> QED
    BY <1>5, <1>6, <1>7 DEF IInv

\* The inductive invariant holds throughout.
THEOREM PoolInvariant == Spec => []IInv
  <1>1. Init => IInv
    <2> SUFFICES ASSUME Init PROVE IInv
      OBVIOUS
    <2>1. load \in [Members -> Nat] /\ rr \in Nat
      BY DEF Init
    <2>2. pc \in [Requests -> PCs]
      BY DEF Init, PCs
    <2>3. job \in [Requests -> Jobs]
      BY NoJobIsJob DEF Init
    <2>4. LoopsHold
      BY DEF Init, LoopsHold, AtStep
    <2>5. <<>> \in Seq(Members) /\ Len(<<>>) <= N
      BY PoolAssumption DEF PoolAssumption
    <2>6. last.ties = <<>>
      BY DEF Init
    <2>7. LastPick
      BY <2>5, <2>6 DEF LastPick
    <2> QED
      BY <2>1, <2>2, <2>3, <2>4, <2>7 DEF IInv, Types
  <1>2. IInv /\ [Next]_vars => IInv'
    <2> SUFFICES ASSUME IInv, [Next]_vars PROVE IInv'
      OBVIOUS
    <2>1. ASSUME UNCHANGED <<rr, last>> PROVE LastPick'
      BY <2>1 DEF IInv, LastPick
    <2>2. ASSUME NEW r \in Requests, Begin(r) \/ Dispatch(r) PROVE IInv'
      BY <2>1, <2>2, BeginStep DEF Begin, Dispatch, IInv
    <2>3. ASSUME NEW r \in Requests, EligibleStep(r) PROVE IInv'
      BY <2>1, <2>3, EligibleStepKeeps DEF EligibleStep, IInv
    <2>4. ASSUME NEW r \in Requests, FindMin(r) PROVE IInv'
      BY <2>1, <2>4, FindMinStep DEF FindMin, IInv
    <2>5. ASSUME NEW r \in Requests, CollectTies(r) PROVE IInv'
      BY <2>1, <2>5, CollectTiesStep DEF CollectTies, IInv
    <2>6. ASSUME NEW r \in Requests, PickTie(r) \/ DivideByZero(r) PROVE IInv'
      BY <2>6, PickStep
    <2>7. ASSUME NEW r \in Requests, Pin(r) PROVE IInv'
      BY <2>1, <2>7, PinStep DEF Pin, IInv
    <2>8. ASSUME NEW r \in Requests, OverflowStep(r) PROVE IInv'
      BY <2>1, <2>8, OverflowStepKeeps DEF OverflowStep, IInv
    <2>9. ASSUME NEW r \in Requests, ClientGone(r) PROVE IInv'
      BY <2>1, <2>9, ClientGoneStep DEF ClientGone, IInv
    <2>10. ASSUME NEW m \in Members, LoadMoves(m) PROVE IInv'
      BY <2>10, LoadMovesStep
    <2>11. CASE UNCHANGED <<load, rr, pc, job, last>>
      BY <2>11 DEF IInv, Types, LoopsHold, LastPick
    <2>12. ASSUME NEW m \in Members, WindowEdge(m) PROVE IInv'
      BY <2>11, <2>12 DEF WindowEdge
    <2>13. CASE UNCHANGED vars
      BY <2>11, <2>13 DEF vars
    <2> QED
      BY <2>2, <2>3, <2>4, <2>5, <2>6, <2>7, <2>8, <2>9, <2>10, <2>12, <2>13 DEF Next, Resolve
  <1> QED
    BY <1>1, <1>2, PTL DEF Spec

\* Without a move of the loads, leastLoaded returns a member of the smallest load
\* among those that were eligible, and never panics.
THEOREM PoolLeastLoaded == Spec => []LeastLoadedWhenQuiet
  <1>1. IInv => LeastLoadedWhenQuiet
    <2> SUFFICES ASSUME IInv, NEW r \in Requests
                 PROVE  /\ pc[r] = "done" /\ job[r].by = "least" /\ job[r].quiet /\ job[r].idx # <<>>
                             => \A m \in Range(job[r].idx) : load[job[r].chosen] <= load[m]
                        /\ pc[r] = "pick" /\ job[r].quiet => job[r].ties # <<>>
      BY DEF LeastLoadedWhenQuiet
    <2>1. AtStep(pc[r], job[r], load)
      BY DEF IInv, LoopsHold
    <2> QED
      BY <2>1 DEF AtStep, AtDone, AtPick, Range
  <1> QED
    BY <1>1, PoolInvariant, PTL

\* Failover reaches a sibling whenever the second scan found one, and without a
\* move of the loads the least loaded one.
THEOREM PoolOverflow == Spec => []OverflowFindsSibling
  <1>1. IInv => OverflowFindsSibling
    <2> SUFFICES ASSUME IInv, NEW r \in Requests, pc[r] = "done", job[r].by = "over",
                        Range(job[r].idx) \ {job[r].pinned} # {}
                 PROVE  /\ job[r].chosen \in Range(job[r].idx) \ {job[r].pinned}
                        /\ job[r].quiet => \A m \in Range(job[r].idx) \ {job[r].pinned} :
                                              load[job[r].chosen] <= load[m]
      BY DEF OverflowFindsSibling
    <2>1. PICK j \in Jobs : j = job[r]
      BY DEF IInv, Types
    <2>2. AtDone(j, load)
      BY <2>1 DEF IInv, LoopsHold, AtStep
    <2>3. \E a \in DOMAIN j.idx : j.idx[a] # j.pinned
      BY <2>1 DEF Range
    <2>4. BestSibling(j, load, j.chosen, Len(j.idx) + 1)
      BY <2>1, <2>2, <2>3 DEF AtDone
    <2>5. j.idx \in Seq(Members)
      BY DEF Jobs
    <2>6. \A a \in DOMAIN j.idx : a < Len(j.idx) + 1
      BY <2>5
    <2>7. j.quiet => \A a \in DOMAIN j.idx : j.idx[a] # j.pinned => load[j.chosen] <= load[j.idx[a]]
      BY <2>4, <2>6 DEF BestSibling
    <2>8. j.chosen # j.pinned /\ \E a \in DOMAIN j.idx : j.chosen = j.idx[a]
      BY <2>4 DEF BestSibling
    <2> QED
      BY <2>1, <2>7, <2>8 DEF Range
  <1> QED
    BY <1>1, PoolInvariant, PTL

\* The ring is fair: among the members found eligible each one owns as many
\* slots as its weight, whichever of its neighbours are closed.
THEOREM PoolPinnedByWeight == Spec => []PinnedByWeight
  <1>1. IInv => PinnedByWeight
    <2> SUFFICES ASSUME IInv, NEW r \in Requests, pc[r] = "pin", NEW m \in Range(job[r].idx)
                 PROVE  Cardinality({s \in 0..(Total(job[r].idx) - 1) :
                                        PinSlot(job[r].idx, s) = m}) = Weight[m]
      BY DEF PinnedByWeight
    <2>1. PICK idx \in Seq(Members) : idx = job[r].idx /\ Increasing(idx)
      BY DEF IInv, Types, Jobs, LoopsHold, AtStep, AtPin
    <2>2. PICK k \in 1..Len(idx) : m = idx[k]
      BY <2>1 DEF Range
    <2> QED
      BY <2>1, <2>2, SlotsOfMember
  <1> QED
    BY <1>1, PoolInvariant, PTL

\* What the types say beyond the invariant: loads stay within the caps, the
\* locals are at a member, and Resolve returns one.
Placed(s, j) ==
    /\ j.k \in Members
    /\ s = "done" => j.chosen \in Members
    /\ j.by = "over" => j.pinned \in Members

Placing ==
    /\ \A m \in Members : load[m] \in 0..Cap[m]
    /\ open \subseteq Members
    /\ rr \in 0..(RRPeriod - 1)
    /\ \A r \in Requests : Placed(pc[r], job[r])
    /\ DOMAIN last = {"ties", "chosen"}

\* A step of r leaves the other requests where they are.
LEMMA PlacedGoto ==
    ASSUME Types, \A q \in Requests : Placed(pc[q], job[q]),
           NEW r \in Requests, NEW s, NEW j, Goto(r, s, j), Placed(s, j)
    PROVE  \A q \in Requests : Placed(pc'[q], job'[q])
  <1>1. \A q \in Requests : IF q = r THEN pc'[q] = s /\ job'[q] = j
                                       ELSE pc'[q] = pc[q] /\ job'[q] = job[q]
    BY DEF Types, Goto
  <1> QED
    BY <1>1

\* A loop looks at members, and while it goes on its next position is within
\* the pool.
LEMMA LoopPlaces ==
    ASSUME NEW j \in Jobs, InLoop(j)
    PROVE  j.idx[j.k] \in Members /\ (j.k < Len(j.idx) => j.k + 1 \in Members)
  <1>1. j.idx \in Seq(Members)
    BY DEF Jobs
  <1>2. PICK n \in Nat, k \in Nat : n = Len(j.idx) /\ k = j.k /\ k \in 1..n /\ n <= N
    BY <1>1 DEF InLoop
  <1>3. N \in Nat
    BY PoolAssumption DEF PoolAssumption
  <1>4. j.idx[j.k] \in Members
    BY <1>1, <1>2
  <1>5. k < n => k + 1 \in 1..N
    BY <1>2, <1>3
  <1> QED
    BY <1>2, <1>4, <1>5 DEF Members

\* Every step of Resolve keeps the locals at a member.
LEMMA PlacedResolve ==
    ASSUME IInv, IInv', \A q \in Requests : Placed(pc[q], job[q]),
           NEW r \in Requests, Resolve(r)
    PROVE  \A q \in Requests : Placed(pc'[q], job'[q])
  <1>0. Types /\ 1 \in Members
    BY NoJobIsJob DEF IInv
  <1>1. PICK j \in Jobs : j = job[r] /\ Placed(pc[r], j) /\ AtStep(pc[r], j, load)
    BY DEF IInv, Types, LoopsHold
  <1>2. Fallback(j) \in Members
    BY <1>0, <1>1 DEF Fallback, Placed
  <1>3. CASE Begin(r) \/ Dispatch(r)
    <2>1. ASSUME NEW b \in {"least", "pin"}, NEW h, NEW q
          PROVE  Placed("scan", [NoJob EXCEPT !.by = b, !.hash = h, !.quiet = q])
      BY <1>0 DEF Placed, NoJob
    <2>2. Placed("idle", NoJob)
      BY <1>0 DEF Placed, NoJob
    <2>3. CASE Begin(r)
      <3>1. PICK x \in Hashes \cup {NoSession} :
                Goto(r, "scan", [NoJob EXCEPT !.by = IF x = NoSession THEN "least" ELSE "pin",
                                              !.hash = IF x = NoSession THEN 0 ELSE x,
                                              !.quiet = TRUE])
        BY <2>3 DEF Begin
      <3> QED
        BY <1>0, <2>1, <3>1, PlacedGoto
    <2> QED
      BY <1>0, <1>3, <2>2, <2>3, PlacedGoto DEF Dispatch
  <1>4. CASE EligibleStep(r)
    <2>1. j.k \in Members /\ N \in Nat /\ Members = 1..N
      BY <1>1, PoolAssumption DEF PoolAssumption, Placed, Members
    <2>2. ASSUME NEW idx, NEW k \in Members, NEW s, s # "done"
          PROVE  Placed(s, [j EXCEPT !.idx = idx, !.k = k])
      BY <1>1, <2>2 DEF Placed, Jobs
    <2>3. Placed("done", [j EXCEPT !.chosen = Fallback(j)])
      BY <1>1, <1>2 DEF Placed, Jobs
    <2>4. j.k < N => j.k + 1 \in Members
      BY <2>1
    <2>5. pc[r] = "scan" => j.by # "done"
      BY <1>1 DEF AtStep, InScan
    <2>6. PICK idx : \/ j.k < N /\ Goto(r, "scan", [j EXCEPT !.idx = idx, !.k = j.k + 1])
                     \/ Goto(r, j.by, [j EXCEPT !.idx = idx, !.k = 1])
                     \/ Resolved(r, Fallback(j))
      BY <1>1, <1>4 DEF EligibleStep
    <2>7. pc[r] = "scan"
      BY <1>4 DEF EligibleStep
    <2>8. CASE j.k < N /\ Goto(r, "scan", [j EXCEPT !.idx = idx, !.k = j.k + 1])
      BY <1>0, <2>2, <2>4, <2>8, PlacedGoto
    <2>9. CASE Goto(r, j.by, [j EXCEPT !.idx = idx, !.k = 1])
      BY <1>0, <2>2, <2>5, <2>7, <2>9, PlacedGoto
    <2>10. CASE Resolved(r, Fallback(j))
      BY <1>0, <1>1, <2>3, <2>10, PlacedGoto DEF Resolved
    <2> QED
      BY <2>6, <2>8, <2>9, <2>10
  <1>5. CASE FindMin(r) \/ CollectTies(r)
    <2>1. InLoop(j)
      BY <1>1, <1>5 DEF FindMin, CollectTies, AtStep, InLeast, InTies
    <2>2. j.k + 1 \in Members \/ ~(j.k < Len(j.idx))
      BY <2>1, LoopPlaces
    <2>3. ASSUME NEW x, NEW k \in Members, NEW s, s # "done"
          PROVE  /\ Placed(s, [[j EXCEPT !.min = x] EXCEPT !.k = k])
                 /\ Placed(s, [[j EXCEPT !.ties = x] EXCEPT !.k = k])
      BY <1>1, <2>3 DEF Placed, Jobs
    <2>4. \E x : \/ Continue(r, "ties", [j EXCEPT !.min = x]) /\ pc[r] = "least"
                 \/ Continue(r, "pick", [j EXCEPT !.ties = x]) /\ pc[r] = "ties"
      BY <1>1, <1>5 DEF FindMin, CollectTies
    <2>5. PICK x : \/ Continue(r, "ties", [j EXCEPT !.min = x]) /\ pc[r] = "least"
                   \/ Continue(r, "pick", [j EXCEPT !.ties = x]) /\ pc[r] = "ties"
      BY <2>4
    <2>6. /\ [j EXCEPT !.min = x].k = j.k /\ [j EXCEPT !.min = x].idx = j.idx
          /\ [j EXCEPT !.ties = x].k = j.k /\ [j EXCEPT !.ties = x].idx = j.idx
      BY DEF Jobs
    <2>7. \E s, k \in Members \cup {"least", "ties", "pick"} :
             /\ k \in Members /\ s # "done"
             /\ \/ Goto(r, s, [[j EXCEPT !.min = x] EXCEPT !.k = k])
                \/ Goto(r, s, [[j EXCEPT !.ties = x] EXCEPT !.k = k])
      BY <1>0, <2>2, <2>5, <2>6 DEF Continue
    <2> QED
      BY <1>0, <2>3, <2>7, PlacedGoto
  <1>6. CASE PickTie(r) \/ DivideByZero(r)
    <2>1. Placed("idle", NoJob)
      BY <1>0 DEF Placed, NoJob
    <2>2. CASE PickTie(r)
      <3>1. PICK m : m = j.ties[(rr % Len(j.ties)) + 1]
        OBVIOUS
      <3>2. m \in Members
        <4>1. j.ties \in Seq(Members) /\ j.ties # <<>> /\ rr \in Nat
          BY <1>0, <1>1, <2>2 DEF PickTie, Jobs, Types
        <4>2. Len(j.ties) \in Nat \ {0}
          BY <4>1
        <4>3. (rr % Len(j.ties)) + 1 \in 1..Len(j.ties)
          <5>1. (rr % Len(j.ties)) \in 0..(Len(j.ties) - 1)
            BY <4>1, <4>2, Remainder
          <5> QED
            BY <4>2, <5>1
        <4> QED
          BY <3>1, <4>1, <4>3
      <3>3. Placed("done", [j EXCEPT !.chosen = m])
        BY <1>1, <3>2 DEF Placed, Jobs
      <3>4. Goto(r, "done", [j EXCEPT !.chosen = m])
        BY <1>1, <2>2, <3>1 DEF PickTie, Resolved
      <3> QED
        BY <1>0, <3>3, <3>4, PlacedGoto
    <2> QED
      BY <1>0, <1>6, <2>1, <2>2, PlacedGoto DEF DivideByZero
  <1>7. CASE Pin(r)
    <2>1. PICK p \in Members : p = PinSlot(j.idx, j.hash)
      <3>1. j.idx \in Seq(Members) /\ j.hash \in Nat
        BY HashIsNumber DEF Jobs
      <3> QED
        BY <3>1, PinSlotIsMember
    <2>2. Placed("scan", [j EXCEPT !.by = "over", !.pinned = p, !.idx = <<>>])
      BY <1>1 DEF Placed, Jobs
    <2>3. Placed("done", [j EXCEPT !.pinned = p, !.chosen = p])
      BY <1>1 DEF Placed, Jobs
    <2>4. \/ Goto(r, "scan", [j EXCEPT !.by = "over", !.pinned = p, !.idx = <<>>])
          \/ Goto(r, "done", [j EXCEPT !.pinned = p, !.chosen = p])
      BY <1>1, <1>7, <2>1 DEF Pin
    <2> QED
      BY <1>0, <2>2, <2>3, <2>4, PlacedGoto
  <1>8. CASE OverflowStep(r)
    <2>1. InLoop(j) /\ j.by = "over" /\ j.pinned \in Members
      BY <1>1, <1>8 DEF OverflowStep, AtStep, InOver, Placed
    <2>2. j.idx[j.k] \in Members /\ (j.k < Len(j.idx) => j.k + 1 \in Members)
      BY <2>1, LoopPlaces
    <2>3. PICK best \in {j, [j EXCEPT !.chosen = j.idx[j.k], !.min = load[j.idx[j.k]]]} :
             \/ /\ j.k < Len(j.idx)
                /\ Goto(r, "over", [best EXCEPT !.k = j.k + 1])
             \/ Goto(r, "done", [best EXCEPT !.chosen =
                                     IF best.chosen = 0 THEN j.pinned ELSE best.chosen])
      BY <1>1, <1>8, Zenon DEF OverflowStep
    <2>4. /\ DOMAIN best = DOMAIN j /\ best.k = j.k /\ best.pinned = j.pinned /\ best.by = j.by
          /\ best.chosen \in MemberOrNone
      BY <2>2, <2>3 DEF Jobs, MemberOrNone
    <2>5. PICK c \in Members : c = IF best.chosen = 0 THEN j.pinned ELSE best.chosen
      BY <2>1, <2>4 DEF MemberOrNone
    <2>6. Placed("done", [best EXCEPT !.chosen = c])
      BY <1>1, <2>1, <2>4 DEF Placed, Jobs
    <2>7. j.k < Len(j.idx) => Placed("over", [best EXCEPT !.k = j.k + 1])
      BY <2>1, <2>2, <2>4 DEF Placed, Jobs
    <2> QED
      BY <1>0, <2>3, <2>5, <2>6, <2>7, PlacedGoto
  <1>9. CASE ClientGone(r)
    <2>1. Placed("done", [j EXCEPT !.by = "gone", !.chosen = Fallback(j)])
      BY <1>1, <1>2 DEF Placed, Jobs
    <2>2. Goto(r, "done", [j EXCEPT !.by = "gone", !.chosen = Fallback(j)])
      BY <1>1, <1>9 DEF ClientGone
    <2> QED
      BY <1>0, <2>1, <2>2, PlacedGoto
  <1> QED
    BY <1>3, <1>4, <1>5, <1>6, <1>7, <1>8, <1>9 DEF Resolve

\* The types hold throughout: the ring, the loops, the failover and the fallbacks
\* all stay within the pool, and Resolve never returns without a member.
THEOREM PoolTypes == Spec => []TypeOK
  <1>1. Init => Placing
    <2> SUFFICES ASSUME Init PROVE Placing
      OBVIOUS
    <2>1. \A m \in Members : load[m] \in 0..Cap[m]
      BY PoolAssumption DEF Init, PoolAssumption
    <2>2. rr \in 0..(RRPeriod - 1)
      BY PeriodAssumption DEF Init, PeriodAssumption
    <2>3. \A r \in Requests : Placed(pc[r], job[r])
      BY NoJobIsJob DEF Init, Placed, NoJob
    <2> QED
      BY <2>1, <2>2, <2>3 DEF Init, Placing
  <1>2. IInv /\ IInv' /\ Placing /\ [Next]_vars => Placing'
    <2> SUFFICES ASSUME IInv, IInv', Placing, [Next]_vars PROVE Placing'
      OBVIOUS
    <2>1. NextRR \in 0..(RRPeriod - 1)
      <3>1. rr \in Nat /\ RRPeriod \in Nat \ {0}
        BY PeriodAssumption DEF PeriodAssumption, IInv, Types
      <3> QED
        BY <3>1 DEF NextRR
    <2>2. ASSUME NEW r \in Requests, Resolve(r) PROVE Placing'
      <3>1. \A q \in Requests : Placed(pc'[q], job'[q])
        BY <2>2, PlacedResolve DEF Placing
      <3>2. UNCHANGED <<load, open>>
        BY <2>2 DEF Resolve, Begin, EligibleStep, FindMin, CollectTies, PickTie, DivideByZero,
                    Pin, OverflowStep, ClientGone, Dispatch
      <3>3. UNCHANGED <<rr, last>> \/ (rr' = NextRR /\ DOMAIN last' = {"ties", "chosen"})
        BY <2>2 DEF Resolve, Begin, EligibleStep, FindMin, CollectTies, PickTie, DivideByZero,
                    Pin, OverflowStep, ClientGone, Dispatch
      <3> QED
        BY <2>1, <3>1, <3>2, <3>3 DEF Placing
    <2>3. ASSUME NEW m \in Members, LoadMoves(m) PROVE Placing'
      <3>1. \A n \in Members : load'[n] \in 0..Cap[n]
        <4>1. load \in [Members -> Nat] /\ load[m] \in 0..Cap[m] /\ Cap[m] \in Nat
          BY PoolAssumption DEF PoolAssumption, IInv, Types, Placing
        <4>2. load'[m] \in 0..Cap[m] /\ \A n \in Members \ {m} : load'[n] = load[n]
          BY <2>3, <4>1 DEF LoadMoves
        <4> QED
          BY <4>2 DEF Placing
      <3>2. ASSUME NEW r \in Requests PROVE Placed(pc'[r], job'[r])
        <4>1. PICK j \in Jobs : j = job[r] /\ Placed(pc[r], j)
          BY DEF IInv, Types, Placing
        <4>2. job'[r] = [j EXCEPT !.quiet = FALSE] /\ pc' = pc
          BY <2>3, <4>1 DEF LoadMoves
        <4> QED
          BY <4>1, <4>2 DEF Placed, Jobs
      <3> QED
        BY <2>3, <3>1, <3>2 DEF Placing, LoadMoves
    <2>4. ASSUME NEW m \in Members, WindowEdge(m) PROVE Placing'
      BY <2>4 DEF Placing, WindowEdge
    <2>5. CASE UNCHANGED vars
      BY <2>5 DEF Placing, vars
    <2> QED
      BY <2>2, <2>3, <2>4, <2>5 DEF Next
  <1>3. IInv /\ Placing => TypeOK
    <2> SUFFICES ASSUME IInv, Placing PROVE TypeOK
      OBVIOUS
    <2>1. ASSUME NEW r \in Requests
          PROVE  /\ job[r].k \in 1..N
                 /\ Range(job[r].idx) \cup Range(job[r].ties) \subseteq Members
                 /\ {job[r].pinned, job[r].chosen} \subseteq Members \cup {0}
                 /\ pc[r] = "done" => job[r].chosen # 0
      <3>1. PICK j \in Jobs : j = job[r] /\ Placed(pc[r], j)
        BY DEF IInv, Types, Placing
      <3>2. j.idx \in Seq(Members) /\ j.ties \in Seq(Members) /\ j.pinned \in MemberOrNone /\ j.chosen \in MemberOrNone
        BY DEF Jobs
      <3>3. Range(j.idx) \subseteq Members /\ Range(j.ties) \subseteq Members
        BY <3>2 DEF Range
      <3>4. 0 \notin Members
        BY DEF Members
      <3> QED
        BY <3>1, <3>2, <3>3, <3>4 DEF Placed, MemberOrNone, Members
    <2> QED
      BY <2>1 DEF TypeOK, IInv, Types, Placing
  <1> QED
    BY <1>1, <1>2, <1>3, PoolInvariant, PTL DEF Spec

-----------------------------------------------------------------------------
(* Round robin                                                             *)

\* Division with remainder,
LEMMA DivMod == ASSUME NEW x \in Nat, NEW n \in Nat \ {0}
  PROVE \E d \in Nat : \E r \in 0..(n-1) : x = n * d + r /\ r = x % n
  <1>1. x % n \in 0..(n-1) /\ x \div n \in Nat /\ x = n * (x \div n) + (x % n)
    BY SMT
  <1> QED BY <1>1, Zenon

\* whose remainder is unique.
LEMMA ModUnique == ASSUME NEW n \in Nat \ {0}, NEW a \in Nat, NEW b \in Nat, NEW r \in 0..(n-1), NEW s \in 0..(n-1),
   n * a + r = n * b + s PROVE r = s
  <1>1. CASE a = b
    BY <1>1
  <1>2. CASE a < b
    <2>1. PICK d \in Nat : b = a + d + 1
      <3>1. b - a - 1 \in Nat /\ b = a + (b-a-1) + 1
        BY <1>2
      <3> QED BY <3>1
    <2>2. n * b = n*a + n * d + n /\ n*d >= 0 /\ n*a \in Nat /\ n*d \in Nat
      BY <2>1
    <2> QED BY <2>2
  <1>3. CASE b < a
    <2>1. PICK d \in Nat : a = b + d + 1
      <3>1. a - b - 1 \in Nat /\ a = b + (a-b-1) + 1
        BY <1>3
      <3> QED BY <3>1
    <2>2. n * a = n*b + n * d + n /\ n*d >= 0 /\ n*b \in Nat /\ n*d \in Nat
      BY <2>1
    <2> QED BY <2>2
  <1> QED BY <1>1, <1>2, <1>3

\* A counter that starts over at a multiple of n points at the same one of n ties
\* as a counter that does not.
LEMMA ModMod == ASSUME NEW x \in Nat, NEW n \in Nat \ {0}, NEW p \in Nat \ {0}, p % n = 0
  PROVE (x % p) % n = x % n
  <1>1. PICK a \in Nat : \E z \in 0..(n-1) : p = n * a + z /\ z = p % n
    BY DivMod, Zenon
  <1>2. PICK c \in Nat : \E z \in 0..(p-1) : x = p * c + z /\ z = x % p
    BY DivMod, Zenon
  <1>. DEFINE y == x % p
  <1>y. y \in Nat /\ x = p * c + y /\ p = n * a
    <2>1. y \in 0..(p-1) /\ x = p * c + y
      BY <1>2, Zenon
    <2>2. p = n * a + 0
      BY <1>1, Zenon
    <2>3. n * a \in Nat
      OBVIOUS
    <2>. HIDE DEF y
    <2> QED BY <2>1, <2>2, <2>3
  <1>. HIDE DEF y
  <1>3. PICK d \in Nat : \E z \in 0..(n-1) : y = n * d + z /\ z = y % n
    BY <1>y, DivMod, Zenon
  <1>4. PICK e \in Nat : \E z \in 0..(n-1) : x = n * e + z /\ z = x % n
    BY DivMod, Zenon
  <1>. DEFINE r == y % n  s == x % n
  <1>r. r \in 0..(n-1) /\ s \in 0..(n-1) /\ y = n * d + r /\ x = n * e + s
    BY <1>3, <1>4
  <1>. HIDE DEF r, s
  <1>5. x = n * (a * c + d) + r /\ a * c + d \in Nat
    <2>1. a * c \in Nat /\ p * c = n * (a * c) /\ n * (a * c) \in Nat /\ n * d \in Nat
      BY <1>y
    <2>2. n * (a * c + d) = n * (a * c) + n * d
      BY <2>1
    <2> QED BY <1>y, <1>r, <2>1, <2>2
  <1>6. r = s
    BY <1>r, <1>5, ModUnique
  <1> QED BY <1>6 DEF r, s, y

\* The next count points at another one.
LEMMA ModNext == ASSUME NEW x \in Nat, NEW n \in Nat, n > 1
  PROVE (x + 1) % n # x % n
  <1>n. n \in Nat \ {0} /\ x + 1 \in Nat
    OBVIOUS
  <1>1. PICK d \in Nat : \E r \in 0..(n-1) : x = n * d + r /\ r = x % n
    BY <1>n, DivMod, Zenon
  <1>2. PICK e \in Nat : \E s \in 0..(n-1) : x + 1 = n * e + s /\ s = (x + 1) % n
    BY <1>n, DivMod, Zenon
  <1>. DEFINE r == x % n  s == (x + 1) % n
  <1>r. r \in 0..(n-1) /\ s \in 0..(n-1) /\ x = n * d + r /\ x + 1 = n * e + s
    BY <1>1, <1>2
  <1>. HIDE DEF r, s
  <1>3. r + 1 < n => s = r + 1
    <2> SUFFICES ASSUME r + 1 < n PROVE s = r + 1
      OBVIOUS
    <2>1. n * d + (r + 1) = n * e + s /\ r + 1 \in 0..(n-1)
      BY <1>r
    <2> QED BY <1>n, <1>r, <2>1, ModUnique
  <1>4. r + 1 = n => s = 0
    <2> SUFFICES ASSUME r + 1 = n PROVE s = 0
      OBVIOUS
    <2>1. n * (d + 1) + 0 = n * e + s
      <3>1. n * (d + 1) = n * d + n /\ n * d \in Nat
        BY <1>n
      <3> QED BY <1>r, <3>1
    <2>2. d + 1 \in Nat /\ 0 \in 0..(n-1)
      OBVIOUS
    <2> QED BY <1>n, <1>r, <2>1, <2>2, ModUnique
  <1>5. r # s
    BY <1>r, <1>3, <1>4
  <1> QED BY <1>5 DEF r, s

\* Only PickTie goes from the complete ties to the end of Resolve.
LEMMA PickIsPickTie ==
    ASSUME IInv, Next, NEW r \in Requests, pc[r] = "pick", pc'[r] = "done"
    PROVE  PickTie(r)
  <1>1. pc \in [Requests -> PCs]
    BY DEF IInv, Types
  <1>2. ASSUME NEW q \in Requests, NEW s, NEW j, Goto(q, s, j) PROVE q = r /\ s = "done"
    BY <1>1, <1>2 DEF Goto
  <1>3. ASSUME NEW q \in Requests, Resolve(q) PROVE PickTie(r)
    <2>1. q = r
      BY <1>2, <1>3 DEF Resolve, Begin, EligibleStep, FindMin, CollectTies, PickTie, DivideByZero,
                        Pin, OverflowStep, ClientGone, Dispatch, Continue, Resolved
    <2>2. ~DivideByZero(r)
      BY <1>2 DEF DivideByZero
    <2> QED
      BY <1>3, <2>1, <2>2 DEF Resolve, Begin, EligibleStep, FindMin, CollectTies,
                              Pin, OverflowStep, ClientGone, Dispatch
  <1>4. ASSUME NEW m \in Members PROVE ~LoadMoves(m) /\ ~WindowEdge(m)
    BY DEF LoadMoves, WindowEdge
  <1> QED
    BY <1>3, <1>4 DEF Next

\* Two picks in a row among the same several ties choose different members,
\* whichever requests they serve: leastLoaded spreads equal load.
THEOREM PoolTiesSpread == Spec => TiesSpread
  <1>1. ASSUME IInv, Next, NEW r \in Requests, pc[r] = "pick", pc'[r] = "done",
               Len(job[r].ties) > 1, job[r].ties = last.ties
        PROVE  job'[r].chosen # last.chosen
    <2>1. PICK j \in Jobs : j = job[r]
      BY <1>1 DEF IInv, Types
    <2>2. PickTie(r)
      BY <1>1, PickIsPickTie
    <2>3. PICK n \in Members : n = Len(j.ties) /\ n > 1
      <3>1. Len(j.ties) <= N /\ Len(j.ties) > 1 /\ Len(j.ties) \in Nat
        BY <1>1, <2>1 DEF IInv, LoopsHold, AtStep, AtPick, Jobs
      <3> QED
        BY <3>1, PoolAssumption DEF Members
    <2>4. n \in Nat /\ n > 1 /\ n \in Nat \ {0}
      BY <2>3, PoolAssumption DEF Members
    <2>5. PICK q \in Nat : /\ rr = (q + 1) % RRPeriod
                           /\ last.chosen = j.ties[(q % n) + 1]
      <3>1. last.ties # <<>>
        BY <1>1
      <3> QED
        BY <1>1, <2>1, <2>3, <3>1 DEF IInv, LastPick
    <2>6. rr % n = (q + 1) % n
      <3>1. RRPeriod \in Nat \ {0} /\ RRPeriod % n = 0 /\ q + 1 \in Nat
        BY PeriodAssumption
      <3>2. ((q + 1) % RRPeriod) % n = (q + 1) % n
        BY <2>4, <3>1, ModMod, ZenonT(30)
      <3> QED
        BY <2>5, <3>2, Zenon
    <2>7. (q + 1) % n # q % n
      BY <2>4, ModNext, Zenon
    <2>8. PICK a \in 1..n, b \in 1..n :
             a = (rr % n) + 1 /\ b = (q % n) + 1 /\ a # b
      <3>1. rr % n \in 0..(n-1) /\ q % n \in 0..(n-1) /\ rr % n # q % n
        BY <1>1, <2>4, <2>6, <2>7 DEF IInv, Types
      <3> QED
        BY <2>4, <3>1
    <2>9. j.ties[a] # j.ties[b]
      <3>1. Increasing(j.ties) /\ j.ties \in Seq(Members)
        BY <1>1, <2>1 DEF IInv, LoopsHold, AtStep, AtPick, Jobs
      <3>2. a \in DOMAIN j.ties /\ b \in DOMAIN j.ties
        BY <2>3, <3>1
      <3>3. j.ties[a] \in Nat /\ j.ties[b] \in Nat
        <4>1. j.ties[a] \in Members /\ j.ties[b] \in Members
          BY <3>1, <3>2
        <4>2. Members \subseteq Nat
          BY PoolAssumption DEF Members
        <4> QED
          BY <4>1, <4>2
      <3> QED
        BY <2>4, <2>8, <3>1, <3>2, <3>3 DEF Increasing
    <2>10. job'[r].chosen = j.ties[a]
      <3>1. job' = [job EXCEPT ![r] = [job[r] EXCEPT !.chosen = j.ties[a]]]
        BY <2>1, <2>2, <2>3, <2>8 DEF PickTie, Resolved, Goto
      <3> QED
        BY <1>1, <3>1 DEF IInv, Types, Jobs
    <2> QED
      BY <2>5, <2>8, <2>9, <2>10
  <1>2. IInv /\ [Next]_vars
          => [\A r \in Requests :
                 /\ pc[r] = "pick" /\ pc'[r] = "done"
                 /\ Len(job[r].ties) > 1 /\ job[r].ties = last.ties
                 => job'[r].chosen # last.chosen]_vars
    BY <1>1
  <1> QED
    BY <1>2, PoolInvariant, PTL DEF Spec, TiesSpread

=============================================================================
