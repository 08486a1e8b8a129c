---------------------- MODULE ConcurrencyLimiterProofs ----------------------
(***************************************************************************)
(* Proofs about the concurrency limiter, for every number of connections   *)
(* and every capacity.  None of the invariants is inductive alone: a slot  *)
(* is handed to Head(sendq), so the slot count needs to know that the      *)
(* queue holds parked requests only; a request parks on a full semaphore,  *)
(* so the absence of idle slots needs the capacity bound.  IInv conjoins   *)
(* them.                                                                   *)
(***************************************************************************)
EXTENDS ConcurrencyLimiter, FiniteSetTheorems, SequenceTheorems, TLAPS

IInv ==
    /\ TypeOK
    /\ SlotAccounting
    /\ WaitersAccounting
    /\ QueueIsParked
    /\ NoIdleSlotWhileParked

-----------------------------------------------------------------------------
(* Counting                                                                *)

\* A set that gains one element gains one in cardinality.
LEMMA CountEnter ==
    ASSUME NEW A, NEW B, NEW x, IsFiniteSet(A), x \notin A, B = A \cup {x}
    PROVE  Cardinality(B) = Cardinality(A) + 1
  BY FS_AddElement

\* A set that loses one element loses one in cardinality, and had one.
LEMMA CountExit ==
    ASSUME NEW A, NEW B, NEW x, IsFiniteSet(A), x \in A, B = A \ {x}
    PROVE  /\ Cardinality(B) = Cardinality(A) - 1
           /\ Cardinality(A) \in Nat \ {0}
  <1>1. Cardinality(B) = Cardinality(A) - 1 /\ IsFiniteSet(B)
    BY FS_RemoveElement
  <1>2. Cardinality(B) \in Nat /\ Cardinality(A) \in Nat
    BY <1>1, FS_CardinalityType
  <1> QED
    BY <1>1, <1>2

\* The requests at a set of program counters form a finite set.
LEMMA AtFinite ==
    ASSUME NEW states
    PROVE  IsFiniteSet(At(states)) /\ Cardinality(At(states)) \in Nat
  <1>1. At(states) \subseteq Requests
    BY DEF At
  <1> QED
    BY <1>1, LimiterAssumption, FS_Subset, FS_CardinalityType DEF LimiterAssumption

\* Removing the i-th entry keeps the others, in order.
LEMMA RemoveAtEntries ==
    ASSUME NEW S, NEW s \in Seq(S), NEW i \in 1..Len(s)
    PROVE  /\ RemoveAt(s, i) \in Seq(S)
           /\ Len(RemoveAt(s, i)) = Len(s) - 1
           /\ \A k \in 1..(Len(s) - 1) :
                 RemoveAt(s, i)[k] = IF k < i THEN s[k] ELSE s[k + 1]
  <1> DEFINE a == SubSeq(s, 1, i - 1)
             b == SubSeq(s, i + 1, Len(s))
  <1>1. /\ a \in Seq(S) /\ Len(a) = i - 1
        /\ \A k \in 1..(i - 1) : a[k] = s[k]
    BY SubSeqProperties
  <1>2. /\ b \in Seq(S) /\ Len(b) = Len(s) - i
        /\ \A k \in 1..(Len(s) - i) : b[k] = s[i + k]
    BY SubSeqProperties
  <1> HIDE DEF a, b
  <1>3. /\ a \o b \in Seq(S)
        /\ Len(a \o b) = Len(a) + Len(b)
        /\ \A k \in 1..(Len(a) + Len(b)) :
              (a \o b)[k] = IF k <= Len(a) THEN a[k] ELSE b[k - Len(a)]
    BY <1>1, <1>2, ConcatProperties
  <1>4. RemoveAt(s, i) = a \o b
    BY DEF RemoveAt, a, b
  <1>5. RemoveAt(s, i) \in Seq(S) /\ Len(RemoveAt(s, i)) = Len(s) - 1
    <2>1. (i - 1) + (Len(s) - i) = Len(s) - 1
      OBVIOUS
    <2> QED
      BY <1>1, <1>2, <1>3, <1>4, <2>1
  <1>6. ASSUME NEW k \in 1..(Len(s) - 1)
        PROVE  RemoveAt(s, i)[k] = IF k < i THEN s[k] ELSE s[k + 1]
    <2>1. CASE k < i
      BY <1>1, <1>2, <1>3, <1>4, <2>1
    <2>2. CASE k >= i
      <3>1. (a \o b)[k] = b[k - Len(a)]
        BY <1>1, <1>2, <1>3, <2>2
      <3>2. b[k - Len(a)] = s[i + (k - Len(a))]
        BY <1>1, <1>2, <2>2
      <3>3. i + (k - Len(a)) = k + 1
        BY <1>1
      <3> QED
        BY <1>4, <2>2, <3>1, <3>2, <3>3
    <2> QED
      BY <2>1, <2>2
  <1> QED
    BY <1>5, <1>6

-----------------------------------------------------------------------------
(* The queue                                                               *)

\* Ending one parked wait takes exactly that request out of the queue.
LEMMA WakeKeepsQueue ==
    ASSUME TypeOK, QueueIsParked, NEW r \in Requests, WakeIfParked(r)
    PROVE  /\ pc' \in [Requests -> PCs]
           /\ sendq' \in Seq(Requests)
           /\ QueueIsParked'
           /\ sendq' # <<>> => sendq # <<>>
           /\ At(Holding)' = At(Holding)
           /\ At(Counted)' = At(Counted)
  <1>1. CASE pc[r] # "parked"
    <2>1. pc' = pc /\ sendq' = sendq
      BY <1>1 DEF WakeIfParked
    <2> QED
      BY <2>1 DEF TypeOK, QueueIsParked, At
  <1>2. CASE pc[r] = "parked"
    <2>1. PICK i \in 1..Len(sendq) : sendq[i] = r /\ sendq' = RemoveAt(sendq, i)
      BY <1>2 DEF WakeIfParked
    <2>2. pc' = [pc EXCEPT ![r] = "left"]
      BY <1>2 DEF WakeIfParked
    <2>3. sendq \in Seq(Requests) /\ Len(sendq) \in Nat
      BY DEF TypeOK
    <2>4. /\ sendq' \in Seq(Requests)
          /\ Len(sendq') = Len(sendq) - 1
          /\ \A k \in 1..(Len(sendq) - 1) :
                sendq'[k] = IF k < i THEN sendq[k] ELSE sendq[k + 1]
      BY <2>1, <2>3, RemoveAtEntries
    <2>5. pc' \in [Requests -> PCs]
      BY <2>2 DEF TypeOK, PCs
    <2>6. ASSUME NEW j \in 1..Len(sendq'), NEW k \in 1..Len(sendq'), sendq'[j] = sendq'[k]
          PROVE  j = k
      BY <2>3, <2>4, <2>6 DEF QueueIsParked
    <2>7. ASSUME NEW q \in Requests
          PROVE  pc'[q] = "parked" <=> \E k \in 1..Len(sendq') : sendq'[k] = q
      <3>1. CASE q = r
        <4>1. pc'[q] # "parked"
          BY <2>2, <3>1 DEF TypeOK
        <4>2. ASSUME NEW k \in 1..Len(sendq'), sendq'[k] = r PROVE FALSE
          BY <2>1, <2>3, <2>4, <4>2, SMTT(20) DEF QueueIsParked
        <4> QED
          BY <3>1, <4>1, <4>2
      <3>2. CASE q # r
        <4>1. pc'[q] = pc[q]
          BY <2>2, <3>2 DEF TypeOK
        <4>2. ASSUME NEW k \in 1..Len(sendq'), sendq'[k] = q
              PROVE  \E m \in 1..Len(sendq) : sendq[m] = q
          BY <2>3, <2>4, <4>2
        <4>3. ASSUME NEW m \in 1..Len(sendq), sendq[m] = q
              PROVE  \E k \in 1..Len(sendq') : sendq'[k] = q
          <5>1. m # i
            BY <2>1, <3>2, <4>3
          <5>2. CASE m < i
            BY <2>3, <2>4, <4>3, <5>2
          <5>3. CASE m > i
            <6>1. m - 1 \in 1..Len(sendq') /\ sendq'[m - 1] = sendq[m]
              BY <2>3, <2>4, <5>3
            <6> QED
              BY <4>3, <6>1
          <5> QED
            BY <2>3, <5>1, <5>2, <5>3
        <4> QED
          BY <4>1, <4>2, <4>3 DEF QueueIsParked
      <3> QED
        BY <3>1, <3>2
    <2>8. QueueIsParked'
      BY <2>6, <2>7 DEF QueueIsParked
    <2>9. At(Holding)' = At(Holding) /\ At(Counted)' = At(Counted)
      BY <1>2, <2>2 DEF TypeOK, At, Holding, Counted
    <2> QED
      BY <2>1, <2>3, <2>4, <2>5, <2>8, <2>9
  <1> QED
    BY <1>1, <1>2

-----------------------------------------------------------------------------
(* The inductive invariant                                                 *)

\* The limiter starts empty.
LEMMA InitIInv == Init => IInv
  <1> SUFFICES ASSUME Init PROVE IInv
    OBVIOUS
  <1>1. At(Holding) = {} /\ At(Counted) = {}
    BY DEF Init, At, Holding, Counted
  <1>2. TypeOK
    BY EmptySeq DEF Init, TypeOK, PCs
  <1>3. Len(<<>>) = 0
    BY EmptySeq
  <1>4. QueueIsParked /\ NoIdleSlotWhileParked
    BY <1>3 DEF Init, QueueIsParked, NoIdleSlotWhileParked
  <1>5. SlotAccounting /\ WaitersAccounting
    BY <1>1, FS_EmptySet, LimiterAssumption
    DEF Init, SlotAccounting, WaitersAccounting, LimiterAssumption
  <1> QED
    BY <1>2, <1>4, <1>5 DEF IInv

\* A step that moves one request between program counters other than parked
\* and leaves the queue alone keeps the queue invariant.
LEMMA MoveKeepsQueue ==
    ASSUME TypeOK, QueueIsParked, NEW r \in Requests, NEW to \in PCs,
           pc[r] # "parked", to # "parked",
           pc' = [pc EXCEPT ![r] = to], sendq' = sendq
    PROVE  QueueIsParked' /\ pc' \in [Requests -> PCs] /\ sendq' \in Seq(Requests)
  <1>1. pc' \in [Requests -> PCs] /\ sendq' \in Seq(Requests)
    BY DEF TypeOK
  <1>2. \A q \in Requests : pc'[q] = "parked" <=> pc[q] = "parked"
    BY DEF TypeOK
  <1> QED
    BY <1>1, <1>2 DEF QueueIsParked

\* Every action of the limiter preserves the inductive invariant.
LEMMA NextIInv == IInv /\ [Next]_vars => IInv'
  <1> SUFFICES ASSUME IInv, [Next]_vars PROVE IInv'
    OBVIOUS
  <1> USE DEF IInv, HasFreeSlot, Forget, NextParked
  <1>0. Cap \in Nat \ {0} /\ len \in Nat /\ waiters \in Nat /\ len <= Cap
    BY LimiterAssumption DEF LimiterAssumption, TypeOK, SlotAccounting
  <1>1. CASE UNCHANGED vars
    BY <1>1 DEF vars, TypeOK, SlotAccounting, WaitersAccounting, QueueIsParked,
                NoIdleSlotWhileParked, At
  <1>2. ASSUME NEW r \in Requests, EnterFree(r) PROVE IInv'
    <2>1. /\ At(Holding)' = At(Holding) \cup {r} /\ r \notin At(Holding)
          /\ At(Counted)' = At(Counted)
      BY <1>2 DEF EnterFree, TypeOK, At, Holding, Counted
    <2>2. SlotAccounting'
      BY <1>0, <1>2, <2>1, AtFinite, CountEnter DEF EnterFree, SlotAccounting
    <2>3. QueueIsParked' /\ pc' \in [Requests -> PCs] /\ sendq' \in Seq(Requests)
      BY <1>2, MoveKeepsQueue DEF EnterFree, PCs
    <2> QED
      BY <1>0, <1>2, <2>1, <2>2, <2>3
      DEF EnterFree, TypeOK, WaitersAccounting, NoIdleSlotWhileParked
  <1>3. ASSUME NEW r \in Requests, EnterFull(r) PROVE IInv'
    <2>1. At(Holding)' = At(Holding) /\ At(Counted)' = At(Counted)
      BY <1>3 DEF EnterFull, TypeOK, At, Holding, Counted
    <2>2. QueueIsParked' /\ pc' \in [Requests -> PCs] /\ sendq' \in Seq(Requests)
      BY <1>3, MoveKeepsQueue DEF EnterFull, PCs
    <2> QED
      BY <1>3, <2>1, <2>2
      DEF EnterFull, TypeOK, SlotAccounting, WaitersAccounting, NoIdleSlotWhileParked
  <1>4. ASSUME NEW r \in Requests, StartWaiting(r) PROVE IInv'
    <2>1. /\ At(Counted)' = At(Counted) \cup {r} /\ r \notin At(Counted)
          /\ At(Holding)' = At(Holding)
      BY <1>4 DEF StartWaiting, TypeOK, At, Holding, Counted
    <2>2. WaitersAccounting'
      BY <1>4, <2>1, AtFinite, CountEnter DEF StartWaiting, WaitersAccounting
    <2>3. QueueIsParked' /\ pc' \in [Requests -> PCs] /\ sendq' \in Seq(Requests)
      BY <1>4, MoveKeepsQueue DEF StartWaiting, PCs
    <2> QED
      BY <1>0, <1>4, <2>1, <2>2, <2>3
      DEF StartWaiting, TypeOK, SlotAccounting, NoIdleSlotWhileParked
  <1>5. ASSUME NEW r \in Requests, SelectSlot(r) PROVE IInv'
    <2>1. /\ At(Holding)' = At(Holding) \cup {r} /\ r \notin At(Holding)
          /\ At(Counted)' = At(Counted)
      BY <1>5 DEF SelectSlot, TypeOK, At, Holding, Counted
    <2>2. SlotAccounting'
      BY <1>0, <1>5, <2>1, AtFinite, CountEnter DEF SelectSlot, SlotAccounting
    <2>3. QueueIsParked' /\ pc' \in [Requests -> PCs] /\ sendq' \in Seq(Requests)
      BY <1>5, MoveKeepsQueue DEF SelectSlot, PCs
    <2> QED
      BY <1>0, <1>5, <2>1, <2>2, <2>3
      DEF SelectSlot, TypeOK, WaitersAccounting, NoIdleSlotWhileParked
  <1>6. ASSUME NEW r \in Requests, SelectLeave(r) PROVE IInv'
    <2>1. At(Holding)' = At(Holding) /\ At(Counted)' = At(Counted)
      BY <1>6 DEF SelectLeave, TypeOK, At, Holding, Counted
    <2>2. QueueIsParked' /\ pc' \in [Requests -> PCs] /\ sendq' \in Seq(Requests)
      BY <1>6, MoveKeepsQueue DEF SelectLeave, PCs
    <2> QED
      BY <1>6, <2>1, <2>2
      DEF SelectLeave, TypeOK, SlotAccounting, WaitersAccounting, NoIdleSlotWhileParked
  <1>7. ASSUME NEW r \in Requests, SelectPark(r) PROVE IInv'
    <2>1. At(Holding)' = At(Holding) /\ At(Counted)' = At(Counted)
      BY <1>7 DEF SelectPark, TypeOK, At, Holding, Counted
    <2>2. pc' \in [Requests -> PCs]
      BY <1>7 DEF SelectPark, TypeOK, PCs
    <2>3. /\ sendq' \in Seq(Requests) /\ Len(sendq') = Len(sendq) + 1
          /\ \A k \in 1..Len(sendq) : sendq'[k] = sendq[k]
          /\ sendq'[Len(sendq) + 1] = r
          /\ Len(sendq) \in Nat
      BY <1>7, AppendProperties DEF SelectPark, TypeOK
    <2>4. \A k \in 1..Len(sendq) : sendq[k] # r
      BY <1>7 DEF SelectPark, QueueIsParked
    <2>5. ASSUME NEW j \in 1..Len(sendq'), NEW k \in 1..Len(sendq'), sendq'[j] = sendq'[k]
          PROVE  j = k
      BY <2>3, <2>4, <2>5 DEF QueueIsParked
    <2>6. ASSUME NEW q \in Requests
          PROVE  pc'[q] = "parked" <=> \E k \in 1..Len(sendq') : sendq'[k] = q
      <3>1. CASE q = r
        BY <1>7, <2>3, <3>1, SMTT(20) DEF SelectPark, TypeOK
      <3>2. CASE q # r
        <4>1. pc'[q] = pc[q]
          BY <1>7, <3>2 DEF SelectPark, TypeOK
        <4>2. (\E k \in 1..Len(sendq') : sendq'[k] = q) <=> (\E k \in 1..Len(sendq) : sendq[k] = q)
          BY <2>3, <3>2
        <4> QED
          BY <4>1, <4>2 DEF QueueIsParked
      <3> QED
        BY <3>1, <3>2
    <2>7. QueueIsParked'
      BY <2>5, <2>6 DEF QueueIsParked
    <2> QED
      BY <1>0, <1>7, <2>1, <2>2, <2>3, <2>7
      DEF SelectPark, TypeOK, SlotAccounting, WaitersAccounting, NoIdleSlotWhileParked
  <1>8. ASSUME NEW r \in Requests, StartServing(r) PROVE IInv'
    <2>1. /\ At(Counted)' = At(Counted) \ {r} /\ r \in At(Counted)
          /\ At(Holding)' = At(Holding)
      BY <1>8 DEF StartServing, TypeOK, At, Holding, Counted
    <2>2. WaitersAccounting' /\ waiters' \in Nat
      BY <1>0, <1>8, <2>1, AtFinite, CountExit DEF StartServing, WaitersAccounting
    <2>3. QueueIsParked' /\ pc' \in [Requests -> PCs] /\ sendq' \in Seq(Requests)
      BY <1>8, MoveKeepsQueue DEF StartServing, PCs
    <2> QED
      BY <1>8, <2>1, <2>2, <2>3
      DEF StartServing, TypeOK, SlotAccounting, NoIdleSlotWhileParked
  <1>9. ASSUME NEW r \in Requests, Leave(r) PROVE IInv'
    <2>1. /\ At(Counted)' = At(Counted) \ {r} /\ r \in At(Counted)
          /\ At(Holding)' = At(Holding)
      BY <1>9 DEF Leave, TypeOK, At, Holding, Counted
    <2>2. WaitersAccounting' /\ waiters' \in Nat
      BY <1>0, <1>9, <2>1, AtFinite, CountExit DEF Leave, WaitersAccounting
    <2>3. QueueIsParked' /\ pc' \in [Requests -> PCs] /\ sendq' \in Seq(Requests)
      BY <1>9, MoveKeepsQueue DEF Leave, PCs
    <2> QED
      BY <1>9, <2>1, <2>2, <2>3
      DEF Leave, TypeOK, SlotAccounting, NoIdleSlotWhileParked
  <1>10. ASSUME NEW r \in Requests, Release(r) PROVE IInv'
    <2>1. CASE sendq = <<>>
      <3>1. pc' = [pc EXCEPT ![r] = "idle"] /\ len' = len - 1 /\ sendq' = sendq
        BY <1>10, <2>1 DEF Release
      <3>2. /\ At(Holding)' = At(Holding) \ {r} /\ r \in At(Holding)
            /\ At(Counted)' = At(Counted)
        BY <1>10, <3>1 DEF Release, TypeOK, At, Holding, Counted
      <3>3. SlotAccounting' /\ len' \in Nat
        BY <1>0, <3>1, <3>2, AtFinite, CountExit DEF SlotAccounting
      <3>4. QueueIsParked' /\ pc' \in [Requests -> PCs] /\ sendq' \in Seq(Requests)
        BY <1>10, <3>1, MoveKeepsQueue DEF Release, PCs
      <3> QED
        BY <1>10, <2>1, <3>1, <3>2, <3>3, <3>4
        DEF Release, TypeOK, WaitersAccounting, NoIdleSlotWhileParked
    <2>2. CASE sendq # <<>>
      <3> DEFINE h == Head(sendq)
      <3>1. /\ pc' = [pc EXCEPT ![r] = "idle", ![h] = "acquired"]
            /\ sendq' = Tail(sendq) /\ len' = len
        BY <1>10, <2>2 DEF Release
      <3>2. /\ h \in Requests /\ sendq' \in Seq(Requests)
            /\ Len(sendq) \in Nat \ {0} /\ Len(sendq') = Len(sendq) - 1
            /\ \A k \in 1..Len(sendq') : sendq'[k] = sendq[k + 1]
            /\ h = sendq[1]
        BY <2>2, <3>1, HeadTailProperties, EmptySeq DEF TypeOK
      <3> HIDE DEF h
      <3>3. pc[h] = "parked" /\ h # r
        BY <1>10, <3>2 DEF QueueIsParked, Release
      <3>4. pc' \in [Requests -> PCs]
        BY <3>1, <3>2 DEF TypeOK, PCs
      <3>5. pc'[r] = "idle" /\ pc'[h] = "acquired" /\ \A q \in Requests \ {r, h} : pc'[q] = pc[q]
        BY <3>1, <3>2, <3>3 DEF TypeOK
      <3>6. ASSUME NEW j \in 1..Len(sendq'), NEW k \in 1..Len(sendq'), sendq'[j] = sendq'[k]
            PROVE  j = k
        BY <3>2, <3>6 DEF QueueIsParked
      <3>7. \A k \in 1..Len(sendq') : sendq'[k] # h
        BY <3>2 DEF QueueIsParked
      <3>8. ASSUME NEW q \in Requests
            PROVE  pc'[q] = "parked" <=> \E k \in 1..Len(sendq') : sendq'[k] = q
        <4>1. CASE q = h
          BY <3>5, <3>7, <4>1
        <4>2. CASE q # h
          <5>1. pc'[q] = "parked" <=> pc[q] = "parked"
            BY <1>10, <3>5, <4>2 DEF Release
          <5>2. ASSUME NEW m \in 1..Len(sendq), sendq[m] = q
                PROVE  \E k \in 1..Len(sendq') : sendq'[k] = q
            <6>1. m - 1 \in 1..Len(sendq') /\ sendq'[m - 1] = sendq[m]
              BY <3>2, <4>2, <5>2
            <6> QED
              BY <5>2, <6>1
          <5>3. ASSUME NEW k \in 1..Len(sendq'), sendq'[k] = q
                PROVE  \E m \in 1..Len(sendq) : sendq[m] = q
            BY <3>2, <5>3
          <5> QED
            BY <5>1, <5>2, <5>3 DEF QueueIsParked
        <4> QED
          BY <4>1, <4>2
      <3>9. QueueIsParked'
        BY <3>6, <3>8 DEF QueueIsParked
      <3>10. /\ At(Holding)' = (At(Holding) \ {r}) \cup {h}
             /\ r \in At(Holding) /\ h \notin At(Holding) \ {r}
             /\ At(Counted)' = At(Counted)
        BY <1>10, <3>2, <3>3, <3>4, <3>5 DEF Release, At, Holding, Counted
      <3>11. Cardinality(At(Holding)') = Cardinality(At(Holding))
        <4> DEFINE A == At(Holding)
                   B == At(Holding) \ {r}
        <4>1. IsFiniteSet(A) /\ Cardinality(A) \in Nat
          BY AtFinite
        <4>2. IsFiniteSet(B) /\ Cardinality(B) = Cardinality(A) - 1
          BY <3>10, <4>1, FS_RemoveElement
        <4>3. Cardinality(B \cup {h}) = Cardinality(B) + 1
          BY <3>10, <4>2, CountEnter
        <4> QED
          BY <3>10, <4>1, <4>2, <4>3
      <3> QED
        BY <1>0, <1>10, <2>2, <3>1, <3>2, <3>4, <3>9, <3>10, <3>11
        DEF Release, TypeOK, SlotAccounting, WaitersAccounting, NoIdleSlotWhileParked
    <2> QED
      BY <2>1, <2>2
  <1>11. ASSUME NEW r \in Requests, WaitElapsed(r) PROVE IInv'
    BY <1>11, WakeKeepsQueue
    DEF WaitElapsed, TypeOK, SlotAccounting, WaitersAccounting, NoIdleSlotWhileParked
  <1>12. ASSUME NEW r \in Requests, PollStale(r) PROVE IInv'
    BY <1>12, WakeKeepsQueue
    DEF PollStale, TypeOK, SlotAccounting, WaitersAccounting, NoIdleSlotWhileParked
  <1>13. ASSUME NEW r \in Requests, Disconnect(r) PROVE IInv'
    BY <1>13, WakeKeepsQueue
    DEF Disconnect, TypeOK, SlotAccounting, WaitersAccounting, NoIdleSlotWhileParked
  <1> QED
    BY <1>1, <1>2, <1>3, <1>4, <1>5, <1>6, <1>7, <1>8, <1>9, <1>10, <1>11, <1>12, <1>13
    DEF Next, Run

-----------------------------------------------------------------------------
(* The theorems                                                            *)

\* The inductive invariant holds in every reachable state.
THEOREM Invariance == Spec => []IInv
  BY InitIInv, NextIInv, PTL DEF Spec

\* ServeHTTP keeps its types.
THEOREM TypeCorrect == Spec => []TypeOK
  <1>1. IInv => TypeOK
    BY DEF IInv
  <1> QED
    BY <1>1, Invariance, PTL

\* The number of slots taken is the number of requests that hold one and never
\* exceeds maxConcurrentRequests.
THEOREM SlotsAccounted == Spec => []SlotAccounting
  <1>1. IInv => SlotAccounting
    BY DEF IInv
  <1> QED
    BY <1>1, Invariance, PTL

\* Queued() is the number of requests in the queued path.
THEOREM WaitersAccounted == Spec => []WaitersAccounting
  <1>1. IInv => WaitersAccounting
    BY DEF IInv
  <1> QED
    BY <1>1, Invariance, PTL

\* A request waits only while every slot is held.
THEOREM SlotsNeverIdle == Spec => []NoIdleSlotWhileParked
  <1>1. IInv => NoIdleSlotWhileParked
    BY DEF IInv
  <1> QED
    BY <1>1, Invariance, PTL

\* No request overtakes the queue: while one is parked, only the request that
\* parked first can take a slot.
THEOREM FirstParkedFirstServed == Spec => NoBarging
  <1>1. ASSUME IInv, [Next]_vars, sendq # <<>>, NEW r \in Requests,
               pc[r] \notin Holding, pc'[r] \in Holding
        PROVE  r = Head(sendq)
    <2>1. Cap \in Nat /\ len = Cap
      BY <1>1, LimiterAssumption DEF IInv, NoIdleSlotWhileParked, LimiterAssumption
    <2>2. pc \in [Requests -> PCs]
      BY <1>1 DEF IInv, TypeOK
    <2>3. pc' # pc
      BY <1>1
    <2>4. PICK q \in Requests :
            \/ EnterFree(q) \/ EnterFull(q) \/ Run(q) \/ Release(q)
            \/ WaitElapsed(q) \/ PollStale(q) \/ Disconnect(q)
      BY <1>1, <2>3 DEF Next, vars
    <2>5. ~EnterFree(q) /\ ~SelectSlot(q)
      BY <2>1 DEF EnterFree, SelectSlot, HasFreeSlot
    <2>6. CASE EnterFull(q) \/ StartWaiting(q) \/ SelectLeave(q) \/ SelectPark(q) \/ Leave(q)
      BY <1>1, <2>2, <2>6 DEF EnterFull, StartWaiting, SelectLeave, SelectPark, Leave, Holding
    <2>7. CASE StartServing(q)
      BY <1>1, <2>2, <2>7 DEF StartServing, Holding
    <2>8. CASE Release(q)
      <3>1. pc' = [pc EXCEPT ![q] = "idle", ![Head(sendq)] = "acquired"]
        BY <1>1, <2>8 DEF Release, NextParked
      <3> QED
        BY <1>1, <2>2, <3>1 DEF Holding
    <2>9. CASE WaitElapsed(q) \/ PollStale(q) \/ Disconnect(q)
      <3>1. WakeIfParked(q)
        BY <2>9 DEF WaitElapsed, PollStale, Disconnect
      <3> QED
        BY <1>1, <2>2, <3>1 DEF WakeIfParked, Holding
    <2> QED
      BY <2>4, <2>5, <2>6, <2>7, <2>8, <2>9 DEF Run
  <1>2. IInv /\ [Next]_vars =>
          [\A r \in Requests :
             sendq # <<>> /\ pc[r] \notin Holding /\ pc'[r] \in Holding
                 => r = Head(sendq)]_vars
    BY <1>1
  <1> QED
    BY <1>2, Invariance, PTL DEF Spec, NoBarging

-----------------------------------------------------------------------------
(* The limiter implements the semaphore                                    *)

\* What the semaphore sees of the limiter.
Sem == [holders |-> At(Holding), queue |-> sendq]

\* A step that keeps the holders and the queue is invisible to the semaphore.
LEMMA Invisible ==
    ASSUME TypeOK, NEW r \in Requests, NEW to \in PCs,
           pc' = [pc EXCEPT ![r] = to], sendq' = sendq,
           pc[r] \in Holding <=> to \in Holding
    PROVE  UNCHANGED Sem
  <1>1. At(Holding)' = At(Holding)
    BY DEF At, TypeOK, Holding
  <1> QED
    BY <1>1 DEF Sem

\* The requests in the send queue are the parked ones.
LEMMA QueuedIsParked ==
    ASSUME TypeOK, QueueIsParked, NEW r \in Requests
    PROVE  r \in Abstract!Queued(Sem) <=> pc[r] = "parked"
  <1>1. DOMAIN sendq = 1..Len(sendq)
    BY DEF TypeOK
  <1> QED
    BY <1>1 DEF QueueIsParked, Sem, Abstract!Queued, Abstract!ToSet

\* Semaphore's own instance of FiniteSets counts as this one does.
LEMMA SameCardinality == \A S : Abstract!Cardinality(S) = Cardinality(S)
  BY Zenon DEF Abstract!Cardinality, Cardinality

\* The semaphore sees a free slot exactly when the channel has one.
LEMMA FreeIsFree ==
    ASSUME SlotAccounting
    PROVE  Abstract!Free(Sem, Cap) <=> HasFreeSlot
  BY LimiterAssumption, SameCardinality
  DEF LimiterAssumption, SlotAccounting, Abstract!Free, Sem, HasFreeSlot

\* A semaphore whose queue alone is replaced.
LEMMA WithQueue ==
    ASSUME NEW H, NEW q, NEW x
    PROVE  /\ [[holders |-> H, queue |-> q] EXCEPT !.queue = x] = [holders |-> H, queue |-> x]
           /\ [holders |-> H, queue |-> q].queue = q
  OBVIOUS

\* Every step of ServeHTTP is one step of the semaphore, or none.
LEMMA StepRefines ==
    ASSUME IInv, NEW r \in Requests,
           \/ EnterFree(r) \/ EnterFull(r) \/ Run(r) \/ Release(r)
           \/ WaitElapsed(r) \/ PollStale(r) \/ Disconnect(r)
    PROVE  Abstract!Next \/ UNCHANGED Sem
  <1> USE DEF IInv
  <1>0. pc \in [Requests -> PCs] /\ sendq \in Seq(Requests)
    BY DEF TypeOK
  <1>1. CASE EnterFree(r) \/ SelectSlot(r)
    <2>1. /\ pc[r] \in {"idle", "select"} /\ HasFreeSlot /\ sendq' = sendq
          /\ \E to \in Holding : pc' = [pc EXCEPT ![r] = to]
      BY <1>1 DEF EnterFree, SelectSlot, Holding
    <2>2. r \notin At(Holding) /\ At(Holding)' = At(Holding) \cup {r}
      BY <1>0, <2>1 DEF At, Holding
    <2>3. r \notin Sem.holders /\ r \notin Abstract!Queued(Sem) /\ Abstract!Free(Sem, Cap)
      BY <2>1, <2>2, QueuedIsParked, FreeIsFree DEF Sem
    <2>4. Sem' = Abstract!Take(Sem, r)
      BY <2>1, <2>2 DEF Sem, Abstract!Take
    <2>5. Abstract!Acquire(r)
      BY <2>3, <2>4 DEF Abstract!Acquire, Abstract!Outside, Sem
    <2> QED
      BY <2>5 DEF Abstract!Next
  <1>2. CASE EnterFull(r) \/ StartWaiting(r) \/ SelectLeave(r) \/ StartServing(r) \/ Leave(r)
    <2>1. \E to \in PCs : /\ pc' = [pc EXCEPT ![r] = to] /\ sendq' = sendq
                          /\ pc[r] \in Holding <=> to \in Holding
      BY <1>2 DEF EnterFull, StartWaiting, SelectLeave, StartServing, Leave, PCs, Holding
    <2> QED
      BY <2>1, Invisible
  <1>3. CASE SelectPark(r)
    <2>1. /\ pc[r] = "select" /\ ~HasFreeSlot
          /\ sendq' = Append(sendq, r) /\ pc' = [pc EXCEPT ![r] = "parked"]
      BY <1>3 DEF SelectPark
    <2>2. r \notin At(Holding) /\ At(Holding)' = At(Holding)
      BY <1>0, <2>1 DEF At, Holding
    <2>3. r \notin Sem.holders /\ r \notin Abstract!Queued(Sem) /\ ~Abstract!Free(Sem, Cap)
      BY <2>1, <2>2, QueuedIsParked, FreeIsFree DEF Sem
    <2>4. Sem' = Abstract!Enqueue(Sem, r)
      BY <2>1, <2>2, WithQueue, ZenonT(30) DEF Sem, Abstract!Enqueue
    <2>5. Abstract!Wait(r)
      BY <2>3, <2>4 DEF Abstract!Wait, Abstract!Outside, Sem
    <2> QED
      BY <2>5 DEF Abstract!Next
  <1>4. CASE Release(r)
    <2>1. pc[r] = "serving" /\ r \in At(Holding)
      BY <1>4 DEF Release, At, Holding
    <2>2. ASSUME sendq = <<>> PROVE Sem' = Abstract!Give(Sem, r)
      <3>1. sendq' = sendq /\ pc' = [pc EXCEPT ![r] = "idle"]
        BY <1>4, <2>2 DEF Release
      <3>2. At(Holding)' = At(Holding) \ {r}
        BY <1>0, <3>1 DEF At, Holding
      <3> QED
        BY <2>2, <3>1, <3>2 DEF Sem, Abstract!Give
    <2>3. ASSUME sendq # <<>> PROVE Sem' = Abstract!Give(Sem, r)
      <3> DEFINE h == Head(sendq)
      <3>1. sendq' = Tail(sendq) /\ pc' = [pc EXCEPT ![r] = "idle", ![h] = "acquired"]
        BY <1>4, <2>3 DEF Release, NextParked
      <3>2. h \in Requests /\ 1 \in 1..Len(sendq) /\ h = sendq[1]
        BY <1>0, <2>3, HeadTailProperties, EmptySeq
      <3>3. pc[h] = "parked"
        BY <3>2 DEF QueueIsParked
      <3>4. At(Holding)' = (At(Holding) \ {r}) \cup {h}
        <4> HIDE DEF h
        <4> QED
          BY <1>0, <2>1, <3>1, <3>2, <3>3 DEF At, Holding
      <3> QED
        BY <2>3, <3>1, <3>4 DEF Sem, Abstract!Give
    <2>4. Sem' = Abstract!Give(Sem, r)
      BY <2>2, <2>3
    <2>5. Abstract!Release(r)
      BY <2>1, <2>4 DEF Abstract!Release, Sem
    <2> QED
      BY <2>5 DEF Abstract!Next
  <1>5. CASE WaitElapsed(r) \/ PollStale(r) \/ Disconnect(r)
    <2>1. WakeIfParked(r)
      BY <1>5 DEF WaitElapsed, PollStale, Disconnect
    <2>2. At(Holding)' = At(Holding)
      BY <2>1, WakeKeepsQueue
    <2>3. CASE pc[r] # "parked"
      BY <2>1, <2>2, <2>3 DEF WakeIfParked, Sem
    <2>4. CASE pc[r] = "parked"
      <3>1. PICK i \in 1..Len(sendq) : sendq[i] = r /\ sendq' = RemoveAt(sendq, i)
        BY <2>1, <2>4 DEF WakeIfParked
      <3>2. Sem' = Abstract!Drop(Sem, i)
        <4>1. Abstract!RemoveAt(sendq, i) = RemoveAt(sendq, i)
          BY Zenon DEF Abstract!RemoveAt, RemoveAt
        <4>2. Abstract!Drop(Sem, i) = [holders |-> At(Holding), queue |-> Abstract!RemoveAt(sendq, i)]
          BY WithQueue, Zenon DEF Sem, Abstract!Drop
        <4>3. Sem' = [holders |-> At(Holding), queue |-> RemoveAt(sendq, i)]
          BY <2>2, <3>1, Zenon DEF Sem
        <4> QED
          BY <4>1, <4>2, <4>3, Zenon
      <3>3. Abstract!Leave(r)
        BY <3>1, <3>2 DEF Abstract!Leave, Sem
      <3> QED
        BY <3>3 DEF Abstract!Next
    <2> QED
      BY <2>3, <2>4
  <1> QED
    BY <1>1, <1>2, <1>3, <1>4, <1>5 DEF Run

\* The limiter implements Semaphore, the promise that the upstream pool is
\* modelled with: whatever select arm, timer or disconnect ends a wait, seen
\* from outside a slot is taken, waited for, given up or passed on in order.
THEOREM LimiterIsSemaphore == Spec => ImplementsSemaphore
  <1>1. Init => Abstract!Init
    <2>1. Init => At(Holding) = {} /\ sendq = <<>>
      BY DEF Init, At, Holding
    <2> QED
      BY <2>1 DEF Abstract!Init, Abstract!Idle
  <1>2. IInv /\ [Next]_vars => [Abstract!Next]_[holders |-> At(Holding), queue |-> sendq]
    <2>1. CASE UNCHANGED vars
      <3>1. UNCHANGED <<pc, sendq>>
        BY <2>1 DEF vars
      <3> QED
        BY <3>1 DEF At
    <2>2. ASSUME IInv, Next PROVE Abstract!Next \/ UNCHANGED Sem
      BY <2>2, StepRefines DEF Next
    <2> QED
      BY <2>1, <2>2 DEF Sem
  <1> QED
    BY <1>1, <1>2, Invariance, PTL DEF Spec, ImplementsSemaphore, Abstract!Spec

=============================================================================
