------------------------- MODULE ThrottleGateProofs -------------------------
(***************************************************************************)
(* Proofs about the 429 delay gate, for every set of requests and every    *)
(* threshold, window, floor, maximum delay and number of pacing slots.     *)
(*                                                                         *)
(* The goroutines and the detector share nothing but the clock value read  *)
(* for observe, so the invariant falls in two halves.  SlotInv counts the  *)
(* pacing slots; it needs PacedHoldSlot, as the deferred receive runs      *)
(* whatever slot[r] says.  DetectorInv bounds the delay and needs          *)
(* CleanSince: what the window has forgotten about the latest 429 is       *)
(* remembered by the instant of the last halving, even when the pruning    *)
(* request read the clock long before it got the lock.                     *)
(***************************************************************************)
EXTENDS ThrottleGate, FiniteSetTheorems, TLAPS

\* Requests for which a slot will be given back hold one.
PacedHoldSlot == \A r \in Requests : pc[r] \in {"pacing", "release"} => slot[r]

\* While throttled, the latest 429 of the episode is not newer than the last
\* halving, or a 429 at least as new is still in the window.
CleanSince == on => last429 <= lastHalf \/ \E u \in DOMAIN window : u >= last429

DetectorTypes ==
    /\ IsABag(window) /\ DOMAIN window \subseteq Nat
    /\ delay \in Nat
    /\ on \in BOOLEAN
    /\ lastHalf \in Nat
    /\ last429 \in Nat

LocalTypes ==
    /\ now \in Nat
    /\ paced \in Nat
    /\ pc \in [Requests -> PCs]
    /\ at \in [Requests -> Nat]
    /\ slot \in [Requests -> BOOLEAN]
    /\ got429 \in [Requests -> BOOLEAN]

SlotInv == LocalTypes /\ SlotsAccounted /\ PacedHoldSlot

DetectorInv == DetectorTypes /\ DelayBounds /\ CleanSince

IInv == SlotInv /\ DetectorInv

\* The two halves of the types are all of them.
LEMMA TypesSplit == TypeOK <=> LocalTypes /\ DetectorTypes
  BY DEF TypeOK, LocalTypes, DetectorTypes

-----------------------------------------------------------------------------
(* The steps, seen from the two halves                                     *)

Observe(r) == Count429(r) \/ EnterThrottle(r) \/ Increase(r) \/ NoDecrease(r) \/ Halve(r)

Outside(r) ==
    Enter(r) \/ AcquireSlot(r) \/ LeaveQueue(r) \/ PacingTurn(r) \/ PacingGone(r)
    \/ Respond(r) \/ Panic(r) \/ ReleaseSlot(r)

\* observe runs once per forward and touches no slot.
LEMMA ObserveLocals ==
    ASSUME NEW r \in Requests, Observe(r)
    PROVE  Observed(r)
  BY DEF Observe, Count429, EnterThrottle, Increase, NoDecrease, Halve

\* Everything outside observe leaves the detector alone.
LEMMA OutsideDetector ==
    ASSUME NEW r \in Requests, Outside(r)
    PROVE  UNCHANGED <<window, delay, on, lastHalf, last429>>
  BY DEF Outside, Enter, AcquireSlot, LeaveQueue, PacingTurn, PacingGone, Respond, Panic,
         ReleaseSlot, detector

\* A step is a tick, a stutter, or a step of one request inside or outside observe.
LEMMA Steps ==
    ASSUME [Next]_vars
    PROVE  \/ UNCHANGED vars \/ Tick
           \/ \E r \in Requests : Outside(r) \/ Observe(r)
  BY DEF Next, ServeHTTP, Outside, Observe

-----------------------------------------------------------------------------
(* The pacing slots                                                        *)

Holders == {r \in Requests : slot[r]}

\* The holders of slots are finitely many.
LEMMA HoldersFinite == IsFiniteSet(Holders) /\ Cardinality(Holders) \in Nat
  <1>1. Holders \subseteq Requests
    BY DEF Holders
  <1> QED
    BY <1>1, ThrottleAssumption, FS_Subset, FS_CardinalityType DEF ThrottleAssumption

\* A step that takes no slot and gives none back keeps the account, when the
\* request that moves goes to a place its slot allows.
LEMMA SlotsKept ==
    ASSUME SlotInv, LocalTypes', UNCHANGED <<paced, slot>>, NEW r \in Requests,
           \A q \in Requests \ {r} : pc'[q] = pc[q],
           slot[r] => pc'[r] \in {"pacing", "forward", "observe", "release"},
           pc'[r] \in {"pacing", "release"} => slot[r]
    PROVE  SlotInv'
  <1>1. SlotsAccounted'
    <2>1. {q \in Requests : slot'[q]} = {q \in Requests : slot[q]}
      OBVIOUS
    <2> QED
      BY <2>1 DEF SlotInv, SlotsAccounted
  <1>2. PacedHoldSlot'
    BY DEF SlotInv, PacedHoldSlot
  <1> QED
    BY <1>1, <1>2 DEF SlotInv

\* Taking a slot.
LEMMA AcquireKeepsSlotInv ==
    ASSUME SlotInv, NEW r \in Requests, AcquireSlot(r)
    PROVE  SlotInv'
  <1> USE DEF SlotInv
  <1>1. /\ pc[r] = "queue" /\ paced < MaxPaced /\ paced' = paced + 1
        /\ slot' = [slot EXCEPT ![r] = TRUE]
        /\ pc' = [pc EXCEPT ![r] = "pacing"]
        /\ UNCHANGED <<now, at, got429>>
    BY DEF AcquireSlot
  <1>2. slot' \in [Requests -> BOOLEAN]
    BY <1>1, Zenon DEF LocalTypes
  <1>3. LocalTypes'
    BY <1>1, <1>2 DEF LocalTypes, PCs
  <1>4. Holders' = Holders \cup {r}
    BY <1>1 DEF Holders, LocalTypes
  <1>5. r \notin Holders
    BY <1>1 DEF Holders, SlotsAccounted
  <1>6. Cardinality(Holders') = Cardinality(Holders) + 1
    BY <1>4, <1>5, HoldersFinite, FS_AddElement
  <1>7. SlotsAccounted'
    <2>1. paced' = Cardinality(Holders') /\ paced' <= MaxPaced
      BY <1>1, <1>6, ThrottleAssumption DEF SlotsAccounted, Holders, ThrottleAssumption, LocalTypes
    <2>2. \A q \in Requests : slot'[q] => pc'[q] \in {"pacing", "forward", "observe", "release"}
      BY <1>1 DEF SlotsAccounted, LocalTypes
    <2> QED
      BY <2>1, <2>2 DEF SlotsAccounted, Holders
  <1>8. PacedHoldSlot'
    BY <1>1 DEF PacedHoldSlot, LocalTypes
  <1> QED
    BY <1>3, <1>7, <1>8

\* The deferred receive: the request that runs it holds a slot, so the count
\* does not go below zero.
LEMMA ReleaseKeepsSlotInv ==
    ASSUME SlotInv, NEW r \in Requests, ReleaseSlot(r)
    PROVE  SlotInv'
  <1> USE DEF SlotInv
  <1>1. /\ pc[r] = "release" /\ paced' = paced - 1
        /\ slot' = [slot EXCEPT ![r] = FALSE]
        /\ pc' = [pc EXCEPT ![r] = "idle"]
        /\ UNCHANGED <<now, at, got429>>
    BY DEF ReleaseSlot
  <1>2. slot' \in [Requests -> BOOLEAN]
    BY <1>1, Zenon DEF LocalTypes
  <1>3. Holders' = Holders \ {r}
    BY <1>1 DEF Holders, LocalTypes
  <1>4. r \in Holders
    BY <1>1 DEF Holders, PacedHoldSlot
  <1>5. Cardinality(Holders') = Cardinality(Holders) - 1 /\ Cardinality(Holders') \in Nat
    BY <1>3, <1>4, HoldersFinite, FS_RemoveElement, FS_CardinalityType
  <1>6. paced' = Cardinality(Holders')
    BY <1>1, <1>5 DEF SlotsAccounted, Holders
  <1>7. LocalTypes'
    BY <1>1, <1>2, <1>5, <1>6 DEF LocalTypes, PCs
  <1>8. SlotsAccounted'
    <2>1. paced' <= MaxPaced
      BY <1>1, ThrottleAssumption DEF SlotsAccounted, ThrottleAssumption, LocalTypes
    <2>2. \A q \in Requests : slot'[q] => pc'[q] \in {"pacing", "forward", "observe", "release"}
      BY <1>1 DEF SlotsAccounted, LocalTypes
    <2> QED
      BY <1>6, <2>1, <2>2 DEF SlotsAccounted, Holders
  <1>9. PacedHoldSlot'
    BY <1>1 DEF PacedHoldSlot, LocalTypes
  <1> QED
    BY <1>7, <1>8, <1>9

\* Every step keeps the account of the slots.
LEMMA NextSlotInv ==
    ASSUME SlotInv, [Next]_vars
    PROVE  SlotInv'
  <1>1. CASE UNCHANGED vars
    <2>1. LocalTypes'
      BY <1>1 DEF SlotInv, LocalTypes, vars, locals
    <2> QED
      BY <1>1, <2>1 DEF SlotInv, SlotsAccounted, PacedHoldSlot, vars, locals
  <1>2. CASE Tick
    <2>1. LocalTypes'
      BY <1>2 DEF SlotInv, LocalTypes, Tick, locals
    <2> QED
      BY <1>2, <2>1 DEF SlotInv, SlotsAccounted, PacedHoldSlot, Tick, locals
  <1>3. ASSUME NEW r \in Requests, AcquireSlot(r) \/ ReleaseSlot(r) PROVE SlotInv'
    BY <1>3, AcquireKeepsSlotInv, ReleaseKeepsSlotInv
  <1>4. ASSUME NEW r \in Requests, Enter(r) \/ LeaveQueue(r) \/ PacingTurn(r) \/ PacingGone(r)
        PROVE  SlotInv'
    <2>1. /\ UNCHANGED <<now, paced, at, slot, got429>>
          /\ \E to \in {"queue", "forward", "idle", "release"} : 
                /\ pc' = [pc EXCEPT ![r] = to]
                /\ pc[r] \in {"idle", "queue"} => to \in {"queue", "forward", "idle"}
                /\ pc[r] = "pacing" => to \in {"forward", "release"}
          /\ pc[r] \in {"idle", "queue", "pacing"}
      BY <1>4 DEF Enter, LeaveQueue, PacingTurn, PacingGone
    <2>2. LocalTypes'
      BY <2>1 DEF SlotInv, LocalTypes, PCs
    <2> QED
      BY <2>1, <2>2, SlotsKept DEF SlotInv, LocalTypes, SlotsAccounted, PacedHoldSlot
  <1>5. ASSUME NEW r \in Requests, Respond(r) PROVE SlotInv'
    <2>1. /\ UNCHANGED <<now, paced, slot>>
          /\ pc[r] = "forward" /\ pc' = [pc EXCEPT ![r] = "observe"]
          /\ at' = [at EXCEPT ![r] = now]
          /\ \E b \in BOOLEAN : got429' = [got429 EXCEPT ![r] = b]
      BY <1>5 DEF Respond
    <2>2. got429' \in [Requests -> BOOLEAN]
      BY <2>1, Zenon DEF SlotInv, LocalTypes
    <2>3. LocalTypes'
      BY <2>1, <2>2 DEF SlotInv, LocalTypes, PCs
    <2> QED
      BY <2>1, <2>3, SlotsKept DEF SlotInv, LocalTypes
  <1>6. ASSUME NEW r \in Requests, Panic(r) PROVE SlotInv'
    <2>1. /\ UNCHANGED <<now, paced, at, slot, got429>>
          /\ pc' = [pc EXCEPT ![r] = AfterForward(r)]
      BY <1>6 DEF Panic
    <2>2. AfterForward(r) \in PCs
      BY DEF AfterForward, PCs
    <2>3. LocalTypes'
      BY <2>1, <2>2 DEF SlotInv, LocalTypes
    <2> QED
      BY <2>1, <2>3, SlotsKept DEF SlotInv, LocalTypes, AfterForward
  <1>7. ASSUME NEW r \in Requests, Observe(r) PROVE SlotInv'
    <2>1. /\ UNCHANGED <<now, paced, slot>>
          /\ pc' = [pc EXCEPT ![r] = AfterForward(r)]
          /\ at' = [at EXCEPT ![r] = 0]
          /\ got429' = [got429 EXCEPT ![r] = FALSE]
      BY <1>7, ObserveLocals DEF Observed
    <2>2. AfterForward(r) \in PCs
      BY DEF AfterForward, PCs
    <2>3. got429' \in [Requests -> BOOLEAN]
      BY <2>1, Zenon DEF SlotInv, LocalTypes
    <2>4. LocalTypes'
      BY <2>1, <2>2, <2>3 DEF SlotInv, LocalTypes
    <2> QED
      BY <2>1, <2>4, SlotsKept DEF SlotInv, LocalTypes, AfterForward
  <1> QED
    BY <1>1, <1>2, <1>3, <1>4, <1>5, <1>6, <1>7, Steps DEF Outside

-----------------------------------------------------------------------------
(* The detector                                                            *)

\* pruneWindow keeps the types, and exactly the instants inside the window.
LEMMA KeptProperties ==
    ASSUME DetectorTypes, NEW t \in Nat
    PROVE  /\ IsABag(Kept(t)) /\ DOMAIN Kept(t) \subseteq Nat
           /\ DOMAIN Kept(t) = {u \in DOMAIN window : t - u < Window}
  BY DEF DetectorTypes, Kept, Restrict, IsABag

\* A recorded 429 is in the window, with what the prune has left.
LEMMA GrownProperties ==
    ASSUME DetectorTypes, NEW t \in Nat
    PROVE  /\ IsABag(Grown(t)) /\ DOMAIN Grown(t) \subseteq Nat
           /\ DOMAIN Grown(t) = DOMAIN Kept(t) \cup {t}
  <1> DEFINE K == Kept(t)
  <1>1. IsABag(K) /\ DOMAIN K \subseteq Nat
    BY KeptProperties
  <1> HIDE DEF K
  <1>2. Grown(t) = [e \in DOMAIN K \cup {t} |->
                       (IF e \in DOMAIN K THEN K[e] ELSE 0) + (IF e \in {t} THEN 1 ELSE 0)]
    BY DEF Grown, SetToBag, (+), K
  <1>3. DOMAIN Grown(t) = DOMAIN K \cup {t}
    BY <1>2
  <1>4. \A e \in DOMAIN K \cup {t} : Grown(t)[e] \in {n \in Nat : n > 0}
    BY <1>1, <1>2 DEF IsABag
  <1>5. IsABag(Grown(t))
    BY <1>2, <1>3, <1>4 DEF IsABag
  <1> QED
    BY <1>1, <1>3, <1>5 DEF K

\* A 429 that is dropped from the window is a full window old.
LEMMA KeptNewest ==
    ASSUME DetectorInv, NEW t \in Nat, on
    PROVE  \/ last429 <= lastHalf
           \/ t - last429 >= Window
           \/ \E u \in DOMAIN Kept(t) : u >= last429
  <1>1. SUFFICES ASSUME NEW u \in DOMAIN window, u >= last429,
                        \A v \in DOMAIN Kept(t) : ~(v >= last429)
                 PROVE  t - last429 >= Window
    BY DEF DetectorInv, CleanSince
  <1>2. u \notin DOMAIN Kept(t)
    BY <1>1
  <1>3. ~(t - u < Window)
    BY <1>1, <1>2, KeptProperties DEF DetectorInv
  <1>4. u \in Nat /\ last429 \in Nat /\ Window \in Nat
    BY ThrottleAssumption DEF DetectorInv, DetectorTypes, ThrottleAssumption
  <1> QED
    BY <1>1, <1>3, <1>4

\* The step that lowers the delay is taken a full window after the latest 429.
LEMMA CleanWindowIsClean ==
    ASSUME DetectorInv, NEW t \in Nat, CleanWindow(t)
    PROVE  t - last429 >= Window
  <1>1. on /\ DOMAIN Kept(t) = {} /\ t - lastHalf >= Window
    BY DEF CleanWindow, EmptyBag, SetToBag
  <1>2. last429 <= lastHalf \/ t - last429 >= Window
    BY <1>1, KeptNewest
  <1> QED
    BY <1>1, <1>2, ThrottleAssumption DEF DetectorInv, DetectorTypes, ThrottleAssumption

\* Every step keeps the detector's invariant.
LEMMA NextDetectorInv ==
    ASSUME DetectorInv, LocalTypes, [Next]_vars
    PROVE  DetectorInv'
  <1> USE DEF DetectorInv
  <1>0. /\ Window \in Nat \ {0} /\ Floor \in Nat \ {0} /\ MaxDelay \in Nat /\ Floor <= MaxDelay
        /\ delay \in Nat /\ lastHalf \in Nat /\ last429 \in Nat
        /\ \A r \in Requests : at[r] \in Nat
    BY ThrottleAssumption DEF ThrottleAssumption, DetectorTypes, LocalTypes
  <1>1. CASE UNCHANGED <<window, delay, on, lastHalf, last429>>
    BY <1>1 DEF DetectorTypes, DelayBounds, CleanSince
  <1>2. ASSUME NEW r \in Requests, Count429(r) PROVE DetectorInv'
    <2>1. window' = Grown(at[r]) /\ ~on /\ UNCHANGED <<delay, on, lastHalf, last429>>
      BY <1>2 DEF Count429
    <2>2. DetectorTypes'
      BY <1>0, <2>1, GrownProperties DEF DetectorTypes
    <2> QED
      BY <2>1, <2>2 DEF DelayBounds, CleanSince
  <1>3. ASSUME NEW r \in Requests, EnterThrottle(r) PROVE DetectorInv'
    <2>1. /\ window' = Grown(at[r])
          /\ on' = TRUE /\ delay' = Floor /\ lastHalf' = at[r] /\ last429' = at[r]
      BY <1>3 DEF EnterThrottle
    <2>2. DetectorTypes'
      BY <1>0, <2>1, GrownProperties DEF DetectorTypes
    <2>3. DelayBounds' /\ CleanSince'
      BY <1>0, <2>1 DEF DelayBounds, CleanSince
    <2> QED
      BY <2>2, <2>3
  <1>4. ASSUME NEW r \in Requests, Increase(r) PROVE DetectorInv'
    <2>1. /\ on /\ window' = Grown(at[r]) /\ delay' = Doubled /\ UNCHANGED <<on, lastHalf>>
          /\ last429' = IF at[r] > last429 THEN at[r] ELSE last429
      BY <1>4 DEF Increase
    <2>2. last429' \in Nat /\ last429' >= last429 /\ last429' >= at[r]
      BY <1>0, <2>1
    <2>3. delay' \in Floor..MaxDelay
      BY <1>0, <2>1 DEF DelayBounds, Doubled
    <2>4. DetectorTypes'
      <3>1. delay' \in Nat
        BY <1>0, <2>3
      <3>2. IsABag(window') /\ DOMAIN window' \subseteq Nat
        BY <1>0, <2>1, GrownProperties
      <3> QED
        BY <2>1, <2>2, <3>1, <3>2 DEF DetectorTypes
    <2>5. CleanSince'
      <3>1. at[r] \in DOMAIN window' /\ DOMAIN Kept(at[r]) \subseteq DOMAIN window'
        BY <1>0, <2>1, GrownProperties
      <3>2. CASE at[r] >= last429
        <4>1. last429' = at[r]
          BY <1>0, <2>1, <3>2
        <4> QED
          BY <1>0, <3>1, <4>1 DEF CleanSince
      <3>3. CASE at[r] < last429
        <4>1. last429' = last429
          BY <1>0, <2>1, <3>3
        <4>2. ~(at[r] - last429 >= Window)
          BY <1>0, <3>3
        <4>3. last429 <= lastHalf \/ \E u \in DOMAIN Kept(at[r]) : u >= last429
          BY <1>0, <2>1, <4>2, KeptNewest
        <4> QED
          BY <2>1, <3>1, <4>1, <4>3 DEF CleanSince
      <3> QED
        BY <1>0, <3>2, <3>3
    <2> QED
      BY <2>1, <2>3, <2>4, <2>5 DEF DelayBounds
  <1>5. ASSUME NEW r \in Requests, NoDecrease(r) PROVE DetectorInv'
    <2>1. /\ ~CleanWindow(at[r]) /\ window' = Kept(at[r])
          /\ UNCHANGED <<delay, on, lastHalf, last429>>
      BY <1>5 DEF NoDecrease
    <2>2. DetectorTypes'
      BY <1>0, <2>1, KeptProperties DEF DetectorTypes
    <2>3. CleanSince'
      <3>1. SUFFICES ASSUME on, ~(last429 <= lastHalf), at[r] - last429 >= Window
                     PROVE  \E u \in DOMAIN window' : u >= last429
        BY <1>0, <2>1, KeptNewest DEF CleanSince
      <3>2. at[r] - lastHalf >= Window
        BY <1>0, <3>1
      <3>3. Kept(at[r]) # EmptyBag
        BY <2>1, <3>1, <3>2 DEF CleanWindow
      <3>4. DOMAIN Kept(at[r]) # {}
        BY <3>3 DEF Kept, Restrict, EmptyBag, SetToBag
      <3>5. PICK u \in DOMAIN Kept(at[r]) : TRUE
        BY <3>4
      <3>6. u \in Nat /\ at[r] - u < Window
        BY <1>0, <3>5, KeptProperties DEF DetectorTypes
      <3> QED
        BY <1>0, <2>1, <3>1, <3>6
    <2> QED
      BY <2>1, <2>2, <2>3 DEF DelayBounds
  <1>6. ASSUME NEW r \in Requests, Halve(r) PROVE DetectorInv'
    <2>1. /\ CleanWindow(at[r]) /\ window' = Kept(at[r]) /\ lastHalf' = at[r]
          /\ UNCHANGED last429
          /\ \/ delay \div 2 >= Floor /\ delay' = delay \div 2 /\ on' = on
             \/ delay' = 0 /\ on' = FALSE
      BY <1>6 DEF Halve
    <2>2. on /\ delay \in Floor..MaxDelay
      BY <2>1 DEF CleanWindow, DelayBounds
    <2>3. delay \div 2 \in Nat /\ delay \div 2 <= MaxDelay
      BY <1>0, <2>2
    <2>4. delay' \in Nat /\ on' \in BOOLEAN /\ DelayBounds'
      <3>1. CASE delay \div 2 >= Floor /\ delay' = delay \div 2 /\ on' = on
        BY <1>0, <2>2, <2>3, <3>1 DEF DelayBounds
      <3>2. CASE delay' = 0 /\ on' = FALSE
        BY <3>2 DEF DelayBounds
      <3> QED
        BY <2>1, <3>1, <3>2
    <2>5. DetectorTypes'
      BY <1>0, <2>1, <2>4, KeptProperties DEF DetectorTypes
    <2>6. CleanSince'
      BY <1>0, <2>1, CleanWindowIsClean DEF CleanSince
    <2> QED
      BY <2>4, <2>5, <2>6
  <1> QED
    BY <1>1, <1>2, <1>3, <1>4, <1>5, <1>6, Steps, OutsideDetector
       DEF Observe, vars, detector, Tick

-----------------------------------------------------------------------------
(* The theorems                                                            *)

\* The gate starts open, with no slot taken and an empty window.
LEMMA InitIInv == Init => IInv
  <1> SUFFICES ASSUME Init PROVE IInv
    OBVIOUS
  <1>1. slot \in [Requests -> BOOLEAN] /\ got429 \in [Requests -> BOOLEAN]
    BY Zenon DEF Init
  <1>2. LocalTypes
    BY <1>1 DEF Init, LocalTypes, PCs
  <1>3. {r \in Requests : slot[r]} = {}
    BY DEF Init
  <1>4. SlotInv
    BY <1>2, <1>3, FS_EmptySet, ThrottleAssumption
       DEF Init, SlotInv, SlotsAccounted, PacedHoldSlot, ThrottleAssumption
  <1>5. IsABag(window) /\ DOMAIN window = {}
    BY DEF Init, EmptyBag, SetToBag, IsABag
  <1>6. DetectorInv
    BY <1>5 DEF Init, DetectorInv, DetectorTypes, DelayBounds, CleanSince
  <1> QED
    BY <1>4, <1>6 DEF IInv

\* The invariant is inductive.
LEMMA NextIInv == IInv /\ [Next]_vars => IInv'
  BY NextSlotInv, NextDetectorInv DEF IInv, SlotInv

\* The invariant holds in every state of the gate.
THEOREM ThrottleInvariant == Spec => []IInv
  BY InitIInv, NextIInv, PTL DEF Spec

\* The fields of throttleGate and the goroutines' locals keep their types.
THEOREM ThrottleTypes == Spec => []TypeOK
  <1>1. IInv => TypeOK
    BY TypesSplit DEF IInv, SlotInv, DetectorInv
  <1> QED
    BY <1>1, ThrottleInvariant, PTL

\* enterThrottle, increaseDelay and observeClean keep the delay between the
\* floor and the maximum while throttled, and at 0 otherwise.
THEOREM ThrottleDelayBounds == Spec => []DelayBounds
  <1>1. IInv => DelayBounds
    BY DEF IInv, DetectorInv
  <1> QED
    BY <1>1, ThrottleInvariant, PTL

\* ServeHTTP gives every pacing slot back exactly once, on every way out.
THEOREM ThrottleSlotsAccounted == Spec => []SlotsAccounted
  <1>1. IInv => SlotsAccounted
    BY DEF IInv, SlotInv
  <1> QED
    BY <1>1, ThrottleInvariant, PTL

\* observeClean lowers the delay only a full window after the latest 429 of the
\* throttling episode, in whatever order observe gets the lock.
THEOREM ThrottleRecovers == Spec => RecoversOnlyWhenClean
  <1>1. ASSUME IInv, [Next]_vars
        PROVE  [delay' < delay => lastHalf' - last429 >= Window]_vars
    <2>1. SUFFICES ASSUME delay' < delay PROVE lastHalf' - last429 >= Window
      OBVIOUS
    <2>2. delay \in Nat
      BY <1>1 DEF IInv, DetectorInv, DetectorTypes
    <2>3. delay' # delay
      BY <2>1, <2>2
    <2>4. PICK r \in Requests : Observe(r)
      BY <1>1, <2>3, Steps, OutsideDetector DEF vars, detector, Tick
    <2>5. ~Count429(r) /\ ~NoDecrease(r)
      BY <2>3 DEF Count429, NoDecrease
    <2>6. ~EnterThrottle(r)
      BY <1>1, <2>1, ThrottleAssumption
         DEF EnterThrottle, IInv, DetectorInv, DelayBounds, ThrottleAssumption
    <2>7. ~Increase(r)
      BY <1>1, <2>1, ThrottleAssumption
         DEF Increase, Doubled, IInv, DetectorInv, DelayBounds, ThrottleAssumption
    <2>8. Halve(r)
      BY <2>4, <2>5, <2>6, <2>7 DEF Observe
    <2>9. at[r] \in Nat
      BY <1>1 DEF IInv, SlotInv, LocalTypes
    <2> QED
      BY <1>1, <2>8, <2>9, CleanWindowIsClean DEF Halve, IInv
  <1> QED
    BY <1>1, ThrottleInvariant, PTL DEF Spec, RecoversOnlyWhenClean

=============================================================================
