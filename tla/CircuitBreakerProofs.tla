------------------------ MODULE CircuitBreakerProofs ------------------------
(***************************************************************************)
(* Proofs about the circuit breaker, for every set of requests, threshold  *)
(* and open period.  The invariants support each other: that the probe     *)
(* flag is only set while half-open rules out that observe of an ordinary  *)
(* request, which acts while closed, strands the flag; that the count is   *)
(* below the threshold while closed makes the step to open land on it.     *)
(***************************************************************************)
EXTENDS CircuitBreaker, TLAPS

IInv ==
    /\ TypeOK
    /\ CountMatchesState
    /\ FailuresConsecutive
    /\ NoWedge

\* The breaker starts closed with an empty count.
LEMMA InitIInv == Init => IInv
  <1> SUFFICES ASSUME Init PROVE IInv
    OBVIOUS
  <1>1. probe \in [Requests -> BOOLEAN] /\ probing \in BOOLEAN
    BY Zenon DEF Init
  <1>2. TypeOK
    BY <1>1 DEF Init, TypeOK, States, PCs, Statuses
  <1>3. CountMatchesState /\ FailuresConsecutive
    BY BreakerAssumption DEF Init, CountMatchesState, FailuresConsecutive, BreakerAssumption
  <1>4. NoWedge
    BY DEF Init, NoWedge
  <1> QED
    BY <1>2, <1>3, <1>4 DEF IInv

\* Returning resets the locals of one request and no other.
LEMMA ReturnLocals ==
    ASSUME TypeOK, NEW r \in Requests, Return(r)
    PROVE  /\ pc' \in [Requests -> PCs] /\ at' \in [Requests -> Nat]
           /\ probe' \in [Requests -> BOOLEAN] /\ status' \in [Requests -> Statuses]
           /\ \A q \in Requests \ {r} : pc'[q] = pc[q] /\ probe'[q] = probe[q]
  BY DEF TypeOK, Return, PCs, Statuses

\* Recording an outcome keeps the history's types.
LEMMA RecordTypes ==
    ASSUME TypeOK, NEW r \in Requests, RecordOutcome(r)
    PROVE  /\ streak' \in Nat
           /\ status[r] = "fail" => streak' >= streak /\ (streak < Threshold => streak' = streak + 1)
           /\ status[r] = "none" => streak' = streak
  <1>2. CASE status[r] = "fail" /\ streak < Threshold
    BY <1>2 DEF TypeOK, RecordOutcome
  <1>3. CASE status[r] = "ok"
    BY <1>3 DEF TypeOK, RecordOutcome
  <1>4. CASE ~(status[r] = "fail" /\ streak < Threshold) /\ status[r] # "ok"
    <2>1. streak' = streak
      BY <1>4 DEF RecordOutcome
    <2> QED
      BY <1>4, <2>1 DEF TypeOK
  <1> QED
    BY <1>2, <1>3, <1>4

\* Forwarding touches the locals of one request.
LEMMA ForwardedLocals ==
    ASSUME TypeOK, NEW r \in Requests, NEW asProbe \in BOOLEAN, Forwarded(r, asProbe)
    PROVE  /\ pc' \in [Requests -> PCs] /\ at' \in [Requests -> Nat]
           /\ probe' \in [Requests -> BOOLEAN] /\ status' \in [Requests -> Statuses]
           /\ pc'[r] = "forward" /\ probe'[r] = asProbe
  BY DEF TypeOK, Forwarded, PCs

\* Every step of the breaker preserves the inductive invariant.
LEMMA NextIInv == IInv /\ [Next]_vars => IInv'
  <1> SUFFICES ASSUME IInv, [Next]_vars PROVE IInv'
    OBVIOUS
  <1> USE DEF IInv
  <1>0. Threshold \in Nat \ {0} /\ failures \in Nat /\ streak \in Nat
    BY BreakerAssumption DEF BreakerAssumption, TypeOK
  <1>1. CASE UNCHANGED vars
    BY <1>1 DEF vars, breaker, locals, TypeOK, CountMatchesState,
                FailuresConsecutive, NoWedge
  <1>2. CASE Tick
    BY <1>2 DEF Tick, breaker, locals, TypeOK, CountMatchesState,
                FailuresConsecutive, NoWedge
  <1>3. ASSUME NEW r \in Requests, Arrive(r) PROVE IInv'
    <2>1. TypeOK'
      BY <1>3 DEF Arrive, breaker, TypeOK, PCs
    <2>2. NoWedge'
      BY <1>3 DEF Arrive, breaker, TypeOK, NoWedge
    <2> QED
      BY <1>3, <2>1, <2>2 DEF Arrive, breaker, CountMatchesState, FailuresConsecutive
  <1>4. ASSUME NEW r \in Requests, AdmitClosed(r) PROVE IInv'
    <2>1. Forwarded(r, FALSE) /\ UNCHANGED <<now, breaker, streak>> /\ state = "closed"
      BY <1>4 DEF AdmitClosed
    <2>2. TypeOK'
      BY <2>1, ForwardedLocals DEF breaker, TypeOK
    <2> QED
      BY <2>1, <2>2 DEF breaker, CountMatchesState, FailuresConsecutive, NoWedge
  <1>5. ASSUME NEW r \in Requests, RefuseOpen(r) \/ RefuseHalfOpen(r) PROVE IInv'
    <2>1. Return(r) /\ pc[r] = "admit" /\ UNCHANGED <<now, breaker, streak>>
      BY <1>5 DEF RefuseOpen, RefuseHalfOpen
    <2>2. TypeOK'
      BY <2>1, ReturnLocals DEF breaker, TypeOK
    <2>3. NoWedge'
      BY <2>1, ReturnLocals DEF breaker, NoWedge
    <2> QED
      BY <2>1, <2>2, <2>3 DEF breaker, CountMatchesState, FailuresConsecutive
  <1>6. ASSUME NEW r \in Requests, AdmitOpen(r) PROVE IInv'
    <2>1. /\ Forwarded(r, TRUE) /\ UNCHANGED <<now, failures, streak>>
          /\ state = "open" /\ state' = "half_open" /\ openedAt' = openedAt /\ probing' = TRUE
      BY <1>6 DEF AdmitOpen, setStateLocked
    <2>2. TypeOK'
      BY <2>1, ForwardedLocals DEF TypeOK, States
    <2>3. NoWedge'
      BY <2>1, ForwardedLocals DEF NoWedge
    <2> QED
      BY <2>1, <2>2, <2>3 DEF CountMatchesState, FailuresConsecutive
  <1>7. ASSUME NEW r \in Requests, AdmitHalfOpen(r) PROVE IInv'
    <2>1. /\ Forwarded(r, TRUE) /\ UNCHANGED <<now, state, failures, openedAt, streak>>
          /\ state = "half_open" /\ probing' = TRUE
      BY <1>7 DEF AdmitHalfOpen
    <2>2. TypeOK'
      BY <2>1, ForwardedLocals DEF TypeOK
    <2>3. NoWedge'
      BY <2>1, ForwardedLocals DEF NoWedge
    <2> QED
      BY <2>1, <2>2, <2>3 DEF CountMatchesState, FailuresConsecutive
  <1>8. ASSUME NEW r \in Requests, Respond(r) PROVE IInv'
    <2>1. TypeOK'
      BY <1>8 DEF Respond, breaker, TypeOK, PCs
    <2>2. NoWedge'
      BY <1>8 DEF Respond, breaker, TypeOK, NoWedge
    <2> QED
      BY <1>8, <2>1, <2>2 DEF Respond, breaker, CountMatchesState, FailuresConsecutive
  <1>9. ASSUME NEW r \in Requests, Panic(r) PROVE IInv'
    <2>1. UNCHANGED <<now, breaker, streak>>
      BY <1>9 DEF Panic, TypeOK
    <2>2. CASE probe[r]
      <3>1. pc' = [pc EXCEPT ![r] = "release"] /\ UNCHANGED <<at, probe, status>>
        BY <1>9, <2>2 DEF Panic
      <3>2. TypeOK'
        BY <2>1, <3>1 DEF breaker, TypeOK, PCs
      <3>3. NoWedge'
        BY <2>1, <3>1 DEF breaker, TypeOK, NoWedge
      <3> QED
        BY <2>1, <3>2, <3>3 DEF breaker, CountMatchesState, FailuresConsecutive
    <2>3. CASE ~probe[r]
      <3>1. Return(r)
        BY <1>9, <2>3 DEF Panic
      <3>2. TypeOK'
        BY <2>1, <3>1, ReturnLocals DEF breaker, TypeOK
      <3>3. NoWedge'
        BY <2>1, <2>3, <3>1, ReturnLocals DEF breaker, NoWedge
      <3> QED
        BY <2>1, <3>2, <3>3 DEF breaker, CountMatchesState, FailuresConsecutive
    <2> QED
      BY <2>2, <2>3
  <1>10. ASSUME NEW r \in Requests, ObserveProbe(r) PROVE IInv'
    <2>1. /\ probing' = FALSE /\ pc' = [pc EXCEPT ![r] = "release"]
          /\ UNCHANGED <<now, at, probe, status>> /\ RecordOutcome(r)
      BY <1>10 DEF ObserveProbe
    <2>2. \/ state' = "open" /\ failures' = Threshold
          \/ state' = "closed" /\ failures' = 0
      BY <1>10 DEF ObserveProbe, setStateLocked
    <2>3. openedAt' \in Nat
      BY <1>10 DEF ObserveProbe, setStateLocked, TypeOK
    <2>4. TypeOK'
      <3>1. probing' \in BOOLEAN /\ state' \in States
        BY <2>1, <2>2 DEF States
      <3>2. failures' \in Nat
        BY <1>0, <2>2
      <3>3. pc' \in [Requests -> PCs]
        BY <2>1 DEF TypeOK, PCs
      <3>4. streak' \in Nat
        BY <2>1, RecordTypes
      <3> QED
        BY <2>1, <2>3, <3>1, <3>2, <3>3, <3>4 DEF TypeOK
    <2> QED
      BY <1>0, <2>1, <2>2, <2>4, RecordTypes DEF CountMatchesState, FailuresConsecutive, NoWedge
  <1>11. ASSUME NEW r \in Requests, ObserveIgnored(r) PROVE IInv'
    <2>1. /\ Return(r) /\ UNCHANGED <<now, breaker>> /\ RecordOutcome(r) /\ ~probe[r]
          /\ state # "closed" \/ status[r] = "none"
      BY <1>11 DEF ObserveIgnored
    <2>2. TypeOK'
      BY <2>1, ReturnLocals, RecordTypes DEF breaker, TypeOK
    <2>3. NoWedge'
      BY <2>1, ReturnLocals DEF breaker, NoWedge
    <2>4. FailuresConsecutive'
      BY <2>1, RecordTypes DEF breaker, FailuresConsecutive
    <2> QED
      BY <2>1, <2>2, <2>3, <2>4 DEF breaker, CountMatchesState
  <1>12. ASSUME NEW r \in Requests, ObserveCounted(r) PROVE IInv'
    <2> DEFINE n == CountAfter(status[r])
    <2>1. /\ Return(r) /\ UNCHANGED now /\ RecordOutcome(r)
          /\ failures' = n /\ state = "closed" /\ status[r] # "none"
      BY <1>12 DEF ObserveCounted
    <2>2. failures < Threshold /\ failures <= streak /\ ~probing
      BY <2>1 DEF CountMatchesState, FailuresConsecutive, NoWedge
    <2>3. \/ n = 0
          \/ n = failures + 1 /\ status[r] = "fail"
      <3>1. status[r] \in Statuses
        BY DEF TypeOK
      <3> QED
        BY <2>1, <3>1 DEF CountAfter, Statuses
    <2>4. \/ n >= Threshold /\ state' = "open" /\ probing' = FALSE /\ openedAt' = at[r]
          \/ n < Threshold /\ UNCHANGED <<state, openedAt, probing>>
      <3>1. CASE Trips(n)
        BY <1>12, <2>1, <3>1 DEF ObserveCounted, setStateLocked, Trips
      <3>2. CASE ~Trips(n)
        BY <1>0, <1>12, <2>3, <3>2 DEF ObserveCounted, Trips
      <3> QED
        BY <3>1, <3>2
    <2>5. openedAt' \in Nat /\ state' \in States /\ probing' \in BOOLEAN
      BY <2>4 DEF TypeOK, States
    <2> HIDE DEF n
    <2>6. TypeOK'
      BY <1>0, <2>1, <2>3, <2>5, ReturnLocals, RecordTypes DEF TypeOK
    <2>7. CountMatchesState'
      BY <1>0, <2>1, <2>2, <2>3, <2>4 DEF CountMatchesState
    <2>8. FailuresConsecutive'
      BY <1>0, <2>1, <2>2, <2>3, <2>4, RecordTypes DEF FailuresConsecutive
    <2>9. NoWedge'
      BY <2>2, <2>4 DEF NoWedge
    <2> QED
      BY <2>6, <2>7, <2>8, <2>9
  <1>13. ASSUME NEW r \in Requests, releaseProbe(r) PROVE IInv'
    <2>1. /\ Return(r) /\ probing' = FALSE
          /\ UNCHANGED <<now, state, failures, openedAt, streak>>
      BY <1>13 DEF releaseProbe
    <2>2. TypeOK'
      BY <2>1, ReturnLocals DEF TypeOK
    <2> QED
      BY <2>1, <2>2 DEF CountMatchesState, FailuresConsecutive, NoWedge
  <1> QED
    BY <1>1, <1>2, <1>3, <1>4, <1>5, <1>6, <1>7, <1>8, <1>9, <1>10, <1>11, <1>12, <1>13
    DEF Next, ServeHTTP

-----------------------------------------------------------------------------
(* The theorems                                                            *)

\* The inductive invariant holds in every reachable state.
THEOREM Invariance == Spec => []IInv
  BY InitIInv, NextIInv, PTL DEF Spec

\* The breaker's fields keep their types.
THEOREM TypeCorrect == Spec => []TypeOK
  <1>1. IInv => TypeOK
    BY DEF IInv
  <1> QED
    BY <1>1, Invariance, PTL

\* observe keeps failure count and state in step under every interleaving.
THEOREM CountAndStateAgree == Spec => []CountMatchesState
  <1>1. IInv => CountMatchesState
    BY DEF IInv
  <1> QED
    BY <1>1, Invariance, PTL

\* Only consecutive failures are counted towards opening.
THEOREM OnlyConsecutiveFailures == Spec => []FailuresConsecutive
  <1>1. IInv => FailuresConsecutive
    BY DEF IInv
  <1> QED
    BY <1>1, Invariance, PTL

\* The half-open breaker is never left with a probe flag nobody will clear.
THEOREM NeverWedged == Spec => []NoWedge
  <1>1. IInv => NoWedge
    BY DEF IInv
  <1> QED
    BY <1>1, Invariance, PTL

=============================================================================
