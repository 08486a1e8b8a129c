--------------------------- MODULE CircuitBreaker ---------------------------
(***************************************************************************)
(* The per-provider consecutive-failure gate (pkg/handler/circuit-         *)
(* breaker.go).  Request goroutines read the clock, take the mutex for     *)
(* admit, forward, read the clock again, take the mutex for observe, and a *)
(* probe takes it once more for the deferred releaseProbe.  Anything may   *)
(* happen between those steps, so the instant a step works with (at[r])    *)
(* may be older than the state it meets.                                   *)
(*                                                                         *)
(* Response statuses are the classes observe tells apart: "fail" (5xx),    *)
(* "ok" (any other status) and "none" (status 0: the wrapped handler wrote *)
(* nothing, as after a client disconnect in an inner queue).               *)
(***************************************************************************)
EXTENDS Naturals

CONSTANTS Requests,     \* client connections, each carrying one request at a time
          Threshold,    \* failureThreshold
          OpenPeriod,   \* breakerOpenPeriod, in clock ticks
          MaxTime       \* bound on the clock

ASSUME BreakerAssumption ==
    /\ Threshold \in Nat \ {0}
    /\ OpenPeriod \in Nat \ {0}
    /\ MaxTime \in Nat

VARIABLES
    now,          \* the injected clock
    state,        \* closed, open or half_open
    failures,     \* consecutive failures counted
    openedAt,     \* instant of the last transition to open
    probing,      \* the half-open probe flag
    pc,           \* pc[r]: where r's goroutine is in ServeHTTP
    at,           \* at[r]: the clock value r read last
    probe,        \* probe[r]: r was admitted as a probe
    status,       \* status[r]: class of the status the recorder saw
    streak        \* history: failed responses in a row, as observed, up to Threshold

breaker == <<state, failures, openedAt, probing>>
locals  == <<pc, at, probe, status>>
vars == <<now, breaker, locals, streak>>

States   == {"closed", "open", "half_open"}
Statuses == {"ok", "fail", "none"}
\* idle    no request          admit   clock read, admit's lock ahead
\* forward inside next         observe next returned, observe's lock ahead
\* release deferred releaseProbe ahead
PCs == {"idle", "admit", "forward", "observe", "release"}

Init ==
    /\ now = 0
    /\ state = "closed"
    /\ failures = 0
    /\ openedAt = 0
    /\ probing = FALSE
    /\ pc = [r \in Requests |-> "idle"]
    /\ at = [r \in Requests |-> 0]
    /\ probe = [r \in Requests |-> FALSE]
    /\ status = [r \in Requests |-> "none"]
    /\ streak = 0

-----------------------------------------------------------------------------
(* setStateLocked, apart from the probe flag it clears on entering open.   *)

\* Faulty variant: the half-open state is stored under its log spelling.
setStateLocked_LogName(s, t) ==
    /\ state' = IF s = "half_open" THEN "half-open" ELSE s
    /\ openedAt' = IF s = "open" /\ state # "open" THEN t ELSE openedAt

setStateLocked(s, t) ==
    /\ state' = s
    /\ openedAt' = IF s = "open" /\ state # "open" THEN t ELSE openedAt

-----------------------------------------------------------------------------
(* One request                                                             *)

\* ServeHTTP returns and its locals are gone.
Return(r) ==
    /\ pc' = [pc EXCEPT ![r] = "idle"]
    /\ at' = [at EXCEPT ![r] = 0]
    /\ probe' = [probe EXCEPT ![r] = FALSE]
    /\ status' = [status EXCEPT ![r] = "none"]

\* observe's outcomes, in the order they take the lock.
RecordOutcome(r) ==
    streak' = CASE status[r] = "fail" /\ streak < Threshold -> streak + 1
                [] status[r] = "ok"                         -> 0
                [] OTHER                                    -> streak

\* b.now() ahead of admit.
Arrive(r) ==
    /\ pc[r] = "idle"
    /\ pc' = [pc EXCEPT ![r] = "admit"]
    /\ at' = [at EXCEPT ![r] = now]
    /\ UNCHANGED <<now, breaker, probe, status, streak>>

Forwarded(r, asProbe) ==
    /\ pc' = [pc EXCEPT ![r] = "forward"]
    /\ probe' = [probe EXCEPT ![r] = asProbe]
    /\ at' = [at EXCEPT ![r] = 0]
    /\ UNCHANGED status

\* admit, state closed: forward.
AdmitClosed(r) ==
    /\ pc[r] = "admit"
    /\ state = "closed"
    /\ Forwarded(r, FALSE)
    /\ UNCHANGED <<now, breaker, streak>>

\* admit, open for less than the open period: the 429.
RefuseOpen(r) ==
    /\ pc[r] = "admit"
    /\ state = "open"
    /\ at[r] < openedAt + OpenPeriod
    /\ Return(r)
    /\ UNCHANGED <<now, breaker, streak>>

\* admit, the open period has elapsed: this request is the probe.
AdmitOpen(r) ==
    /\ pc[r] = "admit"
    /\ state = "open"
    /\ at[r] >= openedAt + OpenPeriod
    /\ setStateLocked("half_open", at[r])
    /\ probing' = TRUE
    /\ Forwarded(r, TRUE)
    /\ UNCHANGED <<now, failures, streak>>

\* admit, half-open without a probe in flight: this request is the probe.
AdmitHalfOpen(r) ==
    /\ pc[r] = "admit"
    /\ state = "half_open"
    /\ ~probing
    /\ probing' = TRUE
    /\ Forwarded(r, TRUE)
    /\ UNCHANGED <<now, state, failures, openedAt, streak>>

\* admit, half-open with a probe in flight: the 429.
RefuseHalfOpen(r) ==
    /\ pc[r] = "admit"
    /\ state = "half_open"
    /\ probing
    /\ Return(r)
    /\ UNCHANGED <<now, breaker, streak>>

\* next.ServeHTTP returns and the clock is read for observe.
Respond(r) ==
    /\ pc[r] = "forward"
    /\ \E s \in Statuses : status' = [status EXCEPT ![r] = s]
    /\ pc' = [pc EXCEPT ![r] = "observe"]
    /\ at' = [at EXCEPT ![r] = now]
    /\ UNCHANGED <<now, breaker, probe, streak>>

\* Faulty variant: releaseProbe is called after observe, not deferred.
Panic_NoDefer(r) ==
    /\ pc[r] = "forward"
    /\ Return(r)
    /\ UNCHANGED <<now, breaker, streak>>

\* next.ServeHTTP panics: observe is skipped, a probe still runs its defer.
Panic(r) ==
    /\ pc[r] = "forward"
    /\ \/ /\ probe[r]
          /\ pc' = [pc EXCEPT ![r] = "release"]
          /\ UNCHANGED <<at, probe, status>>
       \/ /\ ~probe[r]
          /\ Return(r)
    /\ UNCHANGED <<now, breaker, streak>>

\* observe for a probe: its verdict closes or reopens the breaker.
ObserveProbe(r) ==
    /\ pc[r] = "observe"
    /\ probe[r]
    /\ probing' = FALSE
    /\ \/ /\ status[r] = "fail"
          /\ failures' = Threshold
          /\ setStateLocked("open", at[r])
       \/ /\ status[r] # "fail"
          /\ failures' = 0
          /\ setStateLocked("closed", at[r])
    /\ pc' = [pc EXCEPT ![r] = "release"]
    /\ UNCHANGED <<now, at, probe, status>>
    /\ RecordOutcome(r)

\* observe for any other request once the state has left closed, or for a
\* response without a status: ignored.
ObserveIgnored(r) ==
    /\ pc[r] = "observe"
    /\ ~probe[r]
    /\ state # "closed" \/ status[r] = "none"
    /\ Return(r)
    /\ UNCHANGED <<now, breaker>>
    /\ RecordOutcome(r)

\* Faulty variant: a healthy response does not reset the count.
CountAfter_NoReset(s) == IF s = "ok" THEN failures ELSE failures + 1

\* A 5xx is one more failure in a row, any other status starts over.
CountAfter(s) == IF s = "ok" THEN 0 ELSE failures + 1

\* Faulty variant: the breaker opens one failure late.
Trips_OffByOne(n) == n > Threshold

Trips(n) == n >= Threshold

\* observe while closed: count the response, open at the threshold.
ObserveCounted(r) ==
    /\ pc[r] = "observe"
    /\ ~probe[r]
    /\ state = "closed"
    /\ status[r] # "none"
    /\ failures' = CountAfter(status[r])
    /\ \/ /\ Trips(CountAfter(status[r]))
          /\ setStateLocked("open", at[r])
          /\ probing' = FALSE
       \/ /\ ~Trips(CountAfter(status[r]))
          /\ UNCHANGED <<state, openedAt, probing>>
    /\ Return(r)
    /\ UNCHANGED now
    /\ RecordOutcome(r)

\* The deferred releaseProbe of a probe.
releaseProbe(r) ==
    /\ pc[r] = "release"
    /\ probing' = FALSE
    /\ Return(r)
    /\ UNCHANGED <<now, state, failures, openedAt, streak>>

Tick ==
    /\ now < MaxTime
    /\ now' = now + 1
    /\ UNCHANGED <<breaker, locals, streak>>

ServeHTTP(r) ==
    \/ Arrive(r)
    \/ AdmitClosed(r) \/ RefuseOpen(r) \/ AdmitOpen(r) \/ AdmitHalfOpen(r) \/ RefuseHalfOpen(r)
    \/ Respond(r) \/ Panic(r)
    \/ ObserveProbe(r) \/ ObserveIgnored(r) \/ ObserveCounted(r)
    \/ releaseProbe(r)

Next == Tick \/ \E r \in Requests : ServeHTTP(r)

Spec == Init /\ [][Next]_vars

-----------------------------------------------------------------------------
(* Properties                                                              *)

\* The types of the breaker's fields and of the goroutines' locals.
TypeOK ==
    /\ now \in Nat
    /\ state \in States
    /\ failures \in Nat
    /\ openedAt \in Nat
    /\ probing \in BOOLEAN
    /\ pc \in [Requests -> PCs]
    /\ at \in [Requests -> Nat]
    /\ probe \in [Requests -> BOOLEAN]
    /\ status \in [Requests -> Statuses]
    /\ streak \in Nat

\* observe keeps the count and the state in step whatever order admit, observe
\* and releaseProbe of concurrent requests take the lock in: below the
\* threshold while closed, exactly at it while open or half-open.
CountMatchesState ==
    /\ state = "closed" => failures < Threshold
    /\ state # "closed" => failures = Threshold

\* The breaker opens on consecutive failures only: while closed it never counts
\* more failures than observe has just seen in a row.
FailuresConsecutive == state = "closed" => failures <= streak

\* A set probe flag always belongs to a probe that is still going to clear it,
\* also when the wrapped handler panics: admit can not refuse forever.
NoWedge ==
    probing => /\ state = "half_open"
               /\ \E r \in Requests :
                     probe[r] /\ pc[r] \in {"forward", "observe", "release"}

=============================================================================
