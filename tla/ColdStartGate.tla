---------------------------- MODULE ColdStartGate ----------------------------
(***************************************************************************)
(* The per-provider cold-start admission gate (pkg/handler/cold-start-     *)
(* gate.go).  A request of a session seen inside the window is warm and    *)
(* passes; any other is cold, and is admitted against a budget of          *)
(* in-flight prefill tokens and a one-token bucket of new sessions.  A     *)
(* blocked request waits in a bounded queue until a broadcast, its own     *)
(* refill timer, its deadline or its client ends the wait.  The budget is  *)
(* the configured one or, with a threshold set, the one TTFTBackpressure   *)
(* derives from what the forwarded requests report back; that controller   *)
(* has a lock of its own, so the budget moves between any two steps here.  *)
(*                                                                         *)
(* The clock is read before the lock is taken, so at[r] may be older than  *)
(* the state it is compared with.  Time is in ticks; every timer may fire  *)
(* late.                                                                   *)
(***************************************************************************)
EXTENDS TTFTBackpressure, FiniteSetsExt, Functions

CONSTANTS
    Requests,       \* client connections, each carrying one request at a time
    SessionOf,      \* session id of each request's client
    NoSession,      \* the empty session id
    Estimate,       \* prefill estimate of each request's body
    Interval,       \* ticks per rate token (60s / rate), 0 when the check is off
    Window,         \* coldSessionWindowSeconds
    PruneInterval,  \* minimum distance of two prune walks
    QueueCapacity,  \* coldGateQueueCapacity
    MaxTime,        \* bound on the clock
    MaxSamples      \* bound on the samples of one window

Sessions == {SessionOf[r] : r \in Requests} \ {NoSession}

ASSUME GateAssumption ==
    /\ IsFiniteSet(Requests)
    /\ DOMAIN SessionOf = Requests
    /\ Estimate \in [Requests -> Nat]
    /\ {Interval, MaxTime, MaxSamples} \subseteq Nat
    /\ Ceiling > 0 \/ Interval > 0
    /\ {Window, PruneInterval, QueueCapacity} \subseteq Nat \ {0}

VARIABLES
    now,         \* the injected clock
    seen,        \* session id -> instant of its last admission
    lastPrune,   \* instant of the last prune walk
    inFlight,    \* inFlightTokens
    tokens,      \* rateTokens
    lastRefill,  \* rateLastRefill
    queue,       \* len(queue): waiter slots taken
    pc,          \* pc[r]: where r's goroutine is
    at,          \* at[r]: the clock value r read last
    wait,        \* wait[r]: the locals of a queued request
    bp,          \* the backpressure controller
    admittedAt,  \* history: seen as it would be without the prune
    evidence     \* history: what the window of the last observation has shown

gate == <<seen, lastPrune, inFlight, tokens, lastRefill>>
control == <<bp, evidence>>
vars == <<now, gate, queue, pc, at, wait, control, admittedAt>>

\* A queued request: what blocks it, whether its notify channel is closed, when
\* its refill timer fires (0 when none is armed) and the budget it last read.
NotWaiting == [why |-> "", woken |-> FALSE, refillAt |-> 0, under |-> 0]

\* idle    no request               arrived clock read, the lock ahead
\* wait    blocked in the select    retry   woken, clock read, the lock ahead
\* leaveCold, leaveWarm  admitted, queue slot not yet freed
\* drop    timed out or abandoned, queue slot not yet freed
\* cold    forwarded with a reservation (at[r] is its dispatch instant)
\* measure released by its first delta, the controller not yet told
\* ending  next has returned, the deferred release ahead
\* passed  forwarded without a reservation, or streaming after the release
PCs == {"idle", "arrived", "wait", "retry", "leaveCold", "leaveWarm", "drop",
        "cold", "measure", "ending", "passed"}

Init ==
    /\ now = 0
    /\ seen = [s \in {} |-> 0]
    /\ lastPrune = 0 - PruneInterval
    /\ inFlight = 0
    /\ tokens = 1
    /\ lastRefill = 0
    /\ queue = 0
    /\ pc = [r \in Requests |-> "idle"]
    /\ at = [r \in Requests |-> 0]
    /\ wait = [r \in Requests |-> NotWaiting]
    /\ admittedAt = [s \in {} |-> 0]
    /\ bp = NewTTFTBackpressure
    /\ evidence = [window |-> 0, failed |-> FALSE, slow |-> FALSE]

-----------------------------------------------------------------------------
(* The pieces of tryAdmitLocked, run with the lock held at instant t       *)

PruneDue(t) == t - lastPrune >= PruneInterval

\* Faulty variant: the walk drops entries that are still inside the window.
Pruned_Early(t) ==
    IF PruneDue(t) THEN Restrict(seen, {s \in DOMAIN seen : t - seen[s] < Window - 1}) ELSE seen

\* The seen map after pruneLocked.
Pruned(t) ==
    IF PruneDue(t) THEN Restrict(seen, {s \in DOMAIN seen : t - seen[s] < Window}) ELSE seen

Warm(r, t) == SessionOf[r] \in DOMAIN Pruned(t) /\ t - Pruned(t)[SessionOf[r]] < Window

effectiveBudget == IF Attached THEN bp.budget ELSE Ceiling

\* Faulty variant: the request's own estimate is left out of the comparison.
OverBudget_NoEstimate(r) == effectiveBudget > 0 /\ inFlight > effectiveBudget

OverBudget(r) ==
    effectiveBudget > 0 /\ inFlight > 0 /\ inFlight + Estimate[r] > effectiveBudget

\* Tokens earned since the anchor (integer division truncates towards zero).
Earned(t, anchor) ==
    IF t >= anchor THEN (t - anchor) \div Interval ELSE 0 - ((anchor - t) \div Interval)

\* refillLocked: the bucket and the anchor it leaves.
refillLocked(t) ==
    LET earned == Earned(t, lastRefill)
    IN  CASE Interval = 0 -> <<tokens, lastRefill>>
          [] Interval > 0 /\ tokens >= 1 -> <<tokens, t>>
          [] Interval > 0 /\ tokens < 1 /\ earned <= 0 -> <<tokens, lastRefill>>
          [] OTHER -> <<1, lastRefill + earned * Interval>>

TokensAfterRefill(t) == refillLocked(t)[1]
AnchorAfterRefill(t) == refillLocked(t)[2]

RateBlocked(t) == Interval > 0 /\ TokensAfterRefill(t) < 1

\* rateWaitLocked, called after refillLocked at the same instant: up to the next
\* token, or the time of one if that instant is not ahead.
rateWaitLocked(t) ==
    LET due == AnchorAfterRefill(t) + (Earned(t, AnchorAfterRefill(t)) + 1) * Interval - t
    IN  IF due > 0 THEN due ELSE Interval

\* seen[sessionID] = t, for a request that carries a session id.
MarkSeen(map, r, t) ==
    IF SessionOf[r] = NoSession THEN map
    ELSE [s \in DOMAIN map \cup {SessionOf[r]} |-> IF s = SessionOf[r] THEN t ELSE map[s]]

Prune(t) == lastPrune' = IF PruneDue(t) THEN t ELSE lastPrune

\* The verdict "warm": the window is refreshed, nothing is charged.
AdmitWarm(r) ==
    /\ Warm(r, at[r])
    /\ Prune(at[r])
    /\ seen' = MarkSeen(Pruned(at[r]), r, at[r])
    /\ admittedAt' = MarkSeen(admittedAt, r, at[r])
    /\ UNCHANGED <<inFlight, tokens, lastRefill>>

\* The verdict "admitted cold": reserve, spend a token, record the session.
AdmitCold(r) ==
    /\ ~Warm(r, at[r])
    /\ ~OverBudget(r)
    /\ ~RateBlocked(at[r])
    /\ Prune(at[r])
    /\ seen' = MarkSeen(Pruned(at[r]), r, at[r])
    /\ admittedAt' = MarkSeen(admittedAt, r, at[r])
    /\ inFlight' = inFlight + Estimate[r]
    /\ tokens' = TokensAfterRefill(at[r]) - (IF Interval > 0 THEN 1 ELSE 0)
    /\ lastRefill' = AnchorAfterRefill(at[r])

\* The verdict "budget": returned before the bucket is looked at.
BlockBudget(r) ==
    /\ ~Warm(r, at[r])
    /\ OverBudget(r)
    /\ Prune(at[r])
    /\ seen' = Pruned(at[r])
    /\ UNCHANGED <<inFlight, tokens, lastRefill, admittedAt>>

\* The verdict "rate".
BlockRate(r) ==
    /\ ~Warm(r, at[r])
    /\ ~OverBudget(r)
    /\ RateBlocked(at[r])
    /\ Prune(at[r])
    /\ seen' = Pruned(at[r])
    /\ tokens' = TokensAfterRefill(at[r])
    /\ lastRefill' = AnchorAfterRefill(at[r])
    /\ UNCHANGED <<inFlight, admittedAt>>

-----------------------------------------------------------------------------
(* One request                                                             *)

\* A cold request with an empty estimate carries no reservation.
Forward(r) == IF Estimate[r] = 0 THEN "passed" ELSE "cold"

\* forwardCold reads the clock again, for the controller alone.
DispatchedAt(to) == IF to = "cold" /\ Attached THEN now ELSE 0

\* The clock is read ahead of the first attempt.
Arrive(r) ==
    /\ pc[r] = "idle"
    /\ pc' = [pc EXCEPT ![r] = "arrived"]
    /\ at' = [at EXCEPT ![r] = now]
    /\ UNCHANGED <<now, gate, queue, wait, control, admittedAt>>

\* The first attempt admits: no queue slot is touched.
AdmitAtOnce(r) ==
    /\ pc[r] = "arrived"
    /\ \/ AdmitWarm(r) /\ pc' = [pc EXCEPT ![r] = "passed"]
       \/ AdmitCold(r) /\ pc' = [pc EXCEPT ![r] = Forward(r)]
    /\ at' = [at EXCEPT ![r] = DispatchedAt(pc'[r])]
    /\ UNCHANGED <<now, queue, wait, control>>

\* armRefillLocked: only a waiter that the rate blocks needs a timer.
refillTimer(r, why) == IF why = "rate" THEN now + rateWaitLocked(at[r]) ELSE 0

\* A blocked attempt takes the current notify channel, arms its timer, unlocks
\* and enters the select.
Park(r) ==
    /\ \E why \in {"budget", "rate"} :
          /\ why = "budget" => BlockBudget(r)
          /\ why = "rate" => BlockRate(r)
          /\ wait' = [wait EXCEPT ![r] = [why |-> why, woken |-> FALSE,
                                          refillAt |-> refillTimer(r, why),
                                          under |-> effectiveBudget]]
    /\ pc' = [pc EXCEPT ![r] = "wait"]
    /\ at' = [at EXCEPT ![r] = 0]

\* The first attempt is blocked and a queue slot is free.
Enqueue(r) ==
    /\ pc[r] = "arrived"
    /\ queue < QueueCapacity
    /\ Park(r)
    /\ queue' = queue + 1
    /\ UNCHANGED <<now, control>>

\* The first attempt is blocked and the queue is full: the 429.
RefuseFull(r) ==
    /\ pc[r] = "arrived"
    /\ queue >= QueueCapacity
    /\ BlockBudget(r) \/ BlockRate(r)
    /\ pc' = [pc EXCEPT ![r] = "idle"]
    /\ at' = [at EXCEPT ![r] = 0]
    /\ UNCHANGED <<now, queue, wait, control>>

\* The select takes the closed notify channel or the refill timer; the clock is
\* read again.
Wake(r) ==
    /\ pc[r] = "wait"
    /\ wait[r].woken \/ (wait[r].refillAt > 0 /\ now >= wait[r].refillAt)
    /\ pc' = [pc EXCEPT ![r] = "retry"]
    /\ at' = [at EXCEPT ![r] = now]
    /\ UNCHANGED <<now, gate, queue, wait, control, admittedAt>>

\* A further attempt admits; the queue slot is freed after the unlock.
RetryAdmit(r) ==
    /\ pc[r] = "retry"
    /\ \/ AdmitWarm(r) /\ pc' = [pc EXCEPT ![r] = "leaveWarm"]
       \/ AdmitCold(r) /\ pc' = [pc EXCEPT ![r] = "leaveCold"]
    /\ at' = [at EXCEPT ![r] = 0]
    /\ UNCHANGED <<now, queue, wait, control>>

\* A further attempt is blocked: wait on the new notify channel.
RetryBlocked(r) ==
    /\ pc[r] = "retry"
    /\ Park(r)
    /\ UNCHANGED <<now, queue, control>>

\* The select takes the deadline or the client's disconnect.  A disconnect may
\* come at any time and has the same effect on the gate, so the deadline needs
\* no clock of its own.
GiveUp(r) ==
    /\ pc[r] = "wait"
    /\ pc' = [pc EXCEPT ![r] = "drop"]
    /\ UNCHANGED <<now, gate, queue, at, wait, control, admittedAt>>

\* The wait is over: the queue slot and the timers go, then the request is
\* forwarded, refused or dropped.
LeaveQueue(r) ==
    /\ pc[r] \in {"leaveCold", "leaveWarm", "drop"}
    /\ queue' = queue - 1
    /\ pc' = [pc EXCEPT ![r] = CASE pc[r] = "leaveCold" -> Forward(r)
                                 [] pc[r] = "leaveWarm" -> "passed"
                                 [] pc[r] = "drop"      -> "idle"]
    /\ wait' = [wait EXCEPT ![r] = NotWaiting]
    /\ at' = [at EXCEPT ![r] = DispatchedAt(pc'[r])]
    /\ UNCHANGED <<now, gate, control, admittedAt>>

\* Faulty variant: the tokens are freed but nobody is told.
Freed_Silently == wait

\* broadcastLocked: every request in the select sees its channel closed.
Freed == [q \in Requests |->
             IF pc[q] = "wait" THEN [wait[q] EXCEPT !.woken = TRUE] ELSE wait[q]]

\* The once-only release of a reservation: at the first delta or, failing that,
\* deferred to the return.
release(r) ==
    /\ pc[r] \in {"cold", "ending"}
    /\ inFlight' = inFlight - Min({Estimate[r], inFlight})
    /\ wait' = Freed

\* Faulty variant: the release is not once-only, the return frees again.
FirstDelta_NotOnce(r) ==
    /\ pc[r] = "cold"
    /\ release(r)
    /\ UNCHANGED <<now, seen, lastPrune, tokens, lastRefill, queue, pc, at, control, admittedAt>>

\* The first content delta: prefill has finished.
FirstDelta(r) ==
    /\ pc[r] = "cold"
    /\ Len(bp.samples) < MaxSamples
    /\ release(r)
    /\ pc' = [pc EXCEPT ![r] = IF Attached THEN "measure" ELSE "passed"]
    /\ UNCHANGED <<now, seen, lastPrune, tokens, lastRefill, queue, at, control, admittedAt>>

\* What the window of an observation at this instant has shown so far.
Seen(failure, slowness) ==
    LET old == IF evidence.window = WindowOf(now) THEN evidence
               ELSE [window |-> WindowOf(now), failed |-> FALSE, slow |-> FALSE]
    IN  [old EXCEPT !.failed = @ \/ failure, !.slow = @ \/ slowness]

\* The controller learns of the first delta after the waiters have been woken.
\* The instant of the delta and the controller's own are two readings of the
\* clock, one right after the other; they are one here.
Measure(r) ==
    /\ pc[r] = "measure"
    /\ bp' = ObserveColdTTFT(bp, now, now - at[r])
    /\ evidence' = Seen(FALSE, now - at[r] > Threshold)
    /\ pc' = [pc EXCEPT ![r] = "passed"]
    /\ at' = [at EXCEPT ![r] = 0]
    /\ UNCHANGED <<now, gate, queue, wait, admittedAt>>

\* The controller learns of the response's status, unless next panicked.
ReportStatus ==
    \/ UNCHANGED control
    \/ /\ Attached
       /\ \E failure \in BOOLEAN :
             /\ bp' = ObserveStatus(bp, now, failure)
             /\ evidence' = Seen(failure, FALSE)

\* next.ServeHTTP returns or panics with the reservation held: the status goes
\* to the controller, then the deferred release runs.
ReturnCold(r) ==
    /\ pc[r] = "cold"
    /\ ReportStatus
    /\ pc' = [pc EXCEPT ![r] = "ending"]
    /\ at' = [at EXCEPT ![r] = 0]
    /\ UNCHANGED <<now, gate, queue, wait, admittedAt>>

ReleaseDeferred(r) ==
    /\ pc[r] = "ending"
    /\ release(r)
    /\ pc' = [pc EXCEPT ![r] = "idle"]
    /\ UNCHANGED <<now, seen, lastPrune, tokens, lastRefill, queue, at, control, admittedAt>>

\* next.ServeHTTP returns or panics without one.
ReturnPassed(r) ==
    /\ pc[r] = "passed"
    /\ ReportStatus
    /\ pc' = [pc EXCEPT ![r] = "idle"]
    /\ UNCHANGED <<now, gate, queue, at, wait, admittedAt>>

Tick ==
    /\ now < MaxTime
    /\ now' = now + 1
    /\ UNCHANGED <<gate, queue, pc, at, wait, control, admittedAt>>

ServeHTTP(r) ==
    \/ Arrive(r) \/ AdmitAtOnce(r) \/ Enqueue(r) \/ RefuseFull(r)
    \/ Wake(r) \/ RetryAdmit(r) \/ RetryBlocked(r) \/ GiveUp(r) \/ LeaveQueue(r)
    \/ FirstDelta(r) \/ Measure(r) \/ ReturnCold(r) \/ ReleaseDeferred(r) \/ ReturnPassed(r)

Next == Tick \/ \E r \in Requests : ServeHTTP(r)

Spec == Init /\ [][Next]_vars

-----------------------------------------------------------------------------
(* Properties                                                              *)

Reserved == {r \in Requests : pc[r] \in {"leaveCold", "cold", "ending"}}
Queued   == {r \in Requests : pc[r] \in {"wait", "retry", "leaveCold", "leaveWarm", "drop"}}
Asleep   == {r \in Requests : pc[r] = "wait" /\ ~wait[r].woken}

\* The prefill tokens of the requests in S, each one told apart.
TokensOf(S) == UNION {{r} \X (1..Estimate[r]) : r \in S}

\* The types of the gate's and the controller's fields and of the goroutines'
\* locals.
TypeOK ==
    /\ now \in 0..MaxTime
    /\ DOMAIN seen \subseteq Sessions /\ \A s \in DOMAIN seen : seen[s] \in 0..now
    /\ lastPrune \in Int
    /\ inFlight \in Nat
    /\ tokens \in 0..1
    /\ lastRefill \in Nat
    /\ queue \in 0..QueueCapacity
    /\ pc \in [Requests -> PCs]
    /\ at \in [Requests -> 0..MaxTime]
    /\ wait \in [Requests -> [why : {"", "budget", "rate"}, woken : BOOLEAN, refillAt : Nat,
                             under : Nat]]
    /\ bp \in [budget : Nat, started : BOOLEAN, windowIndex : Nat, samples : Seq(Nat),
               failed : BOOLEAN]

\* tryAdmitLocked's reservation and forwardCold's once-only release pair up on
\* every path, and so do admit's queue slot and its deferred receive: the
\* in-flight tokens are the sum of the reservations really held and the queue
\* is as long as there are requests waiting or on their way out of the wait.
CountersAccounted ==
    /\ inFlight = Cardinality(TokensOf(Reserved))
    /\ queue = Cardinality(Queued)

\* However the controller moves the budget under the reservations held, they
\* exceed coldPrefillBudgetTokens only while a single request, larger than
\* that, has the provider to itself.
BudgetRespected ==
    Ceiling > 0 /\ inFlight > Ceiling
        => \E r \in Reserved : inFlight = Estimate[r]

\* No lost wake-up in admit: a request sleeps in the select only while the
\* reservations held still rule it out under the budget it read (a budget that
\* has grown since is not announced, but some release is then still to come),
\* or with a timer that fires when the next token is due (within two
\* intervals, as the clock was read before the lock).
NoLostWakeup ==
    \A r \in Asleep :
        \/ /\ wait[r].why = "budget"
           /\ Reserved # {} /\ inFlight > 0 /\ inFlight + Estimate[r] > wait[r].under
        \/ wait[r].why = "rate" /\ wait[r].refillAt \in 1..(now + 2 * Interval)

\* The budget the gate admits against never leaves ceiling/16 (at least 1, as 0
\* would switch the check off) .. ceiling, and it moves the right way: at most
\* once per window, up only after a window without a failure, down only after
\* one with a failure or a sample over the threshold.
BudgetFollowsEvidence ==
    [][/\ Attached => bp'.budget \in Floor..Ceiling
       /\ bp'.budget # bp.budget => evidence'.window # evidence.window
       /\ bp'.budget > bp.budget => ~evidence.failed
       /\ bp'.budget < bp.budget => evidence.failed \/ evidence.slow]_vars

\* The comment on pruneLocked: the prune walk never changes an admission
\* decision.  A session is charged as new only when it was not admitted within
\* the window before.
ChargedOncePerWindow ==
    [][\A s \in Sessions :
          /\ s \in DOMAIN admittedAt
          /\ \E r \in Requests : SessionOf[r] = s /\ r \notin Reserved /\ r \in Reserved'
          => now - admittedAt[s] >= Window]_vars

=============================================================================
