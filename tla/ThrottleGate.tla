---------------------------- MODULE ThrottleGate ----------------------------
(***************************************************************************)
(* The per-provider 429 delay gate (pkg/handler/throttle-gate.go).  Once   *)
(* the window holds Threshold observed 429s the gate is on: each request   *)
(* takes one of a bounded number of pacing slots and waits the delay it    *)
(* read on entry.  The delay doubles on every 429 and halves after a clean *)
(* window, until it falls below the recovery floor.                        *)
(*                                                                         *)
(* Delays are in half seconds, so that halving an odd number of seconds is *)
(* exact where it matters; the clock runs in ticks of its own.             *)
(***************************************************************************)
EXTENDS Integers, FiniteSets, Bags, Functions

CONSTANTS
    Requests,    \* client connections, each carrying one request at a time
    Threshold,   \* throttle429Threshold
    Window,      \* throttleObservationWindow, in ticks
    Floor,       \* throttleInitialDelay and throttleRecoveryFloor (both 1s)
    MaxDelay,    \* throttleMaxDelaySeconds
    MaxPaced,    \* throttleMaxPacedRequests
    MaxTime,     \* bound on the clock
    MaxWindow    \* bound on the 429s inside the window

ASSUME ThrottleAssumption ==
    /\ IsFiniteSet(Requests)
    /\ {Threshold, Window, Floor, MaxPaced} \subseteq Nat \ {0}
    /\ MaxDelay \in Nat /\ MaxDelay >= Floor
    /\ {MaxTime, MaxWindow} \subseteq Nat

VARIABLES
    now,       \* the injected clock
    window,    \* observed 429s: the bag of their instants (their order is never used)
    delay,     \* current pacing delay
    on,        \* throttled
    lastHalf,  \* instant of entering throttle or of the last halving
    paced,     \* len(pace): pacing slots taken
    pc,        \* pc[r]: where r's goroutine is
    at,        \* at[r]: the clock value r read for observe
    slot,      \* slot[r]: r holds a pacing slot
    got429,    \* got429[r]: the forwarded response was a 429
    last429    \* history: the latest instant of a 429 observed since the gate went on

detector == <<window, delay, on, lastHalf>>
locals   == <<pc, at, slot, got429>>
vars == <<now, detector, paced, locals, last429>>

\* idle    no request               queue   throttled, waiting for a slot
\* pacing  slot held, delay running forward inside next
\* observe next returned            release deferred receive ahead
PCs == {"idle", "queue", "pacing", "forward", "observe", "release"}

Init ==
    /\ now = 0
    /\ window = EmptyBag
    /\ delay = 0
    /\ on = FALSE
    /\ lastHalf = 0
    /\ paced = 0
    /\ pc = [r \in Requests |-> "idle"]
    /\ at = [r \in Requests |-> 0]
    /\ slot = [r \in Requests |-> FALSE]
    /\ got429 = [r \in Requests |-> FALSE]
    /\ last429 = 0

-----------------------------------------------------------------------------
(* ServeHTTP: the snapshot, the pacing queue and the forward               *)

\* The state read at entry decides: forward at once, or queue for a slot.
Enter(r) ==
    /\ pc[r] = "idle"
    /\ pc' = [pc EXCEPT ![r] = IF on THEN "queue" ELSE "forward"]
    /\ UNCHANGED <<now, detector, paced, at, slot, got429, last429>>

\* The outer select takes a pacing slot.
AcquireSlot(r) ==
    /\ pc[r] = "queue"
    /\ paced < MaxPaced
    /\ paced' = paced + 1
    /\ slot' = [slot EXCEPT ![r] = TRUE]
    /\ pc' = [pc EXCEPT ![r] = "pacing"]
    /\ UNCHANGED <<now, detector, at, got429, last429>>

\* The outer select takes the queue timer (the 429) or the client's disconnect.
LeaveQueue(r) ==
    /\ pc[r] = "queue"
    /\ pc' = [pc EXCEPT ![r] = "idle"]
    /\ UNCHANGED <<now, detector, paced, at, slot, got429, last429>>

\* The inner select takes the delay timer: forward with the slot held.
PacingTurn(r) ==
    /\ pc[r] = "pacing"
    /\ pc' = [pc EXCEPT ![r] = "forward"]
    /\ UNCHANGED <<now, detector, paced, at, slot, got429, last429>>

\* Faulty variant: the slot is only given back after a forward.
PacingGone_KeepsSlot(r) ==
    /\ pc[r] = "pacing"
    /\ pc' = [pc EXCEPT ![r] = "idle"]
    /\ slot' = [slot EXCEPT ![r] = FALSE]
    /\ UNCHANGED <<now, detector, paced, at, got429, last429>>

\* The inner select takes the client's disconnect.
PacingGone(r) ==
    /\ pc[r] = "pacing"
    /\ pc' = [pc EXCEPT ![r] = "release"]
    /\ UNCHANGED <<now, detector, paced, at, slot, got429, last429>>

\* What is left of ServeHTTP once forward has returned.
AfterForward(r) == IF slot[r] THEN "release" ELSE "idle"

\* next.ServeHTTP returns; the status and the clock are read.
Respond(r) ==
    /\ pc[r] = "forward"
    /\ pc' = [pc EXCEPT ![r] = "observe"]
    /\ \E is429 \in BOOLEAN :
          /\ is429 => BagCardinality(window) + Cardinality({q \in Requests : got429[q]}) < MaxWindow
          /\ got429' = [got429 EXCEPT ![r] = is429]
    /\ at' = [at EXCEPT ![r] = now]
    /\ UNCHANGED <<now, detector, paced, slot, last429>>

\* next.ServeHTTP panics: observe is skipped, the deferred receive is not.
Panic(r) ==
    /\ pc[r] = "forward"
    /\ pc' = [pc EXCEPT ![r] = AfterForward(r)]
    /\ UNCHANGED <<now, detector, paced, at, slot, got429, last429>>

\* The deferred receive of a paced request.
ReleaseSlot(r) ==
    /\ pc[r] = "release"
    /\ paced' = paced - 1
    /\ slot' = [slot EXCEPT ![r] = FALSE]
    /\ pc' = [pc EXCEPT ![r] = "idle"]
    /\ UNCHANGED <<now, detector, at, got429, last429>>

-----------------------------------------------------------------------------
(* observe: the detector, under the lock                                   *)

\* pruneWindow: the 429s still inside the window at instant t.
Kept(t) == Restrict(window, {u \in DOMAIN window : t - u < Window})

\* The window after a 429 read the clock at t: pruned, then appended to.
Grown(t) == Kept(t) (+) SetToBag({t})

\* observe has returned: its locals are gone.
Observed(r) ==
    /\ pc[r] = "observe"
    /\ pc' = [pc EXCEPT ![r] = AfterForward(r)]
    /\ at' = [at EXCEPT ![r] = 0]
    /\ got429' = [got429 EXCEPT ![r] = FALSE]
    /\ UNCHANGED <<now, paced, slot>>

\* observe429 below the threshold: the instant is recorded.
Count429(r) ==
    /\ got429[r]
    /\ ~on
    /\ BagCardinality(Grown(at[r])) < Threshold
    /\ window' = Grown(at[r])
    /\ Observed(r)
    /\ UNCHANGED <<delay, on, lastHalf, last429>>

\* observe429 reaches the threshold: enterThrottle.
EnterThrottle(r) ==
    /\ got429[r]
    /\ ~on
    /\ BagCardinality(Grown(at[r])) >= Threshold
    /\ window' = Grown(at[r])
    /\ on' = TRUE
    /\ delay' = Floor
    /\ lastHalf' = at[r]
    /\ last429' = at[r]
    /\ Observed(r)

\* Faulty variant: the doubled delay is not capped.
Doubled_NoCap == 2 * delay

\* increaseDelay.
Doubled == IF 2 * delay > MaxDelay THEN MaxDelay ELSE 2 * delay

\* observe429 while throttled: increaseDelay.
Increase(r) ==
    /\ got429[r]
    /\ on
    /\ window' = Grown(at[r])
    /\ delay' = Doubled
    /\ last429' = IF at[r] > last429 THEN at[r] ELSE last429
    /\ Observed(r)
    /\ UNCHANGED <<on, lastHalf>>

\* Faulty variant: a halving is granted per window, clean or not.
CleanWindow_AnyTraffic(t) == on /\ t - lastHalf >= Window

\* observeClean's condition: a full window without a 429 and without a halving.
CleanWindow(t) == on /\ Kept(t) = EmptyBag /\ t - lastHalf >= Window

\* observeClean before a clean window is complete: only the prune happens.
NoDecrease(r) ==
    /\ ~got429[r]
    /\ ~CleanWindow(at[r])
    /\ window' = Kept(at[r])
    /\ Observed(r)
    /\ UNCHANGED <<delay, on, lastHalf, last429>>

\* observeClean after a clean window: halve, and leave throttle below the floor.
Halve(r) ==
    /\ ~got429[r]
    /\ CleanWindow(at[r])
    /\ window' = Kept(at[r])
    /\ lastHalf' = at[r]
    /\ \/ /\ delay \div 2 >= Floor
          /\ delay' = delay \div 2
          /\ UNCHANGED on
       \/ /\ delay \div 2 < Floor
          /\ delay' = 0
          /\ on' = FALSE
    /\ Observed(r)
    /\ UNCHANGED last429

Tick ==
    /\ now < MaxTime
    /\ now' = now + 1
    /\ UNCHANGED <<detector, paced, locals, last429>>

ServeHTTP(r) ==
    \/ Enter(r) \/ AcquireSlot(r) \/ LeaveQueue(r) \/ PacingTurn(r) \/ PacingGone(r)
    \/ Respond(r) \/ Panic(r) \/ ReleaseSlot(r)
    \/ Count429(r) \/ EnterThrottle(r) \/ Increase(r) \/ NoDecrease(r) \/ Halve(r)

Next == Tick \/ \E r \in Requests : ServeHTTP(r)

Spec == Init /\ [][Next]_vars

-----------------------------------------------------------------------------
(* Properties                                                              *)

\* The types of the gate's fields and of the goroutines' locals.
TypeOK ==
    /\ now \in Nat
    /\ IsABag(window) /\ DOMAIN window \subseteq Nat
    /\ delay \in Nat
    /\ on \in BOOLEAN
    /\ lastHalf \in Nat
    /\ paced \in Nat
    /\ pc \in [Requests -> PCs]
    /\ at \in [Requests -> Nat]
    /\ slot \in [Requests -> BOOLEAN]
    /\ got429 \in [Requests -> BOOLEAN]
    /\ last429 \in Nat

\* Whatever mix of 429s, clean responses and recoveries observe folds in, the
\* delay stays between the floor and throttleMaxDelaySeconds while throttled,
\* and is 0 exactly when the gate is off.
DelayBounds ==
    /\ on => delay \in Floor..MaxDelay
    /\ ~on => delay = 0

\* ServeHTTP gives a pacing slot back on every way out: after a forward, a
\* panic, or a disconnect during the delay.
SlotsAccounted ==
    /\ paced = Cardinality({r \in Requests : slot[r]})
    /\ paced <= MaxPaced
    /\ \A r \in Requests : slot[r] => pc[r] \in {"pacing", "forward", "observe", "release"}

\* observeClean's "after a full 60s window with no 429": the delay comes down
\* only a full window after the latest 429 of this throttling episode, although
\* responses reach observe in another order than they read the clock and prune
\* the window with the instant they read.
RecoversOnlyWhenClean ==
    [][delay' < delay => lastHalf' - last429 >= Window]_vars

=============================================================================
