----------------------------- MODULE TraceState -----------------------------
(***************************************************************************)
(* The process-global trace switch (pkg/handler/trace_state.go): a flag, a *)
(* mutex and a TTL timer that turns the flag off.  A timer that has fired  *)
(* runs disableForExpiry in a goroutine of its own, which may wait for the *)
(* mutex while Enable or Disable run; Stop does not reach it any more.     *)
(* Like the reloader's, its state belongs to the process; the names below  *)
(* let one module extend both.                                             *)
(***************************************************************************)
EXTENDS Naturals, FiniteSets

CONSTANTS TTL,         \* TraceTTLDefault
          MaxEnables,  \* bound on the calls of /enabletrace
          MaxTime      \* bound on the clock

ASSUME TraceAssumption ==
    /\ TTL \in Nat \ {0}
    /\ {MaxEnables, MaxTime} \subseteq Nat

VARIABLES
    now,        \* the clock
    enabled,    \* the atomic flag
    timer,      \* the timer field: number of the timer it holds, 0 for nil
    armed,      \* running timers
    firing,     \* timers whose disableForExpiry waits for the mutex
    enables,    \* calls of Enable so far; the n-th starts timer n
    enabledAt   \* enabledAt[n]: instant of the n-th call

traceVars == <<now, enabled, timer, armed, firing, enables, enabledAt>>

Timers == 1..MaxEnables

TraceInit ==
    /\ now = 0
    /\ enabled = FALSE
    /\ timer = 0
    /\ armed = {}
    /\ firing = {}
    /\ enables = 0
    /\ enabledAt = [n \in Timers |-> 0]

\* The bounds on Enable: a call near the end of the clock would leave its
\* window no time to end.
Bounded == enables < MaxEnables /\ now + TTL <= MaxTime

\* Faulty variant: the prior timer is not stopped.
Enable_NoStop ==
    /\ Bounded
    /\ enables' = enables + 1
    /\ enabled' = TRUE
    /\ timer' = enables + 1
    /\ armed' = armed \cup {enables + 1}
    /\ enabledAt' = [enabledAt EXCEPT ![enables + 1] = now]
    /\ UNCHANGED <<now, firing>>

\* Faulty variant: a second call only cancels the running window.
Enable_NoRestart ==
    /\ Bounded
    /\ enables' = enables + 1
    /\ enabled' = TRUE
    /\ timer' = IF timer = 0 THEN enables + 1 ELSE timer
    /\ armed' = IF timer = 0 THEN {enables + 1} ELSE armed \ {timer}
    /\ enabledAt' = [enabledAt EXCEPT ![enables + 1] = now]
    /\ UNCHANGED <<now, firing>>

\* Enable: stop the prior timer, set the flag, start a fresh window.
Enable ==
    /\ Bounded
    /\ enables' = enables + 1
    /\ enabled' = TRUE
    /\ timer' = enables + 1
    /\ armed' = (armed \ {timer}) \cup {enables + 1}
    /\ enabledAt' = [enabledAt EXCEPT ![enables + 1] = now]
    /\ UNCHANGED <<now, firing>>

\* The body of Disable: stop and clear the timer, clear the flag.
Clear ==
    /\ enabled' = FALSE
    /\ timer' = 0
    /\ armed' = armed \ {timer}
    /\ UNCHANGED <<now, enables, enabledAt>>

\* Disable, called by /disabletrace.
Disable ==
    /\ Clear
    /\ UNCHANGED firing

\* The runtime starts the callback of a timer whose window is over.
Fire(n) ==
    /\ n \in armed
    /\ now >= enabledAt[n] + TTL
    /\ armed' = armed \ {n}
    /\ firing' = firing \cup {n}
    /\ UNCHANGED <<now, enabled, timer, enables, enabledAt>>

\* disableForExpiry gets the mutex.
disableForExpiry(n) ==
    /\ n \in firing
    /\ firing' = firing \ {n}
    /\ Clear

Tick ==
    /\ now < MaxTime
    /\ now' = now + 1
    /\ UNCHANGED <<enabled, timer, armed, firing, enables, enabledAt>>

TraceNext ==
    \/ Enable
    \/ Disable
    \/ Tick
    \/ \E n \in Timers : Fire(n) \/ disableForExpiry(n)

TraceSpec == TraceInit /\ [][TraceNext]_traceVars

\* Time passes, the runtime starts the callbacks of expired timers and
\* schedules their goroutines; nobody has to call the two endpoints.
TraceFairSpec ==
    /\ TraceSpec
    /\ WF_traceVars(Tick)
    /\ \A n \in Timers : WF_traceVars(Fire(n)) /\ WF_traceVars(disableForExpiry(n))

-----------------------------------------------------------------------------
(* Properties                                                              *)

\* The types of the switch's fields; a timer runs or has fired, never both.
TraceTypeOK ==
    /\ now \in 0..MaxTime
    /\ enabled \in BOOLEAN
    /\ timer \in 0..MaxEnables
    /\ armed \subseteq Timers
    /\ firing \subseteq Timers \ armed
    /\ enables \in 0..MaxEnables
    /\ enabledAt \in [Timers -> 0..MaxTime]

\* "Exactly one live timer": Enable and Disable never leave a running timer
\* behind that the timer field has lost, whatever expiries are under way.
OneLiveTimer == armed \subseteq {timer}

\* Tracing never outlives its window: once on it goes off again, without
\* anybody calling /disabletrace.
TracingStops == enabled ~> ~enabled

=============================================================================
