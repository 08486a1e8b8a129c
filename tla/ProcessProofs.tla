---------------------------- MODULE ProcessProofs ---------------------------
(***************************************************************************)
(* Proofs about the two pieces of state that belong to the process and not *)
(* to a request: the reloader's snapshot, for every set of configurations  *)
(* and number of signals, and the trace switch, for every TTL, number of   *)
(* calls and length of the clock.                                          *)
(*                                                                         *)
(* NoMissedReload is not inductive: a swap makes it true only if the file  *)
(* Reload read is still the file the operator signalled for.  LoadedIsFile *)
(* says so for the whole of an attempt; an edit or a further signal in the *)
(* meantime leaves it vacuous, and the second leaves the channel full.     *)
(*                                                                         *)
(* That a timer of the switch runs or has fired, never both, is kept by    *)
(* Enable only because the timer it starts is new: no earlier one has a    *)
(* number beyond the calls so far.                                         *)
(***************************************************************************)
EXTENDS Reloader, TraceState, TLAPS

-----------------------------------------------------------------------------
(* The reloader                                                            *)

\* A signal that was received was taken, is pending, or was dropped.
AttemptsBounded ==
    /\ attempts <= signals
    /\ sighup => attempts < signals

\* Before Notify no signal reaches the router.
UnnotifiedIsFresh ==
    /\ proc = "starting" => loop = "none"
    /\ loop \in {"none", "entered"} => ~notified /\ ~fresh

\* An attempt that no signal and no edit overtook builds the current file.
LoadedIsFile == loop = "build" /\ ~sighup /\ fresh => loaded = file

\* The inductive invariant.
IInv ==
    /\ TypeOK
    /\ AttemptsBounded
    /\ UnnotifiedIsFresh
    /\ LoadedIsFile
    /\ ActiveIsConsistent
    /\ NoMissedReload

\* The initial states satisfy the inductive invariant.
LEMMA InitIInv == Init => IInv
<1> SUFFICES ASSUME Init PROVE IInv
  OBVIOUS
<1> USE ReloaderAssumption DEF Init
<1>1. TypeOK
  <2>1. snap \in [handler : Trees \cup {0}, cfg : Contents \cup {NoConfig}]
    OBVIOUS
  <2>2. builtFrom \in [Trees -> Contents \cup {NoConfig}]
    OBVIOUS
  <2>3. signals \in 0..MaxSignals /\ attempts \in 0..MaxSignals
    OBVIOUS
  <2> QED
    BY <2>1, <2>2, <2>3 DEF TypeOK
<1>2. AttemptsBounded
  BY DEF AttemptsBounded
<1>3. UnnotifiedIsFresh /\ LoadedIsFile /\ NoMissedReload
  BY DEF UnnotifiedIsFresh, LoadedIsFile, NoMissedReload
<1>4. ActiveIsConsistent
  BY DEF ActiveIsConsistent
<1> QED
  BY <1>1, <1>2, <1>3, <1>4 DEF IInv

\* Startup steps and the end of the drain preserve it.
LEMMA MainStep == IInv /\ Main => IInv'
<1> SUFFICES ASSUME IInv, Main PROVE IInv'
  OBVIOUS
<1> USE ReloaderAssumption
    DEF IInv, TypeOK, AttemptsBounded, UnnotifiedIsFresh, LoadedIsFile,
        ActiveIsConsistent, NoMissedReload, Trees, Contents
<1>1. CASE CreateServer
  <2>1. TypeOK'
    BY <1>1 DEF CreateServer, StartLoop
  <2>2. (AttemptsBounded /\ UnnotifiedIsFresh /\ LoadedIsFile)'
    BY <1>1 DEF CreateServer, StartLoop
  <2>3. (ActiveIsConsistent /\ NoMissedReload)'
    BY <1>1 DEF CreateServer, StartLoop
  <2> QED
    BY <2>1, <2>2, <2>3
<1>2. CASE CreateServerFails
  BY <1>2 DEF CreateServerFails
<1>3. CASE Listen
  BY <1>3 DEF Listen
<1>4. CASE Drained
  BY <1>4 DEF Drained
<1> QED
  BY <1>1, <1>2, <1>3, <1>4 DEF Main

\* Edits and signals preserve it.
LEMMA OperatorStep == IInv /\ Operator => IInv'
<1> SUFFICES ASSUME IInv, Operator PROVE IInv'
  OBVIOUS
<1> USE ReloaderAssumption
    DEF IInv, TypeOK, AttemptsBounded, UnnotifiedIsFresh, LoadedIsFile,
        ActiveIsConsistent, NoMissedReload, Trees, Contents
<1>1. ASSUME NEW c \in Contents, Edit(c) PROVE IInv'
  <2>1. TypeOK'
    BY <1>1 DEF Edit, Alive
  <2>2. (AttemptsBounded /\ UnnotifiedIsFresh /\ LoadedIsFile)'
    BY <1>1 DEF Edit, Alive
  <2>3. (ActiveIsConsistent /\ NoMissedReload)'
    BY <1>1 DEF Edit, Alive
  <2> QED
    BY <2>1, <2>2, <2>3
<1>2. CASE Sighup
  <2>1. TypeOK'
    BY <1>2 DEF Sighup, Received, Alive
  <2>2. (AttemptsBounded /\ UnnotifiedIsFresh /\ LoadedIsFile)'
    BY <1>2 DEF Sighup, Received, Alive
  <2>3. (ActiveIsConsistent /\ NoMissedReload)'
    BY <1>2 DEF Sighup, Received, Alive
  <2> QED
    BY <2>1, <2>2, <2>3
<1>3. CASE SighupKills
  BY <1>3 DEF SighupKills, Alive
<1>4. CASE Shutdown
  BY <1>4 DEF Shutdown, Alive
<1> QED
  BY <1>1, <1>2, <1>3, <1>4 DEF Operator

\* Giving an attempt up preserves it, when the attempt was doomed: the file
\* is bad, the loaded config is bad, or the process is stopping.
LEMMA AbandonStep ==
  ASSUME IInv, Alive, loop \in {"load", "build"}, Abandon,
         \/ loop = "load" /\ file \in Unloadable
         \/ loop = "build" /\ (loaded \in Unbuildable \/ stopping)
  PROVE  IInv'
<1> USE ReloaderAssumption
    DEF IInv, TypeOK, AttemptsBounded, UnnotifiedIsFresh, LoadedIsFile,
        ActiveIsConsistent, NoMissedReload, Trees, Contents, Abandon
<1>1. TypeOK'
  OBVIOUS
<1>2. NoMissedReload'
  OBVIOUS
<1> QED
  BY <1>1, <1>2

\* The loop goroutine's steps preserve it.
LEMMA LoopStep == IInv /\ Loop => IInv'
<1> SUFFICES ASSUME IInv, Loop PROVE IInv'
  OBVIOUS
<1>1. CASE LoadFails \/ BuildFails \/ BuildPanics
  BY <1>1, AbandonStep DEF LoadFails, BuildFails, BuildPanics
<1> USE ReloaderAssumption
    DEF IInv, TypeOK, AttemptsBounded, UnnotifiedIsFresh, LoadedIsFile,
        ActiveIsConsistent, NoMissedReload, Trees, Contents
<1>2. CASE Notify
  BY <1>2 DEF Notify
<1>3. CASE TakeSignal
  <2>1. TypeOK'
    <3>1. attempts' \in 0..MaxSignals
      BY <1>3 DEF TakeSignal
    <3>2. sighup' \in BOOLEAN
      BY <1>3 DEF TakeSignal
    <3> QED
      BY <1>3, <3>1, <3>2 DEF TakeSignal
  <2>2. (AttemptsBounded /\ UnnotifiedIsFresh /\ LoadedIsFile)'
    BY <1>3 DEF TakeSignal
  <2>3. (ActiveIsConsistent /\ NoMissedReload)'
    BY <1>3 DEF TakeSignal
  <2> QED
    BY <2>1, <2>2, <2>3
<1>4. CASE Exit
  <2>1. TypeOK'
    BY <1>4, ZenonT(30) DEF Exit
  <2>2. (AttemptsBounded /\ UnnotifiedIsFresh /\ LoadedIsFile)'
    BY <1>4 DEF Exit
  <2>3. (ActiveIsConsistent /\ NoMissedReload)'
    BY <1>4 DEF Exit
  <2> QED
    BY <2>1, <2>2, <2>3
<1>5. CASE Load
  BY <1>5 DEF Load
<1>6. CASE Swap
  <2> DEFINE t == attempts + 1
  <2>1. t \in Trees /\ t # 0
    OBVIOUS
  <2>2. /\ snap' = [handler |-> t, cfg |-> loaded]
        /\ builtFrom' = [builtFrom EXCEPT ![t] = loaded]
        /\ loaded \in Good
    BY <1>6 DEF Swap, Swapped
  <2> HIDE DEF t
  <2>3. ActiveIsConsistent'
    BY <2>1, <2>2
  <2>4. TypeOK'
    BY <1>6, <2>1, <2>2 DEF Swap, Swapped
  <2> QED
    BY <1>6, <2>2, <2>3, <2>4 DEF Swap, Swapped
<1> QED
  BY <1>1, <1>2, <1>3, <1>4, <1>5, <1>6 DEF Loop

\* The inductive invariant holds in every reachable state of the reloader.
THEOREM Invariance == Spec => []IInv
<1>1. IInv /\ [Next]_vars => IInv'
  <2>1. IInv /\ UNCHANGED vars => IInv'
    BY DEF IInv, TypeOK, AttemptsBounded, UnnotifiedIsFresh, LoadedIsFile,
           ActiveIsConsistent, NoMissedReload, vars
  <2> QED
    BY <2>1, MainStep, OperatorStep, LoopStep DEF Next
<1> QED
  BY <1>1, InitIInv, PTL DEF Spec

\* Types of the reloader's state, and no nil config behind a running server.
THEOREM TypeCorrect == Spec => []TypeOK
  BY Invariance, PTL DEF IInv

\* Handler and config swap together, and only good ones: for any sequence of
\* edits, signals, failures and panics.
THEOREM SwapIsSafe == Spec => []ActiveIsConsistent
  BY Invariance, PTL DEF IInv

\* The one-place signal channel loses no edit, however many signals the
\* runtime drops.
THEOREM ReloadNeverMissed == Spec => []NoMissedReload
  BY Invariance, PTL DEF IInv

-----------------------------------------------------------------------------
(* The trace switch                                                        *)

\* The timers that run or have fired were started by the calls so far.
StartedByCalls == armed \cup firing \subseteq 1..enables

\* While tracing is on, the timer of the field is running or its expiry waits
\* for the mutex: something is under way that turns tracing off.  This is the
\* safety part of TracingStops.
ExpiryPending == enabled => timer \in armed \cup firing

\* The inductive invariant of the switch.
TraceIInv ==
    /\ TraceTypeOK
    /\ StartedByCalls
    /\ OneLiveTimer
    /\ ExpiryPending

\* The switch starts off, without a timer.
LEMMA TraceStart == TraceInit => TraceIInv
  <1> SUFFICES ASSUME TraceInit PROVE TraceIInv
    OBVIOUS
  <1>1. 0 \in 0..MaxTime /\ 0 \in 0..MaxEnables
    BY TraceAssumption DEF TraceAssumption
  <1>2. enabled \in BOOLEAN /\ enabledAt \in [Timers -> 0..MaxTime]
    BY <1>1 DEF TraceInit
  <1>3. TraceTypeOK
    BY <1>1, <1>2 DEF TraceInit, TraceTypeOK
  <1>4. StartedByCalls /\ OneLiveTimer /\ ExpiryPending
    BY DEF TraceInit, StartedByCalls, OneLiveTimer, ExpiryPending
  <1> QED
    BY <1>3, <1>4 DEF TraceIInv

\* Enable stops the running timer and starts one that is new.
LEMMA EnableKeeps ==
    ASSUME TraceIInv, Enable
    PROVE  TraceIInv'
  <1> USE DEF TraceIInv, Enable, Bounded
  <1>1. enables \in Nat /\ MaxEnables \in Nat /\ MaxTime \in Nat /\ TTL \in Nat
    BY TraceAssumption DEF TraceAssumption, TraceTypeOK
  <1>2. enables + 1 \in Timers /\ enables + 1 \notin armed \cup firing
    BY <1>1 DEF StartedByCalls, Timers
  <1>3. armed' = {enables + 1}
    BY DEF OneLiveTimer
  <1>4. TraceTypeOK'
    BY <1>1, <1>2, <1>3 DEF TraceTypeOK, Timers
  <1>5. StartedByCalls'
    BY <1>1, <1>3 DEF StartedByCalls
  <1>6. OneLiveTimer' /\ ExpiryPending'
    BY <1>3 DEF OneLiveTimer, ExpiryPending
  <1> QED
    BY <1>4, <1>5, <1>6

\* Disable, called or run by an expiry, leaves no running timer.
LEMMA ClearKeeps ==
    ASSUME TraceIInv, Clear, firing' \subseteq firing
    PROVE  TraceIInv'
  <1>1. armed' = {} /\ enabled' = FALSE /\ timer' = 0
    BY DEF TraceIInv, OneLiveTimer, Clear
  <1>2. TraceTypeOK'
    <2>1. 0 \in 0..MaxEnables
      BY TraceAssumption DEF TraceAssumption
    <2>2. enabled' \in BOOLEAN
      BY <1>1
    <2> QED
      BY <1>1, <2>1, <2>2, Zenon DEF TraceIInv, TraceTypeOK, Clear, Timers
  <1>3. StartedByCalls' /\ OneLiveTimer' /\ ExpiryPending'
    BY <1>1 DEF TraceIInv, StartedByCalls, OneLiveTimer, ExpiryPending, Clear
  <1> QED
    BY <1>2, <1>3 DEF TraceIInv

\* Every step keeps the invariant.
LEMMA TraceStep == TraceIInv /\ [TraceNext]_traceVars => TraceIInv'
  <1> SUFFICES ASSUME TraceIInv, [TraceNext]_traceVars PROVE TraceIInv'
    OBVIOUS
  <1>1. CASE Enable
    BY <1>1, EnableKeeps
  <1>2. CASE Disable
    BY <1>2, ClearKeeps DEF Disable
  <1>3. CASE Tick
    BY <1>3, TraceAssumption
       DEF TraceAssumption, Tick, TraceIInv, TraceTypeOK, StartedByCalls,
           OneLiveTimer, ExpiryPending
  <1>4. ASSUME NEW n \in Timers, Fire(n) PROVE TraceIInv'
    BY <1>4 DEF Fire, TraceIInv, TraceTypeOK, StartedByCalls, OneLiveTimer,
                ExpiryPending
  <1>5. ASSUME NEW n \in Timers, disableForExpiry(n) PROVE TraceIInv'
    BY <1>5, ClearKeeps DEF disableForExpiry
  <1>6. CASE UNCHANGED traceVars
    BY <1>6 DEF traceVars, TraceIInv, TraceTypeOK, StartedByCalls, OneLiveTimer,
                ExpiryPending
  <1> QED
    BY <1>1, <1>2, <1>3, <1>4, <1>5, <1>6 DEF TraceNext

\* The inductive invariant holds throughout.
THEOREM TraceInvariant == TraceSpec => []TraceIInv
  BY TraceStart, TraceStep, PTL DEF TraceSpec

\* The fields keep their types, and a timer that has fired is not running.
THEOREM TraceTypes == TraceSpec => []TraceTypeOK
  <1>1. TraceIInv => TraceTypeOK
    BY DEF TraceIInv
  <1> QED
    BY <1>1, TraceInvariant, PTL

\* No call and no expiry leaves a running timer behind that the field has lost.
THEOREM TraceOneLiveTimer == TraceSpec => []OneLiveTimer
  <1>1. TraceIInv => OneLiveTimer
    BY DEF TraceIInv
  <1> QED
    BY <1>1, TraceInvariant, PTL

\* Tracing is never on without an expiry on its way.
THEOREM TraceExpiryPending == TraceSpec => []ExpiryPending
  <1>1. TraceIInv => ExpiryPending
    BY DEF TraceIInv
  <1> QED
    BY <1>1, TraceInvariant, PTL

=============================================================================
