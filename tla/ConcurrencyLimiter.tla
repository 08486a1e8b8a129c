------------------------- MODULE ConcurrencyLimiter -------------------------
(***************************************************************************)
(* The semaphore in front of one upstream (pkg/handler/concurrency-        *)
(* limiter.go).  A buffered channel of capacity Cap is the semaphore: a    *)
(* send takes a slot, a receive frees it.  Every request runs in its own   *)
(* goroutine; while it is queued two helper goroutines (the wait timer and *)
(* the re-selection poll) and the client may each end its wait.            *)
(*                                                                         *)
(* Go's channel is modelled as the runtime implements it: len is the       *)
(* number of filled buffer cells, sendq the FIFO of goroutines parked in   *)
(* the select with a pending send.  A receive from a full channel with a   *)
(* parked sender moves that sender's value into the freed cell, so the     *)
(* slot never becomes free in between.  A select that finds several cases  *)
(* ready picks any of them; a parked select is ended by the first event    *)
(* that reaches it.                                                        *)
(***************************************************************************)
EXTENDS Naturals, Sequences, FiniteSets, SequencesExt

CONSTANTS Requests,      \* client connections, each carrying one request at a time
          Cap,           \* maxConcurrentRequests, the capacity of sem
          Reselectable   \* TRUE for a member limiter of a windowed pool

ASSUME LimiterAssumption ==
    /\ IsFiniteSet(Requests)
    /\ Cap \in Nat \ {0}
    /\ Reselectable \in BOOLEAN

VARIABLES
    pc,        \* pc[r]: where r's goroutine is in ServeHTTP
    len,       \* len(sem): slots taken
    sendq,     \* goroutines parked in the select, oldest first
    waiters,   \* the waiters counter behind Queued()
    gone,      \* requests whose client has disconnected (context done)
    expired,   \* requests whose timedOut channel is closed
    stale      \* requests whose stale channel is closed

vars == <<pc, len, sendq, waiters, gone, expired, stale>>

\* idle     no request on this connection
\* full     the first, non-blocking send failed
\* select   counted as a waiter, about to enter the second select
\* parked   blocked in the second select
\* acquired the select took the send: slot held, still counted as a waiter
\* left     a non-send arm was taken, still counted as a waiter
\* serving  inside next.ServeHTTP with a slot
PCs == {"idle", "full", "select", "parked", "acquired", "left", "serving"}

Counted == {"select", "parked", "acquired", "left"}
Holding == {"acquired", "serving"}

Init ==
    /\ pc = [r \in Requests |-> "idle"]
    /\ len = 0
    /\ sendq = <<>>
    /\ waiters = 0
    /\ gone = {}
    /\ expired = {}
    /\ stale = {}

-----------------------------------------------------------------------------
(* The request goroutine                                                   *)

\* Faulty variant: the semaphore is one slot too large.
HasFreeSlot_OffByOne == len <= Cap

\* The buffered channel has an empty cell.
HasFreeSlot == len < Cap

\* The first select: take a free slot without blocking and serve at once.
EnterFree(r) ==
    /\ pc[r] = "idle"
    /\ HasFreeSlot
    /\ len' = len + 1
    /\ pc' = [pc EXCEPT ![r] = "serving"]
    /\ UNCHANGED <<sendq, waiters, gone, expired, stale>>

\* The first select falls to its default case: every slot is taken.
EnterFull(r) ==
    /\ pc[r] = "idle"
    /\ ~HasFreeSlot
    /\ pc' = [pc EXCEPT ![r] = "full"]
    /\ UNCHANGED <<len, sendq, waiters, gone, expired, stale>>

\* waiters.Add(1), then the helper goroutines are started.
StartWaiting(r) ==
    /\ pc[r] = "full"
    /\ waiters' = waiters + 1
    /\ pc' = [pc EXCEPT ![r] = "select"]
    /\ UNCHANGED <<len, sendq, gone, expired, stale>>

\* A case of the second select other than the send is ready.
LeaveReady(r) == r \in gone \cup expired \cup stale

\* The second select finds a free slot on entry and picks the send, even when
\* another case is ready as well.
SelectSlot(r) ==
    /\ pc[r] = "select"
    /\ HasFreeSlot
    /\ len' = len + 1
    /\ pc' = [pc EXCEPT ![r] = "acquired"]
    /\ UNCHANGED <<sendq, waiters, gone, expired, stale>>

\* The second select finds a timeout, a hand-back or a disconnect on entry.
SelectLeave(r) ==
    /\ pc[r] = "select"
    /\ LeaveReady(r)
    /\ pc' = [pc EXCEPT ![r] = "left"]
    /\ UNCHANGED <<len, sendq, waiters, gone, expired, stale>>

\* The second select finds nothing ready and parks on the semaphore.
SelectPark(r) ==
    /\ pc[r] = "select"
    /\ ~HasFreeSlot
    /\ ~LeaveReady(r)
    /\ sendq' = Append(sendq, r)
    /\ pc' = [pc EXCEPT ![r] = "parked"]
    /\ UNCHANGED <<len, waiters, gone, expired, stale>>

\* Faulty variant: the decrement after the send arm is deferred to the return
\* and then forgotten.
StartServing_StillCounted(r) ==
    /\ pc[r] = "acquired"
    /\ pc' = [pc EXCEPT ![r] = "serving"]
    /\ UNCHANGED <<len, sendq, waiters, gone, expired, stale>>

\* After the send arm: waiters.Add(-1) before next.ServeHTTP.
StartServing(r) ==
    /\ pc[r] = "acquired"
    /\ waiters' = waiters - 1
    /\ pc' = [pc EXCEPT ![r] = "serving"]
    /\ UNCHANGED <<len, sendq, gone, expired, stale>>

\* The request is over: its context and its channels are garbage.
Forget(r) ==
    /\ gone' = gone \ {r}
    /\ expired' = expired \ {r}
    /\ stale' = stale \ {r}

\* Faulty variant: the release is deferred before the select, so an arm that
\* took no slot frees one as well.
Leave_FreesSlot(r) ==
    /\ pc[r] = "left"
    /\ waiters' = waiters - 1
    /\ len' = len - 1
    /\ pc' = [pc EXCEPT ![r] = "idle"]
    /\ Forget(r)
    /\ UNCHANGED sendq

\* The tail of the other three arms: waiters.Add(-1), then the 429, the
\* hand-back to the pool or the silent return.
Leave(r) ==
    /\ pc[r] = "left"
    /\ waiters' = waiters - 1
    /\ pc' = [pc EXCEPT ![r] = "idle"]
    /\ Forget(r)
    /\ UNCHANGED <<len, sendq>>

\* Faulty variant: the slot is put back without waking the parked requests
\* (a counter and a condition variable that is never signalled).
Release_NoWakeup(r) ==
    /\ pc[r] = "serving"
    /\ len' = len - 1
    /\ pc' = [pc EXCEPT ![r] = "idle"]
    /\ Forget(r)
    /\ UNCHANGED <<sendq, waiters>>

\* Faulty variant: the freed slot goes to the request that parked last.
NextParked_Newest == Last(sendq)

\* The goroutine a receive wakes: the one that parked first.
NextParked == Head(sendq)

\* next.ServeHTTP returns or panics; the deferred receive frees the slot, or
\* hands it to the longest-parked request.
Release(r) ==
    /\ pc[r] = "serving"
    /\ \/ /\ sendq = <<>>
          /\ len' = len - 1
          /\ pc' = [pc EXCEPT ![r] = "idle"]
          /\ UNCHANGED sendq
       \/ /\ sendq # <<>>
          /\ pc' = [pc EXCEPT ![r] = "idle", ![NextParked] = "acquired"]
          /\ sendq' = Tail(sendq)
          /\ UNCHANGED len
    /\ Forget(r)
    /\ UNCHANGED waiters

-----------------------------------------------------------------------------
(* The goroutines around it.  An event that reaches a parked select ends   *)
(* it; otherwise the closed channel is found when the select is entered.   *)

WakeIfParked(r) ==
    \/ /\ pc[r] = "parked"
       /\ pc' = [pc EXCEPT ![r] = "left"]
       /\ \E i \in 1..Len(sendq) : sendq[i] = r /\ sendq' = RemoveAt(sendq, i)
    \/ /\ pc[r] # "parked"
       /\ UNCHANGED <<pc, sendq>>

\* The wait timer completes: close(timedOut).  waitCtx is cancelled once the
\* select has returned, so this happens only while the request is queued.
WaitElapsed(r) ==
    /\ pc[r] \in {"select", "parked"}
    /\ r \notin expired
    /\ expired' = expired \cup {r}
    /\ WakeIfParked(r)
    /\ UNCHANGED <<len, waiters, gone, stale>>

\* The re-selection poll sees a changed eligible set: close(stale).
PollStale(r) ==
    /\ Reselectable
    /\ pc[r] \in {"select", "parked"}
    /\ r \notin stale
    /\ stale' = stale \cup {r}
    /\ WakeIfParked(r)
    /\ UNCHANGED <<len, waiters, gone, expired>>

\* The client goes away; the request context is done from now on.
Disconnect(r) ==
    /\ pc[r] # "idle"
    /\ r \notin gone
    /\ gone' = gone \cup {r}
    /\ WakeIfParked(r)
    /\ UNCHANGED <<len, waiters, expired, stale>>

-----------------------------------------------------------------------------
\* The steps the Go scheduler owes a goroutine that is not blocked.
Run(r) ==
    \/ StartWaiting(r)
    \/ SelectSlot(r)
    \/ SelectLeave(r)
    \/ SelectPark(r)
    \/ StartServing(r)
    \/ Leave(r)

Next ==
    \E r \in Requests :
        \/ EnterFree(r)
        \/ EnterFull(r)
        \/ Run(r)
        \/ Release(r)
        \/ WaitElapsed(r)
        \/ PollStale(r)
        \/ Disconnect(r)

Spec == Init /\ [][Next]_vars

\* Goroutines are scheduled and every upstream round-trip ends (the proxy
\* transport and the server bound it).  No fairness is assumed of arrivals,
\* disconnects, the wait timer or the re-selection poll.
Fairness == \A r \in Requests : WF_vars(Run(r)) /\ WF_vars(Release(r))

FairSpec == Spec /\ Fairness

-----------------------------------------------------------------------------
(* Properties                                                              *)

At(states) == {r \in Requests : pc[r] \in states}

\* The types of the limiter's fields and of the goroutines' locals.
TypeOK ==
    /\ pc \in [Requests -> PCs]
    /\ len \in Nat
    /\ sendq \in Seq(Requests)
    /\ waiters \in Nat
    /\ gone \subseteq Requests
    /\ expired \subseteq Requests
    /\ stale \subseteq Requests

\* ServeHTTP's acquire and its deferred receive pair up on every path, so
\* InFlight() is exactly the number of requests that hold a slot and the
\* upstream never sees more than maxConcurrentRequests of them.
SlotAccounting ==
    /\ len = Cardinality(At(Holding))
    /\ len <= Cap

\* waiters.Add(1) and the four waiters.Add(-1) pair up on every exit from the
\* queued path, so Queued() is exactly the number of requests still in it.
WaitersAccounting == waiters = Cardinality(At(Counted))

\* The queue holds each parked request once and nothing else: no timeout,
\* hand-back or disconnect leaves a dead entry that could swallow a slot.
QueueIsParked ==
    /\ \A i, j \in 1..Len(sendq) : sendq[i] = sendq[j] => i = j
    /\ \A r \in Requests : pc[r] = "parked" <=> \E i \in 1..Len(sendq) : sendq[i] = r

\* A request waits in the second select of ServeHTTP only while every slot is
\* really held: a freed slot is never left idle next to a waiting request.
NoIdleSlotWhileParked == sendq # <<>> => len = Cap

\* While requests are parked, a slot goes to nobody but the one that parked
\* first: a request that arrives later never overtakes through the first
\* select of ServeHTTP.
NoBarging ==
    [][\A r \in Requests :
          sendq # <<>> /\ pc[r] \notin Holding /\ pc'[r] \in Holding
              => r = Head(sendq)]_vars

\* Every request that enters ServeHTTP leaves it, even when no wait timer ever
\* fires: the FIFO queue alone rules out starvation.
EveryRequestEnds == \A r \in Requests : pc[r] # "idle" ~> pc[r] = "idle"

\* The channel, the parked goroutines and the four arms of the select make a
\* first-come semaphore: each step of ServeHTTP takes, waits for, gives up or
\* gives back a slot as Semaphore allows, or is invisible to it.
Abstract == INSTANCE Semaphore WITH
    Users <- Requests, Capacity <- Cap, sem <- [holders |-> At(Holding), queue |-> sendq]

ImplementsSemaphore == Abstract!Spec

=============================================================================
