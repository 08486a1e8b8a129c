----------------------------- MODULE Semaphore ------------------------------
(***************************************************************************)
(* What a limiter promises: at most Capacity users hold a slot; a user     *)
(* takes a free slot at once and otherwise queues; a slot given back goes  *)
(* to the head of the queue; and a user may leave the queue at any time.   *)
(***************************************************************************)
EXTENDS Slots

CONSTANTS Users, Capacity

VARIABLE sem    \* holders and queue

Init == sem = Idle

Outside(u) == u \notin sem.holders \cup Queued(sem)

Acquire(u) == Outside(u) /\ Free(sem, Capacity) /\ sem' = Take(sem, u)
Wait(u)    == Outside(u) /\ ~Free(sem, Capacity) /\ sem' = Enqueue(sem, u)
Leave(u)   == \E i \in 1..Len(sem.queue) : sem.queue[i] = u /\ sem' = Drop(sem, i)
Release(u) == u \in sem.holders /\ sem' = Give(sem, u)

Next == \E u \in Users : Acquire(u) \/ Wait(u) \/ Leave(u) \/ Release(u)

Spec == Init /\ [][Next]_sem

=============================================================================
