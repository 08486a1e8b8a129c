------------------------------- MODULE Slots --------------------------------
(***************************************************************************)
(* A counting semaphore with a first-come queue as a value: who holds a    *)
(* slot and who waits for one.  Semaphore makes a specification of it,     *)
(* ConcurrencyLimiter is shown to implement that, and UpstreamPool puts    *)
(* one of these in the place of every limiter.                             *)
(***************************************************************************)
EXTENDS Naturals, FiniteSets, Sequences, SequencesExt

Idle == [holders |-> {}, queue |-> <<>>]

Queued(s) == ToSet(s.queue)

\* A slot is free.  Capacity 0 stands for no limit.
Free(s, capacity) == capacity = 0 \/ Cardinality(s.holders) < capacity

Take(s, u)    == [s EXCEPT !.holders = @ \cup {u}]
Enqueue(s, u) == [s EXCEPT !.queue = Append(@, u)]
Drop(s, i)    == [s EXCEPT !.queue = RemoveAt(@, i)]

\* A slot given back goes straight to whoever has waited longest.
Give(s, u) ==
    IF s.queue = <<>> THEN [s EXCEPT !.holders = @ \ {u}]
    ELSE [holders |-> (s.holders \ {u}) \cup {Head(s.queue)}, queue |-> Tail(s.queue)]

=============================================================================
