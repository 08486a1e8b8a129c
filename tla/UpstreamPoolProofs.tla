------------------------- MODULE UpstreamPoolProofs -------------------------
(***************************************************************************)
(* Proofs about the upstream pool and the two layers of limiters below it, *)
(* for every number of requests, members and hosts and every limit.        *)
(*                                                                         *)
(* A limiter is accounted for when its holders and its queue agree with    *)
(* where the requests are: Accounted says so of one limiter, whichever     *)
(* layer it is in, and the operations of Slots keep it.  SlotsBalanced is  *)
(* not inductive alone: a request that leaves a queue is gone from it only *)
(* if it stood there once and holds no slot as well, and a slot that is    *)
(* passed on goes to a request that waits at this limiter and not at       *)
(* another.  Which member selection picks does not matter to that; it does *)
(* to NoWaitOnClosed, for which LookInv carries along a request what its   *)
(* two looks at the windows found, and when.                               *)
(***************************************************************************)
EXTENDS UpstreamPool, FiniteSetTheorems, SequenceTheorems, WellFoundedInduction, TLAPS

Limiters == [holders : SUBSET Requests, queue : Seq(Requests)]

\* A limiter s of the given capacity, when the requests of W wait at it and
\* those of I are past it.  A request of W holds a slot once it is passed one,
\* and until then it is queued; the queue is empty unless all slots are held.
Accounted(s, capacity, W, I) ==
    /\ s \in Limiters
    /\ \A i, j \in DOMAIN s.queue : s.queue[i] = s.queue[j] => i = j
    /\ \A i \in DOMAIN s.queue : s.queue[i] \in W /\ s.queue[i] \notin s.holders
    /\ s.holders \subseteq W \cup I
    /\ I \subseteq s.holders
    /\ capacity > 0 => Cardinality(s.holders) <= capacity
    /\ \A u \in W : u \in s.holders \/ \E i \in DOMAIN s.queue : s.queue[i] = u
    /\ s.queue # <<>> => capacity > 0 /\ Cardinality(s.holders) >= capacity

\* Where the requests are that a host's or a member's limiter has to do with.
HostWaiting(k) == {r \in Requests : pc[r] = "hostq" /\ HostOfJob(r) = k}
HostInside(k)  == {r \in Inside : HostOfJob(r) = k}
MemberWaiting(m) == {r \in Requests : pc[r] = "memberq" /\ job[r].choice = m}
MemberInside(m)  ==
    {r \in Requests : pc[r] = "serving" /\ job[r].choice = m /\ Limited(m)}

\* The domains of the variables; and whoever waits for a member waits for one
\* that has a limiter.
Shapes ==
    /\ pc \in [Requests -> PCs]
    /\ job = [r \in Requests |-> job[r]]
    /\ host = [k \in Hosts |-> host[k]]
    /\ mem = [m \in Members |-> mem[m]]
    /\ \A r \in Requests : pc[r] = "memberq" => Limited(job[r].choice)

HostsAccounted ==
    \A k \in Hosts : Accounted(host[k], HostCap(k), HostWaiting(k), HostInside(k))

MembersAccounted ==
    \A m \in Members :
        Accounted(mem[m], Upstreams[m].cap, MemberWaiting(m), MemberInside(m))

IInv == Shapes /\ HostsAccounted /\ MembersAccounted

-----------------------------------------------------------------------------
(* One limiter                                                             *)

\* Removing the i-th entry keeps the others, in order.
LEMMA RemoveAtEntries ==
    ASSUME NEW S, NEW s \in Seq(S), NEW i \in 1..Len(s)
    PROVE  /\ RemoveAt(s, i) \in Seq(S)
           /\ Len(RemoveAt(s, i)) = Len(s) - 1
           /\ \A k \in 1..(Len(s) - 1) :
                 RemoveAt(s, i)[k] = IF k < i THEN s[k] ELSE s[k + 1]
  <1> DEFINE a == SubSeq(s, 1, i - 1)
             b == SubSeq(s, i + 1, Len(s))
  <1>1. /\ a \in Seq(S) /\ Len(a) = i - 1
        /\ \A k \in 1..(i - 1) : a[k] = s[k]
    BY SubSeqProperties
  <1>2. /\ b \in Seq(S) /\ Len(b) = Len(s) - i
        /\ \A k \in 1..(Len(s) - i) : b[k] = s[i + k]
    BY SubSeqProperties
  <1> HIDE DEF a, b
  <1>3. /\ a \o b \in Seq(S)
        /\ Len(a \o b) = Len(a) + Len(b)
        /\ \A k \in 1..(Len(a) + Len(b)) :
              (a \o b)[k] = IF k <= Len(a) THEN a[k] ELSE b[k - Len(a)]
    BY <1>1, <1>2, ConcatProperties
  <1>4. RemoveAt(s, i) = a \o b
    BY DEF RemoveAt, a, b
  <1>5. RemoveAt(s, i) \in Seq(S) /\ Len(RemoveAt(s, i)) = Len(s) - 1
    <2>1. (i - 1) + (Len(s) - i) = Len(s) - 1
      OBVIOUS
    <2> QED
      BY <1>1, <1>2, <1>3, <1>4, <2>1
  <1>6. ASSUME NEW k \in 1..(Len(s) - 1)
        PROVE  RemoveAt(s, i)[k] = IF k < i THEN s[k] ELSE s[k + 1]
    <2>1. CASE k < i
      BY <1>1, <1>2, <1>3, <1>4, <2>1
    <2>2. CASE k >= i
      <3>1. (a \o b)[k] = b[k - Len(a)]
        BY <1>1, <1>2, <1>3, <2>2, SMTT(20)
      <3>2. b[k - Len(a)] = s[i + (k - Len(a))]
        BY <1>1, <1>2, <2>2
      <3>3. i + (k - Len(a)) = k + 1
        BY <1>1
      <3> QED
        BY <1>4, <2>2, <3>1, <3>2, <3>3
    <2> QED
      BY <2>1, <2>2
  <1> QED
    BY <1>5, <1>6

\* The holders of a limiter can be counted.
LEMMA HoldersFinite ==
    ASSUME NEW H \in SUBSET Requests
    PROVE  IsFiniteSet(H) /\ Cardinality(H) \in Nat
  BY PoolAssumption, FS_Subset, FS_CardinalityType DEF PoolAssumption

\* Taking a free slot: one request more is past the limiter.
LEMMA TakeAccounted ==
    ASSUME NEW s, NEW capacity \in Int, NEW W, NEW I, NEW u \in Requests,
           Accounted(s, capacity, W, I), u \notin W, Free(s, capacity)
    PROVE  Accounted(Take(s, u), capacity, W, I \cup {u})
  <1> DEFINE e == Take(s, u)
  <1>1. /\ e \in Limiters
        /\ e.holders = s.holders \cup {u}
        /\ e.queue = s.queue
    BY DEF Accounted, Limiters, Take
  <1>2. s.holders \in SUBSET Requests
    BY DEF Accounted, Limiters
  <1>3. Cardinality(s.holders \cup {u}) <= Cardinality(s.holders) + 1
    BY <1>2, HoldersFinite, FS_AddElement
  <1>4. capacity > 0 => Cardinality(s.holders) < capacity
    BY DEF Free
  <1>5. /\ IsFiniteSet(s.holders \cup {u})
        /\ Cardinality(s.holders) \in Nat /\ Cardinality(s.holders \cup {u}) \in Nat
    <2>1. s.holders \cup {u} \in SUBSET Requests
      BY <1>2
    <2> QED
      BY <1>2, <2>1, HoldersFinite
  <1>6. capacity > 0 => Cardinality(e.holders) <= capacity
    BY <1>1, <1>3, <1>4, <1>5
  <1>7. s.queue = <<>>
    BY <1>4, <1>5 DEF Accounted
  <1> HIDE DEF e
  <1>8. Accounted(e, capacity, W, I \cup {u})
    BY <1>1, <1>6, <1>7 DEF Accounted
  <1> QED
    BY <1>8 DEF e

\* Queueing: one request more waits at the limiter.
LEMMA EnqueueAccounted ==
    ASSUME NEW s, NEW capacity \in Int, NEW W, NEW I, NEW u \in Requests,
           Accounted(s, capacity, W, I), u \notin W, u \notin I,
           capacity >= 0, ~Free(s, capacity)
    PROVE  Accounted(Enqueue(s, u), capacity, W \cup {u}, I)
  <1> DEFINE e == Enqueue(s, u)
  <1>1. /\ e.holders = s.holders
        /\ e.queue = Append(s.queue, u)
        /\ e \in Limiters
    BY DEF Accounted, Limiters, Enqueue
  <1>2. s.queue \in Seq(Requests) /\ Len(s.queue) \in Nat
    BY DEF Accounted, Limiters
  <1>3. /\ DOMAIN s.queue = 1..Len(s.queue)
        /\ DOMAIN e.queue = 1..(Len(s.queue) + 1)
        /\ \A i \in 1..Len(s.queue) : e.queue[i] = s.queue[i]
        /\ e.queue[Len(s.queue) + 1] = u
    BY <1>1, <1>2
  <1> HIDE DEF e
  <1>4. \A i \in DOMAIN s.queue : s.queue[i] # u
    BY DEF Accounted
  <1>5. ASSUME NEW i \in DOMAIN e.queue, NEW j \in DOMAIN e.queue, e.queue[i] = e.queue[j]
        PROVE  i = j
    <2>1. PICK n \in Nat : n = Len(s.queue)
      BY <1>2
    <2>2. i \in 1..n \/ i = n + 1
      BY <1>3, <1>5, <2>1
    <2>3. j \in 1..n \/ j = n + 1
      BY <1>3, <1>5, <2>1
    <2>4. CASE i \in 1..n /\ j \in 1..n
      <3>1. s.queue[i] = s.queue[j] /\ i \in DOMAIN s.queue /\ j \in DOMAIN s.queue
        BY <1>3, <1>5, <2>1, <2>4
      <3> QED
        BY <3>1 DEF Accounted
    <2>5. ASSUME NEW k \in 1..n PROVE e.queue[k] # e.queue[n + 1]
      BY <1>3, <1>4, <2>1, <2>5
    <2> QED
      BY <1>5, <2>2, <2>3, <2>4, <2>5
  <1>6. ASSUME NEW i \in DOMAIN e.queue
        PROVE  e.queue[i] \in W \cup {u} /\ e.queue[i] \notin e.holders
    BY <1>1, <1>2, <1>3, <1>6 DEF Accounted
  <1>7. capacity > 0 /\ Cardinality(e.holders) >= capacity
    <2>1. s.holders \in SUBSET Requests
      BY DEF Accounted, Limiters
    <2>2. Cardinality(s.holders) \in Nat
      BY <2>1, HoldersFinite
    <2> QED
      BY <1>1, <2>2 DEF Free
  <1>8. ASSUME NEW v \in W \cup {u}
        PROVE  v \in e.holders \/ \E i \in DOMAIN e.queue : e.queue[i] = v
    <2>1. CASE v = u
      <3>1. Len(s.queue) + 1 \in DOMAIN e.queue
        BY <1>2, <1>3
      <3> QED
        BY <1>3, <2>1, <3>1
    <2>2. CASE v \in W
      <3>1. DOMAIN s.queue \subseteq DOMAIN e.queue
        BY <1>2, <1>3
      <3> QED
        BY <1>1, <1>3, <2>2, <3>1 DEF Accounted
    <2> QED
      BY <2>1, <2>2
  <1>9. Accounted(e, capacity, W \cup {u}, I)
    BY <1>1, <1>5, <1>6, <1>7, <1>8 DEF Accounted
  <1> QED
    BY <1>9 DEF e

\* A request that was passed a slot goes on: it is not queued any more.
LEMMA GrantAccounted ==
    ASSUME NEW s, NEW capacity \in Int, NEW W, NEW I, NEW u \in Requests,
           Accounted(s, capacity, W, I), u \in s.holders
    PROVE  Accounted(s, capacity, W \ {u}, I \cup {u})
  BY DEF Accounted

\* A queued wait that ends without a slot: the request stood there once only.
LEMMA LeaveAccounted ==
    ASSUME NEW s, NEW capacity \in Int, NEW W, NEW I, NEW u \in Requests,
           Accounted(s, capacity, W, I), u \in Queued(s)
    PROVE  Accounted(Leave(s, u), capacity, W \ {u}, I)
  <1>1. s.queue \in Seq(Requests) /\ Len(s.queue) \in Nat /\ DOMAIN s.queue = 1..Len(s.queue)
    BY DEF Accounted, Limiters
  <1> DEFINE n == CHOOSE i \in DOMAIN s.queue : s.queue[i] = u
             e == Leave(s, u)
  <1>2. n \in 1..Len(s.queue) /\ s.queue[n] = u
    BY <1>1 DEF Queued, ToSet
  <1>3. e = [s EXCEPT !.queue = RemoveAt(s.queue, n)]
    BY DEF Leave, Drop
  <1> HIDE DEF n, e
  <1>4. /\ RemoveAt(s.queue, n) \in Seq(Requests)
        /\ Len(RemoveAt(s.queue, n)) = Len(s.queue) - 1
        /\ \A k \in 1..(Len(s.queue) - 1) :
              RemoveAt(s.queue, n)[k] = IF k < n THEN s.queue[k] ELSE s.queue[k + 1]
    BY <1>1, <1>2, RemoveAtEntries
  <1>5. /\ e \in Limiters
        /\ e.holders = s.holders
        /\ e.queue = RemoveAt(s.queue, n)
    BY <1>3, <1>4 DEF Accounted, Limiters
  <1>6. DOMAIN e.queue = 1..(Len(s.queue) - 1)
    BY <1>1, <1>4, <1>5
  <1> DEFINE old(k) == IF k < n THEN k ELSE k + 1
  <1>7. \A k \in DOMAIN e.queue : /\ old(k) \in DOMAIN s.queue /\ old(k) # n
                                  /\ e.queue[k] = s.queue[old(k)]
    BY <1>1, <1>2, <1>4, <1>5, <1>6, SMTT(20)
  <1>8. \A j, k \in DOMAIN e.queue : old(j) = old(k) => j = k
    BY <1>1, <1>2, <1>6
  <1> HIDE DEF old
  <1>9. ASSUME NEW k \in DOMAIN e.queue
        PROVE  e.queue[k] \in W \ {u} /\ e.queue[k] \notin e.holders
    BY <1>1, <1>2, <1>5, <1>7 DEF Accounted
  <1>10. ASSUME NEW j \in DOMAIN e.queue, NEW k \in DOMAIN e.queue, e.queue[j] = e.queue[k]
         PROVE  j = k
    BY <1>7, <1>8, <1>10 DEF Accounted
  <1>11. u \notin s.holders
    BY <1>1, <1>2 DEF Accounted
  <1>12. ASSUME NEW v \in W \ {u}
         PROVE  v \in e.holders \/ \E k \in DOMAIN e.queue : e.queue[k] = v
    <2>1. CASE v \in s.holders
      BY <1>5, <2>1
    <2>2. CASE v \notin s.holders
      <3>1. PICK i \in DOMAIN s.queue : s.queue[i] = v
        BY <2>2 DEF Accounted
      <3>2. i # n
        BY <1>2, <3>1
      <3>3. CASE i < n
        <4>1. i \in DOMAIN e.queue /\ old(i) = i
          BY <1>1, <1>2, <1>6, <3>3 DEF old
        <4> QED
          BY <1>7, <3>1, <4>1
      <3>4. CASE i > n
        <4>1. i - 1 \in DOMAIN e.queue /\ old(i - 1) = i
          BY <1>1, <1>2, <1>6, <3>4 DEF old
        <4> QED
          BY <1>7, <3>1, <4>1
      <3> QED
        BY <1>1, <1>2, <3>2, <3>3, <3>4
    <2> QED
      BY <2>1, <2>2
  <1>13. s.queue # <<>>
    BY <1>1, <1>2
  <1>14. Accounted(e, capacity, W \ {u}, I)
    BY <1>5, <1>9, <1>10, <1>11, <1>12, <1>13 DEF Accounted
  <1> QED
    BY <1>14 DEF e

\* A slot given back goes to whoever has waited longest, who is not holding one
\* yet; with nobody waiting it is free.
LEMMA GiveAccounted ==
    ASSUME NEW s, NEW capacity \in Int, NEW W, NEW I, NEW u \in Requests,
           Accounted(s, capacity, W, I), u \in I, u \notin W
    PROVE  Accounted(Give(s, u), capacity, W, I \ {u})
  <1> DEFINE e == Give(s, u)
  <1>1. /\ s.holders \in SUBSET Requests /\ u \in s.holders
        /\ s.queue \in Seq(Requests)
        /\ Len(s.queue) \in Nat /\ DOMAIN s.queue = 1..Len(s.queue)
    BY DEF Accounted, Limiters
  <1>2. /\ IsFiniteSet(s.holders) /\ Cardinality(s.holders) \in Nat
        /\ IsFiniteSet(s.holders \ {u}) /\ Cardinality(s.holders \ {u}) \in Nat
        /\ Cardinality(s.holders \ {u}) = Cardinality(s.holders) - 1
    <2>1. s.holders \ {u} \in SUBSET Requests
      BY <1>1
    <2> QED
      BY <1>1, <2>1, HoldersFinite, FS_RemoveElement
  <1>3. CASE s.queue = <<>>
    <2>1. e = [s EXCEPT !.holders = s.holders \ {u}]
      BY <1>3 DEF Give
    <2> HIDE DEF e
    <2>2. /\ e \in Limiters
          /\ e.holders = s.holders \ {u}
          /\ e.queue = s.queue
      BY <2>1 DEF Accounted, Limiters
    <2>3. Cardinality(e.holders) <= Cardinality(s.holders) /\ Cardinality(e.holders) \in Nat
      BY <1>2, <2>2
    <2>4. capacity > 0 => Cardinality(e.holders) <= capacity
      BY <1>2, <2>3 DEF Accounted
    <2>5. Accounted(e, capacity, W, I \ {u})
      BY <1>3, <2>2, <2>4 DEF Accounted
    <2> QED
      BY <2>5 DEF e
  <1>4. CASE s.queue # <<>>
    <2> DEFINE h == Head(s.queue)
    <2>1. e = [holders |-> (s.holders \ {u}) \cup {h}, queue |-> Tail(s.queue)]
      BY <1>4 DEF Give
    <2> HIDE DEF e
    <2>2. /\ 1 \in DOMAIN s.queue /\ h = s.queue[1] /\ h \in Requests
          /\ Tail(s.queue) \in Seq(Requests)
          /\ DOMAIN Tail(s.queue) = 1..(Len(s.queue) - 1)
          /\ \A i \in 1..(Len(s.queue) - 1) : Tail(s.queue)[i] = s.queue[i + 1]
      BY <1>1, <1>4
    <2> HIDE DEF h
    <2>3. /\ e \in Limiters
          /\ e.holders = (s.holders \ {u}) \cup {h}
          /\ e.queue = Tail(s.queue)
      BY <1>1, <2>1, <2>2 DEF Limiters
    <2>4. h \in W /\ h \notin s.holders
      BY <2>2 DEF Accounted
    <2>5. Cardinality(e.holders) = Cardinality(s.holders)
      <3>1. h \notin s.holders \ {u}
        BY <2>4
      <3>2. Cardinality((s.holders \ {u}) \cup {h}) = Cardinality(s.holders \ {u}) + 1
        BY <1>2, <3>1, FS_AddElement
      <3> QED
        BY <1>2, <2>3, <3>2
    <2>6. ASSUME NEW i \in DOMAIN e.queue
          PROVE  /\ i + 1 \in DOMAIN s.queue /\ i + 1 # 1
                 /\ e.queue[i] = s.queue[i + 1]
      BY <1>1, <2>2, <2>3
    <2>7. ASSUME NEW i \in DOMAIN e.queue
          PROVE  e.queue[i] \in W /\ e.queue[i] \notin e.holders
      <3>1. e.queue[i] # h /\ e.queue[i] \in W /\ e.queue[i] \notin s.holders
        BY <2>2, <2>6 DEF Accounted
      <3> QED
        BY <2>3, <3>1
    <2>8. ASSUME NEW i \in DOMAIN e.queue, NEW j \in DOMAIN e.queue, e.queue[i] = e.queue[j]
          PROVE  i = j
      <3>1. i + 1 = j + 1
        BY <2>6, <2>8 DEF Accounted
      <3> QED
        BY <1>1, <2>2, <2>3, <3>1
    <2>9. capacity > 0 => Cardinality(e.holders) <= capacity
      BY <2>5 DEF Accounted
    <2>10. ASSUME NEW v \in W
           PROVE  v \in e.holders \/ \E i \in DOMAIN e.queue : e.queue[i] = v
      <3>1. CASE v \in s.holders \/ v = h
        BY <2>3, <3>1
      <3>2. CASE v \notin s.holders /\ v # h
        <4>1. PICK i \in DOMAIN s.queue : s.queue[i] = v
          BY <3>2 DEF Accounted
        <4>2. i # 1
          BY <2>2, <3>2, <4>1
        <4>3. i - 1 \in DOMAIN e.queue /\ (i - 1) + 1 = i
          BY <1>1, <2>2, <2>3, <4>2
        <4> QED
          BY <2>6, <4>1, <4>3
      <3> QED
        BY <3>1, <3>2
    <2>11. Accounted(e, capacity, W, I \ {u})
      BY <1>1, <1>4, <2>3, <2>4, <2>5, <2>7, <2>8, <2>9, <2>10 DEF Accounted
    <2> QED
      BY <2>11 DEF e
  <1> QED
    BY <1>3, <1>4

-----------------------------------------------------------------------------
(* The steps                                                               *)

\* Where a request has nothing to do with any limiter.
Elsewhere == {"idle", "top", "scan", "select", "loads", "host", "done"}

\* Only the locals of r change.
OnlyJob(r) ==
    /\ job' = [q \in Requests |-> job'[q]]
    /\ \A q \in Requests : q # r => job'[q] = job[q]

\* What Shapes asks of a step of r.
LEMMA ShapesKept ==
    ASSUME Shapes, NEW r \in Requests, NEW x \in PCs, Goto(r, x), OnlyJob(r),
           NEW k, NEW s, host' = host \/ host' = [host EXCEPT ![k] = s],
           NEW m, NEW t, mem' = mem \/ mem' = [mem EXCEPT ![m] = t],
           x = "memberq" => job' = job /\ Limited(job[r].choice)
    PROVE  Shapes'
  <1>1. pc' \in [Requests -> PCs]
    BY DEF Shapes, Goto
  <1>2. host' = [j \in Hosts |-> host'[j]]
    BY DEF Shapes
  <1>3. mem' = [j \in Members |-> mem'[j]]
    BY DEF Shapes
  <1>4. ASSUME NEW q \in Requests, pc'[q] = "memberq"
        PROVE  Limited(job'[q].choice)
    BY <1>4 DEF Shapes, Goto, OnlyJob
  <1> QED
    BY <1>1, <1>2, <1>3, <1>4 DEF Shapes, OnlyJob

\* A request that moves between such places leaves every account as it is.
LEMMA MoveElsewhere ==
    ASSUME IInv, NEW r \in Requests, NEW x \in Elsewhere, pc[r] \in Elsewhere,
           Goto(r, x), OnlyJob(r), UNCHANGED <<host, mem>>
    PROVE  IInv'
  <1>1. Shapes'
    <2>1. x \in PCs /\ x # "memberq"
      BY DEF Elsewhere, PCs
    <2> QED
      BY <2>1, ShapesKept DEF IInv
  <1>2. /\ pc'[r] \in Elsewhere
        /\ \A q \in Requests : q # r => pc'[q] = pc[q] /\ job'[q] = job[q]
    BY DEF IInv, Shapes, Goto, OnlyJob
  <1>3. ASSUME NEW k
        PROVE  HostWaiting(k)' = HostWaiting(k) /\ HostInside(k)' = HostInside(k)
    BY <1>2 DEF HostWaiting, HostInside, Inside, HostOfJob, Elsewhere
  <1>4. ASSUME NEW m
        PROVE  MemberWaiting(m)' = MemberWaiting(m) /\ MemberInside(m)' = MemberInside(m)
    BY <1>2 DEF MemberWaiting, MemberInside, Elsewhere
  <1>5. HostsAccounted'
    <2> SUFFICES ASSUME NEW k \in Hosts
                 PROVE  Accounted(host[k], HostCap(k), HostWaiting(k), HostInside(k))'
      BY DEF HostsAccounted
    <2>1. Accounted(host[k], HostCap(k), HostWaiting(k), HostInside(k))
      BY DEF IInv, HostsAccounted
    <2> QED
      BY <1>3, <2>1 DEF Accounted
  <1>6. MembersAccounted'
    <2> SUFFICES ASSUME NEW m \in Members
                 PROVE  Accounted(mem[m], Upstreams[m].cap, MemberWaiting(m), MemberInside(m))'
      BY DEF MembersAccounted
    <2>1. Accounted(mem[m], Upstreams[m].cap, MemberWaiting(m), MemberInside(m))
      BY DEF IInv, MembersAccounted
    <2> QED
      BY <1>4, <2>1 DEF Accounted
  <1> QED
    BY <1>1, <1>5, <1>6 DEF IInv

\* Selection happens before any limiter is reached.
LEMMA SelectionStep ==
    ASSUME IInv, NEW r \in Requests,
           Arrive(r) \/ Top(r) \/ ScanEligible(r) \/ Select(r) \/ ReadLoad(r)
    PROVE  IInv'
  <1>1. job = [q \in Requests |-> job[q]]
    BY DEF IInv, Shapes
  <1>2. CASE Arrive(r)
    <2>1. OnlyJob(r)
      BY <1>1, <1>2 DEF Arrive, OnlyJob
    <2> QED
      BY <1>2, <2>1, MoveElsewhere DEF Arrive, Elsewhere
  <1>3. CASE Top(r)
    <2>1. OnlyJob(r)
      BY <1>1, <1>3 DEF Top, OnlyJob
    <2> QED
      BY <1>3, <2>1, MoveElsewhere DEF Top, Elsewhere
  <1>4. CASE ScanEligible(r)
    <2>1. OnlyJob(r)
      BY <1>1, <1>4 DEF ScanEligible, OnlyJob
    <2> QED
      BY <1>4, <2>1, MoveElsewhere DEF ScanEligible, Elsewhere
  <1>5. CASE Select(r)
    <2>1. \E e : job' = [job EXCEPT ![r] = e]
      BY <1>5 DEF Select
    <2>2. OnlyJob(r)
      BY <1>1, <2>1 DEF OnlyJob
    <2> QED
      BY <1>5, <2>2, MoveElsewhere DEF Select, Elsewhere
  <1>6. CASE ReadLoad(r)
    <2>1. \E e : job' = [job EXCEPT ![r] = e]
      BY <1>6 DEF ReadLoad
    <2>2. OnlyJob(r)
      BY <1>1, <2>1 DEF OnlyJob
    <2>3. Goto(r, "loads") \/ Goto(r, "host")
      BY <1>6 DEF ReadLoad, Goto, IInv, Shapes
    <2> QED
      BY <1>6, <2>2, <2>3, MoveElsewhere DEF ReadLoad, Elsewhere
  <1> QED
    BY <1>2, <1>3, <1>4, <1>5, <1>6

\* A step of r at the limiter of its host keeps the hosts accounted for, once
\* it does so for this one.
LEMMA AtHost ==
    ASSUME IInv, NEW r \in Requests, NEW x \in PCs, NEW h, h = HostOfJob(r), NEW s,
           Goto(r, x), OnlyJob(r), job' = job \/ x \in Elsewhere,
           host' = [host EXCEPT ![h] = s],
           h \in Hosts => Accounted(s, HostCap(h), HostWaiting(h)', HostInside(h)')
    PROVE  HostsAccounted'
  <1> SUFFICES ASSUME NEW k \in Hosts
               PROVE  Accounted(host[k], HostCap(k), HostWaiting(k), HostInside(k))'
    BY DEF HostsAccounted
  <1>1. CASE k = h
    <2>1. host'[k] = s
      BY <1>1 DEF IInv, Shapes
    <2> QED
      BY <1>1, <2>1 DEF Accounted
  <1>2. CASE k # h
    <2>1. host'[k] = host[k]
      BY <1>2 DEF IInv, Shapes
    <2>2. /\ \A q \in Requests : q # r => pc'[q] = pc[q] /\ job'[q] = job[q]
          /\ pc'[r] = x
      BY DEF IInv, Shapes, Goto, OnlyJob
    <2>3. HostWaiting(k)' = HostWaiting(k) /\ HostInside(k)' = HostInside(k)
      BY <1>2, <2>2 DEF HostWaiting, HostInside, Inside, HostOfJob, Elsewhere
    <2>4. Accounted(host[k], HostCap(k), HostWaiting(k), HostInside(k))
      BY DEF IInv, HostsAccounted
    <2> QED
      BY <2>1, <2>3, <2>4 DEF Accounted
  <1> QED
    BY <1>1, <1>2

\* The same for the limiter of its member.
LEMMA AtMember ==
    ASSUME IInv, NEW r \in Requests, NEW x \in PCs, NEW n, n = job[r].choice, NEW s,
           Goto(r, x), job' = job,
           mem' = [mem EXCEPT ![n] = s],
           n \in Members => Accounted(s, Upstreams[n].cap, MemberWaiting(n)', MemberInside(n)')
    PROVE  MembersAccounted'
  <1> SUFFICES ASSUME NEW m \in Members
               PROVE  Accounted(mem[m], Upstreams[m].cap, MemberWaiting(m), MemberInside(m))'
    BY DEF MembersAccounted
  <1>1. CASE m = n
    <2>1. mem'[m] = s
      BY <1>1 DEF IInv, Shapes
    <2> QED
      BY <1>1, <2>1 DEF Accounted
  <1>2. CASE m # n
    <2>1. mem'[m] = mem[m]
      BY <1>2 DEF IInv, Shapes
    <2>2. \A q \in Requests : q # r => pc'[q] = pc[q]
      BY DEF IInv, Shapes, Goto
    <2>3. MemberWaiting(m)' = MemberWaiting(m) /\ MemberInside(m)' = MemberInside(m)
      BY <1>2, <2>2 DEF MemberWaiting, MemberInside
    <2>4. Accounted(mem[m], Upstreams[m].cap, MemberWaiting(m), MemberInside(m))
      BY DEF IInv, MembersAccounted
    <2> QED
      BY <2>1, <2>3, <2>4 DEF Accounted
  <1> QED
    BY <1>1, <1>2

\* A step at a host's limiter leaves the members' accounts as they are.
LEMMA MembersKept ==
    ASSUME IInv, NEW r \in Requests, NEW x \in PCs, Goto(r, x), OnlyJob(r),
           {x, pc[r]} \cap {"memberq", "serving"} = {}, UNCHANGED mem
    PROVE  MembersAccounted'
  <1> SUFFICES ASSUME NEW m \in Members
               PROVE  Accounted(mem[m], Upstreams[m].cap, MemberWaiting(m), MemberInside(m))'
    BY DEF MembersAccounted
  <1>1. /\ \A q \in Requests : q # r => pc'[q] = pc[q] /\ job'[q] = job[q]
        /\ pc'[r] = x
    BY DEF IInv, Shapes, Goto, OnlyJob
  <1>2. MemberWaiting(m)' = MemberWaiting(m) /\ MemberInside(m)' = MemberInside(m)
    BY <1>1 DEF MemberWaiting, MemberInside
  <1>3. Accounted(mem[m], Upstreams[m].cap, MemberWaiting(m), MemberInside(m))
    BY DEF IInv, MembersAccounted
  <1> QED
    BY <1>2, <1>3 DEF Accounted

\* A request at or past its member's limiter is inside its host all along.
LEMMA HostsKept ==
    ASSUME IInv, NEW r \in Requests, r \in Inside,
           NEW x \in {"memberq", "serving", "leaving", "bounced"},
           Goto(r, x), UNCHANGED <<job, host>>
    PROVE  HostsAccounted'
  <1> SUFFICES ASSUME NEW k \in Hosts
               PROVE  Accounted(host[k], HostCap(k), HostWaiting(k), HostInside(k))'
    BY DEF HostsAccounted
  <1>1. /\ \A q \in Requests : q # r => pc'[q] = pc[q]
        /\ pc'[r] = x
    BY DEF IInv, Shapes, Goto
  <1>2. HostWaiting(k)' = HostWaiting(k) /\ HostInside(k)' = HostInside(k)
    BY <1>1 DEF HostWaiting, HostInside, Inside, HostOfJob
  <1>3. Accounted(host[k], HostCap(k), HostWaiting(k), HostInside(k))
    BY DEF IInv, HostsAccounted
  <1> QED
    BY <1>2, <1>3 DEF Accounted

\* Both limits are numbers.
LEMMA Capacities ==
    /\ \A k : HostCap(k) \in Int /\ HostCap(k) >= 0
    /\ \A m \in Members : Upstreams[m].cap \in Int
  BY PoolAssumption DEF PoolAssumption, HostCap

\* At the host's limiter: a slot is taken at once, or the request queues.
LEMMA EnterHostStep ==
    ASSUME IInv, NEW r \in Requests, EnterHost(r)
    PROVE  IInv'
  <1>1. PICK h : h = HostOfJob(r)
    OBVIOUS
  <1>2. OnlyJob(r) /\ job' = job /\ mem' = mem /\ pc[r] = "host"
    BY DEF EnterHost, OnlyJob, IInv, Shapes
  <1>3. h \in Hosts => /\ Accounted(host[h], HostCap(h), HostWaiting(h), HostInside(h))
                       /\ r \notin HostWaiting(h) /\ r \notin HostInside(h)
    BY <1>2 DEF IInv, HostsAccounted, HostWaiting, HostInside, Inside
  <1>4. HostCap(h) \in Int /\ HostCap(h) >= 0
    BY Capacities
  <1>5. CASE Free(host[h], HostCap(h))
    <2>1. host' = [host EXCEPT ![h] = Take(host[h], r)] /\ Goto(r, "member")
      BY <1>1, <1>5 DEF EnterHost
    <2>2. HostWaiting(h)' = HostWaiting(h) /\ HostInside(h)' = HostInside(h) \cup {r}
      BY <1>1, <1>2, <2>1
         DEF IInv, Shapes, Goto, HostWaiting, HostInside, Inside, HostOfJob
    <2>3. h \in Hosts =>
            Accounted(Take(host[h], r), HostCap(h), HostWaiting(h), HostInside(h) \cup {r})
      BY <1>3, <1>4, <1>5, TakeAccounted
    <2>4. HostsAccounted'
      BY <1>1, <1>2, <2>1, <2>2, <2>3, AtHost DEF PCs
    <2>5. MembersAccounted'
      BY <1>2, <2>1, MembersKept DEF PCs
    <2>6. Shapes'
      BY <1>2, <2>1, ShapesKept DEF IInv, PCs
    <2> QED
      BY <2>4, <2>5, <2>6 DEF IInv
  <1>6. CASE ~Free(host[h], HostCap(h))
    <2>1. host' = [host EXCEPT ![h] = Enqueue(host[h], r)] /\ Goto(r, "hostq")
      BY <1>1, <1>6 DEF EnterHost
    <2>2. HostWaiting(h)' = HostWaiting(h) \cup {r} /\ HostInside(h)' = HostInside(h)
      BY <1>1, <1>2, <2>1
         DEF IInv, Shapes, Goto, HostWaiting, HostInside, Inside, HostOfJob
    <2>3. h \in Hosts =>
            Accounted(Enqueue(host[h], r), HostCap(h), HostWaiting(h) \cup {r}, HostInside(h))
      BY <1>3, <1>4, <1>6, EnqueueAccounted
    <2>4. HostsAccounted'
      BY <1>1, <1>2, <2>1, <2>2, <2>3, AtHost DEF PCs
    <2>5. MembersAccounted'
      BY <1>2, <2>1, MembersKept DEF PCs
    <2>6. Shapes'
      BY <1>2, <2>1, ShapesKept DEF IInv, PCs
    <2> QED
      BY <2>4, <2>5, <2>6 DEF IInv
  <1> QED
    BY <1>5, <1>6

\* A slot that was passed on is noticed, or the wait for one ends without it.
LEMMA HostQueueStep ==
    ASSUME IInv, NEW r \in Requests, HostGranted(r) \/ LeaveHostQueue(r)
    PROVE  IInv'
  <1>1. PICK h : h = HostOfJob(r)
    OBVIOUS
  <1>2. OnlyJob(r) /\ mem' = mem /\ pc[r] = "hostq"
    BY DEF HostGranted, LeaveHostQueue, OnlyJob, IInv, Shapes
  <1>3. h \in Hosts => Accounted(host[h], HostCap(h), HostWaiting(h), HostInside(h))
    BY DEF IInv, HostsAccounted
  <1>4. HostCap(h) \in Int
    BY Capacities
  <1>5. CASE HostGranted(r)
    <2>1. /\ host' = host /\ job' = job /\ Goto(r, "member")
          /\ r \in host[h].holders
      BY <1>1, <1>5 DEF HostGranted
    <2>2. HostWaiting(h)' = HostWaiting(h) \ {r} /\ HostInside(h)' = HostInside(h) \cup {r}
      BY <1>1, <1>2, <2>1
         DEF IInv, Shapes, Goto, HostWaiting, HostInside, Inside, HostOfJob
    <2>3. h \in Hosts =>
            Accounted(host[h], HostCap(h), HostWaiting(h) \ {r}, HostInside(h) \cup {r})
      BY <1>3, <1>4, <2>1, GrantAccounted
    <2>4. host' = [host EXCEPT ![h] = host[h]]
      BY <2>1 DEF IInv, Shapes
    <2>5. HostsAccounted'
      <3>1. job' = job /\ Goto(r, "member") /\ "member" \in PCs
        BY <2>1 DEF PCs
      <3>2. h \in Hosts => Accounted(host[h], HostCap(h), HostWaiting(h)', HostInside(h)')
        BY <2>2, <2>3
      <3> QED
        BY <1>1, <1>2, <2>4, <3>1, <3>2, AtHost
    <2>6. MembersAccounted'
      BY <1>2, <2>1, MembersKept DEF PCs
    <2>7. Shapes'
      BY <1>2, <2>1, ShapesKept DEF IInv, PCs
    <2> QED
      BY <2>5, <2>6, <2>7 DEF IInv
  <1>6. CASE LeaveHostQueue(r)
    <2>1. /\ host' = [host EXCEPT ![h] = Leave(host[h], r)]
          /\ Goto(r, "done")
          /\ r \in Queued(host[h])
      BY <1>1, <1>6 DEF LeaveHostQueue
    <2>2. HostWaiting(h)' = HostWaiting(h) \ {r} /\ HostInside(h)' = HostInside(h)
      <3>1. /\ pc'[r] = "done"
            /\ \A q \in Requests : q # r => pc'[q] = pc[q] /\ job'[q] = job[q]
        BY <1>2, <2>1 DEF IInv, Shapes, Goto, OnlyJob
      <3> QED
        BY <1>2, <3>1 DEF HostWaiting, HostInside, Inside, HostOfJob
    <2>3. h \in Hosts =>
            Accounted(Leave(host[h], r), HostCap(h), HostWaiting(h) \ {r}, HostInside(h))
      BY <1>3, <1>4, <2>1, LeaveAccounted
    <2>4. HostsAccounted'
      BY <1>1, <1>2, <2>1, <2>2, <2>3, AtHost DEF PCs, Elsewhere
    <2>5. MembersAccounted'
      BY <1>2, <2>1, MembersKept DEF PCs
    <2>6. Shapes'
      BY <1>2, <2>1, ShapesKept DEF IInv, PCs
    <2> QED
      BY <2>4, <2>5, <2>6 DEF IInv
  <1> QED
    BY <1>5, <1>6

\* The host's slot is given back, by a request that is over and by one that
\* will be selected again.
LEMMA UnwindStep ==
    ASSUME IInv, NEW r \in Requests, Unwind(r)
    PROVE  IInv'
  <1>1. PICK h : h = HostOfJob(r)
    OBVIOUS
  <1>2. /\ OnlyJob(r) /\ mem' = mem /\ pc[r] \in {"leaving", "bounced"}
        /\ host' = [host EXCEPT ![h] = Give(host[h], r)]
    BY <1>1 DEF Unwind, HostAfter, OnlyJob, IInv, Shapes
  <1>3. PICK x \in {"done", "top"} : Goto(r, x)
    BY DEF Unwind
  <1>4. /\ r \notin HostWaiting(h) /\ r \in HostInside(h)
        /\ h \in Hosts => Accounted(host[h], HostCap(h), HostWaiting(h), HostInside(h))
    BY <1>1, <1>2 DEF IInv, HostsAccounted, HostWaiting, HostInside, Inside
  <1>5. HostCap(h) \in Int
    BY Capacities
  <1>6. HostWaiting(h)' = HostWaiting(h) /\ HostInside(h)' = HostInside(h) \ {r}
    <2>1. /\ pc'[r] = x
          /\ \A q \in Requests : q # r => pc'[q] = pc[q] /\ job'[q] = job[q]
      BY <1>2, <1>3 DEF IInv, Shapes, Goto, OnlyJob
    <2> QED
      BY <1>2, <2>1 DEF HostWaiting, HostInside, Inside, HostOfJob
  <1>7. h \in Hosts =>
          Accounted(Give(host[h], r), HostCap(h), HostWaiting(h), HostInside(h) \ {r})
    BY <1>4, <1>5, GiveAccounted
  <1>8. HostsAccounted'
    BY <1>1, <1>2, <1>3, <1>6, <1>7, AtHost, ZenonT(40) DEF PCs, Elsewhere
  <1>9. MembersAccounted'
    BY <1>2, <1>3, MembersKept DEF PCs
  <1>10. Shapes'
    BY <1>2, <1>3, ShapesKept DEF IInv, PCs
  <1> QED
    BY <1>8, <1>9, <1>10 DEF IInv

\* What a step at the limiter of its member leaves to show.
LEMMA MemberStep ==
    ASSUME IInv, NEW r \in Requests, r \in Inside,
           NEW x \in {"memberq", "serving", "leaving", "bounced"}, Goto(r, x),
           NEW n, n = job[r].choice, NEW s, mem' = [mem EXCEPT ![n] = s],
           UNCHANGED <<job, host>>, x = "memberq" => Limited(n),
           n \in Members => Accounted(s, Upstreams[n].cap, MemberWaiting(n)', MemberInside(n)')
    PROVE  IInv'
  <1>1. OnlyJob(r) /\ x \in PCs
    BY DEF OnlyJob, IInv, Shapes, PCs
  <1>2. HostsAccounted'
    BY HostsKept
  <1>3. MembersAccounted'
    BY <1>1, AtMember
  <1>4. Shapes'
    <2>1. x = "memberq" => job' = job /\ Limited(job[r].choice)
      OBVIOUS
    <2> QED
      BY <1>1, <2>1, ShapesKept DEF IInv
  <1> QED
    BY <1>2, <1>3, <1>4 DEF IInv

\* At the member's limiter: no limiter at all, a free slot, or the queue.
LEMMA EnterMemberStep ==
    ASSUME IInv, NEW r \in Requests, EnterMember(r)
    PROVE  IInv'
  <1>1. PICK n : n = job[r].choice
    OBVIOUS
  <1>2. UNCHANGED <<job, host>> /\ pc[r] = "member" /\ r \in Inside
    BY DEF EnterMember, Inside
  <1>3. n \in Members =>
          /\ Accounted(mem[n], Upstreams[n].cap, MemberWaiting(n), MemberInside(n))
          /\ Upstreams[n].cap \in Int
          /\ r \notin MemberWaiting(n) /\ r \notin MemberInside(n)
    BY <1>2, Capacities DEF IInv, MembersAccounted, MemberWaiting, MemberInside
  <1>4. CASE ~Limited(n)
    <2>1. mem' = mem /\ Goto(r, "serving")
      BY <1>1, <1>4 DEF EnterMember
    <2>2. MemberWaiting(n)' = MemberWaiting(n) /\ MemberInside(n)' = MemberInside(n)
      BY <1>2, <1>4, <2>1 DEF IInv, Shapes, Goto, MemberWaiting, MemberInside
    <2>3. mem' = [mem EXCEPT ![n] = mem[n]]
      BY <2>1 DEF IInv, Shapes
    <2>4. n \in Members => Accounted(mem[n], Upstreams[n].cap, MemberWaiting(n)', MemberInside(n)')
      BY <1>3, <2>2
    <2>5. Goto(r, "serving")
      BY <2>1
    <2> QED
      BY <1>1, <1>2, <2>3, <2>4, <2>5, MemberStep
  <1>5. CASE Limited(n) /\ Free(mem[n], Upstreams[n].cap)
    <2>1. mem' = [mem EXCEPT ![n] = Take(mem[n], r)] /\ Goto(r, "serving")
      BY <1>1, <1>5 DEF EnterMember
    <2>2. MemberWaiting(n)' = MemberWaiting(n) /\ MemberInside(n)' = MemberInside(n) \cup {r}
      BY <1>1, <1>2, <1>5, <2>1 DEF IInv, Shapes, Goto, MemberWaiting, MemberInside
    <2>3. n \in Members =>
            Accounted(Take(mem[n], r), Upstreams[n].cap, MemberWaiting(n), MemberInside(n) \cup {r})
      BY <1>3, <1>5, TakeAccounted
    <2>4. n \in Members =>
            Accounted(Take(mem[n], r), Upstreams[n].cap, MemberWaiting(n)', MemberInside(n)')
      BY <2>2, <2>3
    <2> QED
      BY <1>1, <1>2, <2>1, <2>4, MemberStep
  <1>6. CASE Limited(n) /\ ~Free(mem[n], Upstreams[n].cap)
    <2>1. mem' = [mem EXCEPT ![n] = Enqueue(mem[n], r)] /\ Goto(r, "memberq")
      BY <1>1, <1>6 DEF EnterMember
    <2>2. MemberWaiting(n)' = MemberWaiting(n) \cup {r} /\ MemberInside(n)' = MemberInside(n)
      BY <1>1, <1>2, <2>1 DEF IInv, Shapes, Goto, MemberWaiting, MemberInside
    <2>3. n \in Members =>
            Accounted(Enqueue(mem[n], r), Upstreams[n].cap,
                      MemberWaiting(n) \cup {r}, MemberInside(n))
      <3>1. n \in Members => Upstreams[n].cap >= 0
        BY <1>3, <1>6 DEF Limited
      <3> QED
        BY <1>3, <1>6, <3>1, EnqueueAccounted
    <2>4. n \in Members =>
            Accounted(Enqueue(mem[n], r), Upstreams[n].cap, MemberWaiting(n)', MemberInside(n)')
      BY <2>2, <2>3
    <2> QED
      BY <1>1, <1>2, <1>6, <2>1, <2>4, MemberStep
  <1> QED
    BY <1>4, <1>5, <1>6

\* In the member's queue: a slot is passed on, or the wait ends with a timeout,
\* a disconnect or the hand-back.
LEMMA MemberQueueStep ==
    ASSUME IInv, NEW r \in Requests, MemberGranted(r) \/ LeaveMemberQueue(r) \/ Poll(r)
    PROVE  IInv'
  <1>1. PICK n : n = job[r].choice
    OBVIOUS
  <1>2. UNCHANGED <<job, host>> /\ pc[r] = "memberq" /\ r \in Inside
    BY DEF MemberGranted, LeaveMemberQueue, Poll, Inside
  <1>3. n \in Members =>
          /\ Accounted(mem[n], Upstreams[n].cap, MemberWaiting(n), MemberInside(n))
          /\ Upstreams[n].cap \in Int
    BY Capacities DEF IInv, MembersAccounted
  <1>4. CASE MemberGranted(r)
    <2>1. mem' = mem /\ Goto(r, "serving") /\ r \in mem[n].holders
      BY <1>1, <1>4 DEF MemberGranted
    <2>2. Limited(n)
      BY <1>1, <1>2 DEF IInv, Shapes
    <2>3. /\ MemberWaiting(n)' = MemberWaiting(n) \ {r}
          /\ MemberInside(n)' = MemberInside(n) \cup {r}
      BY <1>1, <1>2, <2>1, <2>2 DEF IInv, Shapes, Goto, MemberWaiting, MemberInside
    <2>4. mem' = [mem EXCEPT ![n] = mem[n]]
      BY <2>1 DEF IInv, Shapes
    <2>5. n \in Members =>
            Accounted(mem[n], Upstreams[n].cap, MemberWaiting(n) \ {r}, MemberInside(n) \cup {r})
      BY <1>3, <2>1, GrantAccounted
    <2>6. n \in Members =>
            Accounted(mem[n], Upstreams[n].cap, MemberWaiting(n)', MemberInside(n)')
      BY <2>3, <2>5
    <2>7. Goto(r, "serving")
      BY <2>1
    <2> QED
      BY <1>1, <1>2, <2>4, <2>6, <2>7, MemberStep
  <1>5. CASE LeaveMemberQueue(r) \/ Poll(r)
    <2>1. PICK x \in {"leaving", "bounced"} : Goto(r, x)
      BY <1>5 DEF LeaveMemberQueue, Poll
    <2>2. mem' = [mem EXCEPT ![n] = Leave(mem[n], r)] /\ r \in Queued(mem[n])
      BY <1>1, <1>5 DEF LeaveMemberQueue, Poll
    <2>3. MemberWaiting(n)' = MemberWaiting(n) \ {r} /\ MemberInside(n)' = MemberInside(n)
      BY <1>1, <1>2, <2>1 DEF IInv, Shapes, Goto, MemberWaiting, MemberInside
    <2>4. n \in Members =>
            Accounted(Leave(mem[n], r), Upstreams[n].cap, MemberWaiting(n) \ {r}, MemberInside(n))
      BY <1>3, <2>2, LeaveAccounted
    <2>5. n \in Members =>
            Accounted(Leave(mem[n], r), Upstreams[n].cap, MemberWaiting(n)', MemberInside(n)')
      BY <2>3, <2>4
    <2> QED
      BY <1>1, <1>2, <2>1, <2>2, <2>5, MemberStep
  <1> QED
    BY <1>4, <1>5

\* The response is over: a member with a limiter gets its slot back.
LEMMA FinishStep ==
    ASSUME IInv, NEW r \in Requests, Finish(r)
    PROVE  IInv'
  <1>1. PICK n : n = job[r].choice
    OBVIOUS
  <1>2. /\ UNCHANGED <<job, host>> /\ pc[r] = "serving" /\ r \in Inside
        /\ Goto(r, "leaving")
    BY DEF Finish, Inside
  <1>3. n \in Members =>
          /\ Accounted(mem[n], Upstreams[n].cap, MemberWaiting(n), MemberInside(n))
          /\ Upstreams[n].cap \in Int
    BY Capacities DEF IInv, MembersAccounted
  <1>4. CASE Limited(n)
    <2>1. mem' = [mem EXCEPT ![n] = Give(mem[n], r)]
      BY <1>1, <1>4 DEF Finish, MemberAfter
    <2>2. r \in MemberInside(n) /\ r \notin MemberWaiting(n)
      BY <1>1, <1>2, <1>4 DEF MemberInside, MemberWaiting
    <2>3. MemberWaiting(n)' = MemberWaiting(n) /\ MemberInside(n)' = MemberInside(n) \ {r}
      BY <1>1, <1>2 DEF IInv, Shapes, Goto, MemberWaiting, MemberInside
    <2>4. n \in Members =>
            Accounted(Give(mem[n], r), Upstreams[n].cap, MemberWaiting(n), MemberInside(n) \ {r})
      BY <1>3, <2>2, GiveAccounted
    <2>5. n \in Members =>
            Accounted(Give(mem[n], r), Upstreams[n].cap, MemberWaiting(n)', MemberInside(n)')
      BY <2>3, <2>4
    <2> QED
      BY <1>1, <1>2, <2>1, <2>5, MemberStep
  <1>5. CASE ~Limited(n)
    <2>1. mem' = [mem EXCEPT ![n] = mem[n]]
      BY <1>1, <1>5 DEF Finish
    <2>2. MemberWaiting(n)' = MemberWaiting(n) /\ MemberInside(n)' = MemberInside(n)
      BY <1>1, <1>2, <1>5 DEF IInv, Shapes, Goto, MemberWaiting, MemberInside
    <2>3. n \in Members => Accounted(mem[n], Upstreams[n].cap, MemberWaiting(n)', MemberInside(n)')
      BY <1>3, <2>2
    <2> QED
      BY <1>1, <1>2, <2>1, <2>3, MemberStep
  <1> QED
    BY <1>4, <1>5

-----------------------------------------------------------------------------
(* The theorems                                                            *)

\* Every behaviour of the pool keeps both layers of limiters accounted for.
THEOREM PoolInvariant == Spec => []IInv
  <1>1. Init => IInv
    <2> SUFFICES ASSUME Init PROVE IInv
      OBVIOUS
    <2>1. /\ Idle \in Limiters
          /\ Idle.holders = {} /\ Idle.queue = <<>>
      BY DEF Idle, Limiters
    <2>2. Cardinality(Idle.holders) = 0
      BY <2>1, FS_EmptySet
    <2>3. \A capacity \in Int : Accounted(Idle, capacity, {}, {})
      BY <2>1, <2>2 DEF Accounted
    <2>4. Shapes
      BY DEF Init, Shapes, PCs
    <2>5. ASSUME NEW k \in Hosts
          PROVE  Accounted(host[k], HostCap(k), HostWaiting(k), HostInside(k))
      <3>1. HostWaiting(k) = {} /\ HostInside(k) = {} /\ host[k] = Idle
        BY DEF Init, HostWaiting, HostInside, Inside
      <3> QED
        BY <2>3, <3>1, Capacities
    <2>6. ASSUME NEW m \in Members
          PROVE  Accounted(mem[m], Upstreams[m].cap, MemberWaiting(m), MemberInside(m))
      <3>1. MemberWaiting(m) = {} /\ MemberInside(m) = {} /\ mem[m] = Idle
        BY DEF Init, MemberWaiting, MemberInside
      <3> QED
        BY <2>3, <3>1, Capacities
    <2> QED
      BY <2>4, <2>5, <2>6 DEF IInv, HostsAccounted, MembersAccounted
  <1>2. IInv /\ [Next]_vars => IInv'
    <2> SUFFICES ASSUME IInv, [Next]_vars PROVE IInv'
      OBVIOUS
    <2>1. CASE UNCHANGED <<host, mem, pc, job>>
      <3>1. Shapes'
        BY <2>1 DEF IInv, Shapes
      <3>2. ASSUME NEW k
            PROVE  HostWaiting(k)' = HostWaiting(k) /\ HostInside(k)' = HostInside(k)
        BY <2>1 DEF HostWaiting, HostInside, Inside, HostOfJob
      <3>3. ASSUME NEW m
            PROVE  MemberWaiting(m)' = MemberWaiting(m) /\ MemberInside(m)' = MemberInside(m)
        BY <2>1 DEF MemberWaiting, MemberInside
      <3>4. HostsAccounted' /\ MembersAccounted'
        BY <2>1, <3>2, <3>3 DEF IInv, HostsAccounted, MembersAccounted
      <3> QED
        BY <3>1, <3>4 DEF IInv
    <2>2. CASE \E r \in Requests :
                  Arrive(r) \/ Step(r) \/ LeaveHostQueue(r) \/ LeaveMemberQueue(r)
      <3>1. PICK r \in Requests :
                  Arrive(r) \/ Step(r) \/ LeaveHostQueue(r) \/ LeaveMemberQueue(r)
        BY <2>2
      <3>2. CASE Arrive(r) \/ Top(r) \/ ScanEligible(r) \/ Select(r) \/ ReadLoad(r)
        BY <3>2, SelectionStep
      <3>3. CASE EnterHost(r)
        BY <3>3, EnterHostStep
      <3>4. CASE HostGranted(r) \/ LeaveHostQueue(r)
        BY <3>4, HostQueueStep
      <3>5. CASE EnterMember(r)
        BY <3>5, EnterMemberStep
      <3>6. CASE MemberGranted(r) \/ LeaveMemberQueue(r) \/ Poll(r)
        BY <3>6, MemberQueueStep
      <3>7. CASE Finish(r)
        BY <3>7, FinishStep
      <3>8. CASE Unwind(r)
        BY <3>8, UnwindStep
      <3> QED
        BY <3>1, <3>2, <3>3, <3>4, <3>5, <3>6, <3>7, <3>8 DEF Step
    <2>3. CASE \E r \in Requests : Disconnect(r)
      BY <2>1, <2>3 DEF Disconnect
    <2>4. CASE Tick \/ Terminating \/ UNCHANGED vars
      BY <2>1, <2>4 DEF Tick, Terminating, vars
    <2> QED
      BY <2>2, <2>3, <2>4 DEF Next
  <1> QED
    BY <1>1, <1>2, PTL DEF Spec

\* Slots are held by exactly the requests past their limiter, in both layers,
\* whichever way a request leaves: no slot leaks and none is given back twice.
THEOREM PoolSlotsBalanced == Spec => []SlotsBalanced
  <1>1. ASSUME NEW s, NEW capacity, NEW W, NEW I, Accounted(s, capacity, W, I)
        PROVE  s.holders \ W \subseteq I /\ I \subseteq s.holders /\ Queued(s) \subseteq W
    BY <1>1 DEF Accounted, Queued, ToSet
  <1>2. IInv => SlotsBalanced
    <2> SUFFICES ASSUME IInv PROVE SlotsBalanced
      OBVIOUS
    <2>1. ASSUME NEW k \in Hosts
          PROVE  /\ host[k].holders \ {r \in Requests : pc[r] = "hostq"} = HostInside(k)
                 /\ Queued(host[k]) \subseteq HostWaiting(k)
      <3>1. Accounted(host[k], HostCap(k), HostWaiting(k), HostInside(k))
        BY DEF IInv, HostsAccounted
      <3>2. /\ host[k].holders \ HostWaiting(k) \subseteq HostInside(k)
            /\ HostInside(k) \subseteq host[k].holders
            /\ Queued(host[k]) \subseteq HostWaiting(k)
        BY <1>1, <3>1
      <3> QED
        BY <3>2 DEF HostInside, HostWaiting, Inside
    <2>2. ASSUME NEW m \in Members
          PROVE  /\ mem[m].holders \ {r \in Requests : pc[r] = "memberq"} = MemberInside(m)
                 /\ Queued(mem[m]) \subseteq MemberWaiting(m)
      <3>1. Accounted(mem[m], Upstreams[m].cap, MemberWaiting(m), MemberInside(m))
        BY DEF IInv, MembersAccounted
      <3>2. /\ mem[m].holders \ MemberWaiting(m) \subseteq MemberInside(m)
            /\ MemberInside(m) \subseteq mem[m].holders
            /\ Queued(mem[m]) \subseteq MemberWaiting(m)
        BY <1>1, <3>1
      <3> QED
        BY <3>2 DEF MemberInside, MemberWaiting
    <2> QED
      BY <2>1, <2>2 DEF SlotsBalanced, HostInside, HostWaiting, MemberInside, MemberWaiting
  <1> QED
    BY <1>2, PoolInvariant, PTL

\* Two ways to write a server's URL lead to one host key.
LEMMA SameServerSameKey ==
    ASSUME NEW u, NEW v, SameServer(u, v)
    PROVE  UpstreamHostKey(u) = UpstreamHostKey(v)
  BY DEF SameServer, UpstreamHostKey, DefaultPort

\* The requests inside the members of one server stay within its host's limit.
THEOREM PoolHostBudget == Spec => []HostBudgetRespected
  <1>1. IInv => HostBudgetRespected
    <2> SUFFICES ASSUME IInv, NEW m \in Members, HostCap(HostOf(m)) > 0
                 PROVE  Cardinality({r \in Inside : SameServer(Upstreams[job[r].choice].upstream,
                                                               Upstreams[m].upstream)})
                          <= HostCap(HostOf(m))
      BY DEF HostBudgetRespected
    <2> DEFINE k == HostOf(m)
               A == {r \in Inside : SameServer(Upstreams[job[r].choice].upstream,
                                               Upstreams[m].upstream)}
    <2>1. A \subseteq HostInside(k)
      BY SameServerSameKey DEF HostInside, HostOfJob, HostOf
    <2>2. Accounted(host[k], HostCap(k), HostWaiting(k), HostInside(k))
      BY DEF IInv, HostsAccounted, Hosts
    <2> HIDE DEF k, A
    <2>3. /\ A \subseteq host[k].holders /\ host[k].holders \in SUBSET Requests
          /\ HostCap(k) > 0 => Cardinality(host[k].holders) <= HostCap(k)
      BY <2>1, <2>2 DEF Accounted, Limiters
    <2>4. Cardinality(A) <= Cardinality(host[k].holders)
      BY <2>3, HoldersFinite, FS_Subset
    <2>5. /\ Cardinality(A) \in Nat /\ Cardinality(host[k].holders) \in Nat
          /\ HostCap(k) \in Int
      BY <2>3, HoldersFinite, Capacities
    <2>6. Cardinality(A) <= HostCap(k)
      BY <2>3, <2>4, <2>5 DEF k
    <2> QED
      BY <2>6 DEF k, A
  <1> QED
    BY <1>1, PoolInvariant, PTL

\* The requests forwarded to a member with a limiter stay within its cap,
\* through every hand-back and reselection.
THEOREM PoolMemberCaps ==
    Spec => [](\A m \in Members :
                  Limited(m) => Cardinality({r \in Requests : pc[r] = "serving" /\ job[r].choice = m})
                                  <= Upstreams[m].cap)
  <1>1. IInv => \A m \in Members :
                   Limited(m) => Cardinality({r \in Requests : pc[r] = "serving" /\ job[r].choice = m})
                                   <= Upstreams[m].cap
    <2> SUFFICES ASSUME IInv, NEW m \in Members, Limited(m)
                 PROVE  Cardinality({r \in Requests : pc[r] = "serving" /\ job[r].choice = m})
                          <= Upstreams[m].cap
      OBVIOUS
    <2> DEFINE A == {r \in Requests : pc[r] = "serving" /\ job[r].choice = m}
    <2>1. A = MemberInside(m)
      BY DEF MemberInside
    <2>2. Accounted(mem[m], Upstreams[m].cap, MemberWaiting(m), MemberInside(m))
      BY DEF IInv, MembersAccounted
    <2> HIDE DEF A
    <2>3. /\ A \subseteq mem[m].holders /\ mem[m].holders \in SUBSET Requests
          /\ Cardinality(mem[m].holders) <= Upstreams[m].cap
      BY <2>1, <2>2 DEF Accounted, Limiters, Limited
    <2>4. Cardinality(A) <= Cardinality(mem[m].holders)
      BY <2>3, HoldersFinite, FS_Subset
    <2>5. /\ Cardinality(A) \in Nat /\ Cardinality(mem[m].holders) \in Nat
          /\ Upstreams[m].cap \in Int
      BY <2>3, HoldersFinite, Capacities
    <2>6. Cardinality(A) <= Upstreams[m].cap
      BY <2>3, <2>4, <2>5
    <2> QED
      BY <2>6 DEF A
  <1> QED
    BY <1>1, PoolInvariant, PTL
-----------------------------------------------------------------------------
(* Selection, and what it saw of the windows                               *)

\* A set of numbers that is not empty has a smallest one.
LEMMA SmallestNumber ==
    ASSUME NEW S, S \subseteq Nat, S # {}
    PROVE  \E m \in S : \A n \in S : m <= n
  <1>1. PICK m \in S : \A n \in S : <<n, m>> \notin OpToRel(<, Nat)
    BY NatLessThanWellFounded, WFMin
  <1>2. \A n \in S : ~(n < m)
    BY <1>1 DEF OpToRel
  <1> QED
    BY <1>2

\* The smallest number of a set is one of it.
LEMMA MinIsMember ==
    ASSUME NEW S, S \subseteq Nat, S # {}
    PROVE  Min(S) \in S
  <1>1. \E m \in S : \A n \in S : m <= n
    BY SmallestNumber
  <1> QED
    BY <1>1 DEF Min

\* There are members, numbered from 1, with weights.
LEMMA MembersNumbered ==
    /\ Members \subseteq Nat /\ IsFiniteSet(Members) /\ 1 \in Members
    /\ \A m \in Members : Upstreams[m].weight \in Nat \ {0}
  <1>1. Len(Upstreams) \in Nat \ {0} /\ Members = 1..Len(Upstreams)
    BY PoolAssumption DEF PoolAssumption
  <1>2. IsFiniteSet(1..Len(Upstreams))
    BY <1>1, FS_Interval
  <1> QED
    BY <1>1, <1>2, PoolAssumption DEF PoolAssumption

-----------------------------------------------------------------------------
(* Selection                                                               *)

OrderedBy(s) == \A i, j \in DOMAIN s : i < j => s[i] < s[j]

\* A set S of members listed in order.
Listed(S) == \E s \in [1..Cardinality(S) -> S] : OrderedBy(s)

\* One more member, greater than the others, can be added at the end.
LEMMA ListedNext ==
    ASSUME NEW S, S \subseteq Nat, IsFiniteSet(S), Listed(S), NEW m \in Nat, \A x \in S : x < m
    PROVE  Listed(S \cup {m})
  <1>1. PICK c \in Nat : c = Cardinality(S) /\ Cardinality(S \cup {m}) = c + 1
    <2>1. Cardinality(S) \in Nat /\ m \notin S
      BY FS_CardinalityType
    <2>2. Cardinality(S \cup {m}) = IF m \in S THEN Cardinality(S) ELSE Cardinality(S) + 1
      BY FS_AddElement
    <2> QED
      BY <2>1, <2>2
  <1>2. PICK s \in [1..c -> S] : OrderedBy(s)
    BY <1>1 DEF Listed
  <1> DEFINE T == S \cup {m}
             e == [i \in 1..(c + 1) |-> IF i = c + 1 THEN m ELSE s[i]]
  <1>3. e \in [1..(c + 1) -> T]
    <2>1. \A i \in 1..(c + 1) : i = c + 1 \/ i \in 1..c
      OBVIOUS
    <2> QED
      BY <1>2, <2>1
  <1>4. ASSUME NEW i \in 1..(c + 1), NEW j \in 1..(c + 1), i < j
        PROVE  e[i] < e[j]
    <2>1. i \in 1..c /\ i # c + 1 /\ s[i] \in S
      BY <1>2, <1>4
    <2>2. CASE j = c + 1
      BY <2>1, <2>2
    <2>3. CASE j # c + 1
      <3>1. j \in 1..c
        BY <2>3
      <3>2. s[i] < s[j]
        BY <1>2, <1>4, <2>1, <3>1 DEF OrderedBy
      <3> QED
        BY <2>1, <2>3, <3>2
    <2> QED
      BY <2>2, <2>3
  <1>5. DOMAIN e = 1..(c + 1)
    OBVIOUS
  <1> HIDE DEF e
  <1>6. OrderedBy(e)
    BY <1>4, <1>5 DEF OrderedBy
  <1> QED
    BY <1>1, <1>3, <1>6 DEF Listed

\* Every set of members can be listed, member by member.
LEMMA SetsListed ==
    ASSUME NEW S, S \subseteq Members
    PROVE  Listed(S)
  <1>1. PICK n \in Nat : Members = 1..n
    BY PoolAssumption DEF PoolAssumption
  <1> DEFINE Part(k) == S \cap (1..k)
             Bad == {k \in 0..n : ~Listed(Part(k))}
  <1>2. \A k \in 0..n : Part(k) \subseteq Nat /\ IsFiniteSet(Part(k))
    <2> SUFFICES ASSUME NEW k \in 0..n PROVE Part(k) \subseteq Nat /\ IsFiniteSet(Part(k))
      OBVIOUS
    <2>1. IsFiniteSet(1..k) /\ Part(k) \in SUBSET (1..k)
      BY FS_Interval
    <2>2. IsFiniteSet(Part(k))
      BY <2>1, FS_Subset
    <2> QED
      BY <2>1, <2>2
  <1>3. Bad = {}
    <2> SUFFICES ASSUME Bad # {} PROVE FALSE
      OBVIOUS
    <2>1. PICK k \in Bad : \A x \in Bad : k <= x
      <3>1. Bad \subseteq Nat
        OBVIOUS
      <3> HIDE DEF Bad
      <3> QED
        BY <3>1, SmallestNumber
    <2>2. k \in 0..n /\ ~Listed(Part(k))
      OBVIOUS
    <2>3. k # 0
      <3>1. Part(0) = {}
        OBVIOUS
      <3>2. Cardinality({}) = 0
        BY FS_EmptySet
      <3>3. <<>> \in [1..0 -> {}] /\ OrderedBy(<<>>)
        BY DEF OrderedBy
      <3>4. Listed({})
        BY <3>2, <3>3 DEF Listed
      <3> HIDE DEF Part
      <3> QED
        BY <2>2, <3>1, <3>4
    <2>4. k - 1 \in 0..n /\ k \in Nat /\ ~(k <= k - 1)
      BY <2>2, <2>3
    <2>5. Listed(Part(k - 1))
      BY <2>1, <2>4
    <2>6. \A x \in Part(k - 1) : x < k
      BY <2>4
    <2>7. Part(k) = Part(k - 1) \/ Part(k) = Part(k - 1) \cup {k}
      <3>1. 1..k = (1..(k - 1)) \cup {k}
        BY <2>4, <2>3
      <3> QED
        BY <3>1
    <2> HIDE DEF Part
    <2>8. Listed(Part(k - 1) \cup {k})
      BY <1>2, <2>4, <2>5, <2>6, ListedNext
    <2> QED
      BY <2>2, <2>5, <2>7, <2>8
  <1>4. Part(n) = S
    BY <1>1
  <1>5. n \in 0..n
    OBVIOUS
  <1>6. Listed(Part(n))
    BY <1>3, <1>5
  <1> HIDE DEF Part
  <1> QED
    BY <1>4, <1>6

\* So the list of the eligible members has them all, and is empty only without
\* any.
LEMMA AscendingLists ==
    ASSUME NEW S, S \subseteq Members
    PROVE  /\ Ascending(S) \in Seq(S) /\ Ascending(S) \in Seq(Members)
           /\ Ascending(S) = <<>> <=> S = {}
  <1>1. PICK c \in Nat : c = Cardinality(S) /\ (c = 0 <=> S = {})
    <2>1. IsFiniteSet(S)
      BY MembersNumbered, FS_Subset
    <2> QED
      BY <2>1, FS_CardinalityType, FS_EmptySet
  <1>2. Listed(S)
    BY SetsListed
  <1>3. Ascending(S) \in [1..c -> S]
    BY <1>1, <1>2 DEF Listed, OrderedBy, Ascending
  <1>4. PICK s \in [1..c -> S] : s = Ascending(S)
    BY <1>3
  <1>5. s \in Seq(S) /\ Len(s) = c /\ s \in Seq(Members)
    <2>1. s \in [1..c -> Members]
      OBVIOUS
    <2> QED
      BY <2>1
  <1>6. s = <<>> <=> c = 0
    BY <1>5
  <1> QED
    BY <1>1, <1>4, <1>5, <1>6

\* The ring answers with one of the members it is given.
LEMMA PinSlotFinds ==
    ASSUME NEW idx \in Seq(Members), idx # <<>>, NEW hash \in Nat
    PROVE  \E i \in 1..Len(idx) : PinSlot(idx, hash) = idx[i]
  <1> DEFINE n == Len(idx)
             f == [j \in 1..n |-> {j} \X (1..Upstreams[idx[j]].weight)]
             S == {{j} \X (1..Upstreams[idx[j]].weight) : j \in 1..n}
  <1>0. n \in Nat /\ n # 0 /\ n \in 1..n
    OBVIOUS
  <1>1. ASSUME NEW j \in 1..n PROVE Upstreams[idx[j]].weight \in Nat \ {0}
    <2>1. idx[j] \in Members
      OBVIOUS
    <2> QED
      BY <2>1, MembersNumbered
  <1>2. IsFiniteSet(S)
    <2>1. IsFiniteSet(1..n)
      BY <1>0, FS_Interval
    <2>2. f \in [1..n -> S] /\ \A T \in S : \E j \in 1..n : f[j] = T
      BY Zenon
    <2>3. f \in Surjection(1..n, S)
      BY <2>2, Zenon DEF Surjection
    <2> HIDE DEF f, S, n
    <2> QED
      BY <2>1, <2>3, FS_Surjection
  <1>3. ASSUME NEW T \in S PROVE IsFiniteSet(T)
    <2>1. PICK j \in 1..n : T = {j} \X (1..Upstreams[idx[j]].weight)
      OBVIOUS
    <2>2. PICK w \in Nat : w = Upstreams[idx[j]].weight
      BY <1>1
    <2>3. IsFiniteSet({j}) /\ IsFiniteSet(1..w)
      <3>1. 1 \in Int /\ w \in Int
        OBVIOUS
      <3>2. IsFiniteSet(1..w)
        BY <3>1, FS_Interval, Zenon
      <3> QED
        BY <3>2, FS_Singleton
    <2>4. IsFiniteSet({j} \X (1..w))
      BY <2>3, FS_Product
    <2> QED
      BY <2>1, <2>2, <2>4
  <1>4. RingSlots(idx, n) = UNION S
    BY DEF RingSlots
  <1>5. IsFiniteSet(RingSlots(idx, n))
    <2> HIDE DEF S, n
    <2> QED
      BY <1>2, <1>3, <1>4, FS_UNION
  <1>6. RingSlots(idx, n) # {}
    <2>1. 1 \in 1..Upstreams[idx[n]].weight
      BY <1>0, <1>1
    <2>2. <<n, 1>> \in {n} \X (1..Upstreams[idx[n]].weight)
      BY <2>1
    <2> QED
      BY <1>0, <2>2 DEF RingSlots
  <1>7. PICK t \in Nat \ {0} : t = Cumulative(idx, n)
    <2> HIDE DEF n
    <2> QED
      BY <1>5, <1>6, FS_CardinalityType, FS_EmptySet DEF Cumulative
  <1>8. hash % t \in 0..(t - 1)
    BY SMTT(20)
  <1> DEFINE K == {i \in DOMAIN idx : Cumulative(idx, i) > hash % Cumulative(idx, Len(idx))}
  <1>9. K \subseteq Nat /\ K # {}
    <2>1. n \in DOMAIN idx /\ DOMAIN idx \subseteq Nat
      BY <1>0
    <2>2. Cumulative(idx, n) > hash % Cumulative(idx, Len(idx))
      BY <1>7, <1>8
    <2> QED
      BY <2>1, <2>2
  <1>10. PICK k \in K : k = Min(K)
    <2> HIDE DEF K
    <2> QED
      BY <1>9, MinIsMember
  <1>11. PinSlot(idx, hash) = idx[k]
    BY <1>10 DEF PinSlot
  <1>12. k \in 1..Len(idx)
    OBVIOUS
  <1> QED
    BY <1>11, <1>12, Zenon

-----------------------------------------------------------------------------
(* The two looks at the clock                                              *)

Jobs == [eligible : SUBSET Members, idx : Seq(Members), loads : Seq(Nat),
         choice : Members, from : 0..MaxTime]

\* Two scans, the second one begun where the first one ended, both over at t.
TwoLooks(first, second, t) ==
    \E a, b, c \in 0..MaxTime : /\ a <= b /\ b <= c /\ c <= t
                                /\ first \in Scanned[a][b] /\ second \in Scanned[b][c]

\* Member m is what selection may pick from a set.
PickedFrom(m, set) == IF set = {} THEN m = 1 ELSE m \in set

\* What a request at step s with locals j knows of the windows at time t, if its
\* client has not left: the set it compares with was found first, and its member
\* is out of a later look.
AtLook(s, j, t) ==
    /\ s \in {"scan", "select"} => j.from <= t
    /\ s = "select" => \E a \in 0..MaxTime : a <= j.from /\ j.eligible \in Scanned[a][j.from]
    /\ s = "loads" => \E set : /\ TwoLooks(j.eligible, set, t) /\ set # {}
                               /\ \A i \in DOMAIN j.idx : j.idx[i] \in set
    /\ s \in {"host", "hostq", "member", "memberq"}
         => \E set : TwoLooks(j.eligible, set, t) /\ PickedFrom(j.choice, set)

\* There is a load to read while the loads are read, and none is before.
Loading(s, j) ==
    /\ s = "loads" => Len(j.loads) < Len(j.idx)
    /\ s \in {"scan", "select"} => j.loads = <<>>

LookTypes ==
    /\ now \in 0..MaxTime
    /\ rr \in Nat
    /\ pc \in [Requests -> PCs]
    /\ job \in [Requests -> Jobs]
    /\ \A r \in Requests : Loading(pc[r], job[r])

Looks == \A r \in Requests \ gone : AtLook(pc[r], job[r], now)

LookInv == LookTypes /\ Looks

\* Scans find members, each one open at some instants of the scan or not.
LEMMA ScanFinds ==
    ASSUME NEW a \in 0..MaxTime, NEW b \in 0..MaxTime, NEW S \in Scanned[a][b]
    PROVE  /\ S \subseteq Members
           /\ \A m \in Members : \E x, y \in a..b :
                 x <= y /\ (m \in S <=> Eligible(Upstreams[m], x, y))
  <1>1. S \in EligibleIndices(Upstreams, a, b)
    BY DEF Scanned
  <1>2. PICK n \in Nat : n = Len(Upstreams) /\ Members = 1..n
    BY PoolAssumption DEF PoolAssumption
  <1>3. PICK f \in [1..(2 * n) -> a..b] :
           /\ \A i \in 1..(2 * n - 1) : f[i] <= f[i + 1]
           /\ S = {i \in Members : Eligible(Upstreams[i], f[2 * i - 1], f[2 * i])}
    BY <1>1, <1>2 DEF EligibleIndices, Members
  <1>4. ASSUME NEW m \in Members
        PROVE  \E x, y \in a..b : x <= y /\ (m \in S <=> Eligible(Upstreams[m], x, y))
    <2>1. 2 * m - 1 \in 1..(2 * n) /\ 2 * m \in 1..(2 * n) /\ 2 * m - 1 \in 1..(2 * n - 1)
          /\ (2 * m - 1) + 1 = 2 * m
      BY <1>2
    <2>2. f[2 * m - 1] <= f[2 * m]
      BY <1>3, <2>1
    <2> QED
      BY <1>3, <2>1, <2>2
  <1> QED
    BY <1>3, <1>4

\* What a scan for r may find, whether its client is there or not.
LEMMA ScansOfRequest ==
    ASSUME LookTypes, NEW r \in Requests, NEW S \in Scans(r)
    PROVE  S \subseteq Members /\ (r \notin gone => S \in Scanned[job[r].from][now])
  <1>1. job[r].from \in 0..MaxTime /\ now \in 0..MaxTime
    BY DEF LookTypes, Jobs
  <1>2. CASE S \in Scanned[job[r].from][now]
    BY <1>1, <1>2, ScanFinds
  <1>3. CASE S = {} /\ r \in gone
    BY <1>3
  <1> QED
    BY <1>2, <1>3 DEF Scans

\* A step of r to x with locals e.
LEMMA LookStep ==
    ASSUME LookInv, NEW r \in Requests, NEW x \in PCs, NEW e \in Jobs,
           pc' = [pc EXCEPT ![r] = x], job' = [job EXCEPT ![r] = e],
           rr' \in Nat, UNCHANGED <<now, gone>>,
           Loading(x, e), r \notin gone => AtLook(x, e, now)
    PROVE  LookInv'
  <1>1. /\ pc' \in [Requests -> PCs] /\ job' \in [Requests -> Jobs]
        /\ pc'[r] = x /\ job'[r] = e
        /\ \A q \in Requests : q # r => pc'[q] = pc[q] /\ job'[q] = job[q]
    BY DEF LookInv, LookTypes
  <1>2. LookTypes'
    BY <1>1 DEF LookInv, LookTypes
  <1>3. ASSUME NEW q \in Requests \ gone' PROVE AtLook(pc'[q], job'[q], now')
    <2>1. CASE q = r
      BY <1>1, <2>1
    <2>2. CASE q # r
      BY <1>1, <2>2 DEF LookInv, Looks
    <2> QED
      BY <2>1, <2>2
  <1> QED
    BY <1>2, <1>3 DEF LookInv, Looks

\* The locals without a request, at the beginning of a scan and after the choice.
LEMMA LookJobs ==
    ASSUME LookTypes
    PROVE  /\ NoJob \in Jobs
           /\ [NoJob EXCEPT !.from = now] \in Jobs /\ [NoJob EXCEPT !.from = now].from = now
           /\ \A r \in Requests : \A m \in Members :
                 /\ Chosen(r, m) \in Jobs
                 /\ Chosen(r, m).choice = m /\ Chosen(r, m).eligible = job[r].eligible
  <1>1. 1 \in Members /\ 0 \in 0..MaxTime /\ now \in 0..MaxTime
    BY MembersNumbered, PoolAssumption DEF PoolAssumption, LookTypes
  <1>2. NoJob \in Jobs
    BY <1>1 DEF NoJob, Jobs
  <1>3. [NoJob EXCEPT !.from = now] \in Jobs /\ [NoJob EXCEPT !.from = now].from = now
    BY <1>1, <1>2 DEF Jobs
  <1>4. ASSUME NEW r \in Requests, NEW m \in Members
        PROVE  /\ Chosen(r, m) \in Jobs
               /\ Chosen(r, m).choice = m /\ Chosen(r, m).eligible = job[r].eligible
    <2>1. job[r].eligible \in SUBSET Members
      BY DEF LookTypes, Jobs
    <2> QED
      BY <1>2, <2>1 DEF Chosen, Jobs
  <1> QED
    BY <1>2, <1>3, <1>4

\* A choice out of the second look.
LEMMA ChoiceLook ==
    ASSUME NEW j \in Jobs, NEW set, NEW t, TwoLooks(j.eligible, set, t),
           PickedFrom(j.choice, set)
    PROVE  AtLook("host", j, t) /\ Loading("host", j)
  BY DEF AtLook, Loading

\* The scan that later looks are compared with.
LEMMA FirstLook ==
    ASSUME LookInv, NEW r \in Requests, Arrive(r) \/ Top(r) \/ ScanEligible(r)
    PROVE  LookInv'
  <1>0. LookTypes
    BY DEF LookInv
  <1>1. CASE Arrive(r) \/ (Top(r) /\ r \notin gone)
    <2>1. AtLook("scan", [NoJob EXCEPT !.from = now], now)
      <3>1. now <= now
        BY <1>0, PoolAssumption DEF LookTypes, PoolAssumption
      <3> QED
        BY <1>0, <3>1, LookJobs DEF AtLook
    <2>2. Loading("scan", [NoJob EXCEPT !.from = now])
      BY DEF Loading, NoJob
    <2> QED
      BY <1>0, <1>1, <2>1, <2>2, LookJobs, LookStep DEF Arrive, Top, Goto, PCs, LookTypes
  <1>2. CASE Top(r) /\ r \in gone
    <2>1. job' = [job EXCEPT ![r] = job[r]] /\ job[r] \in Jobs
      BY <1>0, <1>2 DEF Top, LookTypes
    <2>2. Loading("done", job[r])
      BY DEF Loading
    <2> QED
      BY <1>0, <1>2, <2>1, <2>2, LookStep DEF Top, Goto, PCs, LookTypes
  <1>3. CASE ScanEligible(r)
    <2>1. PICK j \in Jobs : j = job[r]
      BY <1>0 DEF LookTypes
    <2>2. PICK S \in Scans(r) : job' = [job EXCEPT ![r].eligible = S, ![r].from = now]
      BY <1>3 DEF ScanEligible
    <2>3. S \subseteq Members /\ (r \notin gone => S \in Scanned[j.from][now])
      BY <1>0, <2>1, ScansOfRequest
    <2>4. PICK e : e = [j EXCEPT !.eligible = S, !.from = now]
      OBVIOUS
    <2>5. e \in Jobs /\ e.eligible = S /\ e.from = now /\ now \in 0..MaxTime /\ j.from \in 0..MaxTime
      BY <1>0, <2>3, <2>4 DEF Jobs, LookTypes
    <2>6. job' = [job EXCEPT ![r] = e] /\ pc' = [pc EXCEPT ![r] = "select"]
      BY <1>0, <1>3, <2>1, <2>2, <2>4 DEF ScanEligible, Goto, LookTypes
    <2>7. r \notin gone => AtLook("select", e, now)
      <3> SUFFICES ASSUME r \notin gone PROVE AtLook("select", e, now)
        OBVIOUS
      <3>1. j.from <= now /\ now <= now
        BY <1>0, <1>3, <2>1, <2>5, PoolAssumption DEF LookInv, Looks, AtLook, ScanEligible, PoolAssumption
      <3> QED
        BY <2>3, <2>5, <3>1 DEF AtLook
    <2>8. Loading("select", e) /\ "select" \in PCs
      BY <1>0, <1>3, <2>1, <2>4 DEF Loading, PCs, LookTypes, Jobs, ScanEligible
    <2> QED
      BY <1>0, <1>3, <2>5, <2>6, <2>7, <2>8, LookStep DEF ScanEligible, LookTypes
  <1> QED
    BY <1>1, <1>2, <1>3 DEF Top

\* The second look, and what it leaves to choose from.
LEMMA SecondLook ==
    ASSUME LookInv, NEW r \in Requests, Select(r)
    PROVE  LookInv'
  <1>0. LookTypes /\ pc[r] = "select" /\ UNCHANGED <<now, gone>> /\ rr' = rr /\ rr \in Nat
    BY DEF LookInv, LookTypes, Select
  <1>1. PICK j \in Jobs : j = job[r]
    BY <1>0 DEF LookTypes
  <1>2. PICK S \in Scans(r) :
           \/ /\ Hash[r] # None
              /\ job' = [job EXCEPT ![r] = Chosen(r, PinSlot(Ascending(S), Hash[r]))]
              /\ Goto(r, "host")
           \/ /\ Hash[r] = None /\ Ascending(S) = <<>>
              /\ job' = [job EXCEPT ![r] = Chosen(r, 1)]
              /\ Goto(r, "host")
           \/ /\ Hash[r] = None /\ Ascending(S) # <<>>
              /\ job' = [job EXCEPT ![r].idx = Ascending(S)]
              /\ Goto(r, "loads")
    BY DEF Select
  <1>3. S \subseteq Members /\ (r \notin gone => S \in Scanned[j.from][now])
    BY <1>0, <1>1, ScansOfRequest
  <1>4. PICK idx \in Seq(Members) : idx = Ascending(S) /\ idx \in Seq(S) /\ (idx = <<>> <=> S = {})
    BY <1>3, AscendingLists
  <1>5. r \notin gone => TwoLooks(j.eligible, S, now)
    <2> SUFFICES ASSUME r \notin gone PROVE TwoLooks(j.eligible, S, now)
      OBVIOUS
    <2>1. PICK b \in 0..MaxTime : b = j.from
      BY DEF Jobs
    <2>2. AtLook("select", j, now)
      BY <1>0, <1>1 DEF LookInv, Looks
    <2>3. b <= now /\ \E a \in 0..MaxTime : a <= b /\ j.eligible \in Scanned[a][b]
      BY <2>1, <2>2 DEF AtLook
    <2>4. now \in 0..MaxTime /\ now <= now
      BY <1>0, PoolAssumption DEF LookTypes, PoolAssumption
    <2> QED
      BY <1>3, <2>1, <2>3, <2>4, Zenon DEF TwoLooks
  <1>6. 1 \in Members /\ "host" \in PCs /\ "loads" \in PCs
    BY MembersNumbered DEF PCs
  <1>7. ASSUME NEW m \in Members, PickedFrom(m, S),
               job' = [job EXCEPT ![r] = Chosen(r, m)], Goto(r, "host")
        PROVE  LookInv'
    <2>1. PICK e \in Jobs : e = Chosen(r, m) /\ e.choice = m /\ e.eligible = j.eligible
      BY <1>0, <1>1, LookJobs
    <2>2. Loading("host", e) /\ (r \notin gone => AtLook("host", e, now))
      BY <1>5, <1>7, <2>1, ChoiceLook DEF Loading
    <2> QED
      BY <1>0, <1>6, <1>7, <2>1, <2>2, LookStep DEF Goto
  <1>8. CASE /\ Hash[r] # None
             /\ job' = [job EXCEPT ![r] = Chosen(r, PinSlot(Ascending(S), Hash[r]))]
             /\ Goto(r, "host")
    <2>1. Hash[r] \in Nat
      BY <1>8, PoolAssumption DEF PoolAssumption
    <2>2. CASE idx = <<>>
      <3>1. PinSlot(idx, Hash[r]) = 1
        BY <2>2 DEF PinSlot
      <3>2. PickedFrom(1, S)
        BY <1>4, <2>2 DEF PickedFrom
      <3> QED
        BY <1>4, <1>6, <1>7, <1>8, <3>1, <3>2
    <2>3. CASE idx # <<>>
      <3>1. PICK i \in 1..Len(idx) : PinSlot(idx, Hash[r]) = idx[i]
        BY <2>1, <2>3, PinSlotFinds
      <3>2. idx[i] \in S /\ idx[i] \in Members
        BY <1>4
      <3>3. PickedFrom(idx[i], S)
        BY <3>2 DEF PickedFrom
      <3> QED
        BY <1>4, <1>7, <1>8, <3>1, <3>2, <3>3
    <2> QED
      BY <2>2, <2>3
  <1>9. CASE /\ Ascending(S) = <<>>
             /\ job' = [job EXCEPT ![r] = Chosen(r, 1)]
             /\ Goto(r, "host")
    <2>1. PickedFrom(1, S)
      BY <1>4, <1>9 DEF PickedFrom
    <2> QED
      BY <1>6, <1>7, <1>9, <2>1
  <1>10. CASE /\ Ascending(S) # <<>>
              /\ job' = [job EXCEPT ![r].idx = Ascending(S)]
              /\ Goto(r, "loads")
    <2>1. PICK e : e = [j EXCEPT !.idx = idx]
      OBVIOUS
    <2>2. e \in Jobs /\ e.idx = idx /\ e.eligible = j.eligible /\ e.loads = j.loads
      BY <2>1 DEF Jobs
    <2>3. job' = [job EXCEPT ![r] = e]
      BY <1>0, <1>1, <1>4, <1>10, <2>1 DEF LookTypes
    <2>4. r \notin gone => AtLook("loads", e, now)
      <3>1. S # {} /\ \A i \in DOMAIN e.idx : e.idx[i] \in S
        BY <1>4, <1>10, <2>2
      <3> QED
        BY <1>5, <2>2, <3>1 DEF AtLook
    <2>5. Loading("loads", e)
      <3>1. j.loads = <<>>
        BY <1>0, <1>1 DEF LookTypes, Loading
      <3> QED
        BY <1>4, <1>10, <2>2, <3>1 DEF Loading
    <2> QED
      BY <1>0, <1>6, <1>10, <2>2, <2>3, <2>4, <2>5, LookStep DEF Goto
  <1> QED
    BY <1>2, <1>8, <1>9, <1>10

\* The loads are read one by one, and the choice falls on one of the members
\* they belong to.
LEMMA LoadLook ==
    ASSUME IInv, LookInv, NEW r \in Requests, ReadLoad(r)
    PROVE  LookInv'
  <1>0. LookTypes /\ pc[r] = "loads" /\ UNCHANGED <<now, gone>> /\ rr \in Nat
    BY DEF LookInv, LookTypes, ReadLoad
  <1>1. PICK j \in Jobs : j = job[r] /\ Len(j.loads) < Len(j.idx)
    BY <1>0 DEF LookTypes, Loading
  <1>2. j.idx \in Seq(Members) /\ j.loads \in Seq(Nat)
    BY DEF Jobs
  <1>3. PICK n \in 1..Len(j.idx) : n = Len(j.loads) + 1
    <2>1. Len(j.loads) \in Nat /\ Len(j.idx) \in Nat
      BY <1>2
    <2>2. Len(j.loads) + 1 \in 1..Len(j.idx)
      BY <1>1, <2>1
    <2> QED
      BY <2>2
  <1>4. InFlight(j.idx[n]) \in Nat
    <2>1. j.idx[n] \in Members
      BY <1>2
    <2>2. mem[j.idx[n]].holders \in SUBSET Requests
      BY <2>1 DEF IInv, MembersAccounted, Accounted, Limiters
    <2> QED
      BY <2>2, HoldersFinite DEF InFlight
  <1>5. PICK loads \in Seq(Nat) : loads = Append(j.loads, InFlight(j.idx[n])) /\ Len(loads) = n
    <2>1. PICK x \in Nat : x = InFlight(j.idx[n])
      BY <1>4
    <2>2. Append(j.loads, x) \in Seq(Nat) /\ Len(Append(j.loads, x)) = n
      BY <1>2, <1>3
    <2> QED
      BY <2>1, <2>2
  <1>6. r \notin gone => \E set : /\ TwoLooks(j.eligible, set, now) /\ set # {}
                                  /\ \A i \in DOMAIN j.idx : j.idx[i] \in set
    BY <1>0, <1>1 DEF LookInv, Looks, AtLook
  <1>7. 1 \in Members /\ "host" \in PCs /\ "loads" \in PCs
    BY MembersNumbered DEF PCs
  <1>8. CASE /\ Len(loads) < Len(j.idx)
             /\ job' = [job EXCEPT ![r].loads = loads]
             /\ UNCHANGED <<rr, pc>>
    <2>1. PICK e : e = [j EXCEPT !.loads = loads]
      OBVIOUS
    <2>2. e \in Jobs /\ e.idx = j.idx /\ e.eligible = j.eligible /\ e.loads = loads
      BY <2>1 DEF Jobs
    <2>3. job' = [job EXCEPT ![r] = e] /\ pc' = [pc EXCEPT ![r] = "loads"]
      BY <1>0, <1>1, <1>8, <2>1 DEF LookTypes
    <2>4. Loading("loads", e) /\ (r \notin gone => AtLook("loads", e, now))
      BY <1>6, <1>8, <2>2 DEF AtLook, Loading
    <2> QED
      BY <1>0, <1>7, <1>8, <2>2, <2>3, <2>4, LookStep
  <1>9. ASSUME NEW m \in Members, r \notin gone => \E i \in DOMAIN j.idx : m = j.idx[i],
               job' = [job EXCEPT ![r] = Chosen(r, m)], Goto(r, "host"), rr' \in Nat
        PROVE  LookInv'
    <2>1. PICK e \in Jobs : e = Chosen(r, m) /\ e.choice = m /\ e.eligible = j.eligible
      BY <1>0, <1>1, LookJobs
    <2>2. r \notin gone => AtLook("host", e, now)
      <3> SUFFICES ASSUME r \notin gone PROVE AtLook("host", e, now)
        OBVIOUS
      <3>1. PICK set : /\ TwoLooks(j.eligible, set, now) /\ set # {}
                       /\ \A i \in DOMAIN j.idx : j.idx[i] \in set
        BY <1>6
      <3>2. PickedFrom(m, set)
        BY <1>9, <3>1 DEF PickedFrom
      <3> QED
        BY <2>1, <3>1, <3>2, ChoiceLook
    <2>3. Loading("host", e)
      BY DEF Loading
    <2> QED
      BY <1>0, <1>7, <1>9, <2>1, <2>2, <2>3, LookStep DEF Goto
  <1>10. CASE r \in gone /\ job' = [job EXCEPT ![r] = Chosen(r, 1)] /\ Goto(r, "host") /\ UNCHANGED rr
    BY <1>0, <1>7, <1>9, <1>10
  <1> DEFINE least == {i \in DOMAIN j.idx : loads[i] = Min(ToSet(loads))}
             T == {j.idx[i] : i \in least}
  <1>11. CASE /\ Len(loads) = Len(j.idx)
              /\ job' = [job EXCEPT ![r] = Chosen(r, Ascending(T)[(rr % Len(Ascending(T))) + 1])]
              /\ rr' = (rr + 1) % RRPeriod
              /\ Goto(r, "host")
    <2>1. T \subseteq Members
      BY <1>2
    <2>2. T # {}
      <3>1. ToSet(loads) \subseteq Nat /\ ToSet(loads) # {}
        <4>1. 1 \in DOMAIN loads /\ \A i \in DOMAIN loads : loads[i] \in Nat
          BY <1>3, <1>5
        <4> QED
          BY <4>1 DEF ToSet
      <3>2. Min(ToSet(loads)) \in ToSet(loads)
        BY <3>1, MinIsMember
      <3>3. PICK i \in DOMAIN loads : loads[i] = Min(ToSet(loads))
        BY <3>2 DEF ToSet
      <3>4. i \in DOMAIN j.idx
        BY <1>2, <1>5, <1>11
      <3> QED
        BY <3>3, <3>4
    <2> HIDE DEF T
    <2>3. PICK ties \in Seq(T) : ties = Ascending(T) /\ ties # <<>>
      BY <2>1, <2>2, AscendingLists
    <2>4. PICK n1 \in Nat \ {0} : n1 = Len(ties)
      BY <2>3
    <2>5. rr % n1 \in 0..(n1 - 1)
      BY <1>0, SMTT(20)
    <2>6. (rr % n1) + 1 \in 1..n1
      BY <2>4, <2>5
    <2>7. PICK m \in T : m = ties[(rr % Len(ties)) + 1]
      BY <2>3, <2>4, <2>6
    <2>8. \E i \in DOMAIN j.idx : m = j.idx[i]
      BY <2>7 DEF T
    <2>9. rr' \in Nat
      <3>1. RRPeriod \in Nat \ {0} /\ rr + 1 \in Nat
        BY <1>0, PeriodAssumption DEF PeriodAssumption
      <3>2. (rr + 1) % RRPeriod \in Nat
        BY <3>1, SMTT(20)
      <3> QED
        BY <1>11, <3>2
    <2> QED
      BY <1>9, <1>11, <2>1, <2>3, <2>7, <2>8, <2>9
  <1>12. \/ /\ Len(loads) < Len(j.idx)
            /\ job' = [job EXCEPT ![r].loads = loads]
            /\ UNCHANGED <<rr, pc>>
         \/ r \in gone /\ job' = [job EXCEPT ![r] = Chosen(r, 1)] /\ Goto(r, "host") /\ UNCHANGED rr
         \/ /\ Len(loads) = Len(j.idx)
            /\ job' = [job EXCEPT ![r] = Chosen(r, Ascending(T)[(rr % Len(Ascending(T))) + 1])]
            /\ rr' = (rr + 1) % RRPeriod
            /\ Goto(r, "host")
    BY <1>1, <1>3, <1>5, ZenonT(40) DEF ReadLoad
  <1> HIDE DEF T
  <1> QED
    BY <1>8, <1>10, <1>11, <1>12

\* Through the limiters the locals stay as they are.
LEMMA QueueLook ==
    ASSUME LookInv, NEW r \in Requests,
           \/ EnterHost(r) \/ HostGranted(r) \/ EnterMember(r) \/ MemberGranted(r)
           \/ LeaveHostQueue(r) \/ LeaveMemberQueue(r) \/ Poll(r) \/ Finish(r) \/ Unwind(r)
    PROVE  LookInv'
  <1>0. LookTypes /\ UNCHANGED <<now, gone, rr>> /\ rr' \in Nat
    BY DEF LookInv, LookTypes, EnterHost, HostGranted, EnterMember, MemberGranted, LeaveHostQueue,
           LeaveMemberQueue, Poll, Finish, Unwind
  <1>1. PICK j \in Jobs : j = job[r]
    BY <1>0 DEF LookTypes
  <1> DEFINE Through == {"hostq", "member", "memberq"}
             Out == {"serving", "leaving", "bounced", "done", "top"}
  <1>2. ASSUME NEW x \in Out, NEW e \in Jobs,
               pc' = [pc EXCEPT ![r] = x], job' = [job EXCEPT ![r] = e]
        PROVE  LookInv'
    <2>1. Loading(x, e) /\ AtLook(x, e, now) /\ x \in PCs
      BY DEF Loading, AtLook, PCs
    <2> QED
      BY <1>0, <1>2, <2>1, LookStep
  <1>3. ASSUME NEW x \in Through, pc[r] \in {"host", "hostq", "member"},
               pc' = [pc EXCEPT ![r] = x], job' = job
        PROVE  LookInv'
    <2>1. Loading(x, j) /\ x \in PCs
      BY DEF Loading, PCs
    <2>2. r \notin gone => AtLook(x, j, now)
      BY <1>1, <1>3 DEF AtLook, LookInv, Looks
    <2>3. job' = [job EXCEPT ![r] = j]
      BY <1>0, <1>1, <1>3 DEF LookTypes
    <2> QED
      BY <1>0, <1>3, <2>1, <2>2, <2>3, LookStep
  <1>4. job' = [job EXCEPT ![r] = j] \/ job' = [job EXCEPT ![r] = NoJob]
    BY <1>0, <1>1 DEF LookTypes, EnterHost, HostGranted, EnterMember, MemberGranted, LeaveHostQueue,
           LeaveMemberQueue, Poll, Finish, Unwind
  <1>5. NoJob \in Jobs
    BY <1>0, LookJobs
  <1>6. CASE \E x \in Out : pc' = [pc EXCEPT ![r] = x]
    BY <1>2, <1>4, <1>5, <1>6
  <1>7. CASE EnterHost(r) \/ HostGranted(r)
    <2>1. \E x \in Through : pc' = [pc EXCEPT ![r] = x]
      BY <1>7 DEF EnterHost, HostGranted, Goto
    <2> QED
      BY <1>3, <1>7, <2>1 DEF EnterHost, HostGranted
  <1>8. CASE EnterMember(r)
    <2>1. Goto(r, "serving") \/ Goto(r, "memberq")
      BY <1>8 DEF EnterMember
    <2>2. CASE Goto(r, "memberq")
      BY <1>3, <1>8, <2>2 DEF EnterMember, Goto
    <2> QED
      BY <1>6, <2>1, <2>2 DEF Goto
  <1>9. CASE MemberGranted(r) \/ LeaveHostQueue(r) \/ LeaveMemberQueue(r) \/ Poll(r) \/ Finish(r)
             \/ Unwind(r)
    BY <1>6, <1>9 DEF MemberGranted, LeaveHostQueue, LeaveMemberQueue, Poll, Finish, Unwind, Goto
  <1> QED
    BY <1>7, <1>8, <1>9

\* What was seen stays seen when the clock goes on.
LEMMA LookLater ==
    ASSUME NEW s, NEW j \in Jobs, NEW t \in 0..MaxTime, NEW u \in 0..MaxTime, t <= u, AtLook(s, j, t)
    PROVE  AtLook(s, j, u)
  <1>1. ASSUME NEW first, NEW second, TwoLooks(first, second, t)
        PROVE  TwoLooks(first, second, u)
    <2>1. PICK a, b, c \in 0..MaxTime : /\ a <= b /\ b <= c /\ c <= t
                                        /\ first \in Scanned[a][b] /\ second \in Scanned[b][c]
      BY <1>1 DEF TwoLooks
    <2>2. c <= u
      BY <2>1, PoolAssumption DEF PoolAssumption
    <2> QED
      BY <2>1, <2>2 DEF TwoLooks
  <1>2. j.from <= t => j.from <= u
    BY PoolAssumption DEF PoolAssumption, Jobs
  <1> QED
    BY <1>1, <1>2 DEF AtLook

\* Every request compares the windows with what it saw before it chose its
\* member out of a later look.
THEOREM PoolLooks == Spec => []LookInv
  <1>1. Init => LookInv
    <2> SUFFICES ASSUME Init PROVE LookInv
      OBVIOUS
    <2>1. now \in 0..MaxTime /\ rr \in Nat
      BY PoolAssumption DEF Init, PoolAssumption
    <2>2. NoJob \in Jobs
      BY <2>1, MembersNumbered, PoolAssumption DEF PoolAssumption, NoJob, Jobs
    <2>3. pc \in [Requests -> PCs] /\ job \in [Requests -> Jobs]
      BY <2>2 DEF Init, PCs
    <2>4. \A r \in Requests : pc[r] = "idle"
      BY DEF Init
    <2>5. \A r \in Requests : Loading(pc[r], job[r]) /\ AtLook(pc[r], job[r], now)
      BY <2>4 DEF Loading, AtLook
    <2> QED
      BY <2>1, <2>3, <2>5 DEF LookInv, LookTypes, Looks
  <1>2. IInv /\ LookInv /\ [Next]_vars => LookInv'
    <2> SUFFICES ASSUME IInv, LookInv, [Next]_vars PROVE LookInv'
      OBVIOUS
    <2>1. ASSUME NEW r \in Requests,
                 Arrive(r) \/ Step(r) \/ LeaveHostQueue(r) \/ LeaveMemberQueue(r)
          PROVE  LookInv'
      <3>1. CASE Arrive(r) \/ Top(r) \/ ScanEligible(r)
        BY <3>1, FirstLook
      <3>2. CASE Select(r)
        BY <3>2, SecondLook
      <3>3. CASE ReadLoad(r)
        BY <3>3, LoadLook
      <3>4. CASE \/ EnterHost(r) \/ HostGranted(r) \/ EnterMember(r) \/ MemberGranted(r)
                 \/ LeaveHostQueue(r) \/ LeaveMemberQueue(r) \/ Poll(r) \/ Finish(r) \/ Unwind(r)
        BY <3>4, QueueLook
      <3> QED
        BY <2>1, <3>1, <3>2, <3>3, <3>4 DEF Step
    <2>2. ASSUME NEW r \in Requests, Disconnect(r) PROVE LookInv'
      BY <2>2 DEF Disconnect, LookInv, LookTypes, Looks
    <2>3. CASE Tick
      <3>1. /\ now \in 0..MaxTime /\ now' \in 0..MaxTime /\ now <= now'
            /\ UNCHANGED <<rr, pc, job, gone>>
        BY <2>3, PoolAssumption DEF Tick, LookInv, LookTypes, PoolAssumption
      <3>2. ASSUME NEW r \in Requests \ gone PROVE AtLook(pc[r], job[r], now')
        <4>1. job[r] \in Jobs /\ AtLook(pc[r], job[r], now)
          BY DEF LookInv, LookTypes, Looks
        <4> QED
          BY <3>1, <4>1, LookLater
      <3> QED
        BY <3>1, <3>2 DEF LookInv, LookTypes, Looks
    <2>4. CASE Terminating \/ UNCHANGED vars
      BY <2>4 DEF Terminating, vars, LookInv, LookTypes, Looks
    <2> QED
      BY <2>1, <2>2, <2>3, <2>4 DEF Next
  <1> QED
    BY <1>1, <1>2, PoolInvariant, PTL DEF Spec

\* Without a member that comes back, a set that was found once and is found again
\* was found in between.
LEMMA SameLooks ==
    ASSUME NoReturn, NEW t \in 0..MaxTime, NEW S, TwoLooks(Open[t], S, t)
    PROVE  S = Open[t]
  <1>1. PICK a, b, c \in 0..MaxTime : /\ a <= b /\ b <= c /\ c <= t
                                      /\ Open[t] \in Scanned[a][b] /\ S \in Scanned[b][c]
    BY DEF TwoLooks
  <1>2. Open[t] = {m \in Members : EligibleAt(Upstreams[m], t)}
    BY DEF Open
  <1>3. S \subseteq Members
    BY <1>1, ScanFinds
  <1>4. ASSUME NEW m \in Members PROVE m \in S <=> m \in Open[t]
    <2>1. PICK x, y \in a..b : x <= y /\ (m \in Open[t] <=> Eligible(Upstreams[m], x, y))
      BY <1>1, ScanFinds
    <2>2. PICK v, w \in b..c : v <= w /\ (m \in S <=> Eligible(Upstreams[m], v, w))
      BY <1>1, ScanFinds
    <2>3. /\ x \in 0..MaxTime /\ y \in 0..MaxTime /\ v \in 0..MaxTime /\ w \in 0..MaxTime
          /\ x <= y /\ y <= v /\ v <= w /\ w <= t
      BY <1>1, <2>1, <2>2, PoolAssumption DEF PoolAssumption
    <2>4. Eligible(Upstreams[m], x, y) <=> EligibleAt(Upstreams[m], t)
      BY <1>2, <2>1
    <2>5. Eligible(Upstreams[m], v, w) <=> EligibleAt(Upstreams[m], t)
      BY <2>3, <2>4 DEF NoReturn
    <2> QED
      BY <1>2, <2>2, <2>5
  <1> QED
    BY <1>2, <1>3, <1>4

\* Over a horizon in which no member comes back, a request queued for a member that has
\* closed while another is open is about to be handed back: the set it compares
\* with is never one that agrees with the windows while its choice does not.
THEOREM PoolNoWaitOnClosed ==
    ASSUME NoReturn
    PROVE  Spec => []NoWaitOnClosed
  <1>1. LookInv => NoWaitOnClosed
    <2> SUFFICES ASSUME LookInv, NEW r \in Requests, r \notin gone, pc[r] = "memberq",
                        job[r].choice \notin Open[now], Open[now] # {}
                 PROVE  Stale(r)
      BY DEF NoWaitOnClosed
    <2>1. now \in 0..MaxTime
      BY DEF LookInv, LookTypes
    <2>2. PICK set : TwoLooks(job[r].eligible, set, now) /\ PickedFrom(job[r].choice, set)
      BY DEF LookInv, Looks, AtLook
    <2>3. ASSUME job[r].eligible = Open[now] PROVE FALSE
      <3>1. set = Open[now]
        BY <2>1, <2>2, <2>3, SameLooks
      <3> QED
        BY <2>2, <3>1 DEF PickedFrom
    <2> QED
      BY <2>3 DEF Stale
  <1> QED
    BY <1>1, PoolLooks, PTL
-----------------------------------------------------------------------------
(* Waiting                                                                 *)

\* The requests that wait for a slot of their host or of their member, and
\* those under way that do not.
Blocked ==
    {r \in Requests : \/ pc[r] = "hostq" /\ r \notin host[HostOfJob(r)].holders
                      \/ pc[r] = "memberq" /\ r \notin mem[job[r].choice].holders}
Moving == {r \in Requests : pc[r] \notin {"idle", "done"}} \ Blocked

\* A limiter with a queue has as many holders as slots.
Saturated(s, capacity) == s.queue # <<>> => Cardinality(s.holders) = capacity

\* Nobody is queued beside a free slot, at a host or at a member: a slot that
\* comes free, by a response, a panic, a timeout or a hand-back, is passed on.
THEOREM PoolNoIdleSlot ==
    Spec => [](/\ \A k \in Hosts : Saturated(host[k], HostCap(k))
               /\ \A m \in Members : Saturated(mem[m], Upstreams[m].cap))
  <1>1. ASSUME NEW s, NEW capacity \in Int, NEW W, NEW I, Accounted(s, capacity, W, I)
        PROVE  Saturated(s, capacity)
    <2>1. s.holders \in SUBSET Requests
      BY <1>1 DEF Accounted, Limiters
    <2>2. Cardinality(s.holders) \in Nat
      BY <2>1, HoldersFinite
    <2>3. s.queue # <<>> => /\ Cardinality(s.holders) >= capacity
                            /\ Cardinality(s.holders) <= capacity
      BY <1>1 DEF Accounted
    <2> QED
      BY <2>2, <2>3 DEF Saturated
  <1>2. IInv => /\ \A k \in Hosts : Saturated(host[k], HostCap(k))
                /\ \A m \in Members : Saturated(mem[m], Upstreams[m].cap)
    BY <1>1, Capacities DEF IInv, HostsAccounted, MembersAccounted
  <1> QED
    BY <1>2, PoolInvariant, PTL

\* Whoever waits at a limiter waits for a request that holds a slot of it.
LEMMA WaitsForHolder ==
    ASSUME NEW s, NEW capacity \in Int, NEW W, NEW I, Accounted(s, capacity, W, I),
           NEW r \in W, r \notin s.holders
    PROVE  \E q \in s.holders : q \in W \cup I
  <1>1. s.holders \in SUBSET Requests /\ s.holders \subseteq W \cup I
    BY DEF Accounted, Limiters
  <1>2. s.queue # <<>>
    <2>1. PICK i \in DOMAIN s.queue : s.queue[i] = r
      BY DEF Accounted
    <2> QED
      BY <2>1
  <1>3. capacity > 0 /\ Cardinality(s.holders) >= capacity
    BY <1>2 DEF Accounted
  <1>4. s.holders # {}
    BY <1>3, FS_EmptySet
  <1> QED
    BY <1>1, <1>4

\* Nobody waits for ever on somebody who waits: a request blocked at a member
\* waits for one that holds a slot there and is under way, and one blocked at a
\* host for one that holds a slot there and is under way itself or is blocked at
\* a member, where the former holds.  The two layers are taken in one order.
THEOREM PoolNobodyStuck ==
    Spec => [](/\ \A r \in Blocked : pc[r] = "memberq" =>
                     mem[job[r].choice].holders \cap Moving # {}
               /\ \A r \in Blocked : pc[r] = "hostq" =>
                     \E q \in host[HostOfJob(r)].holders :
                        q \in Moving \/ mem[job[q].choice].holders \cap Moving # {})
  <1>1. ASSUME IInv, LookTypes, NEW r \in Blocked, pc[r] = "memberq"
        PROVE  mem[job[r].choice].holders \cap Moving # {}
    <2> DEFINE m == job[r].choice
    <2>1. r \in Requests /\ m \in Members
      BY <1>1 DEF Blocked, LookTypes, Jobs
    <2>2. Accounted(mem[m], Upstreams[m].cap, MemberWaiting(m), MemberInside(m))
      BY <1>1, <2>1 DEF IInv, MembersAccounted
    <2>3. r \in MemberWaiting(m) /\ r \notin mem[m].holders
      BY <1>1, <2>1 DEF MemberWaiting, Blocked
    <2>4. Upstreams[m].cap \in Int
      BY <2>1, Capacities
    <2> HIDE DEF m
    <2>5. PICK q \in mem[m].holders : q \in MemberWaiting(m) \cup MemberInside(m)
      BY <2>2, <2>3, <2>4, WaitsForHolder
    <2>6. q \in Requests /\ pc[q] \in {"memberq", "serving"} /\ job[q].choice = m
      BY <2>5 DEF MemberWaiting, MemberInside
    <2>7. q \in Moving
      BY <2>5, <2>6 DEF Moving, Blocked
    <2> QED
      BY <2>5, <2>7 DEF m
  <1>2. ASSUME IInv, LookTypes, NEW r \in Blocked, pc[r] = "hostq"
        PROVE  \E q \in host[HostOfJob(r)].holders :
                  q \in Moving \/ mem[job[q].choice].holders \cap Moving # {}
    <2> DEFINE k == HostOfJob(r)
    <2>1. r \in Requests /\ k \in Hosts
      BY <1>2 DEF Blocked, LookTypes, Jobs, HostOfJob, Hosts
    <2>2. Accounted(host[k], HostCap(k), HostWaiting(k), HostInside(k))
      BY <1>2, <2>1 DEF IInv, HostsAccounted
    <2>3. r \in HostWaiting(k) /\ r \notin host[k].holders
      BY <1>2, <2>1 DEF HostWaiting, Blocked
    <2>4. HostCap(k) \in Int
      BY <2>1, Capacities
    <2> HIDE DEF k
    <2>5. PICK q \in host[k].holders : q \in HostWaiting(k) \cup HostInside(k)
      BY <2>2, <2>3, <2>4, WaitsForHolder
    <2>6. /\ q \in Requests /\ HostOfJob(q) = k
          /\ pc[q] \in {"hostq", "member", "memberq", "serving", "leaving", "bounced"}
      BY <2>5 DEF HostWaiting, HostInside, Inside
    <2>7. CASE q \in Blocked
      <3>1. pc[q] = "memberq"
        BY <2>5, <2>6, <2>7 DEF Blocked
      <3>2. mem[job[q].choice].holders \cap Moving # {}
        BY <1>1, <1>2, <2>7, <3>1
      <3> QED
        BY <2>5, <3>2 DEF k
    <2>8. CASE q \notin Blocked
      BY <2>5, <2>6, <2>8 DEF Moving, k
    <2> QED
      BY <2>7, <2>8
  <1>3. LookInv => LookTypes
    BY DEF LookInv
  <1>4. IInv /\ LookTypes =>
           /\ \A r \in Blocked : pc[r] = "memberq" => mem[job[r].choice].holders \cap Moving # {}
           /\ \A r \in Blocked : pc[r] = "hostq" =>
                 \E q \in host[HostOfJob(r)].holders :
                    q \in Moving \/ mem[job[q].choice].holders \cap Moving # {}
    BY <1>1, <1>2
  <1> QED
    BY <1>3, <1>4, PoolInvariant, PoolLooks, PTL

=============================================================================
