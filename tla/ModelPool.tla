----------------------------- MODULE ModelPool ------------------------------
(***************************************************************************)
(* Member selection in a model pool (pkg/handler/model-pool.go).  Resolve  *)
(* pins a session to a member by a weighted ring hash, with failover to a  *)
(* sibling when the member's provider is saturated, and sends a request    *)
(* without a session to the least-loaded member.                           *)
(*                                                                         *)
(* Every look at a member (its window, its in-flight count) is a step of   *)
(* its own: the counts are live gauges that any traffic moves, and window  *)
(* edges pass while the members are looked at.  A provider is abstracted   *)
(* to one upstream, whose cap decides whether the provider is saturated.   *)
(***************************************************************************)
EXTENDS Naturals, FiniteSets, SequencesExt

CONSTANTS
    Requests,   \* client connections
    N,          \* the pool has members 1..N, in declaration order
    Weight,     \* Weight[m]
    Overflow,   \* the members that declare overflow
    Cap,        \* Cap[m]: the provider's cap, 0 when it has none
    Hashes,     \* the session ids, as their FNV-1a sums
    NoSession,  \* the empty session id
    RRPeriod    \* bound: the tie-break counter counts up to here and starts over

Members == 1..N

ASSUME PoolAssumption ==
    /\ N \in Nat \ {0}
    /\ Weight \in [Members -> Nat \ {0}]
    /\ Overflow \subseteq Members
    /\ Cap \in [Members -> Nat]
    /\ Hashes \subseteq Nat /\ NoSession \notin Hashes

\* No number of ties can tell the counter from one without the bound.
ASSUME PeriodAssumption ==
    RRPeriod \in Nat \ {0} /\ \A n \in Members : RRPeriod % n = 0

VARIABLES
    load,  \* load[m]: what the member's InFlight returns
    open,  \* members whose provider has an eligible upstream
    rr,    \* the tie-break counter
    pc,    \* pc[r]: where r's goroutine is in Resolve
    job,   \* job[r]: the locals of Resolve and of what it calls
    last   \* history: the ties and the choice of the last round-robin pick

vars == <<load, open, rr, pc, job, last>>

\* The locals: what the request is resolved by (least, pin, or over once its
\* pinned member overflows), the hash, the position in the running loop, the
\* eligible indices, the minimum, the ties, the pinned and the chosen member;
\* and, as history, whether no load has moved so far.
NoJob == [by |-> "", hash |-> 0, k |-> 1, idx |-> <<>>, min |-> 0,
          ties |-> <<>>, pinned |-> 0, chosen |-> 0, quiet |-> FALSE]

\* idle   no request                     scan  in eligibleIndices
\* least  looking for the minimum        ties  collecting the members at it
\* pick   the ties are complete          pin   at the ring
\* over   looking for the sibling        done  Resolve has returned
PCs == {"idle", "scan", "least", "ties", "pick", "pin", "over", "done"}

Init ==
    /\ load = [m \in Members |-> 0]
    /\ open \in SUBSET Members
    /\ rr = 0
    /\ pc = [r \in Requests |-> "idle"]
    /\ job = [r \in Requests |-> NoJob]
    /\ last = [ties |-> <<>>, chosen |-> 0]

-----------------------------------------------------------------------------
(* The ring                                                                *)

\* The slots of the first i eligible members: one for every unit of weight.
RingSlots(idx, i) == UNION {{j} \X (1..Weight[idx[j]]) : j \in 1..i}

Cumulative(idx, i) == Cardinality(RingSlots(idx, i))
Total(idx) == Cumulative(idx, Len(idx))

\* Faulty variant: the comparison with the slot is not strict.
PinSlot_OffByOne(idx, hash) ==
    IF idx = <<>> THEN 1
    ELSE idx[Min({i \in 1..Len(idx) : Cumulative(idx, i) >= (hash % Total(idx))})]

\* The first eligible member whose cumulative weight exceeds the slot; without
\* an eligible member the first one.
PinSlot(idx, hash) ==
    IF idx = <<>> THEN 1
    ELSE idx[Min({i \in 1..Len(idx) : Cumulative(idx, i) > (hash % Total(idx))})]

Saturated(m) == Cap[m] > 0 /\ load[m] >= Cap[m]

-----------------------------------------------------------------------------
(* Resolve                                                                 *)

\* The request goroutine goes to state s with locals j.
Goto(r, s, j) ==
    /\ pc' = [pc EXCEPT ![r] = s]
    /\ job' = [job EXCEPT ![r] = j]

Resolved(r, m) == Goto(r, "done", [job[r] EXCEPT !.chosen = m])

\* What leastLoaded and overflowTarget return when they have nothing to choose
\* from.
Fallback(j) == IF j.by = "over" THEN j.pinned ELSE 1

\* Resolve is called.
Begin(r) ==
    /\ pc[r] = "idle"
    /\ \E h \in Hashes \cup {NoSession} :
          Goto(r, "scan",
               [NoJob EXCEPT !.by = IF h = NoSession THEN "least" ELSE "pin",
                             !.hash = IF h = NoSession THEN 0 ELSE h,
                             !.quiet = TRUE])
    /\ UNCHANGED <<load, open, rr, last>>

\* eligibleIndices looks at one more member; after the last one the selection
\* goes on with what was found.
EligibleStep(r) ==
    LET j   == job[r]
        idx == IF j.k \in open THEN Append(j.idx, j.k) ELSE j.idx
    IN  /\ pc[r] = "scan"
        /\ \/ /\ j.k < N
              /\ Goto(r, "scan", [j EXCEPT !.idx = idx, !.k = j.k + 1])
           \/ /\ j.k = N /\ (idx # <<>> \/ j.by = "pin")
              /\ Goto(r, j.by, [j EXCEPT !.idx = idx, !.k = 1])
           \/ /\ j.k = N /\ idx = <<>> /\ j.by # "pin"
              /\ Resolved(r, Fallback(j))
        /\ UNCHANGED <<load, open, rr, last>>

\* A loop over idx ends or goes on after its element k.
Continue(r, s, j) ==
    IF j.k < Len(j.idx) THEN Goto(r, pc[r], [j EXCEPT !.k = j.k + 1])
                        ELSE Goto(r, s, [j EXCEPT !.k = 1])

\* Faulty variant: the first member's load is not the start value.
Smaller_FromZero(j, x) == x < j.min

\* The loop body's first pass over the loads keeps the smallest.
Smaller(j, x) == j.k = 1 \/ x < j.min

\* leastLoaded, first reading of one member's load.
FindMin(r) ==
    LET j == job[r]
        x == load[j.idx[j.k]]
    IN  /\ pc[r] = "least"
        /\ Continue(r, "ties", [j EXCEPT !.min = IF Smaller(j, x) THEN x ELSE j.min])
        /\ UNCHANGED <<load, open, rr, last>>

\* leastLoaded, second reading of one member's load.
CollectTies(r) ==
    LET j == job[r]
        m == j.idx[j.k]
    IN  /\ pc[r] = "ties"
        /\ Continue(r, "pick",
                    [j EXCEPT !.ties = IF load[m] = j.min THEN Append(j.ties, m) ELSE j.ties])
        /\ UNCHANGED <<load, open, rr, last>>

\* Faulty variant: the counter stays where it is.
NextRR_Stuck == rr

NextRR == (rr + 1) % RRPeriod

\* leastLoaded, the round-robin pick among the ties.
PickTie(r) ==
    LET ties == job[r].ties
        m    == ties[(rr % Len(ties)) + 1]
    IN  /\ pc[r] = "pick"
        /\ ties # <<>>
        /\ rr' = NextRR
        /\ Resolved(r, m)
        /\ last' = [ties |-> ties, chosen |-> m]
        /\ UNCHANGED <<load, open>>

\* leastLoaded without a tie: rr is advanced, the modulo by zero panics, and
\* net/http drops the connection.
DivideByZero(r) ==
    /\ pc[r] = "pick"
    /\ job[r].ties = <<>>
    /\ rr' = NextRR
    /\ last' = [ties |-> <<>>, chosen |-> 0]
    /\ Goto(r, "idle", NoJob)
    /\ UNCHANGED <<load, open>>

\* pinSlot, then the test whether the pinned member overflows.
Pin(r) ==
    LET j == job[r]
        p == PinSlot(j.idx, j.hash)
    IN  /\ pc[r] = "pin"
        /\ \/ /\ p \in Overflow /\ Saturated(p)
              /\ Goto(r, "scan", [j EXCEPT !.by = "over", !.pinned = p, !.idx = <<>>])
           \/ /\ ~(p \in Overflow /\ Saturated(p))
              /\ Goto(r, "done", [j EXCEPT !.pinned = p, !.chosen = p])
        /\ UNCHANGED <<load, open, rr, last>>

\* Faulty variant: the excluded member is considered as well.
Sibling_Any(j, m) == TRUE

Sibling(j, m) == m # j.pinned

\* overflowTarget looks at one more sibling; chosen is its minIdx, 0 while it
\* is still excluded.
OverflowStep(r) ==
    LET j      == job[r]
        m      == j.idx[j.k]
        better == Sibling(j, m) /\ (j.chosen = 0 \/ load[m] < j.min)
        best   == IF better THEN [j EXCEPT !.chosen = m, !.min = load[m]] ELSE j
    IN  /\ pc[r] = "over"
        /\ \/ /\ j.k < Len(j.idx)
              /\ Goto(r, "over", [best EXCEPT !.k = j.k + 1])
           \/ /\ j.k = Len(j.idx)
              /\ Goto(r, "done", [best EXCEPT !.chosen =
                                     IF best.chosen = 0 THEN j.pinned ELSE best.chosen])
        /\ UNCHANGED <<load, open, rr, last>>

\* A loop sees that the client has gone: every one of them gives up with the
\* fallback.
ClientGone(r) ==
    /\ pc[r] \in {"scan", "least", "ties", "pin", "over"}
    /\ Goto(r, "done", [job[r] EXCEPT !.by = "gone", !.chosen = Fallback(job[r])])
    /\ UNCHANGED <<load, open, rr, last>>

\* The router has the member and dispatches to it.
Dispatch(r) ==
    /\ pc[r] = "done"
    /\ Goto(r, "idle", NoJob)
    /\ UNCHANGED <<load, open, rr, last>>

-----------------------------------------------------------------------------
(* The rest of the router                                                  *)

\* A request takes or frees a slot at a member's provider; one without a cap
\* has no counter and reads 0.
LoadMoves(m) ==
    /\ \/ load[m] < Cap[m] /\ load' = [load EXCEPT ![m] = @ + 1]
       \/ load[m] > 0 /\ load' = [load EXCEPT ![m] = @ - 1]
    /\ job' = [r \in Requests |-> [job[r] EXCEPT !.quiet = FALSE]]
    /\ UNCHANGED <<open, rr, pc, last>>

\* A window edge passes at a member's provider.
WindowEdge(m) ==
    /\ open' = IF m \in open THEN open \ {m} ELSE open \cup {m}
    /\ UNCHANGED <<load, rr, pc, job, last>>

Resolve(r) ==
    \/ Begin(r) \/ EligibleStep(r)
    \/ FindMin(r) \/ CollectTies(r) \/ PickTie(r) \/ DivideByZero(r)
    \/ Pin(r) \/ OverflowStep(r) \/ ClientGone(r) \/ Dispatch(r)

Next ==
    \/ \E r \in Requests : Resolve(r)
    \/ \E m \in Members : LoadMoves(m) \/ WindowEdge(m)

Spec == Init /\ [][Next]_vars

-----------------------------------------------------------------------------
(* Properties                                                              *)

\* The types of the pool's state and of the locals; members are chosen within
\* the pool, and once Resolve returns there is one.
TypeOK ==
    /\ \A m \in Members : load[m] \in 0..Cap[m]
    /\ open \subseteq Members
    /\ rr \in 0..(RRPeriod - 1)
    /\ pc \in [Requests -> PCs]
    /\ \A r \in Requests :
          /\ job[r].k \in 1..N
          /\ Range(job[r].idx) \cup Range(job[r].ties) \subseteq Members
          /\ {job[r].pinned, job[r].chosen} \subseteq Members \cup {0}
          /\ pc[r] = "done" => job[r].chosen # 0
    /\ DOMAIN last = {"ties", "chosen"}

\* leastLoaded's promise where it can be kept: if no load moved since Resolve
\* was called, no member that the scan found eligible has a smaller one, and
\* there was a member to pick.
LeastLoadedWhenQuiet ==
    \A r \in Requests :
        LET j == job[r]
        IN  /\ pc[r] = "done" /\ j.by = "least" /\ j.quiet /\ j.idx # <<>>
                => \A m \in Range(j.idx) : load[j.chosen] <= load[m]
            /\ pc[r] = "pick" /\ j.quiet => j.ties # <<>>

\* Failover goes to a sibling whenever the second scan found one, to the least
\* loaded one if no load moved, although the first scan, the saturation test
\* and the second scan see three different moments.
OverflowFindsSibling ==
    \A r \in Requests :
        LET j        == job[r]
            siblings == Range(j.idx) \ {j.pinned}
        IN  pc[r] = "done" /\ j.by = "over" /\ siblings # {}
                => /\ j.chosen \in siblings
                   /\ j.quiet => \A m \in siblings : load[j.chosen] <= load[m]

\* The ring gives every eligible member as many of the slots as its weight,
\* whichever of its neighbours are closed.
PinnedByWeight ==
    \A r \in Requests :
        LET idx == job[r].idx
        IN  pc[r] = "pin"
                => \A m \in Range(idx) :
                      Cardinality({s \in 0..(Total(idx) - 1) : PinSlot(idx, s) = m})
                          = Weight[m]

\* Equally loaded members share the traffic: two picks in a row among the same
\* several ties never choose the same member, whichever requests they serve.
TiesSpread ==
    [][\A r \in Requests :
          /\ pc[r] = "pick" /\ pc'[r] = "done"
          /\ Len(job[r].ties) > 1 /\ job[r].ties = last.ties
          => job'[r].chosen # last.chosen]_vars

\* leastLoaded "returns the index of the currently-eligible member with the
\* fewest in-flight requests": it returns one whenever some member is eligible.
TiesNeverEmpty ==
    \A r \in Requests : pc[r] = "pick" => job[r].ties # <<>>

=============================================================================
