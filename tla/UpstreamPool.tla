---------------------------- MODULE UpstreamPool ----------------------------
(***************************************************************************)
(* A provider's upstream pool (pkg/handler/upstream-pool-handler.go) with  *)
(* the limiters below it, as buildUpstreamMembers wires them: a request    *)
(* takes a slot of its member's host and then one of the member itself.    *)
(* A request still queued for its member when the eligible set changes is  *)
(* handed back and selected again (pkg/handler/reselect.go).               *)
(*                                                                         *)
(* A limiter is a value of module Slots: ConcurrencyLimiter is shown to    *)
(* implement that.  A timeout may come at any time, in any queue.          *)
(***************************************************************************)
EXTENDS Eligibility, Slots, FiniteSetsExt

CONSTANTS
    Requests,   \* the requests, each of which comes once
    Hash,       \* Hash[r]: the FNV-1a sum of r's session id, None without one
    Upstreams,  \* the provider's upstreams, in declaration order
    HostLimit,  \* HostLimit[k]: maxConcurrentRequests of the hosts that have one
    RRPeriod,   \* bound: the tie-break counter counts up to here and starts over
    Leavers,    \* bound: the requests whose client may disconnect
    MaxTime     \* bound on the clock

Members == DOMAIN Upstreams
HostOf(m) == UpstreamHostKey(Upstreams[m].upstream)
Hosts == {HostOf(m) : m \in Members}

ASSUME PoolAssumption ==
    /\ IsFiniteSet(Requests)
    /\ Len(Upstreams) \in Nat \ {0} /\ Members = 1..Len(Upstreams)
    /\ MaxTime \in Nat
    /\ \A m \in Members : Upstreams[m].weight \in Nat \ {0} /\ Upstreams[m].cap \in Int
    /\ \A k \in DOMAIN HostLimit : HostLimit[k] \in Int
    /\ \A r \in Requests : Hash[r] = None \/ Hash[r] \in Nat

\* No number of ties can tell the counter from one without the bound.
ASSUME PeriodAssumption ==
    RRPeriod \in Nat \ {0} /\ \A n \in Members : RRPeriod % n = 0

VARIABLES
    now,   \* the router's clock
    rr,    \* the tie-break counter
    host,  \* host[k]: the host's limiter
    mem,   \* mem[m]: the member's limiter
    pc,    \* pc[r]: where r's goroutine is
    job,   \* job[r]: its locals
    gone   \* requests whose client has disconnected

vars == <<now, rr, host, mem, pc, job, gone>>

\* eligible: the set selection is compared with later; idx and loads: what
\* selection works on; choice: the member; from: when the running scan began.
NoJob == [eligible |-> {}, idx |-> <<>>, loads |-> <<>>, choice |-> 1, from |-> 0]

\* idle     no request                   top      at the head of the loop
\* scan     reading the eligible set     select   about to select
\* loads    reading the members' loads
\* host     at the host limiter          hostq    queued there
\* member   at the member limiter        memberq  queued there
\* serving  forwarded                    leaving  the member limiter is left
\* bounced  the same, handed back        done     answered or abandoned
PCs == {"idle", "top", "scan", "select", "loads", "host", "hostq", "member", "memberq",
        "serving", "leaving", "bounced", "done"}

\* NewHostLimiter: a host without a positive limit counts and never queues.
HostCap(k) == IF k \in DOMAIN HostLimit /\ HostLimit[k] > 0 THEN HostLimit[k] ELSE 0

\* NewConcurrencyLimiter returns a member without a cap as it is.
Limited(m) == Upstreams[m].cap > 0

Windowed == \E m \in Members : Upstreams[m].window # None \/ Upstreams[m].days # None

\* The members that are open at each instant, and what a scan that takes from
\* one instant to another may find.
Open == [t \in 0..MaxTime |-> {m \in Members : EligibleAt(Upstreams[m], t)}]
Scanned == [t0 \in 0..MaxTime |-> [t1 \in 0..MaxTime |-> EligibleIndices(Upstreams, t0, t1)]]

Init ==
    /\ now = 0
    /\ rr = 0
    /\ host = [k \in Hosts |-> Idle]
    /\ mem = [m \in Members |-> Idle]
    /\ pc = [r \in Requests |-> "idle"]
    /\ job = [r \in Requests |-> NoJob]
    /\ gone = {}

Goto(r, s) == pc' = [pc EXCEPT ![r] = s]

HostOfJob(r) == HostOf(job[r].choice)
-----------------------------------------------------------------------------
(* Selection                                                               *)

Arrive(r) ==
    /\ pc[r] = "idle"
    /\ Goto(r, "scan")
    /\ job' = [job EXCEPT ![r] = [NoJob EXCEPT !.from = now]]
    /\ UNCHANGED <<now, rr, host, mem, gone>>

\* The loop starts over by looking whether the client is still there.
Top(r) ==
    /\ pc[r] = "top"
    /\ IF r \in gone
       THEN Goto(r, "done") /\ UNCHANGED job
       ELSE /\ Goto(r, "scan")
            /\ job' = [job EXCEPT ![r] = [NoJob EXCEPT !.from = now]]
    /\ UNCHANGED <<now, rr, host, mem, gone>>

\* What a scan for r may find: nothing, when a disconnect cuts it short.
Scans(r) == Scanned[job[r].from][now] \cup (IF r \in gone THEN {{}} ELSE {})

\* The eligible set that a later look is compared with.
ScanEligible(r) ==
    /\ pc[r] = "scan"
    /\ \E eligible \in Scans(r) :
          job' = [job EXCEPT ![r].eligible = eligible, ![r].from = now]
    /\ Goto(r, "select")
    /\ UNCHANGED <<now, rr, host, mem, gone>>

\* Faulty variant: the set to compare with is read after the selection.
Chosen_ScanAfter(r, m) == [NoJob EXCEPT !.choice = m, !.eligible = Open[now]]

\* The locals of r once member m is selected.
Chosen(r, m) == [NoJob EXCEPT !.choice = m, !.eligible = job[r].eligible]

\* The members of a set in declaration order.
Ascending(set) ==
    CHOOSE s \in [1..Cardinality(set) -> set] : \A i, j \in DOMAIN s : i < j => s[i] < s[j]

\* The slots of the first i eligible members: one for every unit of weight.
RingSlots(idx, i) == UNION {{j} \X (1..Upstreams[idx[j]].weight) : j \in 1..i}

Cumulative(idx, i) == Cardinality(RingSlots(idx, i))

\* The weighted ring, as in the model pool; member 1 when nothing is eligible.
PinSlot(idx, hash) ==
    IF idx = <<>> THEN 1
    ELSE idx[Min({i \in DOMAIN idx : Cumulative(idx, i) > hash % Cumulative(idx, Len(idx))})]

\* selectMember scans again: a session is pinned, without one the loads of the
\* eligible members decide.
Select(r) ==
    /\ pc[r] = "select"
    /\ \E set \in Scans(r) :
          LET idx == Ascending(set)
          IN  \/ /\ Hash[r] # None
                 /\ job' = [job EXCEPT ![r] = Chosen(r, PinSlot(idx, Hash[r]))]
                 /\ Goto(r, "host")
              \/ /\ Hash[r] = None /\ idx = <<>>
                 /\ job' = [job EXCEPT ![r] = Chosen(r, 1)]
                 /\ Goto(r, "host")
              \/ /\ Hash[r] = None /\ idx # <<>>
                 /\ job' = [job EXCEPT ![r].idx = idx]
                 /\ Goto(r, "loads")
    /\ UNCHANGED <<now, rr, host, mem, gone>>

\* The load of a member: the slots held, 0 without a limiter.
InFlight(m) == Cardinality(mem[m].holders)

\* leastLoaded reads each load once, and then picks among the smallest; a
\* disconnect ends it with member 1.
ReadLoad(r) ==
    LET j     == job[r]
        loads == Append(j.loads, InFlight(j.idx[Len(j.loads) + 1]))
        least == {i \in DOMAIN j.idx : loads[i] = Min(ToSet(loads))}
        ties  == Ascending({j.idx[i] : i \in least})
    IN  /\ pc[r] = "loads"
        /\ \/ /\ Len(loads) < Len(j.idx)
              /\ job' = [job EXCEPT ![r].loads = loads]
              /\ UNCHANGED <<rr, pc>>
           \/ /\ Len(loads) = Len(j.idx)
              /\ job' = [job EXCEPT ![r] = Chosen(r, ties[(rr % Len(ties)) + 1])]
              /\ rr' = (rr + 1) % RRPeriod
              /\ Goto(r, "host")
           \/ /\ r \in gone
              /\ job' = [job EXCEPT ![r] = Chosen(r, 1)]
              /\ Goto(r, "host")
              /\ UNCHANGED rr
        /\ UNCHANGED <<now, host, mem, gone>>
-----------------------------------------------------------------------------
(* The two limiters                                                        *)

EnterHost(r) ==
    LET k == HostOfJob(r)
    IN  /\ pc[r] = "host"
        /\ IF Free(host[k], HostCap(k))
           THEN /\ host' = [host EXCEPT ![k] = Take(@, r)]
                /\ Goto(r, "member")
           ELSE /\ host' = [host EXCEPT ![k] = Enqueue(@, r)]
                /\ Goto(r, "hostq")
        /\ UNCHANGED <<now, rr, mem, job, gone>>

\* The slot that was passed to r in the queue.
HostGranted(r) ==
    /\ pc[r] = "hostq" /\ r \in host[HostOfJob(r)].holders
    /\ Goto(r, "member")
    /\ UNCHANGED <<now, rr, host, mem, job, gone>>

EnterMember(r) ==
    LET m == job[r].choice
    IN  /\ pc[r] = "member"
        /\ \/ /\ ~Limited(m)
              /\ Goto(r, "serving")
              /\ UNCHANGED mem
           \/ /\ Limited(m) /\ Free(mem[m], Upstreams[m].cap)
              /\ mem' = [mem EXCEPT ![m] = Take(@, r)]
              /\ Goto(r, "serving")
           \/ /\ Limited(m) /\ ~Free(mem[m], Upstreams[m].cap)
              /\ mem' = [mem EXCEPT ![m] = Enqueue(@, r)]
              /\ Goto(r, "memberq")
        /\ UNCHANGED <<now, rr, host, job, gone>>

MemberGranted(r) ==
    /\ pc[r] = "memberq" /\ r \in mem[job[r].choice].holders
    /\ Goto(r, "serving")
    /\ UNCHANGED <<now, rr, host, mem, job, gone>>

\* The queued wait of r ends without a slot.
Leave(s, r) == Drop(s, CHOOSE i \in DOMAIN s.queue : s.queue[i] = r)

\* A timeout (429) or a disconnect in the host's queue: the pool is left too.
LeaveHostQueue(r) ==
    LET k == HostOfJob(r)
    IN  /\ pc[r] = "hostq" /\ r \in Queued(host[k])
        /\ host' = [host EXCEPT ![k] = Leave(@, r)]
        /\ Goto(r, "done")
        /\ job' = [job EXCEPT ![r] = NoJob]
        /\ UNCHANGED <<now, rr, mem, gone>>

\* The same in the member's queue: the host slot is still held.
LeaveMemberQueue(r) ==
    LET m == job[r].choice
    IN  /\ pc[r] = "memberq" /\ r \in Queued(mem[m])
        /\ mem' = [mem EXCEPT ![m] = Leave(@, r)]
        /\ Goto(r, "leaving")
        /\ UNCHANGED <<now, rr, host, job, gone>>

\* The signal's stale function.  A scan that a window edge falls into finds
\* the change now or at the next look, one that a disconnect cuts short finds
\* nothing.
Stale(r) ==
    \E set \in {Open[now]} \cup (IF r \in gone THEN {{}} ELSE {}) : set # job[r].eligible

\* The re-check of a request queued for its member hands it back.
Poll(r) ==
    LET m == job[r].choice
    IN  /\ pc[r] = "memberq" /\ Windowed /\ r \in Queued(mem[m])
        /\ Stale(r)
        /\ mem' = [mem EXCEPT ![m] = Leave(@, r)]
        /\ Goto(r, "bounced")
        /\ UNCHANGED <<now, rr, host, job, gone>>

\* Faulty variant: a request whose client has left does not give it back.
MemberAfter_OnSuccess(r) == IF r \in gone THEN mem[job[r].choice]
                                          ELSE Give(mem[job[r].choice], r)

MemberAfter(r) == Give(mem[job[r].choice], r)

\* The proxy returns, or panics: the member's slot is given back.
Finish(r) ==
    LET m == job[r].choice
    IN  /\ pc[r] = "serving"
        /\ mem' = [mem EXCEPT ![m] = IF Limited(m) THEN MemberAfter(r) ELSE @]
        /\ Goto(r, "leaving")
        /\ UNCHANGED <<now, rr, host, job, gone>>

\* Faulty variant: only a request that is done gives its host slot back.
HostAfter_BounceKeeps(r) == IF pc[r] = "leaving" THEN Give(host[HostOfJob(r)], r)
                                                 ELSE host[HostOfJob(r)]

HostAfter(r) == Give(host[HostOfJob(r)], r)

\* Then the host's, whether the request is over or will be selected again.
Unwind(r) ==
    /\ pc[r] \in {"leaving", "bounced"}
    /\ host' = [host EXCEPT ![HostOfJob(r)] = HostAfter(r)]
    /\ Goto(r, IF pc[r] = "leaving" THEN "done" ELSE "top")
    /\ job' = [job EXCEPT ![r] = NoJob]
    /\ UNCHANGED <<now, rr, mem, gone>>
-----------------------------------------------------------------------------
Disconnect(r) ==
    /\ pc[r] \notin {"idle", "done"} /\ r \in Leavers \ gone
    /\ gone' = gone \cup {r}
    /\ UNCHANGED <<now, rr, host, mem, pc, job>>

Tick ==
    /\ now < MaxTime
    /\ now' = now + 1
    /\ UNCHANGED <<rr, host, mem, pc, job, gone>>

\* What the request goroutine does by itself.
Step(r) ==
    \/ Top(r) \/ ScanEligible(r) \/ Select(r) \/ ReadLoad(r)
    \/ EnterHost(r) \/ HostGranted(r) \/ EnterMember(r) \/ MemberGranted(r)
    \/ Poll(r) \/ Finish(r) \/ Unwind(r)

Terminating == (\A r \in Requests : pc[r] = "done") /\ UNCHANGED vars

Next ==
    \/ Tick
    \/ Terminating
    \/ \E r \in Requests :
          Arrive(r) \/ Step(r) \/ LeaveHostQueue(r) \/ LeaveMemberQueue(r) \/ Disconnect(r)

\* Goroutines run and the proxy's transport bounds a response; nothing is
\* assumed of timeouts, of clients or of the clock.
Fairness == \A r \in Requests : WF_vars(Step(r))

Spec == Init /\ [][Next]_vars /\ Fairness

-----------------------------------------------------------------------------
(* Properties                                                              *)

\* Past the host limiter.
Inside == {r \in Requests : pc[r] \in {"member", "memberq", "serving", "leaving", "bounced"}}

\* Every slot is held by a request that is past its limiter, and every such
\* request holds one, in both layers and through every way out: a response, a
\* panic, a timeout, a disconnect and the hand-back, where the limiter of the
\* member was left and the one of the host has still to be.
SlotsBalanced ==
    /\ \A k \in Hosts :
          /\ host[k].holders \ {r \in Requests : pc[r] = "hostq"}
               = {r \in Inside : HostOfJob(r) = k}
          /\ Queued(host[k]) \subseteq {r \in Requests : pc[r] = "hostq" /\ HostOfJob(r) = k}
    /\ \A m \in Members :
          /\ mem[m].holders \ {r \in Requests : pc[r] = "memberq"}
               = {r \in Requests : pc[r] = "serving" /\ job[r].choice = m /\ Limited(m)}
          /\ Queued(mem[m]) \subseteq {r \in Requests : pc[r] = "memberq" /\ job[r].choice = m}

\* Two URLs of one scheme name the same server.
SameServer(u, v) ==
    LET port(x) == IF x.port = 0 THEN DefaultPort(x) ELSE x.port
    IN  u.scheme = v.scheme /\ u.host = v.host /\ port(u) = port(v)

\* The requests inside the members of one server never exceed the limit of its
\* host, however the members' URLs are written.  It speaks of one scheme: a port
\* is left out of the key as the scheme's own, so http://h:443 and https://h
\* draw from two budgets.
HostBudgetRespected ==
    \A m \in Members :
        HostCap(HostOf(m)) > 0 =>
            Cardinality({r \in Inside : SameServer(Upstreams[job[r].choice].upstream,
                                                   Upstreams[m].upstream)})
              <= HostCap(HostOf(m))

\* A request queued for a member that has closed, while another is open, is
\* about to be handed back: the eligible set, the selection and the queue are
\* three looks at the clock, and a window edge may pass between any two.
NoWaitOnClosed ==
    \A r \in Requests :
        r \notin gone /\ pc[r] = "memberq" /\ r \in Queued(mem[job[r].choice])
          /\ job[r].choice \notin Open[now] /\ Open[now] # {}
            => Stale(r)

\* Within the horizon no member closes, opens and closes again: when two looks
\* at one agree, so does every look between them.
NoReturn ==
    \A m \in Members : \A a, b, c, d, t \in 0..MaxTime :
        LET up == Upstreams[m]
        IN  /\ a <= b /\ b <= c /\ c <= d /\ d <= t
            /\ Eligible(up, a, b) <=> EligibleAt(up, t)
            => (Eligible(up, c, d) <=> EligibleAt(up, t))

\* Every request ends, though it holds its host slot while it waits for its
\* member's and though it may be handed back, and without any timeout.
EveryRequestEnds ==
    \A r \in Requests : pc[r] # "idle" ~> pc[r] = "done"

=============================================================================
