---------------------------- MODULE ModelRouter -----------------------------
(***************************************************************************)
(* One pass of a request through the model router                          *)
(* (pkg/handler/model-router.go) over a configuration that was loaded from *)
(* a file: authentication, the pool or alias the model names, the key pin, *)
(* the walk over the routes, the dispatch and what is recorded of it, with *)
(* the in-flight gauge (inflight.go) and the rejection reason              *)
(* (rejection-reason.go).                                                  *)
(*                                                                         *)
(* Each look at a provider's windows is a step, and the clock may move     *)
(* before, during and after it.  Which member a model pool picks, and what *)
(* happens inside a provider's handler, is left open here: ModelPool,      *)
(* UpstreamPool and the gates are about that.                              *)
(***************************************************************************)
EXTENDS Config, UsageRecorder, FiniteSets

CONSTANTS
    Requests,       \* client connections
    Files,          \* the files the router may be started with
    Models,         \* the models clients ask for; "" when the body names none
    Keys,           \* the keys clients present
    TrimSuffix(_),  \* a model without one trailing [1m], if it has one
    Gates,          \* the reasons of the router's own 429s
    Responses,      \* what upstreams answer: [status, type, encoding, body]
    MaxTime         \* bound on the clock

ASSUME RouterAssumption ==
    /\ IsFiniteSet(Requests)
    /\ MaxTime \in Nat
    /\ \A f \in Files : ParsedFile(f)
    /\ \A resp \in Responses : IsSeq(resp.body)

VARIABLES
    cfg,     \* the loaded configuration
    now,     \* the router's clock
    counts,  \* counts[p]: the in-flight count of provider p
    pc,      \* pc[r]: where r's goroutine is
    job      \* job[r]: its locals

vars == <<cfg, now, counts, pc, job>>

\* by: what decided the provider; requires: requiresLeadingSystem; k: where the
\* walk over the routes goes on; arrived, from: when the request came and when
\* the running step began; left: the client has gone; done: it had when the
\* running step began; sent: what the handler wrote; report: what was recorded.
NoJob == [model |-> Empty, key |-> Empty, by |-> Empty, provider |-> Empty,
          requires |-> <<>>, lifted |-> FALSE, k |-> <<1, 1>>, arrived |-> 0, from |-> 0,
          left |-> FALSE, done |-> FALSE, sent |-> <<>>, report |-> <<>>]

\* idle      no request                    key      at the key pin
\* glob      walking the routes            dispatch provider decided
\* serving   in the provider's handler     answering an answer is being written
\* returned  out of it                     ending   reported, or panicking
PCs == {"idle", "key", "glob", "dispatch", "serving", "answering", "returned", "ending"}

Init ==
    /\ cfg \in {Load(f) : f \in Files} \ {NoFile}
    /\ now = 0
    /\ counts = [p \in DOMAIN cfg.providers |-> 0]
    /\ pc = [r \in Requests |-> "idle"]
    /\ job = [r \in Requests |-> NoJob]

Goto(r, s, j) ==
    /\ pc' = [pc EXCEPT ![r] = s]
    /\ job' = [job EXCEPT ![r] = j]

-----------------------------------------------------------------------------
(* Which provider                                                          *)

\* The first route of a provider carries its list; seed stands when the
\* provider has no route.
RequiresOf(p, seed) ==
    LET own == {a \in Routes(cfg) : Route(cfg, a).provider = p}
    IN  IF own = {} THEN seed ELSE Route(cfg, First(own)).requires

\* The middleware is off without any key; from another host a key is needed,
\* and a key that is presented is kept for the router.
Authenticated(key, loopback) ==
    AllowedApiKeySet(cfg) = {} \/ loopback \/ key \in AllowedApiKeySet(cfg)

PresentedKey(key) == IF AllowedApiKeySet(cfg) = {} THEN Empty ELSE key

\* An alias is resolved once, then the suffix goes.
Resolved(m) == TrimSuffix(IF m # Empty /\ m \in DOMAIN cfg.aliases THEN cfg.aliases[m] ELSE m)

\* The next look begins.
Onward(j) == [j EXCEPT !.from = now, !.done = j.left]

\* The provider is decided, and the lift begins.
Decided(j) == [j EXCEPT !.from = NoJob.from, !.k = NoJob.k, !.done = j.left]

\* The 401 of the middleware and the 413 and 400 of a body that cannot be read
\* leave nothing behind; otherwise the request is on its way, and one that
\* names a pool is already at its provider.
Receive(r) ==
    /\ pc[r] = "idle"
    /\ \E m \in Models, key \in Keys \cup {Empty}, loopback \in BOOLEAN :
          LET seed == RequiresOf(cfg.default, <<>>)
              j    == [NoJob EXCEPT !.key = PresentedKey(key), !.provider = cfg.default,
                                    !.requires = seed, !.arrived = now]
          IN  /\ Authenticated(key, loopback)
              /\ \/ /\ m \notin DOMAIN cfg.pools
                    /\ Goto(r, "key", Onward([j EXCEPT !.model = Resolved(m)]))
                 \/ /\ m \in DOMAIN cfg.pools
                    /\ \E i \in DOMAIN cfg.pools[m] :
                          LET member == cfg.pools[m][i]
                          IN  Goto(r, "dispatch",
                                   [j EXCEPT !.model = TrimSuffix(member.model), !.by = "pool",
                                             !.provider = member.provider,
                                             !.requires = RequiresOf(member.provider, seed)])
    /\ UNCHANGED <<cfg, now, counts>>

\* What a step may answer that looks at the request's context as it goes and
\* gives up once the client has left: that client may have left before, while or
\* after it looked.
Cancelled(j, answers) ==
    IF j.done THEN {FALSE} ELSE answers \cup (IF j.left THEN {FALSE} ELSE {})

\* What windowEligible may say of a provider in the time the look takes.  Only
\* the pool handler can be asked: a provider with a gate around it is open.  To
\* a client that has left, every other one is closed.
WindowEligible(j, p) ==
    IF cfg.providers[p].gated THEN {TRUE}
    ELSE Cancelled(j, {set # {} : set \in EligibleIndices(cfg.providers[p].upstreams, j.from, now)})

\* Faulty variant: the provider changes and the list does not.
To_KeepsList(j, route, by) == [j EXCEPT !.by = by, !.provider = route.provider]

\* The request goes to the provider of this route.
To(j, route, by) ==
    [j EXCEPT !.by = by, !.provider = route.provider, !.requires = route.requires]

\* Faulty variant: a pinned provider that is closed is served all the same.
KeyOpen_Ignored(j, p) == {TRUE}

KeyOpen(j, p) == WindowEligible(j, p)

\* The first route that claims the key wins, unless its provider is closed.
KeyStep(r) ==
    LET j == job[r]
        claims == {a \in Routes(cfg) : Contains(Route(cfg, a).keys, j.key)}
        route == Route(cfg, First(claims))
    IN  /\ pc[r] = "key"
        /\ \/ /\ j.key = Empty \/ claims = {}
              /\ Goto(r, "glob", Onward(j))
           \/ /\ j.key # Empty /\ claims # {}
              /\ \E open \in KeyOpen(j, route.provider) :
                    IF open THEN Goto(r, "dispatch", Decided(To(j, route, "key")))
                            ELSE Goto(r, "glob", Onward(j))
        /\ UNCHANGED <<cfg, now, counts>>

\* The next route whose pattern matches, if its provider is open, else the one
\* after it; at the end the default provider, open or not.
GlobStep(r) ==
    LET j == job[r]
        rest == {a \in Routes(cfg) : ~Before(a, j.k) /\ Match(Route(cfg, a).pattern, j.model)}
        a == First(rest)
        route == Route(cfg, a)
    IN  /\ pc[r] = "glob"
        /\ \/ /\ rest = {}
              /\ Goto(r, "dispatch", Decided([j EXCEPT !.by = "default"]))
           \/ /\ rest # {}
              /\ \E open \in WindowEligible(j, route.provider) :
                    IF open THEN Goto(r, "dispatch", Decided(To(j, route, "glob")))
                            ELSE Goto(r, "glob", Onward([j EXCEPT !.k = <<a[1], a[2] + 1>>]))
        /\ UNCHANGED <<cfg, now, counts>>

-----------------------------------------------------------------------------
(* Dispatch and report                                                     *)

matchesAnyPattern(patterns, m) == \E i \in DOMAIN patterns : Match(patterns[i], m)

\* Misplaced system messages are lifted, unless the client has left, and the
\* gauge counts the request either way.
Dispatch(r) ==
    LET j == job[r]
    IN  /\ pc[r] = "dispatch"
        /\ \E lifted \in Cancelled(j, {matchesAnyPattern(j.requires, j.model)}) :
              Goto(r, "serving", [NoJob EXCEPT !.provider = j.provider, !.model = j.model,
                                               !.lifted = lifted, !.left = j.left])
        /\ counts' = [counts EXCEPT ![j.provider] = @ + 1]
        /\ UNCHANGED <<cfg, now>>

Silence == [status |-> 0, reason |-> Empty, tail |-> <<>>, n |-> 0]

\* The locals of r once its answer has begun: where it is served, and what the
\* recorder holds.
Recorded(r, sent) == [NoJob EXCEPT !.provider = job[r].provider, !.sent = sent]

\* An upstream answers: the header is written.
Answer(r) ==
    /\ pc[r] = "serving"
    /\ \E resp \in Responses :
          Goto(r, "answering", Recorded(r, [status |-> resp.status, reason |-> Empty, tail |-> <<>>,
                                            n |-> 0, resp |-> resp]))
    /\ UNCHANGED <<cfg, now, counts>>

\* The next chunk of the body is written through to the client; the recorder
\* keeps the end of what got there.
Write(r) ==
    LET s == job[r].sent
    IN  /\ pc[r] = "answering"
        /\ \E n \in (s.n + 1)..Len(s.resp.body) :
              Goto(r, "answering",
                   Recorded(r, [s EXCEPT !.tail = write(s.tail, SubSeq(s.resp.body, s.n + 1, n)),
                                         !.n = n]))
        /\ UNCHANGED <<cfg, now, counts>>

Returned(r, sent) == Goto(r, "returned", Recorded(r, sent))

\* The handler returns: with the 429 of a gate, without a word to a client that
\* left, or with an answer, wherever the stream broke off.
Return(r) ==
    /\ \/ /\ pc[r] = "serving"
          /\ \E gate \in Gates : Returned(r, [Silence EXCEPT !.status = 429, !.reason = gate])
       \/ pc[r] = "serving" /\ job[r].left /\ Returned(r, Silence)
       \/ pc[r] = "answering" /\ Returned(r, job[r].sent)
    /\ UNCHANGED <<cfg, now, counts>>

\* Faulty variant: the gauge is taken down after the report only.
AfterPanic_NoDefer == "idle"

\* Where a panic leads: to what was deferred.
AfterPanic == "ending"

\* The handler panics, as the proxy does when a response breaks off: there is
\* no report.
Panic(r) ==
    /\ pc[r] \in {"serving", "answering"}
    /\ Goto(r, AfterPanic, IF AfterPanic = "idle" THEN NoJob ELSE Recorded(r, <<>>))
    /\ UNCHANGED <<cfg, now, counts>>

\* No status is a 200; a 429 that no gate claimed is the upstream's; counts are
\* read off a 200 only.
Reported(s) ==
    LET status == IF s.status = 0 THEN 200 ELSE s.status
    IN  [status |-> status,
         reason |-> IF status # 429 THEN Empty
                    ELSE IF s.reason # Empty THEN s.reason ELSE "upstream",
         usage  |-> IF status = 200 /\ s.tail # <<>> THEN ExtractUsage(s.tail, s.resp) ELSE noUsage]

Report(r) ==
    /\ pc[r] = "returned"
    /\ Goto(r, "ending", [job[r] EXCEPT !.report = Reported(job[r].sent)])
    /\ UNCHANGED <<cfg, now, counts>>

\* The deferred end of the gauge.
End(r) ==
    /\ pc[r] = "ending"
    /\ counts' = [counts EXCEPT ![job[r].provider] = IF @ > 0 THEN @ - 1 ELSE 0]
    /\ Goto(r, "idle", NoJob)
    /\ UNCHANGED <<cfg, now>>

\* The client goes away: the server cancels the request's context, at which the
\* router itself does not look.
Disconnect(r) ==
    /\ pc[r] \in {"key", "glob", "dispatch", "serving"}
    /\ ~job[r].left
    /\ Goto(r, pc[r], [job[r] EXCEPT !.left = TRUE])
    /\ UNCHANGED <<cfg, now, counts>>

Tick ==
    /\ now < MaxTime
    /\ now' = now + 1
    /\ UNCHANGED <<cfg, counts, pc, job>>

Next ==
    \/ Tick
    \/ \E r \in Requests :
          \/ Receive(r) \/ KeyStep(r) \/ GlobStep(r)
          \/ Dispatch(r) \/ Answer(r) \/ Write(r)
          \/ Return(r) \/ Panic(r) \/ Report(r) \/ End(r)
          \/ Disconnect(r)

Spec == Init /\ [][Next]_vars

-----------------------------------------------------------------------------
(* Properties                                                              *)

Providers == DOMAIN cfg.providers
Ups(p) == cfg.providers[p].upstreams

TypeOK ==
    /\ now \in 0..MaxTime
    /\ counts \in [Providers -> 0..Cardinality(Requests)]
    /\ pc \in [Requests -> PCs]
    /\ \A r \in Requests : pc[r] # "idle" => job[r].provider \in Providers

\* Every upstream of the provider was closed at an instant since t.  The scan
\* reads the clock for each of them, so that is all a request that finds the
\* provider closed can know.
ClosedSince(p, t) ==
    \A i \in DOMAIN Ups(p) : \E u \in t..now : ~EligibleAt(Ups(p)[i], u)

\* Some upstream had its window open at an instant since t, and its day.
OpenSince(p, t) ==
    \E i \in DOMAIN Ups(p), u, v \in t..now : Eligible(Ups(p)[i], u, v)

\* What the file says of a provider.  Keys and patterns are those of its routes.
ClaimsKey(p, key) ==
    key # Empty /\ cfg.providers[p].models # <<>> /\ Contains(cfg.providers[p].keys, key)
Serves(p, m) == matchesAnyPattern(cfg.providers[p].models, m)
DeclaredBefore(p, q) ==
    \E i, j \in DOMAIN cfg.order : i < j /\ cfg.order[i] = p /\ cfg.order[j] = q

\* Why the request may not be at a provider that should have it.
PassedOver(p, j) == ClosedSince(p, j.arrived) \/ (j.left /\ ~cfg.providers[p].gated)

\* A key that a provider claims pins the request there, and otherwise it goes
\* to the provider declared first among those that serve the model; a provider
\* is passed over only if it was closed since the request came, or if the client
\* has left and no gate hides the provider's pool, and the default is what
\* remains.  The windows and the context are looked at one route after the
\* other while the clock goes on and the client may go away.
RoutedAsDeclared ==
    \A r \in Requests :
        LET j == job[r]
        IN  pc[r] = "dispatch" /\ j.by # "pool" =>
              /\ \A p \in Providers :
                    ClaimsKey(p, j.key) => j.provider = p \/ PassedOver(p, j)
              /\ j.by = "key" => ClaimsKey(j.provider, j.key)
              /\ j.by = "glob" => Serves(j.provider, j.model)
              /\ j.by = "default" => j.provider = cfg.default
              /\ \A p \in Providers :
                    Serves(p, j.model) /\ j.by # "key"
                      /\ (j.by = "default" \/ DeclaredBefore(p, j.provider))
                        => PassedOver(p, j)

\* A provider whose windows exclude the whole time since the request came is
\* not the one that a key or a pattern sends it to.
ClosedSkipped ==
    \A r \in Requests :
        pc[r] = "dispatch" /\ job[r].by \in {"key", "glob"} =>
            OpenSince(job[r].provider, job[r].arrived)

\* System messages are lifted by the list of the provider that the request
\* goes to, however it got there, as far as that provider has a route; only a
\* client that had left by then goes without.
LiftedByOwnList ==
    \A r \in Requests :
        LET p == cfg.providers[job[r].provider]
            listed == matchesAnyPattern(p.requires, job[r].model)
        IN  pc[r] = "serving" /\ p.models # <<>> =>
               /\ job[r].lifted => listed
               /\ ~job[r].left => job[r].lifted = listed

\* The gauge counts the requests between their dispatch and their end, through
\* a panic as well.
GaugeBalanced ==
    \A p \in Providers :
        counts[p] = Cardinality({r \in Requests : pc[r] \in {"serving", "answering", "returned", "ending"}
                                                    /\ job[r].provider = p})

\* The clock times from the beginning of a window up to its end, counted off.
CountedOff(w) ==
    {(w.from.tod + i) % DayLength : i \in 0..(((w.until.tod - w.from.tod) % DayLength) - 1)}

\* A window holds the times of day from its beginning up to its end, over
\* midnight too, none at all when the two are equal, and by the clock of its own
\* location.
WindowHalfOpen ==
    \A p \in Providers : \A i \in DOMAIN Ups(p) :
        LET w == Ups(p)[i].window
        IN  w # None => (WindowContains(w, now) <=> TimeOfDay(now, w.from.loc) \in CountedOff(w))

\* A file that is loaded can be served: every ring has a positive weight
\* whatever is eligible, every name the router looks up exists, one provider at
\* most claims a key, a window has both ends, and no weekday is read off the
\* wrong calendar.
LoadedIsServable ==
    /\ cfg.default \in Providers
    /\ \A p \in Providers : Ups(p) # <<>> /\ \A i \in DOMAIN Ups(p) :
          /\ Ups(p)[i].weight > 0
          /\ Ups(p)[i].window # None =>
                AbsentTime \notin {Ups(p)[i].window.from, Ups(p)[i].window.until}
          /\ Ups(p)[i].days # None =>
                {Ups(p)[i].days.loc} \cup ToSet(WindowLocations(Ups(p)[i].window)) # {None}
    /\ \A p, q \in Providers :
          p # q => ToSet(cfg.providers[p].keys) \cap ToSet(cfg.providers[q].keys) = {}
    /\ \A n \in DOMAIN cfg.pools : cfg.pools[n] # <<>> /\ \A i \in DOMAIN cfg.pools[n] :
          cfg.pools[n][i].weight > 0 /\ cfg.pools[n][i].provider \in Providers

\* The counts the events of a name really carried, in what was sent.
Carried(s, name) ==
    ({s.resp.body[i + 1].usage : i \in {j \in 1..(s.n - 1) : s.resp.body[j] = Mark(name)}}
      \cup {s.resp.body[i].usage : i \in {j \in 1..s.n : s.resp.body[j].unit = "left"}}) \ {Absent}

\* A line carries counts.
Counted(unit) == unit.unit = "data" /\ unit.usage \in Usages

\* A stream of events: the start at a, unless a is 0 and there is none, with
\* counts or without, then lines without any, which may quote a marker, and the
\* delta with its counts at d, among the last TailCap units.  The first line
\* after one that quotes a marker has no counts.  Lines end in one way.
StreamAt(body, a, d) ==
    /\ d \in DOMAIN body /\ d + 1 \in DOMAIN body /\ a \in 0..(d - 1)
    /\ Len(body) < d + TailCap
    /\ body[d] = Mark("delta")
    /\ Counted(body[d + 1])
    /\ a > 0 => /\ body[a] = Mark("start")
                /\ body[a + 1].unit = "data" /\ body[a + 1].usage \in Usages \cup {Absent}
    /\ \A i \in DOMAIN body : body[i].unit # "left"
    /\ \A i, j \in DOMAIN body :
          body[i].unit = "data" /\ body[j].unit = "data" => body[i].crlf = body[j].crlf
    /\ \A i \in DOMAIN body \ {a, d} :
          body[i].unit = "mark" /\ body[i].name \in {"start", "delta"} =>
              /\ body[i].quoted /\ i < d
              /\ \A j \in (i + 1)..Len(body) :
                    /\ body[j].unit = "data"
                    /\ \A k \in (i + 1)..(j - 1) : body[k].unit # "data"
                    => body[j].usage = Absent

Stream(body) == \E d \in DOMAIN body : \E a \in 0..(d - 1) : StreamAt(body, a, d)

\* An object, whose text may quote a marker.
Object(body) ==
    \A i \in DOMAIN body :
        \/ i = 1 /\ body[i].unit = "left" /\ body[i].usage \in Usages \cup {Absent}
        \/ body[i].unit = "right"
        \/ body[i].unit = "mark" /\ body[i].quoted

\* What upstreams answer keeps to the format of the messages API.
WellFormed ==
    \A resp \in Responses : Stream(resp.body) \/ (resp.type # "sse" /\ Object(resp.body))

\* No line ends in CRLF.
LinesEndInLF(body) == \A i \in DOMAIN body : body[i].unit = "data" => ~body[i].crlf

\* The counts that are reported were sent: never those of another event and
\* never a zero where a count was sent; a stream that got through has its output
\* count, if its lines end in LF; and the buffer they are read from holds the end
\* of what was written, whatever the chunks were.
UsageFaithful ==
    \A r \in Requests :
        LET s == job[r].sent
            u == job[r].report.usage
            carried == Carried(s, "start") \cup Carried(s, "delta")
        IN  pc[r] = "ending" /\ job[r].report # <<>> /\ s.n > 0 =>
              /\ s.tail = SubSeq(s.resp.body, IF s.n > TailCap THEN s.n - TailCap + 1 ELSE 1, s.n)
              /\ u.in # Absent => /\ \E c \in carried : c.in = u.in
                                  /\ u.in = 0 => \A c \in carried : c.in = 0
              /\ u.out # Absent => \E c \in Carried(s, "delta") : c.out = u.out
              /\ s.status = 200 /\ s.resp.type = "sse" /\ s.resp.encoding = "identity"
                   /\ s.n = Len(s.resp.body) /\ LinesEndInLF(s.resp.body) => u.out # Absent

=============================================================================
