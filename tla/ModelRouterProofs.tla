------------------------- MODULE ModelRouterProofs --------------------------
(***************************************************************************)
(* Proofs about the model router, for every set of files, models, keys and *)
(* client connections and for every length of the clock.                   *)
(*                                                                         *)
(* RoutedAsDeclared speaks of the moment of dispatch only.  What makes it  *)
(* true is known step by step while the routes are walked: every route     *)
(* before the place the walk has come to that matches the model was found  *)
(* closed (AtGlob), so when the walk stops at a route, whoever is declared *)
(* before it and serves the model was closed since the request came.  The  *)
(* lift list is that of the provider decided on so far at every step       *)
(* (OwnList).  What the steps rely on in a configuration (Loaded) is what  *)
(* normalisation and validation leave of a file.                           *)
(*                                                                         *)
(* What is reported of an answer rests on the recorder's buffer: chunk by  *)
(* chunk it is the end of what was written (RecordInv), so a scan of it is *)
(* a scan of the body from the first unit kept.                            *)
(***************************************************************************)
EXTENDS ModelRouter, FiniteSetTheorems, SequenceTheorems, WellFoundedInduction, TLAPS

-----------------------------------------------------------------------------
(* The list of routes                                                      *)

\* A set of numbers that is not empty has a smallest one.
LEMMA SmallestNumber ==
    ASSUME NEW S, S \subseteq Nat, S # {}
    PROVE  \E m \in S : \A n \in S : m <= n
  <1>1. PICK m \in S : \A n \in S : <<n, m>> \notin OpToRel(<, Nat)
    BY NatLessThanWellFounded, WFMin
  <1>2. \A n \in S : ~(n < m)
    BY <1>1 DEF OpToRel
  <1> QED
    BY <1>2

\* A loop that looks for one of several routes stops at the first of them.
LEMMA FirstIsFirst ==
    ASSUME NEW S, S \subseteq Nat \X Nat, S # {}
    PROVE  First(S) \in S /\ \A b \in S : b = First(S) \/ Before(First(S), b)
  <1> DEFINE I == {a[1] : a \in S}
  <1>1. PICK i \in I : \A n \in I : i <= n
    <2>1. I \subseteq Nat /\ I # {}
      OBVIOUS
    <2> HIDE DEF I
    <2> QED
      BY <2>1, SmallestNumber
  <1> DEFINE J == {a[2] : a \in {b \in S : b[1] = i}}
  <1>2. PICK j \in J : \A n \in J : j <= n
    <2>1. J \subseteq Nat /\ J # {}
      OBVIOUS
    <2> HIDE DEF I, J
    <2> QED
      BY <2>1, SmallestNumber
  <1>3. <<i, j>> \in S
    OBVIOUS
  <1>4. ASSUME NEW b \in S PROVE b = <<i, j>> \/ Before(<<i, j>>, b)
    <2>1. i <= b[1] /\ (b[1] = i => j <= b[2]) /\ b[1] \in Nat /\ b[2] \in Nat /\ b = <<b[1], b[2]>>
      BY <1>1, <1>2
    <2>2. i \in Nat /\ j \in Nat
      BY <1>3
    <2> HIDE DEF I, J
    <2> QED
      BY <2>1, <2>2 DEF Before
  <1> HIDE DEF I, J
  <1>5. \E a \in S : \A b \in S : b = a \/ Before(a, b)
    BY <1>3, <1>4
  <1> QED
    BY <1>5 DEF First

-----------------------------------------------------------------------------
(* Loading                                                                 *)

\* A window that got past validation.
LoadedWindow(w) ==
    w # None => /\ w.from.tod \in 0..(DayLength - 1)
                /\ w.until.tod \in 0..(DayLength - 1)
                /\ w.from.loc \in DOMAIN Offset \ {None}

LoadedUpstream(up) ==
    /\ up.weight > 0
    /\ LoadedWindow(up.window)
    /\ up.window # None => AbsentTime \notin {up.window.from, up.window.until}
    /\ up.days # None => {up.days.loc} \cup ToSet(WindowLocations(up.window)) # {None}

LoadedProvider(p) ==
    /\ IsSeq(p.models) /\ IsSeq(p.keys) /\ IsSeq(p.upstreams)
    /\ p.upstreams # <<>>
    /\ \A i \in DOMAIN p.upstreams : LoadedUpstream(p.upstreams[i])

\* What the router relies on in a configuration.
Loaded(c) ==
    /\ IsSeq(c.order) /\ ToSet(c.order) = DOMAIN c.providers
    /\ \A i, j \in DOMAIN c.order : c.order[i] = c.order[j] => i = j
    /\ c.default \in DOMAIN c.providers
    /\ \A n \in DOMAIN c.providers : LoadedProvider(c.providers[n])
    /\ validateAllowedApiKeyClaims(c)
    /\ \A n \in DOMAIN c.pools : c.pools[n] # <<>> /\ \A i \in DOMAIN c.pools[n] :
          c.pools[n][i].weight > 0 /\ c.pools[n][i].provider \in DOMAIN c.providers

\* What a sequence is made of.
LEMMA SeqDomain ==
    ASSUME NEW s, IsSeq(s)
    PROVE  Len(s) \in Nat /\ DOMAIN s = 1..Len(s) /\ (s # <<>> => 1 \in DOMAIN s)
  BY DEF IsSeq

\* A function on an initial segment is a sequence.
LEMMA SeqFromFunction ==
    ASSUME NEW s, IsSeq(s), NEW g, g = [i \in DOMAIN s |-> g[i]]
    PROVE  IsSeq(g) /\ (s # <<>> => g # <<>>)
  <1>1. Len(s) \in Nat /\ DOMAIN s = 1..Len(s) /\ (s # <<>> => 1 \in DOMAIN s)
    BY SeqDomain
  <1>2. g \in [1..Len(s) -> ToSet(g)]
    BY <1>1 DEF ToSet
  <1>3. g \in Seq(ToSet(g))
    BY <1>1, <1>2
  <1>4. s # <<>> => 1 \in DOMAIN g
    BY <1>1
  <1> QED
    BY <1>3, <1>4 DEF IsSeq

\* The default weight replaces the zeros and nothing else.
LEMMA WeightsDefaulted ==
    ASSUME NEW ms, IsSeq(ms), NEW i \in DOMAIN ms, ms[i].weight \in Int, "weight" \in DOMAIN ms[i]
    PROVE  /\ DefaultWeights(ms)[i].weight = (IF ms[i].weight = 0 THEN 1 ELSE ms[i].weight)
           /\ DOMAIN DefaultWeights(ms)[i] = DOMAIN ms[i]
           /\ \A f \in DOMAIN ms[i] : f # "weight" => DefaultWeights(ms)[i][f] = ms[i][f]
  BY DEF DefaultWeights

\* The defaulted list has the places of the list itself.
LEMMA WeightsSequence ==
    ASSUME NEW ms, IsSeq(ms)
    PROVE  /\ IsSeq(DefaultWeights(ms))
           /\ DOMAIN DefaultWeights(ms) = DOMAIN ms
           /\ ms # <<>> => DefaultWeights(ms) # <<>>
  <1> DEFINE g == DefaultWeights(ms)
  <1>1. g = [i \in DOMAIN ms |-> g[i]] /\ DOMAIN g = DOMAIN ms
    BY DEF DefaultWeights
  <1> HIDE DEF g
  <1>2. IsSeq(g) /\ (ms # <<>> => g # <<>>)
    BY <1>1, SeqFromFunction
  <1> QED
    BY <1>1, <1>2 DEF g

\* A provider without upstreams gets one of its own.
LEMMA UpstreamListParsed ==
    ASSUME NEW p, ParsedProvider(p)
    PROVE  /\ IsSeq(UpstreamList(p)) /\ UpstreamList(p) # <<>>
           /\ \A i \in DOMAIN UpstreamList(p) : ParsedUpstream(UpstreamList(p)[i])
  <1>1. CASE p.upstreams # <<>>
    BY <1>1 DEF UpstreamList, ParsedProvider
  <1>2. CASE p.upstreams = <<>>
    <2> DEFINE u == [upstream |-> p.upstream, weight |-> 1, cap |-> p.cap,
                     window |-> p.window, days |-> p.days]
    <2>1. UpstreamList(p) = <<u>>
      BY <1>2 DEF UpstreamList
    <2>2. ParsedUpstream(u)
      BY DEF ParsedUpstream, ParsedProvider
    <2> HIDE DEF u
    <2>3. IsSeq(<<u>>) /\ <<u>> # <<>> /\ DOMAIN <<u>> = {1} /\ <<u>>[1] = u
      BY DEF IsSeq, ToSet
    <2> QED
      BY <2>1, <2>2, <2>3
  <1> QED
    BY <1>1, <1>2

\* An upstream that is valid once its weight has its default can be served.
LEMMA UpstreamServable ==
    ASSUME NEW up, ParsedUpstream(up), ValidUpstream(up), up.weight # 0
    PROVE  LoadedUpstream(up)
  <1>1. up.weight > 0
    BY DEF ParsedUpstream, ValidUpstream
  <1>2. ASSUME up.window # None
        PROVE  /\ up.window.from.tod \in 0..(DayLength - 1)
               /\ up.window.until.tod \in 0..(DayLength - 1)
               /\ up.window.from.loc \in DOMAIN Offset \ {None}
    BY <1>2 DEF ParsedUpstream, ParsedWindow, ParsedTime, ValidUpstream
  <1>3. ASSUME up.days # None
        PROVE  {up.days.loc} \cup ToSet(WindowLocations(up.window)) # {None}
    <2>1. CASE up.window = None
      BY <1>3, <2>1 DEF ValidUpstream
    <2>2. CASE up.window # None
      <3>1. up.window.from.loc \in ToSet(WindowLocations(up.window))
        BY <2>2 DEF WindowLocations, ToSet
      <3> QED
        BY <1>2, <2>2, <3>1
    <2> QED
      BY <2>1, <2>2
  <1> QED
    BY <1>1, <1>2, <1>3 DEF LoadedUpstream, LoadedWindow, ValidUpstream

\* The providers of a file and its pools, normalised.
LEMMA Normalised ==
    ASSUME NEW f, ParsedFile(f), NEW c, c = normalizePools(normalizeUpstreams(f))
    PROVE  /\ c.order = f.order /\ c.default = f.default
           /\ DOMAIN c.providers = DOMAIN f.providers
           /\ c.providers = normalizeUpstreams(f).providers
           /\ \A n \in DOMAIN f.providers :
                 /\ c.providers[n].upstreams = DefaultWeights(UpstreamList(f.providers[n]))
                 /\ c.providers[n].models = f.providers[n].models
                 /\ c.providers[n].keys = f.providers[n].keys
                 /\ c.providers[n].gated = f.providers[n].gated
           /\ DOMAIN c.pools = DOMAIN f.pools
           /\ \A n \in DOMAIN f.pools : c.pools[n] = DefaultWeights(f.pools[n])
           /\ normalizeUpstreams(f).pools = f.pools
           /\ normalizeUpstreams(f).default = f.default
  <1> DEFINE d == normalizeUpstreams(f)
  <1>1. /\ DOMAIN d = DOMAIN f
        /\ d.providers = [n \in DOMAIN f.providers |->
              [f.providers[n] EXCEPT !.upstreams = DefaultWeights(UpstreamList(f.providers[n]))]]
        /\ d.order = f.order /\ d.default = f.default /\ d.pools = f.pools
    BY DEF normalizeUpstreams, ParsedFile
  <1>2. \A n \in DOMAIN f.providers :
           /\ d.providers[n].upstreams = DefaultWeights(UpstreamList(f.providers[n]))
           /\ d.providers[n].models = f.providers[n].models
           /\ d.providers[n].keys = f.providers[n].keys
           /\ d.providers[n].gated = f.providers[n].gated
    <2> TAKE n \in DOMAIN f.providers
    <2>1. ParsedProvider(f.providers[n])
      BY DEF ParsedFile
    <2> QED
      BY <1>1, <2>1 DEF ParsedProvider
  <1> HIDE DEF d
  <1>3. c = [d EXCEPT !.pools = [n \in DOMAIN @ |-> DefaultWeights(@[n])]]
    BY DEF d, normalizePools
  <1>4. /\ c.order = d.order /\ c.default = d.default /\ c.providers = d.providers
        /\ c.pools = [n \in DOMAIN d.pools |-> DefaultWeights(d.pools[n])]
    BY <1>1, <1>3 DEF ParsedFile
  <1> QED
    BY <1>1, <1>2, <1>4 DEF d

\* A file that Load accepts gives a configuration the router can rely on.
LEMMA LoadGives ==
    ASSUME NEW f \in Files, NEW c, c = Load(f), c # NoFile
    PROVE  Loaded(c)
  <1>1. ParsedFile(f)
    BY RouterAssumption DEF RouterAssumption
  <1>2. c = normalizePools(normalizeUpstreams(f)) /\ Validate(normalizeUpstreams(f))
    BY Zenon DEF Load
  <1> DEFINE d == normalizeUpstreams(f)
  <1>3. /\ c.order = f.order /\ c.default = f.default
        /\ DOMAIN c.providers = DOMAIN f.providers
        /\ c.providers = d.providers
        /\ \A n \in DOMAIN f.providers :
              /\ c.providers[n].upstreams = DefaultWeights(UpstreamList(f.providers[n]))
              /\ c.providers[n].models = f.providers[n].models
              /\ c.providers[n].keys = f.providers[n].keys
        /\ DOMAIN c.pools = DOMAIN f.pools
        /\ \A n \in DOMAIN f.pools : c.pools[n] = DefaultWeights(f.pools[n])
        /\ d.pools = f.pools
        /\ d.default = f.default
    BY <1>1, <1>2, Normalised
  <1>4. /\ d.default \in DOMAIN d.providers
        /\ \A n \in DOMAIN d.providers : ValidProvider(d.providers[n])
        /\ validateAllowedApiKeyClaims(d)
        /\ validateModelPools(d)
    BY <1>2 DEF Validate
  <1> HIDE DEF d
  <1>5. /\ IsSeq(c.order) /\ ToSet(c.order) = DOMAIN c.providers
        /\ \A i, j \in DOMAIN c.order : c.order[i] = c.order[j] => i = j
        /\ c.default \in DOMAIN c.providers
    BY <1>1, <1>3, <1>4 DEF ParsedFile
  <1>6. validateAllowedApiKeyClaims(c)
    BY <1>3, <1>4 DEF validateAllowedApiKeyClaims
  <1>7. ASSUME NEW n \in DOMAIN c.providers PROVE LoadedProvider(c.providers[n])
    <2> DEFINE ms == UpstreamList(f.providers[n])
               us == DefaultWeights(ms)
    <2>1. ParsedProvider(f.providers[n])
      BY <1>1, <1>3, <1>7 DEF ParsedFile
    <2>2. IsSeq(ms) /\ ms # <<>> /\ \A i \in DOMAIN ms : ParsedUpstream(ms[i])
      BY <2>1, UpstreamListParsed
    <2>3. c.providers[n].upstreams = us
      BY <1>3, <1>7
    <2> HIDE DEF ms
    <2>4. IsSeq(us) /\ DOMAIN us = DOMAIN ms /\ us # <<>>
      BY <2>2, WeightsSequence
    <2>5. ASSUME NEW i \in DOMAIN us PROVE LoadedUpstream(us[i])
      <3>1. ParsedUpstream(ms[i]) /\ i \in DOMAIN ms
        BY <2>2, <2>4, <2>5
      <3>2. ms[i].weight \in Int /\ "weight" \in DOMAIN ms[i]
        BY <3>1 DEF ParsedUpstream
      <3>3. /\ us[i].weight = (IF ms[i].weight = 0 THEN 1 ELSE ms[i].weight)
            /\ DOMAIN us[i] = DOMAIN ms[i]
            /\ \A g \in DOMAIN ms[i] : g # "weight" => us[i][g] = ms[i][g]
        BY <2>2, <3>1, <3>2, WeightsDefaulted
      <3>4. ValidUpstream(us[i])
        BY <1>3, <1>4, <1>7, <2>3, <2>5 DEF ValidProvider
      <3> HIDE DEF us
      <3>5. ParsedUpstream(us[i])
        <4>1. us[i].window = ms[i].window
          BY <3>1, <3>3 DEF ParsedUpstream
        <4> QED
          BY <3>1, <3>2, <3>3, <4>1 DEF ParsedUpstream
      <3>6. us[i].weight # 0
        BY <3>2, <3>3
      <3> QED
        BY <3>4, <3>5, <3>6, UpstreamServable
    <2> HIDE DEF us
    <2> QED
      BY <1>3, <1>7, <2>1, <2>3, <2>4, <2>5 DEF LoadedProvider, ParsedProvider
  <1>8. ASSUME NEW n \in DOMAIN c.pools
        PROVE  c.pools[n] # <<>> /\ \A i \in DOMAIN c.pools[n] :
                  c.pools[n][i].weight > 0 /\ c.pools[n][i].provider \in DOMAIN c.providers
    <2> DEFINE ms == f.pools[n]
               us == DefaultWeights(ms)
    <2>1. c.pools[n] = us /\ n \in DOMAIN f.pools
      BY <1>3, <1>8
    <2>2. /\ IsSeq(ms)
          /\ \A i \in DOMAIN ms : DOMAIN ms[i] = {"provider", "model", "weight"} /\ ms[i].weight \in Int
      BY <1>1, <2>1 DEF ParsedFile
    <2>3. /\ ms # <<>>
          /\ \A i \in DOMAIN ms : ms[i].provider \in DOMAIN c.providers /\ ms[i].weight >= 0
      BY <1>3, <1>4, <2>1 DEF validateModelPools
    <2> HIDE DEF ms
    <2>4. IsSeq(us) /\ DOMAIN us = DOMAIN ms /\ us # <<>>
      BY <2>2, <2>3, WeightsSequence
    <2>5. ASSUME NEW i \in DOMAIN us
          PROVE  us[i].weight > 0 /\ us[i].provider \in DOMAIN c.providers
      <3>1. i \in DOMAIN ms /\ ms[i].weight \in Int /\ "weight" \in DOMAIN ms[i]
        BY <2>2, <2>4, <2>5
      <3>2. /\ us[i].weight = (IF ms[i].weight = 0 THEN 1 ELSE ms[i].weight)
            /\ \A g \in DOMAIN ms[i] : g # "weight" => us[i][g] = ms[i][g]
        BY <2>2, <3>1, WeightsDefaulted
      <3>3. us[i].provider = ms[i].provider
        <4> HIDE DEF us
        <4> QED
          BY <2>2, <3>1, <3>2
      <3> HIDE DEF us
      <3> QED
        BY <2>3, <3>1, <3>2, <3>3
    <2> HIDE DEF us
    <2> QED
      BY <2>1, <2>4, <2>5
  <1> QED
    BY <1>5, <1>6, <1>7, <1>8 DEF Loaded

-----------------------------------------------------------------------------
(* Routes and looks at a provider                                          *)

\* What a route stands for.
LEMMA RouteOf ==
    ASSUME NEW c, Loaded(c), NEW a \in Routes(c), NEW p, p = c.order[a[1]]
    PROVE  /\ a \in Nat \X Nat /\ a[1] >= 1 /\ a[2] >= 1 /\ a[1] \in DOMAIN c.order
           /\ p \in DOMAIN c.providers
           /\ a[2] \in DOMAIN c.providers[p].models /\ c.providers[p].models # <<>>
           /\ Route(c, a).provider = p
           /\ Route(c, a).pattern = c.providers[p].models[a[2]]
           /\ Route(c, a).requires = c.providers[p].requires
           /\ Route(c, a).keys = c.providers[p].keys
  <1>1. PICK i \in DOMAIN c.order : a \in {i} \X DOMAIN c.providers[c.order[i]].models
    BY DEF Routes, providerKeys
  <1>2. a[1] = i /\ a[2] \in DOMAIN c.providers[p].models /\ a = <<i, a[2]>>
    BY <1>1
  <1>3. p \in DOMAIN c.providers
    BY <1>2 DEF Loaded, ToSet
  <1>4. IsSeq(c.order) /\ IsSeq(c.providers[p].models)
    BY <1>3 DEF Loaded, LoadedProvider
  <1>5. i \in Nat /\ i >= 1 /\ a[2] \in Nat /\ a[2] >= 1 /\ c.providers[p].models # <<>>
    <2>1. DOMAIN c.order = 1..Len(c.order) /\ Len(c.order) \in Nat
      BY <1>4, SeqDomain
    <2>2. /\ DOMAIN c.providers[p].models = 1..Len(c.providers[p].models)
          /\ Len(c.providers[p].models) \in Nat
      BY <1>4, SeqDomain
    <2> QED
      BY <1>2, <2>1, <2>2
  <1> QED
    BY <1>2, <1>3, <1>5 DEF Route, providerKeys

\* Every pattern of a provider has a route.
LEMMA RouteFor ==
    ASSUME NEW c, Loaded(c), NEW p \in DOMAIN c.providers, NEW k \in DOMAIN c.providers[p].models
    PROVE  \E i \in DOMAIN c.order : c.order[i] = p /\ <<i, k>> \in Routes(c)
  <1>1. PICK i \in DOMAIN c.order : c.order[i] = p
    BY DEF Loaded, ToSet
  <1> QED
    BY <1>1 DEF Routes, providerKeys

\* A set of routes that is not empty has a first one.
LEMMA FirstRoute ==
    ASSUME NEW c, Loaded(c), NEW S \in SUBSET Routes(c), S # {}
    PROVE  First(S) \in S /\ \A b \in S : b = First(S) \/ Before(First(S), b)
  <1>1. \A a \in Routes(c) : a \in Nat \X Nat
    BY RouteOf
  <1> QED
    BY <1>1, FirstIsFirst

\* The scan of a provider found nothing open: every upstream was closed at an
\* instant of the look.
Shut(c, p, t0, t1) ==
    \A i \in DOMAIN c.providers[p].upstreams :
        \E u \in t0..t1 : ~EligibleAt(c.providers[p].upstreams[i], u)

Opened(c, p, t0, t1) ==
    \E i \in DOMAIN c.providers[p].upstreams, u, v \in t0..t1 :
        Eligible(c.providers[p].upstreams[i], u, v)

\* An upstream that was not eligible when its window and its day were read was
\* closed at one of the two instants.
LEMMA NotEligible ==
    ASSUME NEW up, NEW u, NEW v, ~Eligible(up, u, v)
    PROVE  ~EligibleAt(up, u) \/ ~EligibleAt(up, v)
  BY DEF EligibleAt, Eligible

\* The positions of the clock readings of one upstream in a scan.
LEMMA ReadingsOf ==
    ASSUME NEW s, IsSeq(s), NEW i \in DOMAIN s
    PROVE  2 * i - 1 \in 1..(2 * Len(s)) /\ 2 * i \in 1..(2 * Len(s))
  BY SeqDomain

\* A step that gives up when the client has left answers, or gives up.
LEMMA CancelledIs ==
    ASSUME NEW j, j.done => j.left, NEW answers, NEW x \in Cancelled(j, answers)
    PROVE  x \in answers \/ (x = FALSE /\ j.left)
  <1>1. CASE j.done
    BY <1>1, Zenon DEF Cancelled
  <1>2. CASE ~j.done
    <2>1. x \in answers \cup (IF j.left THEN {FALSE} ELSE {})
      BY <1>2, Zenon DEF Cancelled
    <2> QED
      BY <2>1, Zenon
  <1> QED
    BY <1>1, <1>2

\* A look that found a provider closed: each upstream was closed at an instant of
\* it, or the client has left and there is no gate.
LEMMA LookClosed ==
    ASSUME Loaded(cfg), NEW p \in DOMAIN cfg.providers, NEW j, j.done => j.left,
           NEW t0 \in Nat, t0 = j.from, NEW t1 \in Nat, t1 = now,
           FALSE \in WindowEligible(j, p)
    PROVE  Shut(cfg, p, t0, t1) \/ (j.left /\ ~cfg.providers[p].gated)
  <1> SUFFICES ASSUME ~(j.left /\ ~cfg.providers[p].gated) PROVE Shut(cfg, p, t0, t1)
    OBVIOUS
  <1> DEFINE ups == cfg.providers[p].upstreams
  <1>1. IsSeq(ups)
    BY DEF Loaded, LoadedProvider
  <1>2. PICK set \in EligibleIndices(ups, t0, t1) : set = {}
    <2> DEFINE looks == {set # {} : set \in EligibleIndices(ups, j.from, now)}
    <2>1. ~cfg.providers[p].gated /\ FALSE \in Cancelled(j, looks)
      BY Zenon DEF WindowEligible
    <2> HIDE DEF looks
    <2>2. FALSE \in looks
      BY <2>1, CancelledIs, Zenon
    <2> QED
      BY <2>2, Zenon DEF looks
  <1>3. PICK g \in [1..(2 * Len(ups)) -> t0..t1] :
           {i \in DOMAIN ups : Eligible(ups[i], g[2 * i - 1], g[2 * i])} = {}
    BY <1>2 DEF EligibleIndices
  <1> HIDE DEF ups
  <1>4. ASSUME NEW i \in DOMAIN ups PROVE \E u \in t0..t1 : ~EligibleAt(ups[i], u)
    <2>1. 2 * i - 1 \in 1..(2 * Len(ups)) /\ 2 * i \in 1..(2 * Len(ups))
      BY <1>1, ReadingsOf
    <2>2. PICK u \in t0..t1, v \in t0..t1 : u = g[2 * i - 1] /\ v = g[2 * i]
      BY <2>1
    <2>3. ~Eligible(ups[i], u, v)
      BY <1>3, <2>2
    <2> QED
      BY <2>3, NotEligible
  <1> QED
    BY <1>4 DEF Shut, ups

\* A look that found a provider without a gate open: some upstream was.
LEMMA LookOpen ==
    ASSUME Loaded(cfg), NEW p \in DOMAIN cfg.providers, NEW j, j.done => j.left,
           NEW t0 \in Nat, t0 = j.from, NEW t1 \in Nat, t1 = now,
           TRUE \in WindowEligible(j, p), ~cfg.providers[p].gated
    PROVE  Opened(cfg, p, t0, t1)
  <1> DEFINE ups == cfg.providers[p].upstreams
  <1>1. IsSeq(ups)
    BY DEF Loaded, LoadedProvider
  <1>2. PICK set \in EligibleIndices(ups, t0, t1) : set # {}
    <2> DEFINE looks == {set # {} : set \in EligibleIndices(ups, j.from, now)}
    <2>1. TRUE \in Cancelled(j, looks)
      BY Zenon DEF WindowEligible
    <2> HIDE DEF looks
    <2>2. TRUE \in looks
      BY <2>1, CancelledIs, Zenon
    <2> QED
      BY <2>2, Zenon DEF looks
  <1>3. PICK g \in [1..(2 * Len(ups)) -> t0..t1] :
           {i \in DOMAIN ups : Eligible(ups[i], g[2 * i - 1], g[2 * i])} # {}
    BY <1>2 DEF EligibleIndices
  <1> HIDE DEF ups
  <1>4. PICK i \in DOMAIN ups : Eligible(ups[i], g[2 * i - 1], g[2 * i])
    BY <1>3
  <1>5. 2 * i - 1 \in 1..(2 * Len(ups)) /\ 2 * i \in 1..(2 * Len(ups))
    BY <1>1, ReadingsOf
  <1>6. g[2 * i - 1] \in t0..t1 /\ g[2 * i] \in t0..t1
    BY <1>5
  <1> QED
    BY <1>4, <1>6 DEF Opened, ups

\* A look has one of two outcomes.
LEMMA LookIsBoolean ==
    ASSUME NEW j, j.done => j.left, NEW p
    PROVE  WindowEligible(j, p) \subseteq {TRUE, FALSE}
  <1> DEFINE looks == {set # {} : set \in EligibleIndices(cfg.providers[p].upstreams, j.from, now)}
  <1>1. looks \subseteq {TRUE, FALSE}
    BY Zenon
  <1>2. WindowEligible(j, p) = IF cfg.providers[p].gated THEN {TRUE} ELSE Cancelled(j, looks)
    BY Zenon DEF WindowEligible
  <1> HIDE DEF looks
  <1>3. Cancelled(j, looks) \subseteq {TRUE, FALSE}
    BY <1>1, CancelledIs, Zenon
  <1> QED
    BY <1>2, <1>3, Zenon

\* What was closed or open at an instant stays so when the time since is longer.
LEMMA LongerSince ==
    ASSUME NEW c, NEW p, NEW t0 \in Nat, NEW t1 \in Nat, NEW s0 \in Nat, NEW s1 \in Nat,
           s0 <= t0, t1 <= s1
    PROVE  /\ Shut(c, p, t0, t1) => Shut(c, p, s0, s1)
           /\ Opened(c, p, t0, t1) => Opened(c, p, s0, s1)
  <1>1. t0..t1 \subseteq s0..s1
    OBVIOUS
  <1> QED
    BY <1>1 DEF Shut, Opened

-----------------------------------------------------------------------------
(* The invariant                                                           *)

JobFields == {"model", "key", "by", "provider", "requires", "lifted", "k", "arrived",
              "from", "left", "done", "sent", "report"}

\* The properties' operators, for a configuration c.
Claims(c, p, key) == key # Empty /\ c.providers[p].models # <<>> /\ Contains(c.providers[p].keys, key)
ServesModel(c, p, m) == matchesAnyPattern(c.providers[p].models, m)
Earlier(c, p, q) == \E i, j \in DOMAIN c.order : i < j /\ c.order[i] = p /\ c.order[j] = q

\* The request came before the running look began, and that began before t.
InTime(t, j) == j.arrived \in Nat /\ j.from \in Nat /\ j.arrived <= j.from /\ j.from <= t

\* The lift list is that of the provider the request goes to so far.
OwnList(c, j) ==
    c.providers[j.provider].models # <<>> => j.requires = c.providers[j.provider].requires

\* Why the walk went past a provider, at the latest at t.
Passed(c, p, t, j) == Shut(c, p, j.arrived, t) \/ (j.left /\ ~c.providers[p].gated)

AtKey(c, t, j) == InTime(t, j) /\ j.provider = c.default /\ j.k = <<1, 1>>

\* The key pinned nothing, and the routes before k that match were all passed.
AtGlob(c, t, j) ==
    /\ InTime(t, j) /\ j.provider = c.default /\ j.k \in Nat \X Nat
    /\ \A p \in DOMAIN c.providers : Claims(c, p, j.key) => Passed(c, p, t, j)
    /\ \A a \in Routes(c) :
          Before(a, j.k) /\ Match(Route(c, a).pattern, j.model)
              => Passed(c, Route(c, a).provider, t, j)

Declared(c, t, j) ==
    /\ \A p \in DOMAIN c.providers : Claims(c, p, j.key) => j.provider = p \/ Passed(c, p, t, j)
    /\ j.by = "key" => Claims(c, j.provider, j.key)
    /\ j.by = "glob" => ServesModel(c, j.provider, j.model)
    /\ j.by = "default" => j.provider = c.default
    /\ \A p \in DOMAIN c.providers :
          ServesModel(c, p, j.model) /\ j.by # "key" /\ (j.by = "default" \/ Earlier(c, p, j.provider))
              => Passed(c, p, t, j)

AtDispatch(c, t, j) ==
    /\ j.arrived \in Nat /\ j.arrived <= t
    /\ j.by # "pool" => Declared(c, t, j)
    /\ j.by \in {"key", "glob"} /\ ~c.providers[j.provider].gated => Opened(c, j.provider, j.arrived, t)

AtServing(c, j) ==
    c.providers[j.provider].models # <<>> =>
        /\ j.lifted => matchesAnyPattern(c.providers[j.provider].requires, j.model)
        /\ ~j.left => j.lifted = matchesAnyPattern(c.providers[j.provider].requires, j.model)

\* What holds of the locals j at step s and instant t.
AtStep(s, c, t, j) ==
    /\ DOMAIN j = JobFields
    /\ j.done => j.left
    /\ s # "idle" => j.provider \in DOMAIN c.providers
    /\ s \in {"key", "glob", "dispatch"} => OwnList(c, j)
    /\ s = "key" => AtKey(c, t, j)
    /\ s = "glob" => AtGlob(c, t, j)
    /\ s = "dispatch" => AtDispatch(c, t, j)
    /\ s = "serving" => AtServing(c, j)

Types ==
    /\ Loaded(cfg)
    /\ now \in Nat /\ now <= MaxTime
    /\ pc \in [Requests -> PCs]
    /\ job = [r \in Requests |-> job[r]]

OnTheWay == \A r \in Requests : AtStep(pc[r], cfg, now, job[r])

\* Who is between dispatch and end, at provider p.
Gauged == {"serving", "answering", "returned", "ending"}
InFlightAt(p) == {r \in Requests : pc[r] \in Gauged /\ job[r].provider = p}

GaugeInv ==
    /\ counts = [p \in DOMAIN cfg.providers |-> counts[p]]
    /\ \A p \in DOMAIN cfg.providers : counts[p] = Cardinality(InFlightAt(p))

IInv == Types /\ OnTheWay /\ GaugeInv

-----------------------------------------------------------------------------
(* Steps of one request                                                    *)

\* Nobody's locals but r's move.
LEMMA StepTo ==
    ASSUME Types, OnTheWay, NEW r \in Requests, NEW s \in PCs, NEW j,
           Goto(r, s, j), cfg' = cfg, now' = now, AtStep(s, cfg, now, j)
    PROVE  /\ Types' /\ OnTheWay'
           /\ pc'[r] = s /\ job'[r] = j
           /\ \A q \in Requests : q # r => pc'[q] = pc[q] /\ job'[q] = job[q]
  <1>1. /\ pc' \in [Requests -> PCs] /\ job' = [q \in Requests |-> job'[q]]
        /\ pc'[r] = s /\ job'[r] = j
        /\ \A q \in Requests : q # r => pc'[q] = pc[q] /\ job'[q] = job[q]
    BY DEF Types, Goto
  <1>2. Types'
    BY <1>1 DEF Types
  <1>3. ASSUME NEW q \in Requests PROVE AtStep(pc'[q], cfg', now', job'[q])
    <2>1. CASE q = r
      BY <1>1, <2>1
    <2>2. CASE q # r
      BY <1>1, <2>2 DEF OnTheWay
    <2> QED
      BY <2>1, <2>2
  <1> QED
    BY <1>1, <1>2, <1>3 DEF OnTheWay

\* A step outside of dispatch and end does not move the gauge.
LEMMA GaugeStays ==
    ASSUME GaugeInv, Types, NEW r \in Requests,
           cfg' = cfg, counts' = counts,
           \A q \in Requests : q # r => pc'[q] = pc[q] /\ job'[q] = job[q],
           \/ pc[r] \notin Gauged /\ pc'[r] \notin Gauged
           \/ pc[r] \in Gauged /\ pc'[r] \in Gauged /\ job'[r].provider = job[r].provider
    PROVE  GaugeInv'
  <1>1. ASSUME NEW p PROVE InFlightAt(p)' = InFlightAt(p)
    BY DEF InFlightAt
  <1>2. ASSUME NEW p \in DOMAIN cfg'.providers PROVE counts'[p] = Cardinality(InFlightAt(p))'
    BY <1>1 DEF GaugeInv
  <1> QED
    BY <1>2 DEF GaugeInv

\* The locals of a connection without a request.
LEMMA NoJobFields ==
    DOMAIN NoJob = JobFields /\ NoJob.k = <<1, 1>> /\ ~NoJob.done /\ ~NoJob.left
  BY DEF NoJob, JobFields

\* The list of a provider that has a route is its own, whatever the seed.
LEMMA RequiresIsOwn ==
    ASSUME Loaded(cfg), NEW p \in DOMAIN cfg.providers, cfg.providers[p].models # <<>>, NEW seed
    PROVE  RequiresOf(p, seed) = cfg.providers[p].requires
  <1> DEFINE own == {a \in Routes(cfg) : Route(cfg, a).provider = p}
  <1>1. 1 \in DOMAIN cfg.providers[p].models
    BY SeqDomain DEF Loaded, LoadedProvider
  <1>2. PICK i \in DOMAIN cfg.order : cfg.order[i] = p /\ <<i, 1>> \in Routes(cfg)
    BY <1>1, RouteFor
  <1>3. own # {}
    <2>1. Route(cfg, <<i, 1>>).provider = p
      BY <1>2 DEF Route, providerKeys
    <2> QED
      BY <1>2, <2>1
  <1>4. own \in SUBSET Routes(cfg)
    OBVIOUS
  <1>5. First(own) \in own
    <2> HIDE DEF own
    <2> QED
      BY <1>3, <1>4, FirstRoute
  <1>6. First(own) \in Routes(cfg) /\ Route(cfg, First(own)).provider = p
    BY <1>5
  <1>7. Route(cfg, First(own)).requires = cfg.providers[p].requires
    <2> HIDE DEF own
    <2> QED
      BY <1>6, RouteOf
  <1> QED
    BY <1>3, <1>7 DEF RequiresOf

\* A request that is let in starts at the default provider, or at a member of the
\* pool it names, with that provider's list.
LEMMA ReceiveStep ==
    ASSUME IInv, NEW r \in Requests, Receive(r)
    PROVE  IInv'
  <1>1. Types /\ OnTheWay /\ GaugeInv /\ Loaded(cfg) /\ now \in Nat
    BY DEF IInv, Types
  <1>2. cfg' = cfg /\ now' = now /\ counts' = counts /\ pc[r] = "idle"
    BY DEF Receive
  <1>3. cfg.default \in DOMAIN cfg.providers
    BY <1>1 DEF Loaded
  <1>4. SUFFICES ASSUME NEW s \in {"key", "dispatch"}, NEW e, Goto(r, s, e),
                        AtStep(s, cfg, now, e)
                 PROVE  IInv'
    <2>1. PICK m \in Models, key \in Keys \cup {Empty} :
             LET seed == RequiresOf(cfg.default, <<>>)
                 j    == [NoJob EXCEPT !.key = PresentedKey(key),
                                       !.provider = cfg.default, !.requires = seed,
                                       !.arrived = now]
             IN  \/ Goto(r, "key", Onward([j EXCEPT !.model = Resolved(m)]))
                 \/ /\ m \in DOMAIN cfg.pools
                    /\ \E i \in DOMAIN cfg.pools[m] :
                          LET member == cfg.pools[m][i]
                          IN  Goto(r, "dispatch",
                                   [j EXCEPT !.model = TrimSuffix(member.model), !.by = "pool",
                                             !.provider = member.provider,
                                             !.requires = RequiresOf(member.provider, seed)])
      BY DEF Receive
    <2> DEFINE seed == RequiresOf(cfg.default, <<>>)
               j    == [NoJob EXCEPT !.key = PresentedKey(key),
                                     !.provider = cfg.default, !.requires = seed,
                                     !.arrived = now]
    <2>2. /\ DOMAIN j = JobFields /\ j.provider = cfg.default /\ j.requires = seed
          /\ j.arrived = now /\ j.k = <<1, 1>> /\ ~j.done
      BY NoJobFields DEF JobFields
    <2>3. cfg.providers[cfg.default].models # <<>> => seed = cfg.providers[cfg.default].requires
      BY <1>1, <1>3, RequiresIsOwn
    <2> HIDE DEF j
    <2>4. CASE Goto(r, "key", Onward([j EXCEPT !.model = Resolved(m)]))
      <3> DEFINE e == Onward([j EXCEPT !.model = Resolved(m)])
      <3>1. /\ DOMAIN e = JobFields /\ e.provider = cfg.default /\ e.requires = seed
            /\ e.arrived = now /\ e.from = now /\ e.k = <<1, 1>> /\ e.done = e.left
        BY <2>2 DEF JobFields, Onward
      <3> HIDE DEF e, seed
      <3>2. OwnList(cfg, e) /\ AtKey(cfg, now, e)
        BY <1>1, <2>3, <3>1 DEF OwnList, AtKey, InTime
      <3>3. AtStep("key", cfg, now, e)
        BY <1>3, <3>1, <3>2 DEF AtStep
      <3>4. Goto(r, "key", e)
        BY <2>4 DEF e
      <3> QED
        BY <1>4, <3>3, <3>4
    <2>5. ASSUME NEW i \in DOMAIN cfg.pools[m], m \in DOMAIN cfg.pools,
                 NEW member, member = cfg.pools[m][i],
                 NEW e, e = [j EXCEPT !.model = TrimSuffix(member.model), !.by = "pool",
                                      !.provider = member.provider,
                                      !.requires = RequiresOf(member.provider, seed)],
                 Goto(r, "dispatch", e)
          PROVE  IInv'
      <3>1. /\ DOMAIN e = JobFields /\ e.provider = member.provider /\ e.by = "pool"
            /\ e.requires = RequiresOf(member.provider, seed) /\ e.arrived = now /\ ~e.done
        BY <2>2, <2>5 DEF JobFields
      <3>2. member.provider \in DOMAIN cfg.providers
        BY <1>1, <2>5 DEF Loaded
      <3> HIDE DEF seed
      <3>3. OwnList(cfg, e)
        BY <1>1, <3>1, <3>2, RequiresIsOwn DEF OwnList
      <3>4. AtDispatch(cfg, now, e)
        BY <1>1, <3>1 DEF AtDispatch
      <3>5. AtStep("dispatch", cfg, now, e)
        BY <3>1, <3>2, <3>3, <3>4 DEF AtStep
      <3> QED
        BY <1>4, <2>5, <3>5
    <2> QED
      BY <2>1, <2>4, <2>5 DEF j
  <1>5. s \in PCs
    BY <1>4 DEF PCs
  <1>6. /\ Types' /\ OnTheWay' /\ pc'[r] = s
        /\ \A q \in Requests : q # r => pc'[q] = pc[q] /\ job'[q] = job[q]
    BY <1>1, <1>2, <1>4, <1>5, StepTo
  <1>7. GaugeInv'
    BY <1>1, <1>2, <1>4, <1>6, GaugeStays DEF Gauged
  <1> QED
    BY <1>6, <1>7 DEF IInv

\* A step before dispatch that leaves the gauge alone.
LEMMA RouteStep ==
    ASSUME IInv, NEW r \in Requests, pc[r] \in {"key", "glob"},
           NEW s \in {"glob", "dispatch"}, NEW e, Goto(r, s, e), UNCHANGED <<cfg, now, counts>>,
           AtStep(s, cfg, now, e)
    PROVE  IInv'
  <1>1. s \in PCs
    BY DEF PCs
  <1>2. /\ Types' /\ OnTheWay' /\ pc'[r] = s
        /\ \A q \in Requests : q # r => pc'[q] = pc[q] /\ job'[q] = job[q]
    BY <1>1, StepTo DEF IInv
  <1>3. GaugeInv'
    BY <1>2, GaugeStays DEF Gauged, IInv
  <1> QED
    BY <1>2, <1>3 DEF IInv

\* A provider that claims a key has a route that does.
LEMMA ClaimHasRoute ==
    ASSUME NEW c, Loaded(c), NEW p \in DOMAIN c.providers, NEW key, Claims(c, p, key)
    PROVE  \E a \in Routes(c) : Contains(Route(c, a).keys, key) /\ Route(c, a).provider = p
  <1>1. 1 \in DOMAIN c.providers[p].models
    BY SeqDomain DEF Loaded, LoadedProvider, Claims
  <1>2. PICK i \in DOMAIN c.order : c.order[i] = p /\ <<i, 1>> \in Routes(c)
    BY <1>1, RouteFor
  <1>3. Route(c, <<i, 1>>).provider = p /\ Route(c, <<i, 1>>).keys = c.providers[p].keys
    BY <1>2 DEF Route, providerKeys
  <1> QED
    BY <1>2, <1>3 DEF Claims

\* One provider at most claims a key.
LEMMA ClaimIsUnique ==
    ASSUME NEW c, Loaded(c), NEW p \in DOMAIN c.providers, NEW q \in DOMAIN c.providers, NEW key,
           Contains(c.providers[p].keys, key), Contains(c.providers[q].keys, key)
    PROVE  p = q
  <1>1. ASSUME NEW n \in DOMAIN c.providers, Contains(c.providers[n].keys, key)
        PROVE  key \in ToSet(c.providers[n].keys)
    <2>1. DOMAIN c.providers[n].keys = 1..Len(c.providers[n].keys)
      BY <1>1, SeqDomain DEF Loaded, LoadedProvider
    <2> QED
      BY <1>1, <2>1 DEF Contains, ToSet
  <1> QED
    BY <1>1 DEF Loaded, validateAllowedApiKeyClaims

\* A reason to pass a provider stays one while the request is on its way.
LEMMA PassedOn ==
    ASSUME NEW c, NEW p, NEW t, NEW j, NEW e, e.arrived = j.arrived, j.left => e.left,
           Passed(c, p, t, j)
    PROVE  Passed(c, p, t, e)
  BY DEF Passed

\* The walk begins at the first route.
LEMMA WalkStarts ==
    ASSUME Loaded(cfg), now \in Nat, NEW j, AtStep("key", cfg, now, j),
           NEW e, e = Onward(j),
           \A p \in DOMAIN cfg.providers : Claims(cfg, p, j.key) => Passed(cfg, p, now, j)
    PROVE  AtStep("glob", cfg, now, e)
  <1>1. /\ DOMAIN j = JobFields /\ j.provider \in DOMAIN cfg.providers
        /\ OwnList(cfg, j) /\ AtKey(cfg, now, j)
    BY DEF AtStep
  <1>2. /\ DOMAIN e = JobFields /\ e.provider = j.provider /\ e.requires = j.requires
        /\ e.arrived = j.arrived /\ e.from = now /\ e.k = j.k /\ e.key = j.key /\ e.model = j.model
        /\ e.left = j.left /\ e.done = j.left
    BY <1>1 DEF JobFields, Onward
  <1>3. ASSUME NEW a \in Routes(cfg) PROVE ~Before(a, <<1, 1>>)
    <2>1. a \in Nat \X Nat /\ a[1] >= 1 /\ a[2] >= 1
      BY RouteOf
    <2> QED
      BY <2>1 DEF Before
  <1>4. InTime(now, e)
    BY <1>1, <1>2 DEF AtKey, InTime
  <1>5. AtGlob(cfg, now, e)
    <2>1. \A p \in DOMAIN cfg.providers : Claims(cfg, p, e.key) => Passed(cfg, p, now, e)
      BY <1>2, PassedOn
    <2> QED
      BY <1>1, <1>2, <1>3, <1>4, <2>1 DEF AtGlob, AtKey
  <1>6. OwnList(cfg, e)
    BY <1>1, <1>2 DEF OwnList
  <1> QED
    BY <1>1, <1>2, <1>5, <1>6 DEF AtStep

\* The request goes where a route says.
LEMMA ToFields ==
    ASSUME NEW j, DOMAIN j = JobFields, NEW route, NEW by, NEW e, e = Decided(To(j, route, by))
    PROVE  /\ DOMAIN e = JobFields /\ e.by = by
           /\ e.provider = route.provider /\ e.requires = route.requires
           /\ e.key = j.key /\ e.model = j.model /\ e.arrived = j.arrived
           /\ e.left = j.left /\ e.done = j.left
  <1>1. PICK d : d = To(j, route, by)
    OBVIOUS
  <1>2. /\ DOMAIN d = JobFields /\ d.by = by
        /\ d.provider = route.provider /\ d.requires = route.requires
        /\ d.key = j.key /\ d.model = j.model /\ d.arrived = j.arrived /\ d.left = j.left
    BY <1>1 DEF To, JobFields
  <1> QED
    BY <1>1, <1>2 DEF Decided, JobFields

\* The key pins the request to its one claimant, or the claimant was closed.
LEMMA KeyStepKeeps ==
    ASSUME IInv, NEW r \in Requests, KeyStep(r)
    PROVE  IInv'
  <1>1. Loaded(cfg) /\ now \in Nat /\ AtStep(pc[r], cfg, now, job[r]) /\ pc[r] = "key"
    BY DEF IInv, Types, OnTheWay, KeyStep
  <1>2. PICK j : j = job[r]
    OBVIOUS
  <1>3. AtStep("key", cfg, now, j)
    BY <1>1, <1>2
  <1>4. /\ DOMAIN j = JobFields /\ j.arrived \in Nat /\ j.from \in Nat
        /\ j.arrived <= j.from /\ j.from <= now /\ (j.done => j.left)
    BY <1>3 DEF AtStep, AtKey, InTime
  <1> DEFINE claims == {a \in Routes(cfg) : Contains(Route(cfg, a).keys, j.key)}
             route == Route(cfg, First(claims))
  <1>5. \/ (j.key = Empty \/ claims = {}) /\ Goto(r, "glob", Onward(j))
        \/ /\ j.key # Empty /\ claims # {}
           /\ \E open \in KeyOpen(j, route.provider) :
                 IF open THEN Goto(r, "dispatch", Decided(To(j, route, "key")))
                         ELSE Goto(r, "glob", Onward(j))
    BY <1>2 DEF KeyStep
  <1>6. UNCHANGED <<cfg, now, counts>>
    BY DEF KeyStep
  <1>7. ASSUME Goto(r, "glob", Onward(j)),
               \A p \in DOMAIN cfg.providers : Claims(cfg, p, j.key) => Passed(cfg, p, now, j)
        PROVE  IInv'
    <2>1. AtStep("glob", cfg, now, Onward(j))
      BY <1>1, <1>3, <1>7, WalkStarts
    <2> QED
      BY <1>1, <1>6, <1>7, <2>1, RouteStep
  <1>8. CASE (j.key = Empty \/ claims = {}) /\ Goto(r, "glob", Onward(j))
    <2>1. \A p \in DOMAIN cfg.providers : ~Claims(cfg, p, j.key)
      <3>1. CASE j.key = Empty
        BY <3>1 DEF Claims
      <3>2. CASE claims = {}
        BY <1>1, <3>2, ClaimHasRoute
      <3> QED
        BY <1>8, <3>1, <3>2
    <2> QED
      BY <1>7, <1>8, <2>1
  <1>9. CASE j.key # Empty /\ claims # {}
    <2>1. First(claims) \in claims
      <3>1. claims \in SUBSET Routes(cfg)
        OBVIOUS
      <3> HIDE DEF claims
      <3> QED
        BY <1>1, <1>9, <3>1, FirstRoute
    <2>2. First(claims) \in Routes(cfg) /\ Contains(route.keys, j.key)
      BY <2>1
    <2> HIDE DEF claims
    <2>3. PICK p \in DOMAIN cfg.providers :
             /\ route.provider = p /\ route.keys = cfg.providers[p].keys
             /\ route.requires = cfg.providers[p].requires /\ cfg.providers[p].models # <<>>
      BY <1>1, <2>2, RouteOf
    <2> HIDE DEF route
    <2>4. Claims(cfg, p, j.key)
      BY <1>9, <2>2, <2>3 DEF Claims
    <2>5. \A q \in DOMAIN cfg.providers : Claims(cfg, q, j.key) => q = p
      BY <1>1, <2>2, <2>3, ClaimIsUnique DEF Claims
    <2>6. ASSUME FALSE \in WindowEligible(j, p), Goto(r, "glob", Onward(j))
          PROVE  IInv'
      <3>1. Shut(cfg, p, j.from, now) \/ (j.left /\ ~cfg.providers[p].gated)
        BY <1>1, <1>4, <2>6, LookClosed
      <3>2. Passed(cfg, p, now, j)
        BY <1>1, <1>4, <3>1, LongerSince DEF Passed
      <3> QED
        BY <1>7, <2>5, <2>6, <3>2
    <2>7. ASSUME TRUE \in WindowEligible(j, p), Goto(r, "dispatch", Decided(To(j, route, "key")))
          PROVE  IInv'
      <3>1. PICK e : e = Decided(To(j, route, "key"))
        OBVIOUS
      <3>2. /\ DOMAIN e = JobFields /\ e.by = "key" /\ e.provider = p
            /\ e.requires = cfg.providers[p].requires
            /\ e.key = j.key /\ e.model = j.model /\ e.arrived = j.arrived
            /\ e.left = j.left /\ e.done = j.left
        BY <1>4, <2>3, <3>1, ToFields
      <3>3. ASSUME ~cfg.providers[p].gated PROVE Opened(cfg, p, j.arrived, now)
        <4>1. Opened(cfg, p, j.from, now)
          BY <1>1, <1>4, <2>7, <3>3, LookOpen
        <4> QED
          BY <1>1, <1>4, <4>1, LongerSince
      <3>4. Declared(cfg, now, e)
        BY <2>4, <2>5, <3>2 DEF Declared
      <3>5. AtDispatch(cfg, now, e)
        BY <1>1, <1>4, <3>2, <3>3, <3>4 DEF AtDispatch
      <3>6. OwnList(cfg, e)
        BY <3>2 DEF OwnList
      <3>7. AtStep("dispatch", cfg, now, e)
        BY <3>2, <3>5, <3>6 DEF AtStep
      <3> QED
        BY <1>1, <1>6, <2>7, <3>1, <3>7, RouteStep
    <2>8. WindowEligible(j, p) \subseteq {TRUE, FALSE}
      BY <1>4, LookIsBoolean
    <2>9. PICK open \in WindowEligible(j, p) :
             IF open THEN Goto(r, "dispatch", Decided(To(j, route, "key")))
                     ELSE Goto(r, "glob", Onward(j))
      BY <1>5, <1>9, <2>3 DEF KeyOpen
    <2> QED
      BY <2>6, <2>7, <2>8, <2>9, Zenon
  <1> HIDE DEF claims, route
  <1> QED
    BY <1>5, <1>8, <1>9

\* A provider that serves the model has a route that matches.
LEMMA ServerHasRoute ==
    ASSUME NEW c, Loaded(c), NEW p \in DOMAIN c.providers, NEW m, ServesModel(c, p, m),
           NEW i \in DOMAIN c.order, c.order[i] = p
    PROVE  \E a \in Routes(c) :
              a[1] = i /\ Match(Route(c, a).pattern, m) /\ Route(c, a).provider = p
  <1>1. PICK k \in DOMAIN c.providers[p].models : Match(c.providers[p].models[k], m)
    BY DEF ServesModel, matchesAnyPattern
  <1>2. <<i, k>> \in Routes(c)
    BY <1>1 DEF Routes, providerKeys
  <1>3. Route(c, <<i, k>>).provider = p /\ Route(c, <<i, k>>).pattern = c.providers[p].models[k]
    BY <1>2 DEF Route, providerKeys
  <1> QED
    BY <1>1, <1>2, <1>3

\* Every provider has its place in the order of declaration.
LEMMA Placed ==
    ASSUME NEW c, Loaded(c), NEW p \in DOMAIN c.providers
    PROVE  \E i \in DOMAIN c.order : c.order[i] = p
  BY DEF Loaded, ToSet

\* The routes before the one after a are those before a, and a.
LEMMA BeforeNext ==
    ASSUME NEW a \in Nat \X Nat, NEW b \in Nat \X Nat, Before(b, <<a[1], a[2] + 1>>)
    PROVE  b = a \/ Before(b, a)
  <1>1. b = <<b[1], b[2]>> /\ a = <<a[1], a[2]>>
    OBVIOUS
  <1> QED
    BY <1>1 DEF Before

\* Either a comes before b or it does not, but not both ways round.
LEMMA BeforeAntisymmetric ==
    ASSUME NEW a \in Nat \X Nat, NEW b \in Nat \X Nat, Before(a, b)
    PROVE  ~Before(b, a) /\ a # b
  BY DEF Before

\* The walk stops at a route, goes past a closed one, or ends at the default; what
\* it leaves behind and matches was closed.
LEMMA GlobStepKeeps ==
    ASSUME IInv, NEW r \in Requests, GlobStep(r)
    PROVE  IInv'
  <1>1. Loaded(cfg) /\ now \in Nat /\ AtStep(pc[r], cfg, now, job[r]) /\ pc[r] = "glob"
    BY DEF IInv, Types, OnTheWay, GlobStep
  <1>2. PICK j : j = job[r]
    OBVIOUS
  <1>3. /\ DOMAIN j = JobFields /\ j.provider \in DOMAIN cfg.providers /\ OwnList(cfg, j)
        /\ AtGlob(cfg, now, j) /\ (j.done => j.left)
    BY <1>1, <1>2 DEF AtStep
  <1>4. /\ j.arrived \in Nat /\ j.from \in Nat /\ j.arrived <= j.from /\ j.from <= now
        /\ j.provider = cfg.default /\ j.k \in Nat \X Nat
    BY <1>3 DEF AtGlob, InTime
  <1>5. /\ \A p \in DOMAIN cfg.providers : Claims(cfg, p, j.key) => Passed(cfg, p, now, j)
        /\ \A b \in Routes(cfg) :
              Before(b, j.k) /\ Match(Route(cfg, b).pattern, j.model)
                  => Passed(cfg, Route(cfg, b).provider, now, j)
    BY <1>3 DEF AtGlob
  <1> DEFINE rest == {b \in Routes(cfg) : ~Before(b, j.k) /\ Match(Route(cfg, b).pattern, j.model)}
             a == First(rest)
             route == Route(cfg, a)
             on == Onward([j EXCEPT !.k = <<a[1], a[2] + 1>>])
  <1>6. \/ rest = {} /\ Goto(r, "dispatch", Decided([j EXCEPT !.by = "default"]))
        \/ /\ rest # {}
           /\ \E open \in WindowEligible(j, route.provider) :
                 IF open THEN Goto(r, "dispatch", Decided(To(j, route, "glob"))) ELSE Goto(r, "glob", on)
    <2> DEFINE R == {b \in Routes(cfg) : ~Before(b, job[r].k)
                                            /\ Match(Route(cfg, b).pattern, job[r].model)}
               A == First(R)
    <2>1. \/ R = {} /\ Goto(r, "dispatch", Decided([job[r] EXCEPT !.by = "default"]))
          \/ /\ R # {}
             /\ \E open \in WindowEligible(job[r], Route(cfg, A).provider) :
                   IF open THEN Goto(r, "dispatch", Decided(To(job[r], Route(cfg, A), "glob")))
                   ELSE Goto(r, "glob", Onward([job[r] EXCEPT !.k = <<A[1], A[2] + 1>>]))
      BY DEF GlobStep
    <2>2. R = rest /\ A = a
      BY <1>2
    <2> HIDE DEF rest, a, R, A
    <2> QED
      BY <1>2, <2>1, <2>2
  <1>7. UNCHANGED <<cfg, now, counts>>
    BY DEF GlobStep
  <1>8. CASE rest = {} /\ Goto(r, "dispatch", Decided([j EXCEPT !.by = "default"]))
    <2>1. PICK e : e = Decided([j EXCEPT !.by = "default"])
      OBVIOUS
    <2>2. /\ DOMAIN e = JobFields /\ e.by = "default" /\ e.provider = j.provider
          /\ e.requires = j.requires /\ e.key = j.key /\ e.model = j.model
          /\ e.arrived = j.arrived /\ e.left = j.left /\ e.done = j.left
      BY <1>3, <2>1 DEF JobFields, Decided
    <2>3. ASSUME NEW p \in DOMAIN cfg.providers, ServesModel(cfg, p, j.model)
          PROVE  Passed(cfg, p, now, j)
      <3>1. PICK i \in DOMAIN cfg.order : cfg.order[i] = p
        BY <1>1, <2>3, Placed
      <3>2. PICK b \in Routes(cfg) : Match(Route(cfg, b).pattern, j.model) /\ Route(cfg, b).provider = p
        BY <1>1, <2>3, <3>1, ServerHasRoute
      <3>3. Before(b, j.k)
        BY <1>8, <3>2
      <3> QED
        BY <1>5, <3>2, <3>3
    <2>4. Declared(cfg, now, e)
      <3>1. \A p : Passed(cfg, p, now, j) => Passed(cfg, p, now, e)
        BY <2>2, PassedOn
      <3> QED
        BY <1>4, <1>5, <2>2, <2>3, <3>1 DEF Declared
    <2>5. AtDispatch(cfg, now, e) /\ OwnList(cfg, e)
      <3>1. e.arrived \in Nat /\ e.arrived <= now
        BY <1>1, <1>4, <2>2
      <3>2. OwnList(cfg, e)
        BY <1>3, <2>2 DEF OwnList
      <3> QED
        BY <2>2, <2>4, <3>1, <3>2 DEF AtDispatch
    <2>6. AtStep("dispatch", cfg, now, e)
      BY <1>3, <2>2, <2>5 DEF AtStep
    <2> QED
      BY <1>1, <1>7, <1>8, <2>1, <2>6, RouteStep
  <1>9. CASE rest # {}
    <2>1. a \in rest /\ \A b \in rest : b = a \/ Before(a, b)
      <3>1. rest \in SUBSET Routes(cfg)
        OBVIOUS
      <3> HIDE DEF rest
      <3> QED
        BY <1>1, <1>9, <3>1, FirstRoute
    <2>2. a \in Routes(cfg) /\ Match(route.pattern, j.model)
      BY <2>1
    <2>3. ASSUME NEW b \in Routes(cfg), Match(Route(cfg, b).pattern, j.model), Before(b, a)
          PROVE  Passed(cfg, Route(cfg, b).provider, now, j)
      <3>1. a \in Nat \X Nat /\ b \in Nat \X Nat
        <4> HIDE DEF a
        <4> QED
          BY <1>1, <2>2, <2>3, RouteOf
      <3>2. ~Before(a, b) /\ a # b
        <4> HIDE DEF a
        <4> QED
          BY <2>3, <3>1, BeforeAntisymmetric
      <3>3. b \notin rest
        <4> HIDE DEF a, rest
        <4> QED
          BY <2>1, <3>2
      <3> QED
        BY <1>5, <2>3, <3>3
    <2> HIDE DEF rest
    <2>4. PICK p \in DOMAIN cfg.providers :
             /\ p = cfg.order[a[1]] /\ a[1] \in DOMAIN cfg.order /\ a \in Nat \X Nat
             /\ a[2] \in DOMAIN cfg.providers[p].models
             /\ route.provider = p /\ route.pattern = cfg.providers[p].models[a[2]]
             /\ route.requires = cfg.providers[p].requires
      <3> HIDE DEF a
      <3> QED
        BY <1>1, <2>2, RouteOf
    <2> HIDE DEF a, route
    <2>5. ASSUME FALSE \in WindowEligible(j, p), Goto(r, "glob", on)
          PROVE  IInv'
      <3>1. PICK e : e = on
        OBVIOUS
      <3>2. /\ DOMAIN e = JobFields /\ e.provider = j.provider /\ e.requires = j.requires
            /\ e.key = j.key /\ e.model = j.model /\ e.arrived = j.arrived /\ e.from = now
            /\ e.k = <<a[1], a[2] + 1>> /\ e.left = j.left /\ e.done = j.left
        BY <1>3, <3>1 DEF JobFields, Onward
      <3>3. Shut(cfg, p, j.from, now) \/ (j.left /\ ~cfg.providers[p].gated)
        BY <1>1, <1>3, <1>4, <2>5, LookClosed
      <3>4. Passed(cfg, p, now, j)
        BY <1>1, <1>4, <3>3, LongerSince DEF Passed
      <3>11. \A q : Passed(cfg, q, now, j) => Passed(cfg, q, now, e)
        BY <3>2, PassedOn
      <3>5. ASSUME NEW b \in Routes(cfg), Before(b, e.k), Match(Route(cfg, b).pattern, e.model)
            PROVE  Passed(cfg, Route(cfg, b).provider, now, e)
        <4>1. b \in Nat \X Nat
          BY <1>1, <3>5, RouteOf
        <4>2. b = a \/ Before(b, a)
          BY <2>4, <3>2, <3>5, <4>1, BeforeNext
        <4>3. CASE b = a
          BY <2>4, <3>2, <3>4, <3>11, <4>3 DEF route
        <4>4. CASE Before(b, a)
          BY <2>3, <3>2, <3>5, <3>11, <4>4
        <4> QED
          BY <4>2, <4>3, <4>4
      <3>6. e.k \in Nat \X Nat
        BY <2>4, <3>2
      <3>7. InTime(now, e)
        BY <1>1, <1>4, <3>2 DEF InTime
      <3>8. AtGlob(cfg, now, e)
        BY <1>4, <1>5, <3>2, <3>5, <3>6, <3>7, <3>11 DEF AtGlob
      <3>9. OwnList(cfg, e)
        BY <1>3, <3>2 DEF OwnList
      <3>10. AtStep("glob", cfg, now, e)
        BY <1>3, <3>2, <3>8, <3>9 DEF AtStep
      <3> HIDE DEF on
      <3> QED
        BY <1>1, <1>7, <2>5, <3>1, <3>10, RouteStep
    <2>6. ASSUME TRUE \in WindowEligible(j, p), Goto(r, "dispatch", Decided(To(j, route, "glob")))
          PROVE  IInv'
      <3>1. PICK e : e = Decided(To(j, route, "glob"))
        OBVIOUS
      <3>2. /\ DOMAIN e = JobFields /\ e.by = "glob" /\ e.provider = p
            /\ e.requires = cfg.providers[p].requires
            /\ e.key = j.key /\ e.model = j.model /\ e.arrived = j.arrived
            /\ e.left = j.left /\ e.done = j.left
        BY <1>3, <2>4, <3>1, ToFields
      <3>3. ASSUME ~cfg.providers[p].gated PROVE Opened(cfg, p, j.arrived, now)
        <4>1. Opened(cfg, p, j.from, now)
          BY <1>1, <1>3, <1>4, <2>6, <3>3, LookOpen
        <4> QED
          BY <1>1, <1>4, <4>1, LongerSince
      <3>4. ServesModel(cfg, p, j.model)
        BY <2>2, <2>4 DEF ServesModel, matchesAnyPattern
      <3>5. ASSUME NEW q \in DOMAIN cfg.providers, ServesModel(cfg, q, j.model), Earlier(cfg, q, p)
            PROVE  Passed(cfg, q, now, j)
        <4>1. PICK i \in DOMAIN cfg.order, k \in DOMAIN cfg.order :
                 i < k /\ cfg.order[i] = q /\ cfg.order[k] = p
          BY <3>5 DEF Earlier
        <4>2. k = a[1]
          BY <1>1, <2>4, <4>1 DEF Loaded
        <4>3. PICK b \in Routes(cfg) :
                 /\ b[1] = i /\ Match(Route(cfg, b).pattern, j.model)
                 /\ Route(cfg, b).provider = q
          BY <1>1, <3>5, <4>1, ServerHasRoute
        <4>4. Before(b, a)
          BY <4>1, <4>2, <4>3 DEF Before
        <4> QED
          BY <2>3, <4>3, <4>4
      <3>6. Declared(cfg, now, e)
        <4>1. \A q : Passed(cfg, q, now, j) => Passed(cfg, q, now, e)
          BY <3>2, PassedOn
        <4> QED
          BY <1>5, <3>2, <3>4, <3>5, <4>1 DEF Declared
      <3>7. AtDispatch(cfg, now, e)
        BY <1>1, <1>4, <3>2, <3>3, <3>6 DEF AtDispatch
      <3>8. OwnList(cfg, e)
        BY <3>2 DEF OwnList
      <3>9. AtStep("dispatch", cfg, now, e)
        BY <3>2, <3>7, <3>8 DEF AtStep
      <3> QED
        BY <1>1, <1>7, <2>6, <3>1, <3>9, RouteStep
    <2>7. WindowEligible(j, p) \subseteq {TRUE, FALSE}
      BY <1>3, LookIsBoolean
    <2>8. PICK open \in WindowEligible(j, p) :
             IF open THEN Goto(r, "dispatch", Decided(To(j, route, "glob"))) ELSE Goto(r, "glob", on)
      BY <1>6, <1>9, <2>4
    <2> HIDE DEF on
    <2> QED
      BY <2>5, <2>6, <2>7, <2>8, Zenon
  <1> HIDE DEF rest, a, route, on
  <1> QED
    BY <1>6, <1>8, <1>9

\* The lift is decided by the list of the provider, and its gauge goes up by one.
LEMMA DispatchStep ==
    ASSUME IInv, NEW r \in Requests, Dispatch(r)
    PROVE  IInv'
  <1>1. Types /\ OnTheWay /\ GaugeInv /\ Loaded(cfg)
    BY DEF IInv, Types
  <1>2. pc[r] = "dispatch" /\ cfg' = cfg /\ now' = now
    BY DEF Dispatch
  <1>3. PICK j : j = job[r]
    OBVIOUS
  <1>4. /\ DOMAIN j = JobFields /\ j.provider \in DOMAIN cfg.providers /\ OwnList(cfg, j)
        /\ j.done => j.left
    BY <1>1, <1>2, <1>3 DEF OnTheWay, AtStep
  <1> DEFINE listed == matchesAnyPattern(j.requires, j.model)
  <1>5. PICK lifted \in Cancelled(j, {listed}) :
           Goto(r, "serving", [NoJob EXCEPT !.provider = j.provider, !.model = j.model,
                                            !.lifted = lifted, !.left = j.left])
    BY <1>3 DEF Dispatch
  <1>10. (lifted = listed) \/ (lifted = FALSE /\ j.left)
    <2> HIDE DEF listed
    <2> QED
      BY <1>4, <1>5, CancelledIs, Zenon
  <1>11. PICK e : e = [NoJob EXCEPT !.provider = j.provider, !.model = j.model,
                                    !.lifted = lifted, !.left = j.left]
    OBVIOUS
  <1>6. /\ DOMAIN e = JobFields /\ e.provider = j.provider /\ e.model = j.model
        /\ e.lifted = lifted /\ e.left = j.left /\ ~e.done
    BY <1>11, NoJobFields DEF JobFields
  <1>7. AtStep("serving", cfg, now, e)
    <2>1. /\ e.lifted => listed
          /\ ~e.left => e.lifted = listed
      <3> HIDE DEF listed
      <3> QED
        BY <1>6, <1>10, Zenon
    <2>2. AtServing(cfg, e)
      BY <1>4, <1>6, <2>1 DEF AtServing, OwnList
    <2> QED
      BY <1>4, <1>6, <2>2 DEF AtStep
  <1>8. /\ Types' /\ OnTheWay' /\ pc'[r] = "serving" /\ job'[r] = e
        /\ \A q \in Requests : q # r => pc'[q] = pc[q] /\ job'[q] = job[q]
    <2>1. "serving" \in PCs
      BY DEF PCs
    <2> QED
      BY <1>1, <1>2, <1>5, <1>7, <1>11, <2>1, StepTo
  <1>9. GaugeInv'
    <2>1. counts' = [counts EXCEPT ![j.provider] = @ + 1]
      BY <1>3 DEF Dispatch
    <2>2. /\ counts' = [p \in DOMAIN cfg.providers |-> counts'[p]]
          /\ counts'[j.provider] = counts[j.provider] + 1
          /\ \A p \in DOMAIN cfg.providers : p # j.provider => counts'[p] = counts[p]
      BY <1>1, <1>4, <2>1 DEF GaugeInv
    <2>3. ASSUME NEW p \in DOMAIN cfg.providers PROVE counts'[p] = Cardinality(InFlightAt(p)')
      <3>1. CASE p = j.provider
        <4>1. InFlightAt(p)' = InFlightAt(p) \cup {r} /\ r \notin InFlightAt(p)
          BY <1>2, <1>6, <1>8, <3>1 DEF InFlightAt, Gauged
        <4>2. IsFiniteSet(InFlightAt(p))
          <5>1. InFlightAt(p) \subseteq Requests
            BY DEF InFlightAt
          <5> QED
            BY <5>1, RouterAssumption, FS_Subset DEF RouterAssumption
        <4>3. Cardinality(InFlightAt(p) \cup {r}) = Cardinality(InFlightAt(p)) + 1
          BY <4>1, <4>2, FS_AddElement
        <4>4. counts[p] = Cardinality(InFlightAt(p))
          BY <1>1, <2>3 DEF GaugeInv
        <4> QED
          BY <2>2, <3>1, <4>1, <4>3, <4>4
      <3>2. CASE p # j.provider
        <4>1. InFlightAt(p)' = InFlightAt(p)
          BY <1>2, <1>6, <1>8, <3>2 DEF InFlightAt, Gauged
        <4>2. counts[p] = Cardinality(InFlightAt(p))
          BY <1>1, <2>3 DEF GaugeInv
        <4> QED
          BY <2>2, <3>2, <4>1, <4>2
      <3> QED
        BY <3>1, <3>2
    <2> QED
      BY <1>2, <2>2, <2>3 DEF GaugeInv
  <1> QED
    BY <1>8, <1>9 DEF IInv

\* A step between dispatch and end stays at the provider.
LEMMA HandlerStep ==
    ASSUME IInv, NEW r \in Requests, pc[r] \in Gauged,
           NEW s \in {"answering", "returned", "ending"}, NEW e,
           Goto(r, s, e), UNCHANGED <<cfg, now, counts>>,
           DOMAIN e = JobFields, e.provider = job[r].provider, e.done => e.left
    PROVE  IInv'
  <1>1. Types /\ OnTheWay /\ GaugeInv
    BY DEF IInv
  <1>2. AtStep(s, cfg, now, e)
    BY <1>1 DEF OnTheWay, AtStep, Gauged
  <1>3. s \in PCs /\ s \in Gauged
    BY DEF PCs, Gauged
  <1>4. /\ Types' /\ OnTheWay' /\ pc'[r] = s /\ job'[r] = e
        /\ \A q \in Requests : q # r => pc'[q] = pc[q] /\ job'[q] = job[q]
    BY <1>1, <1>2, <1>3, StepTo
  <1>5. GaugeInv'
    BY <1>1, <1>3, <1>4, GaugeStays
  <1> QED
    BY <1>4, <1>5 DEF IInv

\* What is recorded of an answer does not change where it is served.
LEMMA RecordedStep ==
    ASSUME IInv, NEW r \in Requests, pc[r] \in Gauged,
           NEW s \in {"answering", "returned", "ending"}, NEW sent,
           Goto(r, s, Recorded(r, sent)), UNCHANGED <<cfg, now, counts>>
    PROVE  IInv'
  <1>1. PICK e : e = Recorded(r, sent)
    OBVIOUS
  <1>2. DOMAIN e = JobFields /\ e.provider = job[r].provider /\ ~e.done
    BY <1>1, NoJobFields DEF JobFields, Recorded
  <1>3. Goto(r, s, e)
    BY <1>1
  <1> QED
    BY <1>2, <1>3, HandlerStep

\* The header is written, then chunk after chunk.
LEMMA AnswerStep ==
    ASSUME IInv, NEW r \in Requests, Answer(r) \/ Write(r)
    PROVE  IInv'
  <1>1. PICK sent : Goto(r, "answering", Recorded(r, sent))
    BY Zenon DEF Answer, Write
  <1>2. pc[r] \in Gauged /\ UNCHANGED <<cfg, now, counts>>
    BY DEF Answer, Write, Gauged
  <1> QED
    BY <1>1, <1>2, RecordedStep

\* The handler returns.
LEMMA ReturnStep ==
    ASSUME IInv, NEW r \in Requests, Return(r)
    PROVE  IInv'
  <1>1. PICK sent : Returned(r, sent)
    BY Zenon DEF Return
  <1>2. pc[r] \in Gauged /\ UNCHANGED <<cfg, now, counts>>
    BY DEF Return, Gauged
  <1> QED
    BY <1>1, <1>2, RecordedStep DEF Returned

\* A panic leads to the deferred end.
LEMMA PanicStep ==
    ASSUME IInv, NEW r \in Requests, Panic(r)
    PROVE  IInv'
  <1>1. /\ Goto(r, "ending", Recorded(r, <<>>))
        /\ pc[r] \in Gauged /\ UNCHANGED <<cfg, now, counts>>
    BY DEF Panic, AfterPanic, Gauged
  <1> QED
    BY <1>1, RecordedStep

\* The report changes nothing that others see.
LEMMA ReportStep ==
    ASSUME IInv, NEW r \in Requests, Report(r)
    PROVE  IInv'
  <1>1. PICK e : e = [job[r] EXCEPT !.report = Reported(job[r].sent)]
    OBVIOUS
  <1>2. DOMAIN job[r] = JobFields /\ (job[r].done => job[r].left)
    BY DEF IInv, OnTheWay, AtStep
  <1>3. DOMAIN e = JobFields /\ e.provider = job[r].provider /\ (e.done => e.left)
    BY <1>1, <1>2 DEF JobFields
  <1>4. pc[r] \in Gauged /\ Goto(r, "ending", e) /\ UNCHANGED <<cfg, now, counts>>
    BY <1>1 DEF Report, Gauged
  <1> QED
    BY <1>3, <1>4, HandlerStep

\* The gauge of the provider that was dispatched to goes down by one, and was not 0.
LEMMA EndStep ==
    ASSUME IInv, NEW r \in Requests, End(r)
    PROVE  IInv'
  <1>1. Types /\ OnTheWay /\ GaugeInv /\ Loaded(cfg)
    BY DEF IInv, Types
  <1>2. pc[r] = "ending" /\ cfg' = cfg /\ now' = now /\ Goto(r, "idle", NoJob)
    BY DEF End
  <1>3. PICK n \in DOMAIN cfg.providers : n = job[r].provider
    BY <1>1, <1>2 DEF OnTheWay, AtStep
  <1>4. AtStep("idle", cfg, now, NoJob)
    BY NoJobFields DEF AtStep
  <1>5. /\ Types' /\ OnTheWay' /\ pc'[r] = "idle"
        /\ \A q \in Requests : q # r => pc'[q] = pc[q] /\ job'[q] = job[q]
    <2>1. "idle" \in PCs
      BY DEF PCs
    <2> QED
      BY <1>1, <1>2, <1>4, <2>1, StepTo
  <1>6. GaugeInv'
    <2>1. counts' = [counts EXCEPT ![n] = IF @ > 0 THEN @ - 1 ELSE 0]
      BY <1>3 DEF End
    <2>2. /\ counts' = [p \in DOMAIN cfg.providers |-> counts'[p]]
          /\ counts'[n] = (IF counts[n] > 0 THEN counts[n] - 1 ELSE 0)
          /\ \A p \in DOMAIN cfg.providers : p # n => counts'[p] = counts[p]
      BY <1>1, <2>1 DEF GaugeInv
    <2>3. ASSUME NEW p \in DOMAIN cfg.providers PROVE counts'[p] = Cardinality(InFlightAt(p)')
      <3>1. counts[p] = Cardinality(InFlightAt(p))
        BY <1>1, <2>3 DEF GaugeInv
      <3>2. CASE p = n
        <4>1. InFlightAt(p)' = InFlightAt(p) \ {r} /\ r \in InFlightAt(p)
          BY <1>2, <1>3, <1>5, <3>2 DEF InFlightAt, Gauged
        <4>2. IsFiniteSet(InFlightAt(p))
          <5>1. InFlightAt(p) \subseteq Requests
            BY DEF InFlightAt
          <5> QED
            BY <5>1, RouterAssumption, FS_Subset DEF RouterAssumption
        <4>3. Cardinality(InFlightAt(p) \ {r}) = Cardinality(InFlightAt(p)) - 1
          BY <4>1, <4>2, FS_RemoveElement
        <4>4. /\ Cardinality(InFlightAt(p)) \in Nat
              /\ Cardinality(InFlightAt(p) \ {r}) \in Nat
          BY <4>2, FS_CardinalityType, FS_RemoveElement
        <4> QED
          BY <2>2, <3>1, <3>2, <4>1, <4>3, <4>4
      <3>3. CASE p # n
        <4>1. InFlightAt(p)' = InFlightAt(p)
          BY <1>2, <1>3, <1>5, <3>3 DEF InFlightAt, Gauged
        <4> QED
          BY <2>2, <3>1, <3>3, <4>1
      <3> QED
        BY <3>2, <3>3
    <2> QED
      BY <1>2, <2>2, <2>3 DEF GaugeInv
  <1> QED
    BY <1>5, <1>6 DEF IInv

\* What is known of a request is known of it when its client has left.
LEMMA DisconnectStep ==
    ASSUME IInv, NEW r \in Requests, Disconnect(r)
    PROVE  IInv'
  <1>1. Types /\ OnTheWay /\ GaugeInv
    BY DEF IInv
  <1>2. PICK s \in {"key", "glob", "dispatch", "serving"} : s = pc[r]
    BY DEF Disconnect
  <1>3. PICK j : j = job[r]
    OBVIOUS
  <1>4. PICK e : e = [j EXCEPT !.left = TRUE]
    OBVIOUS
  <1>5. Goto(r, s, e) /\ UNCHANGED <<cfg, now, counts>>
    BY <1>2, <1>3, <1>4 DEF Disconnect
  <1>6. AtStep(s, cfg, now, j)
    BY <1>1, <1>2, <1>3 DEF OnTheWay
  <1>7. /\ DOMAIN e = JobFields /\ e.left
        /\ \A f \in JobFields \ {"left"} : e[f] = j[f]
    BY <1>4, <1>6 DEF AtStep
  <1>8. /\ e.model = j.model /\ e.key = j.key /\ e.by = j.by /\ e.provider = j.provider
        /\ e.requires = j.requires /\ e.lifted = j.lifted /\ e.k = j.k
        /\ e.arrived = j.arrived /\ e.from = j.from /\ e.done = j.done
    BY <1>7 DEF JobFields
  <1>9. \A p : Passed(cfg, p, now, j) => Passed(cfg, p, now, e)
    BY <1>7, <1>8, PassedOn
  <1>10. OwnList(cfg, j) => OwnList(cfg, e)
    BY <1>8 DEF OwnList
  <1>11. InTime(now, j) => InTime(now, e)
    BY <1>8 DEF InTime
  <1>12. AtKey(cfg, now, j) => AtKey(cfg, now, e)
    BY <1>8, <1>11 DEF AtKey
  <1>13. AtGlob(cfg, now, j) => AtGlob(cfg, now, e)
    BY <1>8, <1>9, <1>11 DEF AtGlob
  <1>14. AtDispatch(cfg, now, j) => AtDispatch(cfg, now, e)
    <2>1. Declared(cfg, now, j) => Declared(cfg, now, e)
      BY <1>8, <1>9 DEF Declared
    <2> QED
      BY <1>8, <2>1 DEF AtDispatch
  <1>15. AtServing(cfg, j) => AtServing(cfg, e)
    BY <1>7, <1>8 DEF AtServing
  <1>16. AtStep(s, cfg, now, e)
    BY <1>6, <1>7, <1>8, <1>10, <1>12, <1>13, <1>14, <1>15 DEF AtStep
  <1>17. s \in PCs
    BY DEF PCs
  <1>18. /\ Types' /\ OnTheWay' /\ pc'[r] = s /\ job'[r] = e
         /\ \A q \in Requests : q # r => pc'[q] = pc[q] /\ job'[q] = job[q]
    BY <1>1, <1>5, <1>16, <1>17, StepTo
  <1>19. GaugeInv'
    BY <1>1, <1>2, <1>3, <1>5, <1>8, <1>18, GaugeStays DEF Gauged
  <1> QED
    BY <1>18, <1>19 DEF IInv

\* What is known of a request at an instant is known of it later.
LEMMA TickStep ==
    ASSUME IInv, Tick
    PROVE  IInv'
  <1>1. now \in Nat /\ now' = now + 1 /\ UNCHANGED <<cfg, counts, pc, job>>
    BY DEF IInv, Types, Tick
  <1>2. now' \in Nat /\ now <= now' /\ now' <= MaxTime
    BY <1>1, RouterAssumption DEF RouterAssumption, Tick
  <1>3. PICK t \in Nat : t = now' /\ now <= t
    BY <1>2
  <1>4. ASSUME NEW p, NEW u \in Nat
        PROVE  /\ Shut(cfg, p, u, now) => Shut(cfg, p, u, t)
               /\ Opened(cfg, p, u, now) => Opened(cfg, p, u, t)
    BY <1>1, <1>3, LongerSince
  <1>5. ASSUME NEW r \in Requests PROVE AtStep(pc[r], cfg, t, job[r])
    <2>1. AtStep(pc[r], cfg, now, job[r])
      BY DEF IInv, OnTheWay
    <2>2. PICK j : j = job[r]
      OBVIOUS
    <2>3. PICK s : s = pc[r]
      OBVIOUS
    <2>4. AtStep(s, cfg, now, j)
      BY <2>1, <2>2, <2>3
    <2>5. InTime(now, j) => InTime(t, j)
      BY <1>1, <1>3 DEF InTime
    <2>6. AtKey(cfg, now, j) => AtKey(cfg, t, j)
      BY <2>5 DEF AtKey
    <2>10. j.arrived \in Nat => \A p : Passed(cfg, p, now, j) => Passed(cfg, p, t, j)
      BY <1>4 DEF Passed
    <2>7. AtGlob(cfg, now, j) => AtGlob(cfg, t, j)
      <3>1. InTime(now, j) => j.arrived \in Nat
        BY DEF InTime
      <3> QED
        BY <2>5, <2>10, <3>1 DEF AtGlob
    <2>8. AtDispatch(cfg, now, j) => AtDispatch(cfg, t, j)
      <3>1. SUFFICES ASSUME AtDispatch(cfg, now, j) PROVE AtDispatch(cfg, t, j)
        OBVIOUS
      <3>2. j.arrived \in Nat /\ j.arrived <= t
        BY <1>1, <1>3, <3>1 DEF AtDispatch
      <3>3. Declared(cfg, now, j) => Declared(cfg, t, j)
        BY <2>10, <3>2 DEF Declared
      <3> QED
        BY <1>4, <3>1, <3>2, <3>3 DEF AtDispatch
    <2>9. AtStep(s, cfg, t, j)
      BY <2>4, <2>6, <2>7, <2>8 DEF AtStep
    <2> QED
      BY <2>2, <2>3, <2>9
  <1>6. Types' /\ OnTheWay'
    BY <1>1, <1>2, <1>3, <1>5 DEF Types, OnTheWay, IInv
  <1>7. GaugeInv'
    <2>1. ASSUME NEW p PROVE InFlightAt(p)' = InFlightAt(p)
      BY <1>1 DEF InFlightAt
    <2> QED
      BY <1>1, <2>1 DEF GaugeInv, IInv
  <1> QED
    BY <1>6, <1>7 DEF IInv

\* A router starts with a loaded configuration and nothing in flight.
LEMMA InitHolds == Init => IInv
  <1> SUFFICES ASSUME Init PROVE IInv
    OBVIOUS
  <1>1. Loaded(cfg)
    <2>1. PICK f \in Files : cfg = Load(f) /\ cfg # NoFile
      BY DEF Init
    <2> QED
      BY <2>1, LoadGives
  <1>2. Types
    BY <1>1, RouterAssumption DEF RouterAssumption, Init, Types, PCs
  <1>3. OnTheWay
    BY NoJobFields DEF Init, OnTheWay, AtStep
  <1>4. GaugeInv
    <2>1. ASSUME NEW p \in DOMAIN cfg.providers PROVE counts[p] = Cardinality(InFlightAt(p))
      <3>1. InFlightAt(p) = {}
        BY DEF Init, InFlightAt, Gauged
      <3> QED
        BY <2>1, <3>1, FS_EmptySet DEF Init
    <2> QED
      BY <2>1 DEF GaugeInv, Init
  <1> QED
    BY <1>2, <1>3, <1>4 DEF IInv

-----------------------------------------------------------------------------
(* The theorems                                                            *)

\* The inductive invariant holds throughout.
THEOREM RouterInvariant == Spec => []IInv
  <1>1. Init => IInv
    BY InitHolds
  <1>2. IInv /\ [Next]_vars => IInv'
    <2> SUFFICES ASSUME IInv, [Next]_vars PROVE IInv'
      OBVIOUS
    <2>1. CASE Tick
      BY <2>1, TickStep
    <2>2. ASSUME NEW r \in Requests,
                 \/ Receive(r) \/ KeyStep(r) \/ GlobStep(r)
                 \/ Dispatch(r) \/ Answer(r) \/ Write(r)
                 \/ Return(r) \/ Panic(r) \/ Report(r) \/ End(r)
                 \/ Disconnect(r)
          PROVE  IInv'
      BY <2>2, ReceiveStep, KeyStepKeeps, GlobStepKeeps, DispatchStep, AnswerStep, ReturnStep,
         PanicStep, ReportStep, EndStep, DisconnectStep
    <2>3. CASE UNCHANGED vars
      BY <2>3 DEF vars, IInv, Types, OnTheWay, GaugeInv, InFlightAt
    <2> QED
      BY <2>1, <2>2, <2>3 DEF Next
  <1> QED
    BY <1>1, <1>2, PTL DEF Spec

\* The variables keep their types; the gauge of a provider never exceeds the
\* number of client connections.
THEOREM RouterTypes == Spec => []TypeOK
  <1>1. IInv => TypeOK
    <2> SUFFICES ASSUME IInv PROVE TypeOK
      OBVIOUS
    <2>1. now \in 0..MaxTime /\ pc \in [Requests -> PCs]
      BY RouterAssumption DEF RouterAssumption, IInv, Types
    <2>2. \A r \in Requests : pc[r] # "idle" => job[r].provider \in Providers
      BY DEF IInv, OnTheWay, AtStep, Providers
    <2>3. ASSUME NEW p \in Providers PROVE counts[p] \in 0..Cardinality(Requests)
      <3>1. InFlightAt(p) \subseteq Requests
        BY DEF InFlightAt
      <3>2. /\ Cardinality(InFlightAt(p)) \in Nat /\ Cardinality(Requests) \in Nat
            /\ Cardinality(InFlightAt(p)) <= Cardinality(Requests)
        BY <3>1, RouterAssumption, FS_Subset, FS_CardinalityType DEF RouterAssumption
      <3>3. counts[p] = Cardinality(InFlightAt(p))
        BY <2>3 DEF IInv, GaugeInv, Providers
      <3> QED
        BY <3>2, <3>3
    <2>4. counts \in [Providers -> 0..Cardinality(Requests)]
      BY <2>3 DEF IInv, GaugeInv, Providers
    <2> QED
      BY <2>1, <2>2, <2>4 DEF TypeOK
  <1> QED
    BY <1>1, RouterInvariant, PTL

\* The gauge of a provider counts exactly the requests between their dispatch to
\* it and their end, whether they were answered, broke off or panicked: Start
\* and the deferred End of the in-flight gauge balance.
THEOREM RouterGaugeBalanced == Spec => []GaugeBalanced
  <1>1. IInv => GaugeBalanced
    BY DEF IInv, GaugeInv, GaugeBalanced, Providers, InFlightAt, Gauged
  <1> QED
    BY <1>1, RouterInvariant, PTL

\* A request that is dispatched goes where the file says: to the provider that
\* claims its key, else to the one declared first among those that serve its
\* model, else to the default; whatever was passed over was closed at some
\* instant since the request came, or has no gate and the client has left.
THEOREM RouterRoutedAsDeclared == Spec => []RoutedAsDeclared
  <1>1. IInv => RoutedAsDeclared
    <2> SUFFICES ASSUME IInv, NEW r \in Requests, NEW j, j = job[r], pc[r] = "dispatch", j.by # "pool"
                 PROVE  /\ \A p \in Providers :
                              ClaimsKey(p, j.key) => j.provider = p \/ PassedOver(p, j)
                        /\ j.by = "key" => ClaimsKey(j.provider, j.key)
                        /\ j.by = "glob" => Serves(j.provider, j.model)
                        /\ j.by = "default" => j.provider = cfg.default
                        /\ \A p \in Providers :
                              Serves(p, j.model) /\ j.by # "key"
                                /\ (j.by = "default" \/ DeclaredBefore(p, j.provider))
                                  => PassedOver(p, j)
      BY DEF RoutedAsDeclared
    <2>1. Declared(cfg, now, j)
      BY DEF IInv, OnTheWay, AtStep, AtDispatch
    <2>2. \A p : PassedOver(p, j) <=> Passed(cfg, p, now, j)
      BY DEF PassedOver, Passed, ClosedSince, Shut, Ups
    <2>3. \A p : ClaimsKey(p, j.key) <=> Claims(cfg, p, j.key)
      BY DEF ClaimsKey, Claims
    <2>4. \A p : Serves(p, j.model) <=> ServesModel(cfg, p, j.model)
      BY DEF Serves, ServesModel
    <2>5. \A p, q : DeclaredBefore(p, q) <=> Earlier(cfg, p, q)
      BY DEF DeclaredBefore, Earlier
    <2> QED
      BY <2>1, <2>2, <2>3, <2>4, <2>5 DEF Declared, Providers
  <1> QED
    BY <1>1, RouterInvariant, PTL

\* System messages are lifted by the list of the provider that the request was
\* sent to, never by the list of the default or of a provider passed over, and
\* are left in place against that list only when the client had gone by then.
THEOREM RouterLiftedByOwnList == Spec => []LiftedByOwnList
  <1>1. IInv => LiftedByOwnList
    BY DEF IInv, OnTheWay, AtStep, AtServing, LiftedByOwnList
  <1> QED
    BY <1>1, RouterInvariant, PTL

\* Every configuration that Load lets through can be served: the default and
\* the members of pools name providers that exist, every weight is positive,
\* every window has both ends, every weekday set a location, and no two providers
\* claim one key.
THEOREM RouterLoadedIsServable == Spec => []LoadedIsServable
  <1>1. IInv => LoadedIsServable
    BY DEF IInv, Types, Loaded, LoadedProvider, LoadedUpstream, LoadedIsServable, Providers, Ups,
           validateAllowedApiKeyClaims
  <1> QED
    BY <1>1, RouterInvariant, PTL

\* A provider without a gate around it is not the one that a key or a pattern
\* sends a request to when its windows exclude the whole time since that came.
UngatedClosedSkipped ==
    \A r \in Requests :
        pc[r] = "dispatch" /\ job[r].by \in {"key", "glob"}
          /\ ~cfg.providers[job[r].provider].gated
            => OpenSince(job[r].provider, job[r].arrived)

\* The pool handler of such a provider answers for its windows, so the router
\* never decides for it by key or pattern while it is closed.
THEOREM RouterUngatedClosedSkipped == Spec => []UngatedClosedSkipped
  <1>1. IInv => UngatedClosedSkipped
    BY DEF IInv, OnTheWay, AtStep, AtDispatch, UngatedClosedSkipped, OpenSince, Opened, Ups
  <1> QED
    BY <1>1, RouterInvariant, PTL

\* In files that put no breaker, throttle or cold gate around a provider, no
\* request goes by key or pattern to a provider that was closed all the time
\* since it came.
THEOREM RouterClosedSkipped ==
    ASSUME \A f \in Files : \A n \in DOMAIN f.providers : ~f.providers[n].gated
    PROVE  Spec => []ClosedSkipped
  <1> DEFINE Ungated == \A n \in DOMAIN cfg.providers : ~cfg.providers[n].gated
  <1>1. Init => Ungated
    <2> SUFFICES ASSUME Init, NEW n \in DOMAIN cfg.providers PROVE ~cfg.providers[n].gated
      OBVIOUS
    <2>1. PICK f \in Files : cfg = Load(f) /\ cfg # NoFile
      BY DEF Init
    <2>2. cfg = normalizePools(normalizeUpstreams(f))
      BY <2>1, Zenon DEF Load
    <2>3. ParsedFile(f)
      BY RouterAssumption DEF RouterAssumption
    <2>4. /\ DOMAIN cfg.providers = DOMAIN f.providers
          /\ \A m \in DOMAIN f.providers : cfg.providers[m].gated = f.providers[m].gated
      BY <2>2, <2>3, Normalised
    <2> QED
      BY <2>4
  <1>2. Ungated /\ [Next]_vars => Ungated'
    <2>1. [Next]_vars => cfg' = cfg
      BY DEF Next, vars, Tick, Receive, KeyStep, GlobStep, Dispatch, Answer, Write, Return,
             Panic, Report, End, Disconnect
    <2> QED
      BY <2>1
  <1>3. IInv /\ Ungated /\ UngatedClosedSkipped => ClosedSkipped
    BY DEF IInv, OnTheWay, AtStep, UngatedClosedSkipped, ClosedSkipped
  <1> HIDE DEF Ungated
  <1> QED
    BY <1>1, <1>2, <1>3, RouterInvariant, RouterUngatedClosedSkipped, PTL DEF Spec

-----------------------------------------------------------------------------
(* Windows                                                                 *)

\* A quotient and a remainder that is small enough are those of the division.
LEMMA Remainder ==
    ASSUME NEW n \in Nat \ {0}, NEW x \in Int, NEW q \in Int, NEW r \in 0..(n - 1), x = n * q + r
    PROVE  x % n = r
  <1>1. PICK d \in Int, s \in 0..(n - 1) : s = x % n /\ x = n * d + s
    <2>1. x % n \in 0..(n - 1) /\ x \div n \in Int /\ x = n * (x \div n) + (x % n)
      BY SMT
    <2> QED
      BY <2>1, Zenon
  <1>2. PICK k \in Int : k = d - q /\ d = q + k
    OBVIOUS
  <1>3. n * d = n * q + n * k /\ n * q \in Int /\ n * k \in Int
    BY <1>2
  <1>4. n * k = r - s
    <2>1. \A a, b \in Int : a + b + s = a + r => b = r - s
      BY <1>1
    <2>2. n * q + n * k + s = n * q + r
      BY <1>1, <1>3
    <2> QED
      BY <1>3, <2>1, <2>2
  <1>5. k >= 1 => n * k >= n
    OBVIOUS
  <1>6. k <= -1 => n * k <= -n
    OBVIOUS
  <1>7. k = 0
    BY <1>3, <1>4, <1>5, <1>6
  <1>8. n * k = 0
    BY <1>7
  <1>9. r = s
    BY <1>4, <1>8
  <1> QED
    BY <1>1, <1>9

\* x is among the m times of day from f on; x is between f and u.
CountedFrom(D, f, m, x) == \E i \in 0..(m - 1) : x = (f + i) % D
InBetween(f, u, x) == (f < u /\ f <= x /\ x < u) \/ (f > u /\ (f <= x \/ x < u))

\* Times of day from a beginning f up to an end u, counted off, are those that a
\* comparison finds between them, over midnight when u is the smaller one.
LEMMA CountOff ==
    ASSUME NEW D \in Nat \ {0}, NEW f \in 0..(D - 1), NEW u \in 0..(D - 1), NEW x \in 0..(D - 1),
           NEW m, m = (u - f) % D
    PROVE  CountedFrom(D, f, m, x) <=> InBetween(f, u, x)
  <1>1. CASE f <= u
    <2>1. m = u - f
      <3>1. u - f \in 0..(D - 1) /\ u - f = D * 0 + (u - f) /\ u - f \in Int
        BY <1>1
      <3> QED
        BY <3>1, Remainder
    <2>2. ASSUME NEW i \in 0..(m - 1) PROVE (f + i) % D = f + i
      <3>1. f + i \in 0..(D - 1) /\ f + i = D * 0 + (f + i) /\ f + i \in Int
        BY <1>1, <2>1
      <3> QED
        BY <3>1, Remainder
    <2>3. ASSUME f <= x, x < u PROVE \E i \in 0..(m - 1) : x = (f + i) % D
      <3>1. PICK i \in 0..(m - 1) : x = f + i
        <4>1. x - f \in 0..(m - 1) /\ x = f + (x - f)
          BY <2>1, <2>3
        <4> QED
          BY <4>1
      <3> QED
        BY <2>2, <3>1
    <2>4. ASSUME NEW i \in 0..(m - 1), x = (f + i) % D PROVE f < u /\ f <= x /\ x < u
      <3>1. x = f + i
        BY <2>2, <2>4
      <3> QED
        BY <2>1, <3>1
    <2>5. ~(f > u)
      BY <1>1
    <2> QED
      BY <2>3, <2>4, <2>5 DEF CountedFrom, InBetween
  <1>2. CASE u < f
    <2>1. m = u - f + D
      <3>1. /\ u - f + D \in 0..(D - 1) /\ u - f = D * (-1) + (u - f + D)
            /\ u - f \in Int /\ -1 \in Int
        BY <1>2
      <3> QED
        BY <3>1, Remainder
    <2>2. ASSUME NEW i \in 0..(m - 1)
          PROVE  (f + i) % D = IF f + i < D THEN f + i ELSE f + i - D
      <3>1. CASE f + i < D
        <4>1. f + i \in 0..(D - 1) /\ f + i = D * 0 + (f + i) /\ f + i \in Int
          BY <2>1, <3>1
        <4> QED
          BY <3>1, <4>1, Remainder
      <3>2. CASE ~(f + i < D)
        <4>1. f + i - D \in 0..(D - 1) /\ f + i = D * 1 + (f + i - D) /\ f + i \in Int
          BY <1>2, <2>1, <3>2
        <4> QED
          BY <3>2, <4>1, Remainder
      <3> QED
        BY <3>1, <3>2
    <2>3. ASSUME f <= x PROVE \E i \in 0..(m - 1) : x = (f + i) % D
      <3>1. x - f \in 0..(m - 1) /\ f + (x - f) = x /\ x < D
        BY <2>1, <2>3
      <3> QED
        BY <2>2, <3>1
    <2>4. ASSUME x < u PROVE \E i \in 0..(m - 1) : x = (f + i) % D
      <3>1. /\ x - f + D \in 0..(m - 1) /\ f + (x - f + D) = x + D
            /\ ~(x + D < D) /\ x + D - D = x
        BY <1>2, <2>1, <2>4
      <3>2. PICK i \in 0..(m - 1) : f + i = x + D
        BY <3>1
      <3>3. (f + i) % D = f + i - D
        BY <2>2, <3>1, <3>2
      <3> QED
        BY <3>1, <3>2, <3>3
    <2>5. ASSUME NEW i \in 0..(m - 1), x = (f + i) % D PROVE f <= x \/ x < u
      <3>1. x = IF f + i < D THEN f + i ELSE f + i - D
        BY <2>2, <2>5
      <3> QED
        BY <1>2, <2>1, <3>1
    <2>6. ~(f < u) /\ f > u
      BY <1>2
    <2> QED
      BY <2>3, <2>4, <2>5, <2>6 DEF CountedFrom, InBetween
  <1> QED
    BY <1>1, <1>2

\* The zone of a window that was loaded is that of its beginning.
LEMMA WindowZone ==
    ASSUME NEW w, w # None, w.from.loc # None
    PROVE  FirstLocation(WindowLocations(w)) = w.from.loc
  <1> DEFINE locs == WindowLocations(w)
             set == {i \in DOMAIN locs : locs[i] # None}
  <1>1. locs = <<w.from.loc, w.until.loc>>
    BY DEF WindowLocations
  <1>2. DOMAIN locs = {1, 2} /\ locs[1] = w.from.loc
    BY <1>1
  <1> HIDE DEF locs
  <1>3. 1 \in set /\ set \subseteq {1, 2}
    BY <1>2
  <1> HIDE DEF set
  <1>4. Min(set) = 1
    <2>1. \A y \in set : 1 <= y
      BY <1>3
    <2>2. \E x \in set : \A y \in set : x <= y
      BY <1>3, <2>1
    <2>3. Min(set) \in set /\ \A y \in set : Min(set) <= y
      BY <2>2, Zenon DEF Min
    <2>4. Min(set) <= 1 /\ Min(set) \in {1, 2}
      BY <1>3, <2>3
    <2> QED
      BY <2>4
  <1> QED
    BY <1>2, <1>3, <1>4 DEF FirstLocation, set, locs

\* Window.Contains says of every instant what counting off the times of the
\* window, by the clock of its own location, says.
THEOREM RouterWindowHalfOpen == Spec => []WindowHalfOpen
  <1>1. IInv => WindowHalfOpen
    <2> SUFFICES ASSUME IInv, NEW p \in Providers, NEW i \in DOMAIN Ups(p), NEW w, w = Ups(p)[i].window, w # None
                 PROVE  WindowContains(w, now) <=> TimeOfDay(now, w.from.loc) \in CountedOff(w)
      BY DEF WindowHalfOpen
    <2>1. /\ w.from.tod \in 0..(DayLength - 1) /\ w.until.tod \in 0..(DayLength - 1)
          /\ w.from.loc \in DOMAIN Offset /\ w.from.loc # None
      BY DEF IInv, Types, Loaded, LoadedProvider, LoadedUpstream, LoadedWindow, Providers, Ups
    <2>2. DayLength \in Nat \ {0} /\ Offset[w.from.loc] \in Int /\ now \in Nat
      BY <2>1, CalendarAssumption DEF CalendarAssumption, IInv, Types
    <2>3. PICK x \in 0..(DayLength - 1) : x = TimeOfDay(now, w.from.loc)
      <3>1. now + Offset[w.from.loc] \in Int
        BY <2>2
      <3>2. \A y \in Int : y % DayLength \in 0..(DayLength - 1)
        BY <2>2
      <3> QED
        BY <3>1, <3>2 DEF TimeOfDay
    <2>4. FirstLocation(WindowLocations(w)) = w.from.loc
      BY <2>1, WindowZone
    <2>5. PICK f \in 0..(DayLength - 1), u \in 0..(DayLength - 1) :
             f = w.from.tod /\ u = w.until.tod
      BY <2>1
    <2>6. WindowContains(w, now) <=> InBetween(f, u, x)
      BY <2>3, <2>4, <2>5 DEF WindowContains, InBetween
    <2>7. PICK m : m = (u - f) % DayLength
      OBVIOUS
    <2>8. x \in CountedOff(w) <=> CountedFrom(DayLength, f, m, x)
      BY <2>5, <2>7 DEF CountedOff, CountedFrom
    <2>9. CountedFrom(DayLength, f, m, x) <=> InBetween(f, u, x)
      BY <2>2, <2>7, CountOff
    <2> QED
      BY <2>3, <2>6, <2>8, <2>9
  <1> QED
    BY <1>1, RouterInvariant, PTL

-----------------------------------------------------------------------------
(* The recorder's buffer                                                   *)

\* The first unit kept of a body of which n units got through, and what is kept.
FirstKept(n) == IF n > TailCap THEN n - TailCap + 1 ELSE 1
EndOf(body, n) == SubSeq(body, FirstKept(n), n)

LEMMA TailCapType == TailCap \in Nat /\ TailCap > 0
  BY TailAssumption DEF TailAssumption

LEMMA KeptType ==
    ASSUME NEW n \in Nat
    PROVE  FirstKept(n) \in 1..(n + 1)
  <1>1. CASE n > TailCap
    BY <1>1, TailCapType DEF FirstKept
  <1>2. CASE ~(n > TailCap)
    BY <1>2, TailCapType DEF FirstKept
  <1> QED
    BY <1>1, <1>2

\* c is the part of s from m to n.
IsPart(S, c, s, m, n) ==
    /\ c \in Seq(S) /\ Len(c) = n - m + 1
    /\ \A i \in 1..(n - m + 1) : c[i] = s[m + i - 1]

LEMMA PartOf ==
    ASSUME NEW S, NEW s \in Seq(S), NEW n \in 0..Len(s), NEW m \in 1..(n + 1)
    PROVE  IsPart(S, SubSeq(s, m, n), s, m, n)
  BY DEF IsPart

\* Parts are told apart by where they begin and end.
LEMMA SamePart ==
    ASSUME NEW S, NEW s, NEW m \in Int, NEW n \in Int, m <= n + 1, NEW c, NEW d,
           IsPart(S, c, s, m, n), IsPart(S, d, s, m, n)
    PROVE  c = d
  <1>1. c \in Seq(S) /\ d \in Seq(S) /\ Len(c) = Len(d)
    BY DEF IsPart
  <1>2. \A i \in 1..Len(c) : c[i] = d[i]
    BY DEF IsPart
  <1> QED
    BY <1>1, <1>2

\* A part of a part.
LEMMA PartOfPart ==
    ASSUME NEW S, NEW s, NEW m \in Nat, NEW n \in Nat, NEW c, IsPart(S, c, s, m, n),
           NEW k \in 1..(Len(c) + 1)
    PROVE  IsPart(S, SubSeq(c, k, Len(c)), s, m + k - 1, n)
  <1>1. c \in Seq(S) /\ Len(c) = n - m + 1 /\ Len(c) \in Nat
    BY DEF IsPart
  <1>2. PICK x \in 0..Len(c) : x = Len(c)
    BY <1>1
  <1>3. PICK d : d = SubSeq(c, k, x)
    OBVIOUS
  <1>4. k \in 1..(x + 1)
    BY <1>2
  <1>5. IsPart(S, d, c, k, x)
    BY <1>1, <1>3, <1>4, PartOf
  <1>6. d \in Seq(S) /\ Len(d) = x - k + 1
    BY <1>5 DEF IsPart
  <1>7. x - k + 1 = n - (m + k - 1) + 1
    BY <1>1, <1>2
  <1>8. ASSUME NEW i \in 1..(x - k + 1) PROVE d[i] = s[(m + k - 1) + i - 1]
    <2>1. d[i] = c[k + i - 1]
      BY <1>5 DEF IsPart
    <2>2. PICK j \in 1..(n - m + 1) : j = k + i - 1
      BY <1>1, <1>2
    <2>3. c[j] = s[m + j - 1]
      BY DEF IsPart
    <2>4. m + j - 1 = (m + k - 1) + i - 1
      BY <2>2
    <2> QED
      BY <2>1, <2>2, <2>3, <2>4
  <1> QED
    BY <1>2, <1>3, <1>6, <1>7, <1>8 DEF IsPart

\* Two parts side by side.
LEMMA PartsJoined ==
    ASSUME NEW S, NEW s, NEW m \in Nat, NEW n \in Nat, NEW n2 \in Nat, m <= n + 1, n <= n2,
           NEW c, NEW b, IsPart(S, c, s, m, n), IsPart(S, b, s, n + 1, n2)
    PROVE  IsPart(S, c \o b, s, m, n2)
  <1>1. /\ c \in Seq(S) /\ Len(c) = n - m + 1 /\ Len(c) \in Nat
        /\ b \in Seq(S) /\ Len(b) = n2 - n
    BY DEF IsPart
  <1>2. PICK w : w = c \o b
    OBVIOUS
  <1>3. /\ w \in Seq(S) /\ Len(w) = Len(c) + Len(b)
        /\ \A i \in 1..(Len(c) + Len(b)) : w[i] = IF i <= Len(c) THEN c[i] ELSE b[i - Len(c)]
    BY <1>1, <1>2, ConcatProperties
  <1>4. Len(c) + Len(b) = n2 - m + 1
    BY <1>1
  <1>5. ASSUME NEW i \in 1..(n2 - m + 1) PROVE w[i] = s[m + i - 1]
    <2>1. CASE i <= Len(c)
      <3>1. w[i] = c[i]
        BY <1>3, <1>4, <2>1
      <3>2. c[i] = s[m + i - 1]
        BY <1>1, <2>1 DEF IsPart
      <3> QED
        BY <3>1, <3>2
    <2>2. CASE ~(i <= Len(c))
      <3>1. w[i] = b[i - Len(c)]
        BY <1>3, <1>4, <2>2
      <3>2. PICK j \in 1..(n2 - (n + 1) + 1) : j = i - Len(c)
        BY <1>1, <2>2
      <3>3. b[j] = s[(n + 1) + j - 1]
        BY DEF IsPart
      <3>4. (n + 1) + j - 1 = m + i - 1
        BY <1>1, <3>2
      <3> QED
        BY <3>1, <3>2, <3>3, <3>4
    <2> QED
      BY <2>1, <2>2
  <1> QED
    BY <1>2, <1>3, <1>4, <1>5 DEF IsPart

\* The buffer keeps the part it should.
LEMMA EndIsPart ==
    ASSUME NEW S, NEW body \in Seq(S), NEW n \in 0..Len(body)
    PROVE  IsPart(S, EndOf(body, n), body, FirstKept(n), n)
  BY KeptType, PartOf DEF EndOf

\* A chunk that fills the buffer by itself leaves its own end, a smaller one
\* pushes out as much as it needs.
LEMMA WriteParts ==
    ASSUME NEW S, NEW body, NEW n \in Nat, NEW n2 \in Nat, n < n2,
           NEW tail, IsPart(S, tail, body, FirstKept(n), n),
           NEW b, IsPart(S, b, body, n + 1, n2)
    PROVE  IsPart(S, write(tail, b), body, FirstKept(n2), n2)
  <1>1. PICK m, m2 : m = FirstKept(n) /\ m2 = FirstKept(n2)
    OBVIOUS
  <1>2. m \in 1..(n + 1) /\ m2 \in 1..(n2 + 1)
    BY <1>1, KeptType
  <1>3. PICK lt \in Nat, lb \in Nat : lt = Len(tail) /\ lb = Len(b)
    <2>1. tail \in Seq(S) /\ b \in Seq(S)
      BY DEF IsPart
    <2> QED
      BY <2>1
  <1>4. lt = n - m + 1 /\ lb = n2 - n
    <2>1. Len(tail) = n - m + 1 /\ Len(b) = n2 - (n + 1) + 1
      BY <1>1 DEF IsPart
    <2> QED
      BY <1>3, <2>1
  <1>5. CASE lb >= TailCap
    <2>1. PICK k \in 1..(lb + 1) : k = lb - TailCap + 1
      BY <1>5, TailCapType
    <2>2. write(tail, b) = SubSeq(b, k, Len(b))
      BY <1>3, <1>5, <2>1, Zenon DEF write
    <2>3. IsPart(S, SubSeq(b, k, Len(b)), body, (n + 1) + k - 1, n2)
      <3>1. n + 1 \in Nat /\ k \in 1..(Len(b) + 1)
        BY <1>3
      <3> QED
        BY <3>1, PartOfPart
    <2>4. m2 = n2 - TailCap + 1
      <3>1. n2 >= TailCap
        BY <1>4, <1>5, TailCapType
      <3> QED
        BY <1>1, <3>1, TailCapType DEF FirstKept
    <2>5. (n + 1) + k - 1 = m2
      BY <1>4, <2>1, <2>4, TailCapType
    <2> QED
      BY <1>1, <2>2, <2>3, <2>5
  <1>6. CASE ~(lb >= TailCap)
    <2>1. PICK o : o = (IF lt + lb - TailCap > 0 THEN lt + lb - TailCap ELSE 0)
      OBVIOUS
    <2>2. write(tail, b) = SubSeq(tail, o + 1, Len(tail)) \o b
      BY <1>3, <1>6, <2>1, Zenon DEF write
    <2>3. /\ m = (IF n > TailCap THEN n - TailCap + 1 ELSE 1)
          /\ m2 = (IF n2 > TailCap THEN n2 - TailCap + 1 ELSE 1)
      BY <1>1 DEF FirstKept
    <2>4. o \in Nat /\ o <= lt /\ m + o = m2 /\ m2 <= n + 1
      <3>1. CASE n > TailCap
        BY <1>4, <1>6, <2>1, <2>3, <3>1, TailCapType
      <3>2. CASE ~(n > TailCap) /\ n2 > TailCap
        BY <1>4, <1>6, <2>1, <2>3, <3>2, TailCapType
      <3>3. CASE ~(n2 > TailCap)
        BY <1>4, <1>6, <2>1, <2>3, <3>3, TailCapType
      <3> QED
        BY <3>1, <3>2, <3>3
    <2>5. PICK k \in 1..(Len(tail) + 1) : k = o + 1
      BY <1>3, <2>4
    <2>6. IsPart(S, SubSeq(tail, k, Len(tail)), body, m + k - 1, n)
      BY <1>1, <1>2, PartOfPart
    <2>7. m + k - 1 = m2
      BY <1>2, <2>4, <2>5
    <2>8. IsPart(S, SubSeq(tail, k, Len(tail)) \o b, body, m2, n2)
      <3>1. m2 \in Nat /\ m2 <= n + 1 /\ n <= n2
        BY <1>2, <2>4
      <3>2. IsPart(S, SubSeq(tail, k, Len(tail)), body, m2, n)
        BY <2>6, <2>7
      <3> QED
        BY <3>1, <3>2, PartsJoined
    <2> QED
      BY <1>1, <2>2, <2>5, <2>8
  <1> QED
    BY <1>5, <1>6

\* So the buffer holds the end of what was written, whatever the chunks are.
LEMMA WriteKeepsEnd ==
    ASSUME NEW S, NEW body \in Seq(S), NEW n \in Nat, NEW n2 \in Nat, n < n2, n2 <= Len(body)
    PROVE  write(EndOf(body, n), SubSeq(body, n + 1, n2)) = EndOf(body, n2)
  <1>1. n \in 0..Len(body) /\ n2 \in 0..Len(body) /\ n + 1 \in 1..(n2 + 1)
    OBVIOUS
  <1>2. IsPart(S, SubSeq(body, n + 1, n2), body, n + 1, n2)
    BY <1>1, PartOf
  <1>3. IsPart(S, EndOf(body, n), body, FirstKept(n), n)
    BY <1>1, EndIsPart
  <1>4. IsPart(S, write(EndOf(body, n), SubSeq(body, n + 1, n2)), body, FirstKept(n2), n2)
    BY <1>2, <1>3, WriteParts
  <1>5. IsPart(S, EndOf(body, n2), body, FirstKept(n2), n2)
    BY <1>1, EndIsPart
  <1>6. FirstKept(n2) \in Int /\ FirstKept(n2) <= n2 + 1
    BY KeptType
  <1> QED
    BY <1>4, <1>5, <1>6, SamePart

-----------------------------------------------------------------------------
(* What is recorded of a request                                           *)

\* What the recorder holds of an answer that has begun.
Held(s) ==
    /\ DOMAIN s = {"status", "reason", "tail", "n", "resp"}
    /\ s.resp \in Responses /\ s.n \in 0..Len(s.resp.body)
    /\ s.tail = EndOf(s.resp.body, s.n)

\* What is recorded of a request at step x.
AtRecord(x, j) ==
    /\ x = "answering" => Held(j.sent)
    /\ x = "returned" => j.sent.n = 0 \/ Held(j.sent)
    /\ x = "ending" =>
          \/ j.report = <<>>
          \/ j.report = Reported(j.sent) /\ (j.sent.n = 0 \/ Held(j.sent))

RecordInv == \A r \in Requests : AtRecord(pc[r], job[r])

\* A step of r leaves what is recorded of the others.
LEMMA RecordStep ==
    ASSUME IInv, RecordInv, NEW r \in Requests, NEW x, NEW j, Goto(r, x, j), AtRecord(x, j)
    PROVE  RecordInv'
  <1>1. /\ pc'[r] = x /\ job'[r] = j
        /\ \A q \in Requests : q # r => pc'[q] = pc[q] /\ job'[q] = job[q]
    BY DEF IInv, Types, Goto
  <1>2. ASSUME NEW q \in Requests PROVE AtRecord(pc'[q], job'[q])
    <2>1. CASE q = r
      BY <1>1, <2>1
    <2>2. CASE q # r
      BY <1>1, <2>2 DEF RecordInv
    <2> QED
      BY <2>1, <2>2
  <1> QED
    BY <1>2 DEF RecordInv

\* The locals once an answer has begun.
LEMMA RecordedFields ==
    ASSUME NEW r, NEW sent
    PROVE  Recorded(r, sent).sent = sent /\ Recorded(r, sent).report = <<>>
  BY DEF Recorded, NoJob

\* The header is written and nothing else yet.
LEMMA AnswerRecord ==
    ASSUME IInv, RecordInv, NEW r \in Requests, Answer(r)
    PROVE  RecordInv'
  <1>1. PICK resp \in Responses :
           Goto(r, "answering", Recorded(r, [status |-> resp.status, reason |-> Empty, tail |-> <<>>,
                                             n |-> 0, resp |-> resp]))
    BY DEF Answer
  <1>2. PICK s : s = [status |-> resp.status, reason |-> Empty, tail |-> <<>>, n |-> 0, resp |-> resp]
    OBVIOUS
  <1>3. PICK body : body = resp.body
    OBVIOUS
  <1>4. PICK S : body \in Seq(S)
    BY <1>3, RouterAssumption DEF RouterAssumption, IsSeq
  <1>5. EndOf(body, 0) = <<>>
    <2>1. 0 \in Nat /\ FirstKept(0) = 1
      BY TailCapType DEF FirstKept
    <2>2. SubSeq(body, 1, 0) = <<>>
      BY <1>4
    <2> QED
      BY <2>1, <2>2 DEF EndOf
  <1>6. Held(s)
    <2>1. 0 \in 0..Len(body)
      BY <1>4
    <2> QED
      BY <1>2, <1>3, <1>5, <2>1 DEF Held
  <1>7. PICK j : j = Recorded(r, s)
    OBVIOUS
  <1>8. AtRecord("answering", j)
    BY <1>6, <1>7, RecordedFields DEF AtRecord
  <1> QED
    BY <1>1, <1>2, <1>7, <1>8, RecordStep

\* A chunk is written through, and the buffer holds the end of what got there.
LEMMA WriteRecord ==
    ASSUME IInv, RecordInv, NEW r \in Requests, Write(r)
    PROVE  RecordInv'
  <1>1. PICK s : s = job[r].sent
    OBVIOUS
  <1>2. Held(s)
    BY <1>1 DEF Write, RecordInv, AtRecord
  <1>3. PICK body : body = s.resp.body
    OBVIOUS
  <1>4. PICK S : body \in Seq(S)
    BY <1>2, <1>3, RouterAssumption DEF RouterAssumption, IsSeq, Held
  <1>5. PICK n \in (s.n + 1)..Len(body) :
           Goto(r, "answering",
                Recorded(r, [s EXCEPT !.tail = write(s.tail, SubSeq(body, s.n + 1, n)), !.n = n]))
    BY <1>1, <1>3 DEF Write
  <1>6. PICK n0 \in Nat : n0 = s.n
    BY <1>2, <1>3, <1>4 DEF Held
  <1>7. n \in Nat /\ n0 < n /\ n <= Len(body)
    BY <1>4, <1>5, <1>6
  <1>8. write(s.tail, SubSeq(body, s.n + 1, n)) = EndOf(body, n)
    <2>1. s.tail = EndOf(body, n0)
      BY <1>2, <1>3, <1>6 DEF Held
    <2> QED
      BY <1>4, <1>6, <1>7, <2>1, WriteKeepsEnd
  <1>9. PICK t : t = [s EXCEPT !.tail = write(s.tail, SubSeq(body, s.n + 1, n)), !.n = n]
    OBVIOUS
  <1>10. /\ DOMAIN t = DOMAIN s /\ t.resp = s.resp /\ t.n = n
         /\ t.tail = EndOf(body, n)
    BY <1>2, <1>8, <1>9 DEF Held
  <1>11. Held(t)
    <2>1. n \in 0..Len(body)
      BY <1>4, <1>7
    <2> QED
      BY <1>2, <1>3, <1>10, <2>1 DEF Held
  <1>12. PICK j : j = Recorded(r, t)
    OBVIOUS
  <1>13. AtRecord("answering", j)
    BY <1>11, <1>12, RecordedFields DEF AtRecord
  <1> QED
    BY <1>5, <1>9, <1>12, <1>13, RecordStep

\* The handler returns with what it wrote, if anything.
LEMMA ReturnRecord ==
    ASSUME IInv, RecordInv, NEW r \in Requests, Return(r)
    PROVE  RecordInv'
  <1>1. PICK sent : Returned(r, sent) /\ (sent.n = 0 \/ Held(sent))
    <2>1. CASE pc[r] = "serving" /\ \E gate \in Gates :
                  Returned(r, [Silence EXCEPT !.status = 429, !.reason = gate])
      <3>1. PICK gate : Returned(r, [Silence EXCEPT !.status = 429, !.reason = gate])
        BY <2>1
      <3>2. [Silence EXCEPT !.status = 429, !.reason = gate].n = 0
        BY DEF Silence
      <3> QED
        BY <3>1, <3>2
    <2>2. CASE pc[r] = "serving" /\ Returned(r, Silence)
      <3>1. Silence.n = 0
        BY DEF Silence
      <3> QED
        BY <2>2, <3>1
    <2>3. CASE pc[r] = "answering" /\ Returned(r, job[r].sent)
      <3>1. Held(job[r].sent)
        BY <2>3 DEF RecordInv, AtRecord
      <3> QED
        BY <2>3, <3>1
    <2> QED
      BY <2>1, <2>2, <2>3, Zenon DEF Return
  <1>2. PICK j : j = Recorded(r, sent)
    OBVIOUS
  <1>3. AtRecord("returned", j)
    BY <1>1, <1>2, RecordedFields DEF AtRecord
  <1>4. Goto(r, "returned", j)
    BY <1>1, <1>2 DEF Returned
  <1> QED
    BY <1>3, <1>4, RecordStep

\* Every step keeps what is recorded.
LEMMA RecordKept ==
    ASSUME IInv, RecordInv, [Next]_vars
    PROVE  RecordInv'
  <1>1. CASE UNCHANGED <<pc, job>>
    BY <1>1 DEF RecordInv
  <1>2. ASSUME NEW r \in Requests, NEW x, NEW j, Goto(r, x, j),
               x \notin {"answering", "returned", "ending"}
        PROVE  RecordInv'
    <2>1. AtRecord(x, j)
      BY <1>2 DEF AtRecord
    <2> QED
      BY <1>2, <2>1, RecordStep
  <1>3. ASSUME NEW r \in Requests, Receive(r) PROVE RecordInv'
    <2>1. (\E j : Goto(r, "key", j)) \/ (\E j : Goto(r, "dispatch", j))
      BY <1>3, Zenon DEF Receive
    <2>2. ASSUME NEW j, Goto(r, "key", j) PROVE RecordInv'
      BY <1>2, <2>2
    <2>3. ASSUME NEW j, Goto(r, "dispatch", j) PROVE RecordInv'
      BY <1>2, <2>3
    <2> QED
      BY <2>1, <2>2, <2>3
  <1>8. ASSUME NEW r \in Requests, Disconnect(r) PROVE RecordInv'
    <2>1. /\ Goto(r, pc[r], [job[r] EXCEPT !.left = TRUE])
          /\ pc[r] \notin {"answering", "returned", "ending"}
      BY <1>8 DEF Disconnect
    <2> QED
      BY <1>2, <2>1
  <1>4. ASSUME NEW r \in Requests, KeyStep(r) \/ GlobStep(r) \/ Dispatch(r) \/ End(r)
        PROVE  RecordInv'
    <2>1. \/ \E j : Goto(r, "glob", j)
          \/ \E j : Goto(r, "dispatch", j)
          \/ \E j : Goto(r, "serving", j)
          \/ \E j : Goto(r, "idle", j)
      <3>1. CASE KeyStep(r)
        BY <3>1, Zenon DEF KeyStep
      <3>2. CASE GlobStep(r)
        BY <3>2, Zenon DEF GlobStep
      <3>3. CASE Dispatch(r) \/ End(r)
        BY <3>3, Zenon DEF Dispatch, End
      <3> QED
        BY <1>4, <3>1, <3>2, <3>3
    <2>2. ASSUME NEW x \in {"glob", "dispatch", "serving", "idle"}, NEW j, Goto(r, x, j)
          PROVE  RecordInv'
      BY <1>2, <2>2
    <2> QED
      BY <2>1, <2>2, Zenon
  <1>5. ASSUME NEW r \in Requests, Panic(r) PROVE RecordInv'
    <2>1. PICK j : j = Recorded(r, <<>>)
      OBVIOUS
    <2>2. Goto(r, "ending", j)
      BY <1>5, <2>1 DEF Panic, AfterPanic
    <2>3. AtRecord("ending", j)
      BY <2>1, RecordedFields DEF AtRecord
    <2> QED
      BY <2>2, <2>3, RecordStep
  <1>6. ASSUME NEW r \in Requests, Report(r) PROVE RecordInv'
    <2>1. PICK j : j = [job[r] EXCEPT !.report = Reported(job[r].sent)]
      OBVIOUS
    <2>2. DOMAIN job[r] = JobFields
      BY DEF IInv, OnTheWay, AtStep
    <2>3. j.report = Reported(job[r].sent) /\ j.sent = job[r].sent
      BY <2>1, <2>2 DEF JobFields
    <2>4. job[r].sent.n = 0 \/ Held(job[r].sent)
      BY <1>6 DEF Report, RecordInv, AtRecord
    <2>5. AtRecord("ending", j)
      BY <2>3, <2>4 DEF AtRecord
    <2>6. Goto(r, "ending", j)
      BY <1>6, <2>1 DEF Report
    <2> QED
      BY <2>5, <2>6, RecordStep
  <1>7. CASE Tick \/ UNCHANGED vars
    BY <1>1, <1>7 DEF Tick, vars
  <1> QED
    BY <1>3, <1>4, <1>5, <1>6, <1>7, <1>8, AnswerRecord, WriteRecord, ReturnRecord DEF Next

\* What the recorder holds of an answer is the end of what was written of it,
\* whatever the chunks were, and a report is read off just that.
THEOREM RouterRecords == Spec => []RecordInv
  <1>1. Init => RecordInv
    BY DEF Init, RecordInv, AtRecord
  <1>2. IInv /\ RecordInv /\ [Next]_vars => RecordInv'
    BY RecordKept
  <1> QED
    BY <1>1, <1>2, RouterInvariant, PTL DEF Spec

-----------------------------------------------------------------------------
(* What a scan of the buffer finds                                         *)

\* A set of numbers up to some number that is not empty has a largest one.
LEMMA LargestNumber ==
    ASSUME NEW n \in Nat, NEW S, S \subseteq 0..n, S # {}
    PROVE  \E m \in S : \A k \in S : m >= k
  <1> DEFINE T == {n - k : k \in S}
  <1>1. T \subseteq Nat /\ T # {}
    <2>1. \A k \in S : n - k \in Nat
      OBVIOUS
    <2> QED
      BY <2>1
  <1>2. PICK t \in T : \A u \in T : t <= u
    <2> HIDE DEF T
    <2> QED
      BY <1>1, SmallestNumber
  <1>3. PICK m \in S : t = n - m
    OBVIOUS
  <1>4. ASSUME NEW k \in S PROVE m >= k
    <2>1. n - k \in T
      OBVIOUS
    <2>2. n - m <= n - k
      BY <1>2, <1>3, <2>1
    <2> QED
      BY <2>2
  <1> QED
    BY <1>4

\* The largest and the smallest number of a set.
LEMMA MaxIs ==
    ASSUME NEW n \in Nat, NEW S, S \subseteq 0..n, S # {}
    PROVE  Max(S) \in S /\ \A k \in S : Max(S) >= k
  BY LargestNumber DEF Max

LEMMA MinIs ==
    ASSUME NEW S, S \subseteq Nat, S # {}
    PROVE  Min(S) \in S /\ \A k \in S : Min(S) <= k
  BY SmallestNumber DEF Min

\* Between lo and hi, the last marker of that name in s is at i, and the first
\* line after it at j.
IsMark(unit, name) == unit.unit = "mark" /\ unit.name = name
Finds(s, lo, hi, name, i, j) ==
    /\ i \in lo..hi /\ IsMark(s[i], name)
    /\ \A k \in (i + 1)..hi : ~IsMark(s[k], name)
    /\ j \in (i + 1)..hi /\ s[j].unit = "data"
    /\ \A k \in (i + 1)..(j - 1) : s[k].unit # "data"

\* What is read off a data line.
Read(unit) == IF unit.crlf THEN Absent ELSE unit.usage

\* What the scan of the buffer returns.
LEMMA ScanTail ==
    ASSUME NEW S, NEW tail \in Seq(S), NEW name
    PROVE  /\ scanSSEEvent(tail, name) # Absent =>
                 \E i, j \in 1..Len(tail) :
                    /\ Finds(tail, 1, Len(tail), name, i, j)
                    /\ scanSSEEvent(tail, name) = Read(tail[j])
           /\ \A i, j \in 1..Len(tail) : Finds(tail, 1, Len(tail), name, i, j) =>
                 scanSSEEvent(tail, name) = Read(tail[j])
  <1>1. PICK n \in Nat : n = Len(tail)
    OBVIOUS
  <1> DEFINE I == {i \in 1..n : IsMark(tail[i], name)}
             J(k) == {i \in k..n : tail[i].unit = "data"}
             mark == IF I # {} THEN Max(I) ELSE 0
             line == IF J(mark) # {} THEN Min(J(mark)) ELSE 0
  <1>2. scanSSEEvent(tail, name) = IF mark = 0 \/ line = 0 THEN Absent ELSE Read(tail[line])
    BY <1>1 DEF Read, scanSSEEvent, SelectLastInSeq, SelectInSubSeq, IsMark
  <1>3. I # {} => /\ Max(I) \in 1..n /\ IsMark(tail[Max(I)], name)
                  /\ \A k \in 1..n : IsMark(tail[k], name) => Max(I) >= k
    <2>1. I \subseteq 0..n
      OBVIOUS
    <2>2. I # {} => Max(I) \in I /\ \A k \in I : Max(I) >= k
      <3> HIDE DEF I
      <3> QED
        BY <2>1, MaxIs
    <2> QED
      BY <2>2
  <1>4. ASSUME NEW k \in Nat, J(k) # {}
        PROVE  /\ Min(J(k)) \in k..n /\ tail[Min(J(k))].unit = "data"
               /\ \A i \in k..n : tail[i].unit = "data" => Min(J(k)) <= i
    <2>1. J(k) \subseteq Nat
      OBVIOUS
    <2>2. Min(J(k)) \in J(k) /\ \A i \in J(k) : Min(J(k)) <= i
      <3> HIDE DEF J
      <3> QED
        BY <1>4, <2>1, MinIs
    <2> QED
      BY <2>2
  <1>5. ASSUME scanSSEEvent(tail, name) # Absent
        PROVE  \E i, j \in 1..n : Finds(tail, 1, n, name, i, j)
                                    /\ scanSSEEvent(tail, name) = Read(tail[j])
    <2>1. mark # 0 /\ line # 0 /\ scanSSEEvent(tail, name) = Read(tail[line])
      BY <1>2, <1>5
    <2>2. I # {} /\ mark = Max(I)
      BY <2>1
    <2>3. J(mark) # {} /\ line = Min(J(mark))
      BY <2>1
    <2> HIDE DEF I, J, line
    <2>4. PICK i \in 1..n : i = mark
      BY <1>3, <2>2
    <2> HIDE DEF mark
    <2>5. IsMark(tail[i], name) /\ \A k \in 1..n : IsMark(tail[k], name) => i >= k
      BY <1>3, <2>2, <2>4
    <2>6. PICK j \in i..n : j = line /\ tail[j].unit = "data"
      BY <1>4, <2>3, <2>4
    <2>7. \A k \in i..n : tail[k].unit = "data" => j <= k
      BY <1>4, <2>3, <2>4, <2>6
    <2>8. i # j
      BY <2>5, <2>6 DEF IsMark
    <2>9. Finds(tail, 1, n, name, i, j)
      <3>1. \A k \in (i + 1)..n : ~IsMark(tail[k], name)
        BY <2>5
      <3>2. \A k \in (i + 1)..(j - 1) : tail[k].unit # "data"
        BY <2>6, <2>7
      <3>3. j \in (i + 1)..n
        BY <2>6, <2>8
      <3> QED
        BY <2>5, <2>6, <3>1, <3>2, <3>3 DEF Finds
    <2>10. j \in 1..n
      BY <2>6
    <2> QED
      BY <2>1, <2>6, <2>9, <2>10
  <1>6. ASSUME NEW i \in 1..n, NEW j \in 1..n, Finds(tail, 1, n, name, i, j)
        PROVE  scanSSEEvent(tail, name) = Read(tail[j])
    <2>1. /\ IsMark(tail[i], name) /\ j \in (i + 1)..n /\ tail[j].unit = "data"
          /\ \A k \in (i + 1)..n : ~IsMark(tail[k], name)
          /\ \A k \in (i + 1)..(j - 1) : tail[k].unit # "data"
      BY <1>6 DEF Finds
    <2>2. I # {}
      BY <2>1
    <2>3. mark = Max(I)
      BY <2>2
    <2> HIDE DEF I
    <2>4. PICK x \in 1..n : x = Max(I)
      BY <1>3, <2>2
    <2>5. x = i
      BY <1>3, <2>1, <2>2, <2>4
    <2>6. mark = i
      BY <2>3, <2>4, <2>5
    <2> HIDE DEF mark
    <2>7. J(i) # {}
      BY <2>1
    <2>8. line = Min(J(i))
      BY <2>6, <2>7
    <2> HIDE DEF J
    <2>9. PICK y \in i..n : y = Min(J(i))
      BY <1>4, <2>7
    <2>10. tail[y].unit = "data" /\ y <= j
      BY <1>4, <2>1, <2>7, <2>9
    <2>11. y # i
      BY <2>1, <2>10 DEF IsMark
    <2>12. y = j
      BY <2>1, <2>9, <2>10, <2>11
    <2>13. line = j
      BY <2>8, <2>9, <2>12
    <2> HIDE DEF line
    <2> QED
      BY <1>2, <2>6, <2>13
  <1> QED
    BY <1>1, <1>5, <1>6

\* A scan of a part finds what it would find in the whole.
LEMMA FindsPart ==
    ASSUME NEW S, NEW s, NEW m \in Nat \ {0}, NEW n \in Nat, NEW c, IsPart(S, c, s, m, n),
           NEW name, NEW i \in Int, NEW j \in Int
    PROVE  Finds(c, 1, Len(c), name, i, j) <=> Finds(s, m, n, name, m + i - 1, m + j - 1)
  <1>1. PICK l : l = n - m + 1
    OBVIOUS
  <1>2. l \in Int /\ Len(c) = l
    BY <1>1 DEF IsPart
  <1>3. ASSUME NEW k \in Int, k \in 1..l
        PROVE  c[k] = s[m + k - 1]
    BY <1>1, <1>3 DEF IsPart
  <1>4. ASSUME Finds(c, 1, l, name, i, j) PROVE Finds(s, m, n, name, m + i - 1, m + j - 1)
    <2>1. /\ i \in 1..l /\ IsMark(c[i], name) /\ j \in (i + 1)..l /\ c[j].unit = "data"
          /\ \A k \in (i + 1)..l : ~IsMark(c[k], name)
          /\ \A k \in (i + 1)..(j - 1) : c[k].unit # "data"
      BY <1>4 DEF Finds
    <2>2. /\ m + i - 1 \in m..n /\ m + j - 1 \in ((m + i - 1) + 1)..n
          /\ i \in 1..l /\ j \in 1..l
      BY <1>1, <2>1
    <2>3. IsMark(s[m + i - 1], name) /\ s[m + j - 1].unit = "data"
      BY <1>3, <2>1, <2>2
    <2>4. ASSUME NEW k \in ((m + i - 1) + 1)..n PROVE ~IsMark(s[k], name)
      <3>1. PICK x \in (i + 1)..l : x = k - m + 1
        BY <1>1
      <3>2. x \in 1..l /\ m + x - 1 = k
        BY <2>1, <3>1
      <3> QED
        BY <1>3, <2>1, <3>1, <3>2
    <2>5. ASSUME NEW k \in ((m + i - 1) + 1)..((m + j - 1) - 1) PROVE s[k].unit # "data"
      <3>0. k - m + 1 \in (i + 1)..(j - 1)
        OBVIOUS
      <3>1. PICK x \in (i + 1)..(j - 1) : x = k - m + 1
        BY <3>0, Zenon
      <3>2. x \in 1..l /\ m + x - 1 = k
        BY <1>2, <2>2, <3>1
      <3> QED
        BY <1>3, <2>1, <3>1, <3>2
    <2> QED
      BY <2>2, <2>3, <2>4, <2>5 DEF Finds
  <1>5. ASSUME Finds(s, m, n, name, m + i - 1, m + j - 1) PROVE Finds(c, 1, l, name, i, j)
    <2>1. /\ m + i - 1 \in m..n /\ IsMark(s[m + i - 1], name)
          /\ m + j - 1 \in ((m + i - 1) + 1)..n /\ s[m + j - 1].unit = "data"
          /\ \A k \in ((m + i - 1) + 1)..n : ~IsMark(s[k], name)
          /\ \A k \in ((m + i - 1) + 1)..((m + j - 1) - 1) : s[k].unit # "data"
      BY <1>5 DEF Finds
    <2>2. i \in 1..l /\ j \in (i + 1)..l /\ j \in 1..l
      BY <1>1, <2>1
    <2>3. IsMark(c[i], name) /\ c[j].unit = "data"
      BY <1>3, <2>1, <2>2
    <2>4. ASSUME NEW k \in (i + 1)..l PROVE ~IsMark(c[k], name)
      <3>1. k \in 1..l /\ m + k - 1 \in ((m + i - 1) + 1)..n
        BY <1>1, <2>2
      <3> QED
        BY <1>3, <2>1, <3>1
    <2>5. ASSUME NEW k \in (i + 1)..(j - 1) PROVE c[k].unit # "data"
      <3>1. k \in 1..l /\ m + k - 1 \in ((m + i - 1) + 1)..((m + j - 1) - 1)
        BY <1>1, <2>2
      <3> QED
        BY <1>3, <2>1, <3>1
    <2> QED
      BY <2>2, <2>3, <2>4, <2>5 DEF Finds
  <1> QED
    BY <1>2, <1>4, <1>5

\* A scan of the body from m to n returns v.
ScanIs(body, m, n, name, v) ==
    /\ v # Absent => \E i, j \in m..n : Finds(body, m, n, name, i, j) /\ v = Read(body[j])
    /\ \A i, j \in m..n : Finds(body, m, n, name, i, j) => v = Read(body[j])

\* So a scan of the buffer is one of the body from its first unit kept.
LEMMA ScanBody ==
    ASSUME NEW S, NEW body, NEW m \in Nat \ {0}, NEW n \in Nat, NEW tail,
           IsPart(S, tail, body, m, n), NEW name
    PROVE  ScanIs(body, m, n, name, scanSSEEvent(tail, name))
  <1>1. tail \in Seq(S) /\ Len(tail) = n - m + 1
    BY DEF IsPart
  <1>2. ASSUME NEW k \in 1..Len(tail) PROVE m + k - 1 \in m..n /\ tail[k] = body[m + k - 1]
    BY <1>1, <1>2 DEF IsPart
  <1>3. ASSUME scanSSEEvent(tail, name) # Absent
        PROVE  \E i, j \in m..n : /\ Finds(body, m, n, name, i, j)
                                  /\ scanSSEEvent(tail, name) = Read(body[j])
    <2>1. PICK i, j \in 1..Len(tail) : /\ Finds(tail, 1, Len(tail), name, i, j)
                                       /\ scanSSEEvent(tail, name) = Read(tail[j])
      BY <1>1, <1>3, ScanTail
    <2>2. i \in Int /\ j \in Int
      BY <1>1
    <2>3. Finds(body, m, n, name, m + i - 1, m + j - 1)
      BY <2>1, <2>2, FindsPart
    <2>4. /\ m + i - 1 \in m..n /\ m + j - 1 \in m..n
          /\ scanSSEEvent(tail, name) = Read(body[m + j - 1])
      BY <1>2, <2>1
    <2> QED
      BY <2>3, <2>4
  <1>4. ASSUME NEW i \in m..n, NEW j \in m..n, Finds(body, m, n, name, i, j)
        PROVE  scanSSEEvent(tail, name) = Read(body[j])
    <2>1. PICK x \in 1..Len(tail), y \in 1..Len(tail) : x = i - m + 1 /\ y = j - m + 1
      BY <1>1
    <2>2. x \in Int /\ y \in Int /\ m + x - 1 = i /\ m + y - 1 = j
      BY <1>1, <2>1
    <2>3. Finds(tail, 1, Len(tail), name, x, y)
      <3>1. Finds(body, m, n, name, m + x - 1, m + y - 1)
        BY <1>4, <2>2
      <3> QED
        BY <2>2, <3>1, FindsPart
    <2>4. scanSSEEvent(tail, name) = Read(tail[y])
      BY <1>1, <2>1, <2>3, ScanTail
    <2> QED
      BY <1>2, <2>1, <2>2, <2>4
  <1> QED
    BY <1>3, <1>4 DEF ScanIs

-----------------------------------------------------------------------------
(* The counts of an answer                                                 *)

\* Where the event of that name is.
Place(name, a, d) == IF name = "start" THEN a ELSE d

\* The fields of a marker.
LEMMA MarkFields ==
    ASSUME NEW name
    PROVE  Mark(name).unit = "mark" /\ Mark(name).name = name /\ Mark(name).quoted = FALSE
  BY DEF Mark

\* Where the two events are.
LEMMA StreamPlaces ==
    ASSUME NEW body, NEW a, NEW d, StreamAt(body, a, d)
    PROVE  /\ d \in DOMAIN body /\ d + 1 \in DOMAIN body /\ a \in 0..(d - 1)
           /\ body[d].unit = "mark" /\ body[d].name = "delta"
           /\ a > 0 => body[a].unit = "mark" /\ body[a].name = "start"
           /\ body[d + 1].unit = "data" /\ body[d + 1].usage \in Usages
  <1>1. /\ d \in DOMAIN body /\ d + 1 \in DOMAIN body /\ a \in 0..(d - 1)
        /\ body[d] = Mark("delta") /\ (a > 0 => body[a] = Mark("start"))
        /\ Counted(body[d + 1])
    BY DEF StreamAt
  <1> QED
    BY <1>1, MarkFields DEF Counted

\* The only marker of an event that nobody quotes is its own.
LEMMA StreamMarks ==
    ASSUME NEW S, NEW body \in Seq(S), NEW a, NEW d, StreamAt(body, a, d),
           NEW name \in {"start", "delta"}, NEW i \in DOMAIN body, IsMark(body[i], name)
    PROVE  i = Place(name, a, d) \/ (body[i].quoted /\ i \notin {a, d})
  <1>1. i = a => name = "start"
    <2>1. i \in Nat /\ i > 0
      OBVIOUS
    <2>2. i = a => a > 0
      BY <2>1
    <2> QED
      BY <2>2, StreamPlaces DEF IsMark
  <1>2. i = d => name = "delta"
    BY StreamPlaces DEF IsMark
  <1>3. i \notin {a, d} => body[i].quoted
    BY DEF StreamAt, IsMark
  <1> QED
    BY <1>1, <1>2, <1>3 DEF Place

\* What a scan of a part of a stream finds: the counts of the event it looks for,
\* or none.
LEMMA StreamFinds ==
    ASSUME NEW S, NEW body \in Seq(S), NEW a, NEW d, StreamAt(body, a, d),
           NEW name \in {"start", "delta"}, NEW m \in Nat \ {0}, NEW n \in Nat, n <= Len(body),
           NEW i \in m..n, NEW j \in m..n, Finds(body, m, n, name, i, j)
    PROVE  \/ body[j].usage = Absent
           \/ i = Place(name, a, d) /\ j = Place(name, a, d) + 1
  <1>1. /\ DOMAIN body = 1..Len(body) /\ Len(body) \in Nat
        /\ i \in DOMAIN body /\ j \in DOMAIN body
    OBVIOUS
  <1>2. /\ IsMark(body[i], name) /\ j \in (i + 1)..n /\ body[j].unit = "data"
        /\ \A k \in (i + 1)..(j - 1) : body[k].unit # "data"
    BY DEF Finds
  <1>3. CASE i = Place(name, a, d)
    <2>1. i + 1 \in DOMAIN body /\ body[i + 1].unit = "data"
      <3>1. CASE name = "delta"
        BY <1>3, <3>1 DEF Place, StreamAt, Counted
      <3>2. CASE name = "start"
        <4>1. i = a /\ a > 0
          BY <1>1, <1>3, <3>2 DEF Place
        <4>2. a + 1 \in DOMAIN body
          BY <1>1, <4>1 DEF StreamAt
        <4> QED
          BY <4>1, <4>2 DEF StreamAt
      <3> QED
        BY <3>1, <3>2
    <2>2. ~(i + 1 \in (i + 1)..(j - 1))
      BY <1>2, <2>1
    <2>3. j = i + 1
      <3>1. i \in Int /\ j \in Int /\ j >= i + 1
        BY <1>2
      <3> QED
        BY <2>2, <3>1
    <2> QED
      BY <1>3, <2>3
  <1>4. CASE i # Place(name, a, d)
    <2>1. i \notin {a, d}
      BY <1>1, <1>2, <1>4, StreamMarks
    <2>2. j \in (i + 1)..Len(body)
      BY <1>1, <1>2
    <2>3. body[i].unit = "mark" /\ body[i].name \in {"start", "delta"}
      BY <1>2 DEF IsMark
    <2> QED
      BY <1>1, <1>2, <2>1, <2>2, <2>3 DEF StreamAt
  <1> QED
    BY <1>3, <1>4

\* The delta is found when it got through and is still in the buffer.
LEMMA DeltaFound ==
    ASSUME NEW S, NEW body \in Seq(S), NEW a, NEW d, StreamAt(body, a, d),
           NEW m \in Nat \ {0}, NEW n \in Nat, n <= Len(body), m <= d, d + 1 <= n
    PROVE  Finds(body, m, n, "delta", d, d + 1) /\ d \in m..n /\ d + 1 \in m..n
  <1>1. /\ DOMAIN body = 1..Len(body) /\ Len(body) \in Nat /\ d \in Nat
        /\ d \in m..n /\ d + 1 \in (d + 1)..n /\ d + 1 \in m..n
    BY StreamPlaces
  <1>2. IsMark(body[d], "delta") /\ body[d + 1].unit = "data"
    BY StreamPlaces DEF IsMark
  <1>3. ASSUME NEW k \in (d + 1)..n PROVE ~IsMark(body[k], "delta")
    <2>1. k \in DOMAIN body /\ d < k
      BY <1>1
    <2>2. k \notin {a, d}
      BY <1>1, <2>1 DEF StreamAt
    <2>3. body[k].unit = "mark" /\ body[k].name \in {"start", "delta"} => k < d
      BY <2>1, <2>2 DEF StreamAt
    <2> QED
      BY <1>1, <2>1, <2>3 DEF IsMark
  <1>4. \A k \in (d + 1)..((d + 1) - 1) : body[k].unit # "data"
    BY <1>1
  <1> QED
    BY <1>1, <1>2, <1>3, <1>4 DEF Finds

\* The counts that were sent, of a stream.
LEMMA StreamCarries ==
    ASSUME NEW s, NEW S, s.resp.body \in Seq(S), s.n \in 0..Len(s.resp.body),
           NEW a, NEW d, StreamAt(s.resp.body, a, d), NEW name \in {"start", "delta"}, NEW p,
           p = Place(name, a, d)
    PROVE  /\ \A c \in Carried(s, name) : p + 1 <= s.n /\ c = s.resp.body[p + 1].usage
           /\ p > 0 /\ p + 1 <= s.n /\ s.resp.body[p + 1].usage # Absent
                => s.resp.body[p + 1].usage \in Carried(s, name)
  <1>1. PICK body, n : body = s.resp.body /\ n = s.n
    OBVIOUS
  <1>2. /\ body \in Seq(S) /\ n \in 0..Len(body) /\ StreamAt(body, a, d)
        /\ DOMAIN body = 1..Len(body) /\ Len(body) \in Nat /\ n \in Nat
    <2>1. body \in Seq(S) /\ n \in 0..Len(body)
      BY <1>1
    <2>2. StreamAt(body, a, d)
      BY <1>1, Zenon
    <2> QED
      BY <2>1, <2>2
  <1>3. \A i \in 1..n : body[i].unit # "left"
    <2>1. \A i \in DOMAIN body : body[i].unit # "left"
      BY <1>2 DEF StreamAt
    <2>2. \A i \in 1..n : i \in DOMAIN body
      BY <1>2
    <2> QED
      BY <2>1, <2>2
  <1>4. ASSUME NEW i \in 1..(n - 1), body[i] = Mark(name) PROVE i = p
    <2>1. i \in DOMAIN body
      BY <1>2
    <2>2. IsMark(body[i], name) /\ body[i].quoted = FALSE
      BY <1>4, MarkFields DEF IsMark
    <2> QED
      BY <1>2, <2>1, <2>2, StreamMarks
  <1>5. p \in Nat /\ (p > 0 => body[p] = Mark(name))
    BY <1>2 DEF StreamAt, Place
  <1>6. Carried(s, name) =
          ({body[i + 1].usage : i \in {j \in 1..(n - 1) : body[j] = Mark(name)}}
            \cup {body[i].usage : i \in {j \in 1..n : body[j].unit = "left"}}) \ {Absent}
    BY <1>1 DEF Carried
  <1>7. ASSUME NEW c \in Carried(s, name) PROVE p + 1 <= n /\ c = body[p + 1].usage
    <2>1. PICK i \in 1..(n - 1) : body[i] = Mark(name) /\ c = body[i + 1].usage
      BY <1>3, <1>6
    <2>2. i = p /\ i + 1 <= n
      BY <1>2, <1>4, <2>1
    <2> QED
      BY <2>1, <2>2
  <1>8. ASSUME p > 0, p + 1 <= n, body[p + 1].usage # Absent
        PROVE  body[p + 1].usage \in Carried(s, name)
    <2>1. p \in 1..(n - 1)
      BY <1>2, <1>5, <1>8
    <2> QED
      BY <1>5, <1>6, <1>8, <2>1
  <1> QED
    BY <1>1, <1>7, <1>8

\* What a report says of the counts, as in UsageFaithful.
Faithful(s, u) ==
    LET carried == Carried(s, "start") \cup Carried(s, "delta")
    IN  /\ u.in # Absent => /\ \E c \in carried : c.in = u.in
                            /\ u.in = 0 => \A c \in carried : c.in = 0
        /\ u.out # Absent => \E c \in Carried(s, "delta") : c.out = u.out

Whole(s) == /\ s.status = 200 /\ s.resp.type = "sse" /\ s.resp.encoding = "identity"
            /\ s.n = Len(s.resp.body) /\ LinesEndInLF(s.resp.body)

\* No counts are faithful to anything.
LEMMA NoUsageFaithful ==
    ASSUME NEW s
    PROVE  Faithful(s, noUsage)
  BY DEF Faithful, noUsage, Tokens

\* The fields of what a scan finds.
LEMMA FieldOf ==
    ASSUME NEW u, u = Absent \/ u \in Usages, NEW f \in {"in", "out"}
    PROVE  /\ Field(u, f) = Absent \/ (u \in Usages /\ u[f] \in Nat /\ Field(u, f) = u[f])
           /\ u \in Usages => Field(u, f) = u[f] /\ u[f] \in Nat /\ u[f] # Absent
           /\ u = Absent => Field(u, f) = Absent
  BY TailAssumption DEF TailAssumption, Field, Usages

\* The scans of a stream's buffer.
LEMMA StreamScans ==
    ASSUME NEW S, NEW body \in Seq(S), NEW a, NEW d, StreamAt(body, a, d),
           NEW n \in Nat \ {0}, n <= Len(body), NEW m, m = FirstKept(n),
           NEW tail, IsPart(S, tail, body, m, n),
           NEW start, start = scanSSEEvent(tail, "start"),
           NEW delta, delta = scanSSEEvent(tail, "delta")
    PROVE  /\ start = Absent \/ (/\ m <= a /\ a + 1 <= n /\ a > 0
                                 /\ start = body[a + 1].usage /\ start \in Usages
                                 /\ ~body[d + 1].crlf)
           /\ delta = Absent \/ (d + 1 <= n /\ delta = body[d + 1].usage)
           /\ m <= d /\ d + 1 <= n /\ ~body[d + 1].crlf => delta = body[d + 1].usage
           /\ a < d /\ a \in Nat /\ d \in Nat /\ d > 0
           /\ body[d + 1].usage \in Usages
           /\ n = Len(body) => m <= d /\ d + 1 <= n
  <1>0. n \in Nat
    OBVIOUS
  <1>1. m \in Nat \ {0}
    <2>1. FirstKept(n) \in 1..(n + 1)
      BY <1>0, KeptType
    <2> QED
      BY <1>0, <2>1
  <1>2. DOMAIN body = 1..Len(body) /\ Len(body) \in Nat
    OBVIOUS
  <1>3. /\ a < d /\ a \in Nat /\ d \in Nat /\ d > 0
        /\ body[d + 1].unit = "data" /\ body[d + 1].usage \in Usages
        /\ d + 1 <= Len(body) /\ Len(body) < d + TailCap
        /\ d \in DOMAIN body /\ d + 1 \in DOMAIN body
    BY <1>2 DEF StreamAt, Counted
  <1>4. ScanIs(body, m, n, "start", start) /\ ScanIs(body, m, n, "delta", delta)
    BY <1>0, <1>1, ScanBody
  <1>5. start = Absent \/ (/\ m <= a /\ a + 1 <= n /\ a > 0
                           /\ start = body[a + 1].usage /\ start \in Usages
                           /\ ~body[d + 1].crlf)
    <2> SUFFICES ASSUME start # Absent
                 PROVE  /\ m <= a /\ a + 1 <= n /\ a > 0
                        /\ start = body[a + 1].usage /\ start \in Usages
                        /\ ~body[d + 1].crlf
      OBVIOUS
    <2>1. PICK i, j \in m..n : Finds(body, m, n, "start", i, j) /\ start = Read(body[j])
      BY <1>4 DEF ScanIs
    <2>2. start = body[j].usage /\ ~body[j].crlf
      BY <2>1 DEF Read
    <2>3. i = a /\ j = a + 1
      BY <1>1, <2>1, <2>2, StreamFinds DEF Place
    <2>4. m <= a /\ a + 1 <= n /\ a > 0
      BY <1>1, <1>3, <2>1, <2>3
    <2>5. body[a + 1].unit = "data" /\ start \in Usages
      BY <2>2, <2>3, <2>4 DEF StreamAt
    <2>6. ~body[d + 1].crlf
      <3>1. a + 1 \in DOMAIN body
        BY <1>2, <1>3, <2>4
      <3>2. body[a + 1].crlf = body[d + 1].crlf
        BY <1>3, <2>5, <3>1 DEF StreamAt
      <3> QED
        BY <2>2, <2>3, <3>2
    <2> QED
      BY <2>2, <2>3, <2>4, <2>5, <2>6
  <1>6. delta = Absent \/ (d + 1 <= n /\ delta = body[d + 1].usage)
    <2> SUFFICES ASSUME delta # Absent
                 PROVE  d + 1 <= n /\ delta = body[d + 1].usage
      OBVIOUS
    <2>1. PICK i, j \in m..n : Finds(body, m, n, "delta", i, j) /\ delta = Read(body[j])
      BY <1>4 DEF ScanIs
    <2>2. delta = body[j].usage
      BY <2>1 DEF Read
    <2>3. j = d + 1
      BY <1>1, <2>1, <2>2, StreamFinds DEF Place
    <2> QED
      BY <1>1, <1>3, <2>1, <2>2, <2>3
  <1>7. ASSUME m <= d, d + 1 <= n, ~body[d + 1].crlf PROVE delta = body[d + 1].usage
    <2>1. Finds(body, m, n, "delta", d, d + 1) /\ d \in m..n /\ d + 1 \in m..n
      BY <1>1, <1>7, DeltaFound
    <2>2. delta = Read(body[d + 1])
      BY <1>4, <2>1 DEF ScanIs
    <2> QED
      BY <1>7, <2>2 DEF Read
  <1>8. ASSUME n = Len(body) PROVE m <= d /\ d + 1 <= n
    <2>1. CASE n > TailCap
      <3>1. m = n - TailCap + 1
        BY <2>1 DEF FirstKept
      <3> QED
        BY <1>3, <1>8, <3>1, TailCapType
    <2>2. CASE ~(n > TailCap)
      <3>1. m = 1
        BY <2>2 DEF FirstKept
      <3> QED
        BY <1>3, <1>8, <3>1
    <2> QED
      BY <2>1, <2>2
  <1> QED
    BY <1>3, <1>5, <1>6, <1>7, <1>8

\* The counts of a stream are those of its two events: the input count of the
\* start unless that is zero or was pushed out, the output count of the delta.
LEMMA StreamFaithful ==
    ASSUME NEW s, NEW S, Held(s), s.resp.body \in Seq(S), s.n > 0,
           NEW a, NEW d, StreamAt(s.resp.body, a, d)
    PROVE  /\ Faithful(s, extractUsageSSE(s.tail))
           /\ s.n = Len(s.resp.body) /\ LinesEndInLF(s.resp.body)
                => extractUsageSSE(s.tail).out # Absent
  <1>1. PICK body, n, m, tail, u :
           /\ body = s.resp.body /\ n = s.n /\ m = FirstKept(n) /\ tail = s.tail
           /\ u = extractUsageSSE(tail)
    OBVIOUS
  <1>2. PICK start, delta : start = scanSSEEvent(tail, "start") /\ delta = scanSSEEvent(tail, "delta")
    OBVIOUS
  <1>3. /\ body \in Seq(S) /\ n \in Nat \ {0} /\ n \in 0..Len(body) /\ n <= Len(body)
        /\ tail = EndOf(body, n)
    BY <1>1 DEF Held
  <1>4. StreamAt(body, a, d) /\ IsPart(S, tail, body, m, n)
    BY <1>1, <1>3, EndIsPart
  <1>5. /\ start = Absent \/ (/\ m <= a /\ a + 1 <= n /\ a > 0
                              /\ start = body[a + 1].usage /\ start \in Usages
                              /\ ~body[d + 1].crlf)
        /\ delta = Absent \/ (d + 1 <= n /\ delta = body[d + 1].usage)
        /\ m <= d /\ d + 1 <= n /\ ~body[d + 1].crlf => delta = body[d + 1].usage
        /\ a < d /\ a \in Nat /\ d \in Nat /\ d > 0
        /\ body[d + 1].usage \in Usages
        /\ n = Len(body) => m <= d /\ d + 1 <= n
    BY <1>1, <1>2, <1>3, <1>4, StreamScans
  <1>6. PICK cs, cd : cs = body[a + 1].usage /\ cd = body[d + 1].usage
    OBVIOUS
  <1>7. /\ cd \in Usages /\ Absent \notin Usages
        /\ \A c \in Carried(s, "start") : c = cs
        /\ a > 0 /\ a + 1 <= n /\ cs # Absent => cs \in Carried(s, "start")
        /\ \A c \in Carried(s, "delta") : d + 1 <= n /\ c = cd
        /\ d + 1 <= n => cd \in Carried(s, "delta")
    <2>1. s.n \in 0..Len(s.resp.body)
      BY DEF Held
    <2>2. /\ \A c \in Carried(s, "start") : a + 1 <= s.n /\ c = s.resp.body[a + 1].usage
          /\ a > 0 /\ a + 1 <= s.n /\ s.resp.body[a + 1].usage # Absent
               => s.resp.body[a + 1].usage \in Carried(s, "start")
      BY <2>1, StreamCarries DEF Place
    <2>3. /\ \A c \in Carried(s, "delta") : d + 1 <= s.n /\ c = s.resp.body[d + 1].usage
          /\ d > 0 /\ d + 1 <= s.n /\ s.resp.body[d + 1].usage # Absent
               => s.resp.body[d + 1].usage \in Carried(s, "delta")
      BY <2>1, StreamCarries DEF Place
    <2>4. Absent \notin Usages
      BY TailAssumption DEF TailAssumption
    <2> QED
      BY <1>1, <1>5, <1>6, <2>2, <2>3, <2>4
  <1>8. PICK x, y, z : x = Field(start, "in") /\ y = Field(delta, "in") /\ z = Field(delta, "out")
    OBVIOUS
  <1>9. u.in = preferPositive(x, y) /\ u.out = z
    BY <1>1, <1>2, <1>8 DEF extractUsageSSE, Tokens
  <1>10. /\ x = Absent \/ (start = cs /\ start # Absent /\ x = cs.in /\ x \in Nat)
         /\ y = Absent \/ (delta = cd /\ y = cd.in /\ y \in Nat)
         /\ z = Absent \/ (delta = cd /\ z = cd.out /\ z \in Nat)
         /\ delta = cd => y = cd.in /\ z = cd.out /\ z # Absent /\ y \in Nat
         /\ cd.in \in Nat
    <2>1. (start = Absent \/ start = cs) /\ (delta = Absent \/ delta = cd)
      BY <1>5, <1>6
    <2>2. x = Absent \/ (start \in Usages /\ x = start.in /\ x \in Nat)
      <3>1. start = Absent \/ start \in Usages
        BY <1>5
      <3> QED
        BY <1>8, <3>1, FieldOf
    <2>3. /\ y = Absent \/ (delta \in Usages /\ y = delta.in /\ y \in Nat)
          /\ z = Absent \/ (delta \in Usages /\ z = delta.out /\ z \in Nat)
          /\ delta \in Usages => y = delta.in /\ z = delta.out /\ z # Absent /\ y \in Nat
      BY <1>7, <1>8, <2>1, FieldOf
    <2>4. cd.in \in Nat
      BY <1>7 DEF Usages
    <2> QED
      BY <1>7, <2>1, <2>2, <2>3, <2>4
  <1>11. ASSUME u.out # Absent PROVE \E c \in Carried(s, "delta") : c.out = u.out
    <2>1. delta = cd /\ z = cd.out
      BY <1>9, <1>10, <1>11
    <2>2. d + 1 <= n
      <3>1. delta # Absent
        BY <1>7, <2>1, TailAssumption DEF TailAssumption
      <3> QED
        BY <1>5, <3>1
    <2> QED
      BY <1>7, <1>9, <2>1, <2>2
  <1>12. start # Absent => /\ m <= a /\ a + 1 <= n /\ a > 0 /\ ~body[d + 1].crlf
                           /\ cs # Absent
    BY <1>5, <1>6
  <1>13. delta = cd => d + 1 <= n
    BY <1>5, <1>7
  <1>14. ASSUME u.in # Absent
         PROVE  /\ \E c \in Carried(s, "start") \cup Carried(s, "delta") : c.in = u.in
                /\ u.in = 0 => \A c \in Carried(s, "start") \cup Carried(s, "delta") : c.in = 0
    <2>1. CASE x # Absent /\ x > 0
      <3>1. u.in = x
        BY <1>9, <2>1 DEF preferPositive
      <3>2. start = cs /\ start # Absent /\ x = cs.in /\ x \in Nat
        BY <1>10, <2>1
      <3>3. cs \in Carried(s, "start")
        BY <1>7, <1>12, <3>2
      <3>4. u.in # 0
        BY <2>1, <3>1, <3>2
      <3> QED
        BY <3>1, <3>2, <3>3, <3>4
    <2>2. CASE ~(x # Absent /\ x > 0) /\ y # Absent /\ y > 0
      <3>1. u.in = y
        BY <1>9, <2>2 DEF preferPositive
      <3>2. delta = cd /\ y = cd.in /\ y \in Nat
        BY <1>10, <2>2
      <3>3. cd \in Carried(s, "delta")
        BY <1>7, <1>13, <3>2
      <3>4. u.in # 0
        BY <2>2, <3>1, <3>2
      <3> QED
        BY <3>1, <3>2, <3>3, <3>4
    <2>3. CASE ~(x # Absent /\ x > 0) /\ ~(y # Absent /\ y > 0)
      <3>1. u.in = x
        BY <1>9, <2>3 DEF preferPositive
      <3>2. x # Absent /\ start = cs /\ start # Absent /\ x = cs.in /\ x = 0
        BY <1>10, <1>14, <2>3, <3>1
      <3>3. cs \in Carried(s, "start") /\ m <= a /\ a + 1 <= n /\ ~body[d + 1].crlf
        BY <1>7, <1>12, <3>2
      <3>4. ASSUME NEW c \in Carried(s, "delta") PROVE c.in = 0
        <4>1. d + 1 <= n /\ c = cd
          BY <1>7
        <4>2. m \in Nat /\ m <= d
          <5>1. FirstKept(n) \in 1..(n + 1) /\ n \in Nat
            BY <1>3, KeptType
          <5>2. m \in Nat
            BY <1>1, <5>1
          <5> QED
            BY <1>5, <3>3, <5>2
        <4>3. delta = cd
          BY <1>5, <1>6, <3>3, <4>1, <4>2
        <4>4. y = cd.in /\ y \in Nat /\ y # Absent
          BY <1>10, <4>3, TailAssumption DEF TailAssumption
        <4>5. y = 0
          BY <2>3, <4>4
        <4> QED
          BY <4>1, <4>4, <4>5
      <3>5. ASSUME NEW c \in Carried(s, "start") PROVE c.in = 0
        BY <1>7, <3>2
      <3> QED
        BY <3>1, <3>2, <3>3, <3>4, <3>5
    <2> QED
      BY <2>1, <2>2, <2>3
  <1>15. Faithful(s, u)
    BY <1>11, <1>14 DEF Faithful
  <1>16. n = Len(body) /\ LinesEndInLF(body) => u.out # Absent
    <2>1. n = Len(body) /\ LinesEndInLF(body) => delta = cd
      <3>1. LinesEndInLF(body) => ~body[d + 1].crlf
        BY <1>4 DEF LinesEndInLF, StreamAt, Counted
      <3> QED
        BY <1>5, <1>6, <3>1
    <2> QED
      BY <1>9, <1>10, <2>1
  <1> QED
    BY <1>1, <1>15, <1>16

\* The counts of an object are its own, and are read off a whole one only.
LEMMA ObjectFaithful ==
    ASSUME NEW s, NEW S, Held(s), s.resp.body \in Seq(S), s.n > 0, Object(s.resp.body),
           NEW u, u = extractUsageSSE(s.tail) \/ u = extractUsageJSON(s.tail)
    PROVE  Faithful(s, u)
  <1>1. PICK body, n, m, tail :
           body = s.resp.body /\ n = s.n /\ m = FirstKept(n) /\ tail = s.tail
    OBVIOUS
  <1>2. /\ body \in Seq(S) /\ n \in Nat \ {0} /\ n \in 0..Len(body) /\ n <= Len(body)
        /\ tail = EndOf(body, n)
    BY <1>1 DEF Held
  <1>3. Object(body) /\ IsPart(S, tail, body, m, n)
    BY <1>1, <1>2, EndIsPart
  <1>4. n \in Nat /\ m \in Nat \ {0} /\ m <= n
    <2>1. n \in Nat /\ n > 0
      BY <1>2
    <2>2. FirstKept(n) \in 1..(n + 1)
      BY <2>1, KeptType
    <2>3. m <= n
      BY <1>1, <2>1, TailCapType DEF FirstKept
    <2> QED
      BY <1>1, <2>1, <2>2, <2>3
  <1>5. \A i \in m..n : i \in DOMAIN body
    BY <1>2, <1>4
  <1>6. CASE u = extractUsageSSE(tail)
    <2>1. ASSUME NEW name PROVE scanSSEEvent(tail, name) = Absent
      <3>1. ScanIs(body, m, n, name, scanSSEEvent(tail, name))
        BY <1>3, <1>4, ScanBody
      <3>2. ASSUME NEW i \in m..n, NEW j \in m..n PROVE ~Finds(body, m, n, name, i, j)
        <4>1. body[j].unit # "data"
          BY <1>3, <1>5 DEF Object
        <4> QED
          BY <4>1 DEF Finds
      <3> QED
        BY <3>1, <3>2 DEF ScanIs
    <2>2. u = noUsage
      BY <1>6, <2>1 DEF extractUsageSSE, Field, preferPositive, noUsage
    <2> QED
      BY <2>2, NoUsageFaithful
  <1>7. CASE u = extractUsageJSON(tail) /\ u # noUsage
    <2>1. tail[1].unit = "left" /\ tail[1].usage # Absent /\ u = tail[1].usage
      BY <1>7 DEF extractUsageJSON
    <2>2. tail[1] = body[m]
      <3>1. 1 \in 1..(n - m + 1) /\ m + 1 - 1 = m
        BY <1>4
      <3> QED
        BY <1>3, <3>1 DEF IsPart
    <2>3. m \in DOMAIN body
      BY <1>4, <1>5
    <2>4. m = 1 /\ body[1].unit = "left" /\ body[1].usage \in Usages /\ u = body[1].usage
      BY <1>3, <2>1, <2>2, <2>3 DEF Object
    <2>5. ASSUME NEW name
          PROVE  Carried(s, name) = {u}
      <3>1. Carried(s, name) =
              ({body[i + 1].usage : i \in {j \in 1..(n - 1) : body[j] = Mark(name)}}
                \cup {body[i].usage : i \in {j \in 1..n : body[j].unit = "left"}}) \ {Absent}
        BY <1>1 DEF Carried
      <3>2. ASSUME NEW j \in 1..n PROVE body[j] # Mark(name)
        <4>1. j \in DOMAIN body
          BY <1>5, <2>4
        <4>2. body[j].unit = "left" \/ body[j].unit = "right" \/ body[j].quoted
          BY <1>3, <4>1 DEF Object
        <4> QED
          BY <4>2, MarkFields
      <3>3. ASSUME NEW j \in 1..n PROVE body[j].unit = "left" <=> j = 1
        <4>1. j \in DOMAIN body
          BY <1>5, <2>4
        <4> QED
          BY <1>3, <2>4, <4>1 DEF Object
      <3>4. 1 \in 1..n /\ \A j \in 1..(n - 1) : j \in 1..n
        BY <1>4
      <3>5. {j \in 1..(n - 1) : body[j] = Mark(name)} = {}
        BY <3>2, <3>4
      <3>6. {j \in 1..n : body[j].unit = "left"} = {1}
        BY <3>3, <3>4
      <3> QED
        BY <2>1, <2>4, <3>1, <3>5, <3>6
    <2> QED
      BY <2>5 DEF Faithful
  <1> QED
    BY <1>1, <1>6, <1>7, NoUsageFaithful

\* What is read off the buffer.
LEMMA ExtractIs ==
    ASSUME NEW raw, NEW resp
    PROVE  /\ \/ ExtractUsage(raw, resp) = noUsage
              \/ ExtractUsage(raw, resp) = extractUsageSSE(raw)
              \/ ExtractUsage(raw, resp) = extractUsageJSON(raw)
           /\ raw # <<>> /\ resp.encoding = "identity" /\ resp.type = "sse"
                => ExtractUsage(raw, resp) = extractUsageSSE(raw)
  <1>1. PICK t : t = decodeIfEncoded(raw, resp)
    OBVIOUS
  <1>2. (t = raw \/ t = <<>>) /\ (resp.encoding = "identity" => t = raw)
    BY <1>1 DEF decodeIfEncoded
  <1>3. ExtractUsage(raw, resp) =
          IF t = <<>> THEN noUsage
          ELSE IF resp.type = "sse"
                    \/ \E i \in DOMAIN t : t[i].unit = "mark" /\ t[i].name \in MessageEvents
               THEN extractUsageSSE(t) ELSE extractUsageJSON(t)
    BY <1>1, Zenon DEF ExtractUsage
  <1> QED
    BY <1>2, <1>3

\* A report of an answer that keeps to the format is faithful.
LEMMA ReportFaithful ==
    ASSUME WellFormed, NEW s, Held(s), s.n > 0, NEW u, u = Reported(s).usage
    PROVE  Faithful(s, u) /\ (Whole(s) => u.out # Absent)
  <1>1. s.resp \in Responses /\ s.n \in 0..Len(s.resp.body) /\ s.tail = EndOf(s.resp.body, s.n)
    BY DEF Held
  <1>2. PICK S : s.resp.body \in Seq(S)
    BY <1>1, RouterAssumption DEF RouterAssumption, IsSeq
  <1>3. /\ u = noUsage \/ u = ExtractUsage(s.tail, s.resp)
        /\ s.status = 200 /\ s.tail # <<>> => u = ExtractUsage(s.tail, s.resp)
    BY DEF Reported
  <1>4. u = noUsage \/ u = extractUsageSSE(s.tail) \/ u = extractUsageJSON(s.tail)
    BY <1>3, ExtractIs
  <1>5. s.tail # <<>>
    <2>1. PICK n, body : n = s.n /\ body = s.resp.body
      OBVIOUS
    <2>2. n \in Nat /\ n > 0 /\ body \in Seq(S) /\ n \in 0..Len(body)
      BY <1>1, <1>2, <2>1
    <2>3. FirstKept(n) \in 1..(n + 1) /\ FirstKept(n) <= n
      BY <2>2, KeptType, TailCapType DEF FirstKept
    <2>4. Len(EndOf(body, n)) = n - FirstKept(n) + 1
      BY <2>2, EndIsPart DEF IsPart
    <2>5. Len(EndOf(body, n)) # 0
      BY <2>2, <2>3, <2>4
    <2> QED
      BY <1>1, <2>1, <2>5
  <1>6. CASE Stream(s.resp.body)
    <2>1. PICK a, d : StreamAt(s.resp.body, a, d)
      BY <1>6 DEF Stream
    <2>2. /\ Faithful(s, extractUsageSSE(s.tail))
          /\ s.n = Len(s.resp.body) /\ LinesEndInLF(s.resp.body)
               => extractUsageSSE(s.tail).out # Absent
      BY <1>2, <2>1, StreamFaithful
    <2>3. extractUsageJSON(s.tail) = noUsage
      <3>1. s.tail[1].unit # "left"
        <4>1. PICK n, body, m : n = s.n /\ body = s.resp.body /\ m = FirstKept(n)
          OBVIOUS
        <4>2. n \in Nat /\ n > 0 /\ body \in Seq(S) /\ n \in 0..Len(body)
          BY <1>1, <1>2, <4>1
        <4>3. m \in 1..(n + 1) /\ m <= n
          BY <4>1, <4>2, KeptType, TailCapType DEF FirstKept
        <4>4. IsPart(S, s.tail, body, m, n)
          BY <1>1, <4>1, <4>2, EndIsPart
        <4>5. 1 \in 1..(n - m + 1) /\ m + 1 - 1 = m /\ m \in DOMAIN body
          BY <4>2, <4>3
        <4>6. s.tail[1] = body[m]
          BY <4>4, <4>5 DEF IsPart
        <4> QED
          BY <2>1, <4>1, <4>5, <4>6 DEF StreamAt
      <3> QED
        BY <3>1 DEF extractUsageJSON
    <2>4. Faithful(s, u)
      BY <1>4, <2>2, <2>3, NoUsageFaithful
    <2>5. Whole(s) => u = extractUsageSSE(s.tail)
      BY <1>3, <1>5, ExtractIs DEF Whole
    <2> QED
      BY <2>2, <2>4, <2>5 DEF Whole
  <1>7. CASE s.resp.type # "sse" /\ Object(s.resp.body)
    <2>1. Faithful(s, u)
      BY <1>2, <1>4, <1>7, ObjectFaithful, NoUsageFaithful
    <2> QED
      BY <1>7, <2>1 DEF Whole
  <1> QED
    BY <1>1, <1>6, <1>7 DEF WellFormed

\* Of answers that keep to the format, with a start event that has counts, that
\* has none or that is not there, the counts reported were sent, never a zero in
\* place of a count and never those of another event; a stream that got through
\* has its output count, if its lines end in LF; and the buffer holds the end of
\* what was written.
THEOREM RouterUsageFaithful ==
    ASSUME WellFormed
    PROVE  Spec => []UsageFaithful
  <1>1. RecordInv => UsageFaithful
    <2> SUFFICES ASSUME RecordInv, NEW r \in Requests, NEW s, s = job[r].sent,
                        NEW u, u = job[r].report.usage,
                        pc[r] = "ending", job[r].report # <<>>, s.n > 0
                 PROVE  /\ s.tail = SubSeq(s.resp.body,
                                           IF s.n > TailCap THEN s.n - TailCap + 1 ELSE 1, s.n)
                        /\ Faithful(s, u)
                        /\ Whole(s) => u.out # Absent
      BY DEF UsageFaithful, Faithful, Whole
    <2>1. job[r].report = Reported(s) /\ (s.n = 0 \/ Held(s))
      BY DEF RecordInv, AtRecord
    <2>2. Held(s)
      BY <2>1
    <2>3. u = Reported(s).usage
      BY <2>1
    <2>4. Faithful(s, u) /\ (Whole(s) => u.out # Absent)
      BY <2>2, <2>3, ReportFaithful
    <2> QED
      BY <2>2, <2>4 DEF Held, EndOf, FirstKept
  <1> QED
    BY <1>1, RouterRecords, PTL

=============================================================================
