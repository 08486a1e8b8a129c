------------------------------- MODULE Config -------------------------------
(***************************************************************************)
(* What becomes of a configuration file (pkg/config.go) before a request   *)
(* is served: parsed, normalised, validated, and turned into routes by     *)
(* CreateRouterFromConfig (pkg/factory/factory.go).                        *)
(*                                                                         *)
(* A file is a record of                                                   *)
(*   order      the provider names as declared                             *)
(*   providers  name -> [upstream, upstreams, cap, window, days, models,   *)
(*              requires (requiresLeadingSystem), keys (allowedApiKeys),   *)
(*              gated (a breaker, throttle or cold gate is configured)]    *)
(*   default    router.default_provider                                    *)
(*   aliases    alias -> model                                             *)
(*   pools      name -> sequence of [provider, model, weight]              *)
(*   keys       the top-level allowedApiKeys                               *)
(*   auth       whether the legacy auth block is there                     *)
(* and names, models, patterns and keys are strings.  Reading the file,    *)
(* ${NAME} references and the YAML syntax are left out: a file that fails  *)
(* there is a file that is not loaded.                                     *)
(***************************************************************************)
EXTENDS Eligibility

CONSTANTS
    Match(_, _),  \* path.Match(pattern, model)
    BadPatterns   \* the patterns path.Match refuses

\* The empty string.
Empty == ""

NoFile == [order |-> <<>>]

-----------------------------------------------------------------------------
(* Parsing: what a file may say before it is validated                     *)

IsSeq(s) == s \in Seq(ToSet(s))

\* A time of day is absent, or within the day and with a location.
ParsedTime(x) ==
    /\ DOMAIN x = {"tod", "loc"}
    /\ x # AbsentTime => x.tod \in 0..(DayLength - 1) /\ x.loc \in DOMAIN Offset \ {None}

ParsedWindow(w) == w # None => DOMAIN w = {"from", "until"} /\ ParsedTime(w.from) /\ ParsedTime(w.until)

ParsedUpstream(up) ==
    /\ DOMAIN up = {"upstream", "weight", "cap", "window", "days"}
    /\ up.weight \in Int
    /\ ParsedWindow(up.window)

ParsedProvider(p) ==
    /\ DOMAIN p = {"upstream", "upstreams", "cap", "window", "days", "models", "requires", "keys",
                   "gated"}
    /\ IsSeq(p.upstreams) /\ IsSeq(p.models) /\ IsSeq(p.requires) /\ IsSeq(p.keys)
    /\ \A i \in DOMAIN p.upstreams : ParsedUpstream(p.upstreams[i])
    /\ ParsedWindow(p.window)
    /\ p.gated \in BOOLEAN

\* Every provider has one place in the order of declaration.
ParsedFile(f) ==
    /\ DOMAIN f = {"order", "providers", "default", "aliases", "pools", "keys", "auth"}
    /\ IsSeq(f.order) /\ ToSet(f.order) = DOMAIN f.providers
    /\ \A i, j \in DOMAIN f.order : f.order[i] = f.order[j] => i = j
    /\ \A n \in DOMAIN f.providers : ParsedProvider(f.providers[n])
    /\ \A n \in DOMAIN f.pools : IsSeq(f.pools[n]) /\ \A i \in DOMAIN f.pools[n] :
          /\ DOMAIN f.pools[n][i] = {"provider", "model", "weight"}
          /\ f.pools[n][i].weight \in Int

-----------------------------------------------------------------------------
(* Normalisation                                                           *)

\* A provider without upstreams is a pool of one, with the provider's own cap,
\* window and days.
UpstreamList(p) ==
    IF p.upstreams # <<>> THEN p.upstreams
    ELSE << [upstream |-> p.upstream, weight |-> 1, cap |-> p.cap,
             window |-> p.window, days |-> p.days] >>

DefaultWeights(ms) == [i \in DOMAIN ms |-> [ms[i] EXCEPT !.weight = IF @ = 0 THEN 1 ELSE @]]

\* Faulty variant: only the synthesized entry has a weight.
normalizeUpstreams_NoDefault(c) ==
    [c EXCEPT !.providers =
        [n \in DOMAIN @ |-> [@[n] EXCEPT !.upstreams = UpstreamList(c.providers[n])]]]

normalizeUpstreams(c) ==
    [c EXCEPT !.providers =
        [n \in DOMAIN @ |-> [@[n] EXCEPT !.upstreams = DefaultWeights(UpstreamList(c.providers[n]))]]]

\* A weight of 0 is a weight that is absent, in a pool as in a provider.
normalizePools(c) == [c EXCEPT !.pools = [n \in DOMAIN @ |-> DefaultWeights(@[n])]]

-----------------------------------------------------------------------------
(* Validation.  Any failure refuses the file, so the order does not matter. *)

\* The legacy form and the list exclude each other, window and days included.
FormsExclusive(p) ==
    p.upstreams # <<>> => p.upstream = Empty /\ p.window = None /\ p.days = None

ValidUpstream(up) ==
    /\ up.upstream # Empty
    /\ up.weight >= 0
    /\ up.window # None => AbsentTime \notin {up.window.from, up.window.until}
    /\ up.days # None /\ up.window = None => up.days.loc # None

ValidProvider(p) ==
    /\ \A i \in DOMAIN p.upstreams : ValidUpstream(p.upstreams[i])
    /\ (ToSet(p.models) \cup ToSet(p.requires)) \cap BadPatterns = {}

\* Faulty variant: claims are not compared.
validateAllowedApiKeyClaims_Any(c) == TRUE

\* No two providers claim one key.
validateAllowedApiKeyClaims(c) ==
    \A m, n \in DOMAIN c.providers :
        m # n => ToSet(c.providers[m].keys) \cap ToSet(c.providers[n].keys) = {}

\* Every pool has members, of providers that exist, and none of them twice.
validateModelPools(c) ==
    \A n \in DOMAIN c.pools :
        LET ms == c.pools[n]
        IN  /\ ms # <<>>
            /\ \A i \in DOMAIN ms : ms[i].provider \in DOMAIN c.providers /\ ms[i].weight >= 0
            /\ \A i, j \in DOMAIN ms :
                  i # j => <<ms[i].provider, ms[i].model>> # <<ms[j].provider, ms[j].model>>

\* An alias that no provider's patterns match is only warned about.
validateAliases(c) == DOMAIN c.aliases \cap DOMAIN c.providers = {}

\* c is normalised.
Validate(c) ==
    /\ ~c.auth
    /\ DOMAIN c.providers # {}
    /\ c.default # Empty /\ c.default \in DOMAIN c.providers
    /\ \A n \in DOMAIN c.providers : ValidProvider(c.providers[n])
    /\ validateAllowedApiKeyClaims(c)
    /\ validateModelPools(c)
    /\ validateAliases(c)

\* The configuration a file gives, or none.
Load(f) ==
    IF (\A n \in DOMAIN f.providers : FormsExclusive(f.providers[n])) /\ Validate(normalizeUpstreams(f))
    THEN normalizePools(normalizeUpstreams(f))
    ELSE NoFile

-----------------------------------------------------------------------------
(* What the router is built from                                           *)

\* The keys that let a request in: the registry, else what providers claim.
AllowedApiKeySet(c) ==
    IF c.keys # {} THEN c.keys
    ELSE UNION {ToSet(c.providers[n].keys) : n \in DOMAIN c.providers}

\* UnmarshalYAML keeps the order of declaration for the routes.
providerKeys(c) == c.order

\* One route per provider and pattern; a provider without patterns has none.  A
\* route is known by its place in the list: that of its provider in the order of
\* declaration and that of its pattern in the provider's models.
Routes(c) == UNION {{i} \X DOMAIN c.providers[providerKeys(c)[i]].models : i \in DOMAIN providerKeys(c)}

Route(c, at) ==
    LET n == providerKeys(c)[at[1]]
        p == c.providers[n]
    IN  [pattern |-> p.models[at[2]], provider |-> n, requires |-> p.requires, keys |-> p.keys]

\* The order of the list.
Before(a, b) == a[1] < b[1] \/ (a[1] = b[1] /\ a[2] < b[2])

\* Where a loop over the list stops that looks for one of these routes.
First(routes) == CHOOSE a \in routes : \A b \in routes : b = a \/ Before(a, b)

=============================================================================
