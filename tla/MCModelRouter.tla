--------------------------- MODULE MCModelRouter ----------------------------
(* The model router for TLC: three providers, of which b and a, the default, *)
(* serve the same models in different hours and c other ones, in a file that *)
(* the router loads and files that it must refuse; and the answers of        *)
(* upstreams that count their tokens in different places.                    *)
EXTENDS ModelRouter

CONSTANTS r1, r2, Berlin

MCRequests == {r1, r2}
MCSymmetry == Permutations(MCRequests)
MCOffset   == UTC :> 0 @@ Berlin :> 1

MCMatch(pattern, model) == pattern = model \/ (pattern = "m*" /\ model \in {"m1", "m2"})
MCTrimSuffix(model) == CASE model = "m1[1m]" -> "m1" [] model = "m2[1m]" -> "m2" [] OTHER -> model

MCWindow(a, b, loc) == [from |-> [tod |-> a, loc |-> loc], until |-> [tod |-> b, loc |-> loc]]
MCUp(name, weight, window, days) ==
    [upstream |-> name, weight |-> weight, cap |-> 0, window |-> window, days |-> days]
MCProvider(models, requires, keys) ==
    [upstream |-> "u", upstreams |-> <<>>, cap |-> 0, window |-> None, days |-> None,
     models |-> models, requires |-> requires, keys |-> keys, gated |-> FALSE]

\* Open over midnight by another location's clock.
MCA == [MCProvider(<<"m*">>, <<"m1">>, <<"ka">>) EXCEPT !.window = MCWindow(2, 1, Berlin)]

\* Two upstreams, of which the one declared first opens as the other closes.
MCB == [MCProvider(<<"m1", "m*">>, <<>>, <<>>) EXCEPT
            !.upstream = "",
            !.upstreams = << MCUp("u1", 0, MCWindow(1, 2, UTC), None),
                             MCUp("u2", 2, MCWindow(0, 1, UTC), [weekdays |-> {0}, loc |-> None]) >>]

MCC == MCProvider(<<"x">>, <<"m*", "x">>, <<"kc">>)

MCFile ==
    [order |-> <<"b", "a", "c">>, default |-> "a", keys |-> {}, auth |-> FALSE,
     providers |-> [n \in {"a", "b", "c"} |-> CASE n = "a" -> MCA [] n = "b" -> MCB [] n = "c" -> MCC],
     aliases |-> "al" :> "m1[1m]",
     pools |-> "pool" :> << [provider |-> "a", model |-> "m1", weight |-> 0],
                            [provider |-> "c", model |-> "m2[1m]", weight |-> 2] >>]

MCFiles ==
    { MCFile,
      [MCFile EXCEPT !.providers["b"].keys = <<"ka">>],
      [MCFile EXCEPT !.providers["a"].window.until = AbsentTime],
      [MCFile EXCEPT !.pools["pool"][1].provider = "d"] }

\* The provider with a window has a gate around its pool.
MCGatedFiles == {[MCFile EXCEPT !.providers["a"].gated = TRUE]}

MCResponse(type, encoding, body) ==
    [status |-> 200, type |-> type, encoding |-> encoding, body |-> body]

MCResponses ==
    { MCResponse("sse", "identity",
          << Mark("start"), Data(Tokens(5, 1)), Quote("start"), Data(Absent),
             Mark("delta"), Data(Tokens(0, 7)) >>),
      MCResponse("sse", "identity",
          << Mark("start"), Data(Tokens(0, 0)), Mark("delta"), Data(Tokens(5, 7)) >>),
      MCResponse("sse", "identity",
          << Mark("start"), Data(Absent), Mark("delta"), Data(Tokens(5, 7)) >>),
      MCResponse("", "identity", << Mark("delta"), Data(Tokens(5, 7)), Mark("stop") >>),
      MCResponse("sse", "identity", << Mark("delta"), DataCRLF(Tokens(5, 7)) >>),
      MCResponse("json", "gzip", << Left(Tokens(5, 7)), Right >>),
      [MCResponse("json", "identity", <<>>) EXCEPT !.status = 429] }

MCNoResponses == {}

ASSUME MCWellFormed == WellFormed

=============================================================================
