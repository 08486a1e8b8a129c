--------------------------- MODULE MCUpstreamPool ---------------------------
(* The upstream pool for TLC: two members on one server whose URLs are       *)
(* written differently, the first one with one slot and open in tick 0, the  *)
(* second one without a cap and open from tick 1 on.  Up to MaxTime no       *)
(* member comes back: the re-check runs twice a second, and windows stay as  *)
(* they are for minutes.                                                     *)
EXTENDS UpstreamPool

CONSTANTS r1, r2, r3

MCRequests == {r1, r2, r3}
MCLeavers  == {r3}
MCOffset   == [l \in {UTC} |-> 0]
MCHash     == r1 :> 1 @@ r2 :> 1 @@ r3 :> None

MCUrl(port) == [scheme |-> "https", host |-> "h", port |-> port, path |-> ""]
MCWindow(a, b) == [from |-> [tod |-> a, loc |-> UTC], until |-> [tod |-> b, loc |-> UTC]]

MCUpstreams ==
    << [upstream |-> MCUrl(0), weight |-> 1, cap |-> 1, window |-> MCWindow(0, 1), days |-> None],
       [upstream |-> MCUrl(443), weight |-> 2, cap |-> 0, window |-> MCWindow(1, 4), days |-> None] >>

MCHostLimit == <<"h", 0>> :> 2

ASSUME MCNoReturn == NoReturn

=============================================================================
