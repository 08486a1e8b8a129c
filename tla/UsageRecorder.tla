--------------------------- MODULE UsageRecorder ----------------------------
(***************************************************************************)
(* The token counts the router reads off a response                        *)
(* (pkg/handler/usage-recorder.go): a bounded buffer keeps the end of what *)
(* was written, and the counts are looked up in it once the handler has    *)
(* returned.                                                               *)
(*                                                                         *)
(* A body is a sequence of units: the marker of an event (start, delta,    *)
(* stop or another one), a data line with the counts it carries, if any,   *)
(* and its line ending, LF or CRLF, and the two ends of a JSON object, the *)
(* first of which carries its counts.  A cut inside a unit leaves what a   *)
(* cut beside it leaves: the marker or the line is not found.  A marker    *)
(* may also be quoted by the text of the answer; the scan cannot tell.     *)
(* The input count stands for the cache counts as well, which are treated  *)
(* like it.                                                                *)
(***************************************************************************)
EXTENDS Integers, Sequences, SequencesExt

CONSTANTS
    TailCap,  \* TailBufferBytes, in units
    Absent    \* a count that is not reported, a line without counts

Usages == [in : Nat, out : Nat]

ASSUME TailAssumption ==
    /\ TailCap \in Nat \ {0}
    /\ Absent \notin Nat /\ Absent \notin Usages

Mark(name)  == [unit |-> "mark", name |-> name, quoted |-> FALSE]
Quote(name) == [unit |-> "mark", name |-> name, quoted |-> TRUE]
Data(usage) == [unit |-> "data", usage |-> usage, crlf |-> FALSE]
DataCRLF(usage) == [Data(usage) EXCEPT !.crlf = TRUE]
Left(usage) == [unit |-> "left", usage |-> usage]
Right       == [unit |-> "right"]
Tokens(in, out) == [in |-> in, out |-> out]

noUsage == Tokens(Absent, Absent)

-----------------------------------------------------------------------------
(* tailBuffer                                                              *)

\* Faulty variant: the units a chunk pushes out are as many as the chunk has.
write_EvictsChunk(tail, b) ==
    IF Len(tail) + Len(b) > TailCap
    THEN SubSeq(tail, Len(b) + 1, Len(tail)) \o b
    ELSE tail \o b

\* A chunk of TailCap units or more replaces the buffer by its own end, a
\* smaller one pushes out as much as it needs.
write(tail, b) ==
    LET overflow == Len(tail) + Len(b) - TailCap
    IN  IF Len(b) >= TailCap THEN SubSeq(b, Len(b) - TailCap + 1, Len(b))
        ELSE SubSeq(tail, (IF overflow > 0 THEN overflow ELSE 0) + 1, Len(tail)) \o b

-----------------------------------------------------------------------------
(* ExtractUsage                                                            *)

\* The counts on the first data line after the last marker of that name.  A line
\* ends at an empty one that LF alone makes, so one that ends in CRLF has no end,
\* or goes on into the next and is no JSON.
scanSSEEvent(tail, name) ==
    LET mark == SelectLastInSeq(tail, LAMBDA u : u.unit = "mark" /\ u.name = name)
        line == SelectInSubSeq(tail, mark, Len(tail), LAMBDA u : u.unit = "data")
    IN  IF mark = 0 \/ line = 0 \/ tail[line].crlf THEN Absent ELSE tail[line].usage

\* Faulty variant: the start's count counts when it is there, zero or not.
preferPositive_Present(start, delta) == IF start # Absent THEN start ELSE delta

\* A positive count of the start, else a positive one of the delta, else what
\* the start says.
preferPositive(start, delta) ==
    IF start # Absent /\ start > 0 THEN start
    ELSE IF delta # Absent /\ delta > 0 THEN delta ELSE start

\* A field of a line that may be missing; a field that a line does not have
\* decodes as 0.
Field(usage, f) == IF usage = Absent THEN Absent ELSE usage[f]

extractUsageSSE(tail) ==
    LET start == scanSSEEvent(tail, "start")
        delta == scanSSEEvent(tail, "delta")
    IN  Tokens(preferPositive(Field(start, "in"), Field(delta, "in")), Field(delta, "out"))

\* A JSON object is read whole or not at all.
extractUsageJSON(tail) ==
    IF tail[1].unit = "left" /\ Last(tail).unit = "right" /\ tail[1].usage # Absent
    THEN tail[1].usage ELSE noUsage

\* gzip needs the whole stream, from its header to its end; other encodings
\* are not read.
decodeIfEncoded(tail, resp) ==
    CASE resp.encoding = "identity" -> tail
      [] resp.encoding = "gzip" -> (IF tail = resp.body THEN tail ELSE <<>>)
      [] OTHER -> <<>>

\* The events the content is known by: those named message_ something.
MessageEvents == {"start", "delta", "stop"}

ExtractUsage(raw, resp) ==
    LET tail == decodeIfEncoded(raw, resp)
    IN  IF tail = <<>> THEN noUsage
        ELSE IF resp.type = "sse"
                  \/ \E i \in DOMAIN tail : tail[i].unit = "mark" /\ tail[i].name \in MessageEvents
             THEN extractUsageSSE(tail)
             ELSE extractUsageJSON(tail)

=============================================================================
