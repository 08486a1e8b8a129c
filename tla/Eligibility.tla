---------------------------- MODULE Eligibility -----------------------------
(***************************************************************************)
(* When an upstream takes requests, and whose budget it draws from: the    *)
(* windows, weekday sets, upstream entries and host keys of pkg/config.go. *)
(*                                                                         *)
(* Instants are numbers of ticks, DayLength to a day and WeekLength days   *)
(* to a week; a location is a fixed number of ticks ahead of UTC (changes  *)
(* of daylight saving time are left out).  None is Go's nil.               *)
(***************************************************************************)
EXTENDS Integers, Sequences, SequencesExt

CONSTANTS
    DayLength,   \* ticks of a day
    WeekLength,  \* days of a week
    Offset,      \* Offset[l]: the ticks location l is ahead of UTC
    UTC,         \* the location that stands in for a missing one
    None         \* no window, no days, no location

ASSUME CalendarAssumption ==
    /\ {DayLength, WeekLength} \subseteq Nat \ {0}
    /\ UTC \in DOMAIN Offset /\ Offset[UTC] = 0
    /\ \A l \in DOMAIN Offset : Offset[l] \in Int

\* The zero TimeOfDay, which only a key absent from the file leaves.
AbsentTime == [tod |-> 0, loc |-> None]

\* The first location that is set, else UTC.
FirstLocation(locs) ==
    LET set == {i \in DOMAIN locs : locs[i] # None}
    IN  IF set = {} THEN UTC ELSE locs[Min(set)]

\* An instant read off the wall clock of a location.
TimeOfDay(t, loc) == (t + Offset[loc]) % DayLength
Weekday(t, loc)   == ((t + Offset[loc]) \div DayLength) % WeekLength

WindowLocations(w) == IF w = None THEN <<>> ELSE <<w.from.loc, w.until.loc>>

\* Faulty variant: the end of the window is inside it.
WindowContains_Closed(w, t) ==
    LET tod == TimeOfDay(t, FirstLocation(WindowLocations(w)))
    IN  IF w.from.tod <= w.until.tod THEN w.from.tod <= tod /\ tod <= w.until.tod
        ELSE w.from.tod <= tod \/ tod <= w.until.tod

\* Window.Contains: half open, over midnight when it ends before it begins.
WindowContains(w, t) ==
    LET tod == TimeOfDay(t, FirstLocation(WindowLocations(w)))
    IN  \/ w.from.tod < w.until.tod /\ w.from.tod <= tod /\ tod < w.until.tod
        \/ w.from.tod > w.until.tod /\ (w.from.tod <= tod \/ tod < w.until.tod)

\* Days.Contains: the weekday of the instant itself, also after midnight of an
\* overnight window.
DaysContains(d, w, t) ==
    Weekday(t, FirstLocation(<<d.loc>> \o WindowLocations(w))) \in d.weekdays

\* UpstreamMember.Eligible reads the clock once for each of the two.
Eligible(up, t1, t2) ==
    /\ up.window # None => WindowContains(up.window, t1)
    /\ up.days # None => DaysContains(up.days, up.window, t2)

EligibleAt(up, t) == Eligible(up, t, t)

\* What eligibleIndices may return when the clock goes from t0 to t1 while it
\* looks at the members one after the other, as a set of positions.
EligibleIndices(ups, t0, t1) ==
    LET instants == [1..(2 * Len(ups)) -> t0..t1]
    IN  { {i \in DOMAIN ups : Eligible(ups[i], f[2 * i - 1], f[2 * i])} :
          f \in {g \in instants : \A i \in 1..(2 * Len(ups) - 1) : g[i] <= g[i + 1]} }

\* A URL is a record of scheme, lower-case host name, port (0 when it has none)
\* and path.  A scheme but http and https has no port of its own.
DefaultPort(u) == CASE u.scheme = "https" -> 443 [] u.scheme = "http" -> 80 [] OTHER -> 0

\* Faulty variant: a port that is written out always counts.
UpstreamHostKey_PortVerbatim(u) == <<u.host, u.port>>

\* The budget an upstream draws from: its host, with the port unless that is
\* the scheme's own.
UpstreamHostKey(u) == <<u.host, IF u.port = DefaultPort(u) THEN 0 ELSE u.port>>

=============================================================================
