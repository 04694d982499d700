--------------------------- MODULE MCAlertMonitor ---------------------------
EXTENDS AlertMonitor

CONSTANTS h1, h2

DefaultValues == [confirm |-> 2, clear |-> 2, hold |-> 2, cap |-> 2]
LowValues     == [confirm |-> 1, clear |-> 1, hold |-> 0, cap |-> 1]
HighValues    == [confirm |-> 3, clear |-> 3, hold |-> 3, cap |-> 3]

Stored(n, m, hold, cap) == [confirm |-> n, clear |-> m, hold |-> hold, cap |-> cap]

NoHold(bounds) == [bounds EXCEPT !["hold"] = 0]
DefaultNoHold  == NoHold(DefaultValues)
HighNoHold     == NoHold(HighValues)

\* No hold, the default thresholds and an edit that lowers and one that raises them.
DebounceOptions == {Stored(2, 2, 0, 3), Stored(NotANumber, 1, 0, 3), Stored(0, 9, 0, 3)}
\* The default thresholds alone.
DefaultOptions == {Stored(2, 2, 0, 3)}
\* The debounce turned off on both edges.
ImmediateOptions == {Stored(1, 1, 0, 3)}
BothOptions == ImmediateOptions \cup DefaultOptions
\* Immediate thresholds, a hold that the operator turns off and on.
HoldOptions == {Stored(1, 1, 2, 9), Stored(1, 1, 0, 9)}

OneHost   == {h1}
TwoHosts  == {h1, h2}
HostAndCve(H) == H \cup {CveKey}
OneHostKeys  == HostAndCve(OneHost)
TwoHostKeys  == HostAndCve(TwoHosts)

NoSets == {{}}
AnySet == SUBSET HostKey

-----------------------------------------------------------------------------
(* The limiter's burst against the calls of allow() it stands for, and its *)
(* deque against the whole history of what was sent                        *)

Capped(cap) == [Default EXCEPT !["cap"] = cap]

Instants == 0 .. Window + 1
Pasts ==
  {s \in UNION {[1 .. n -> Instants] : n \in 0 .. 3} :
     \A i, j \in DOMAIN s : i < j => s[i] <= s[j]}

\* The cap's remaining room and no more is used, in one go as call by call.
ASSUME BurstIsRepeatedAllow ==
  \A past \in Pasts, at \in Instants, cap \in 1 .. 3 :
    LET l == [sent |-> past, suppressed |-> 1]
        after[n \in 0 .. 3] == IF n = 0 THEN l ELSE Allow(after[n - 1], at, Capped(cap))
    IN  (\A i \in DOMAIN past : past[i] <= at) =>
          \A n \in 0 .. 3 : AllowEach(l, n, at, Capped(cap)) = after[n]

InWindow(s, t) == Cardinality({i \in DOMAIN s : s[i] > t - Window})

\* Of two bursts, each under its own cap, an event of the second is sent only within
\* the cap of its hour, dropped only when that hour is full, and counted either way.
ASSUME CapHoldsInEveryWindow ==
  \A first, second \in Instants, n, m, c, d \in 1 .. 3 :
    LET one  == AllowEach(FreshLimiter, n, first, Capped(c))
        two  == AllowEach(one, m, second, Capped(d))
        bus  == one.sent \o [i \in 1 .. Granted(one, m, second, Capped(d)) |-> second]
    IN  first <= second =>
          /\ Len(bus) > Len(one.sent) => InWindow(bus, second) <= d
          /\ two.suppressed > one.suppressed => InWindow(bus, second) >= d
          /\ Len(bus) + two.suppressed = n + m
=============================================================================
