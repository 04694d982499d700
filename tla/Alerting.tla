------------------------------ MODULE Alerting ------------------------------
(***************************************************************************)
(* The three mechanisms of alerting.py as operators on immutable values:   *)
(* the per-key debouncer, the held flag and the sliding-window event       *)
(* limiter, and the resolver that clamps the stored options to a policy.   *)
(*                                                                         *)
(* A Python dict of counters is a function on all keys whose value 0 means *)
(* "no entry": the code never stores a 0.                                  *)
(*                                                                         *)
(* An operator whose name adds a word to that of the one below it          *)
(* (HoldAtEarly, SeedNothing...) is a mutation of it: a plausible bug     *)
(* that one of the properties must notice.  Nothing else uses it.          *)
(***************************************************************************)
EXTENDS Integers, Sequences, FiniteSets

CONSTANTS
  Key,      \* the keys a debouncer may be handed: MACs, or the CVE finding
  Window,   \* EVENT_WINDOW_SECONDS, in clock units
  Default,  \* the DEFAULT_* constants, one field per policy number
  Low,      \* the MIN_* bounds
  High,     \* the MAX_* bounds
  NotANumber \* a stored option int() cannot parse, or one that is missing

PolicyField == {"confirm", "clear", "hold", "cap"}

ASSUME BoundsAssumption ==
  /\ Window \in Nat \ {0}
  /\ \A b \in {Default, Low, High} : b \in [PolicyField -> Nat]
  /\ \A x \in PolicyField : Low[x] <= Default[x] /\ Default[x] <= High[x]
  /\ \A x \in PolicyField \ {"hold"} : Low[x] >= 1

NoTime == -1 \* Python's None in a field that holds a timestamp

-----------------------------------------------------------------------------
(* Policy                                                                  *)

Policy == [PolicyField -> Nat]

Clamped(value, default, lo, hi) ==
  IF value = NotANumber THEN default
  ELSE IF value < lo THEN lo
  ELSE IF value > hi THEN hi
  ELSE value

ResolvePolicy(options) ==
  [x \in PolicyField |-> Clamped(options[x], Default[x], Low[x], High[x])]

-----------------------------------------------------------------------------
(* Debouncer                                                               *)

Debouncer ==
  [confirmed : SUBSET Key, rising : [Key -> Nat], falling : [Key -> Nat]]

FreshDebouncer ==
  [confirmed |-> {}, rising |-> [k \in Key |-> 0], falling |-> [k \in Key |-> 0]]

\* The keys one observation confirms, and those it clears.
Asserted(d, seen, policy) ==
  {k \in seen \ d.confirmed : d.rising[k] + 1 >= policy["confirm"]}

Cleared(d, seen, policy) ==
  {k \in d.confirmed \ seen : d.falling[k] + 1 >= policy["clear"]}

ObserveKeepingMisses(d, seen, policy) ==
  LET asserted == Asserted(d, seen, policy)
      cleared  == Cleared(d, seen, policy)
  IN [confirmed |-> (d.confirmed \cup asserted) \ cleared,
      rising    |-> [k \in Key |->
                       IF k \notin seen \/ k \in asserted THEN 0
                       ELSE IF k \in d.confirmed THEN d.rising[k]
                       ELSE d.rising[k] + 1],
      falling   |-> [k \in Key |->
                       IF k \in cleared THEN 0
                       ELSE IF k \notin d.confirmed \ seen THEN d.falling[k]
                       ELSE d.falling[k] + 1]]

Observe(d, seen, policy) ==
  LET asserted == Asserted(d, seen, policy)
      cleared  == Cleared(d, seen, policy)
  IN [confirmed |-> (d.confirmed \cup asserted) \ cleared,
      rising    |-> [k \in Key |->
                       IF k \notin seen \/ k \in asserted THEN 0
                       ELSE IF k \in d.confirmed THEN d.rising[k]
                       ELSE d.rising[k] + 1],
      falling   |-> [k \in Key |->
                       IF k \in cleared \/ k \in seen \cap (d.confirmed \cup asserted) THEN 0
                       ELSE IF k \notin d.confirmed THEN d.falling[k]
                       ELSE d.falling[k] + 1]]

SeedNothing(d, keys) == d

Seed(d, keys) ==
  [d EXCEPT !.confirmed = @ \cup keys,
            !.rising = [k \in Key |-> IF k \in keys THEN 0 ELSE @[k]]]

Forget(d, keys) ==
  [confirmed |-> d.confirmed \ keys,
   rising    |-> [k \in Key |-> IF k \in keys THEN 0 ELSE d.rising[k]],
   falling   |-> [k \in Key |-> IF k \in keys THEN 0 ELSE d.falling[k]]]

-----------------------------------------------------------------------------
(* HeldFlag                                                                *)

\* Without the count of refused proposals (_deferred): nothing decides by it, an
\* attribute of the entity prints it.
HeldFlag ==
  [state : BOOLEAN, changedAt : Nat \cup {NoTime}, heldUntil : Nat \cup {NoTime}]

FreshHeldFlag == [state |-> FALSE, changedAt |-> NoTime, heldUntil |-> NoTime]

HoldAtEarly(h, now) == IF now + 1 >= h.heldUntil THEN NoTime ELSE h.heldUntil

\* The hold still in force at `now`: an expired deadline is dropped first.
HoldAt(h, now) == IF now >= h.heldUntil THEN NoTime ELSE h.heldUntil

ProposeExtending(h, wanted, now, policy) ==
  LET until == HoldAt(h, now)
  IN  IF wanted = h.state THEN [h EXCEPT !.heldUntil = until]
      ELSE IF until # NoTime
           THEN [h EXCEPT !.heldUntil = now + policy["hold"]]
      ELSE [state |-> wanted, changedAt |-> now,
            heldUntil |-> IF policy["hold"] > 0 THEN now + policy["hold"] ELSE NoTime]

Propose(h, wanted, now, policy) ==
  LET until == HoldAt(h, now)
  IN  IF wanted = h.state THEN [h EXCEPT !.heldUntil = until]
      ELSE IF until # NoTime THEN h
      ELSE [state |-> wanted, changedAt |-> now,
            heldUntil |-> IF policy["hold"] > 0 THEN now + policy["hold"] ELSE NoTime]

-----------------------------------------------------------------------------
(* EventRateLimiter, one kind                                              *)

Limiter == [sent : Seq(Nat), suppressed : Nat]

FreshLimiter == [sent |-> <<>>, suppressed |-> 0]

\* popleft while the oldest is at or past the horizon.
Expired(sent, horizon) == {i \in 1 .. Len(sent) : \A j \in 1 .. i : sent[j] <= horizon}

Live(sent, now) ==
  SubSeq(sent, Cardinality(Expired(sent, now - Window)) + 1, Len(sent))

Allow(l, now, policy) ==
  LET live == Live(l.sent, now)
  IN  IF Len(live) >= policy["cap"]
      THEN [sent |-> live, suppressed |-> l.suppressed + 1]
      ELSE [sent |-> Append(live, now), suppressed |-> l.suppressed]

\* n calls of Allow at one instant, one per key of an observation's transitions:
\* the cap's remaining room is used up first, the rest is suppressed.  MCAlertMonitor
\* compares it with the calls themselves.
Granted(l, n, now, policy) ==
  LET room == policy["cap"] - Len(Live(l.sent, now))
  IN  IF n <= room THEN n ELSE IF room > 0 THEN room ELSE 0

AllowEach(l, n, now, policy) ==
  LET fire == Granted(l, n, now, policy)
  IN  IF n = 0 THEN l
      ELSE [sent |-> Live(l.sent, now) \o [i \in 1 .. fire |-> now],
            suppressed |-> l.suppressed + (n - fire)]
=============================================================================
