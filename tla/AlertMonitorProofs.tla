------------------------- MODULE AlertMonitorProofs -------------------------
(***************************************************************************)
(* Proofs about the alert monitor for every set of keys, every policy      *)
(* range and every bound.  The safety properties come from one inductive   *)
(* invariant: every action of the monitor does one of six things to a flag *)
(* (StepOf), and the proof of each conjunct goes through those six.  A     *)
(* second one relates the counters to the runs of scans counted, and with  *)
(* it each flag implements AlertPromise.                                   *)
(***************************************************************************)
EXTENDS AlertMonitor, FiniteSetTheorems, TLAPS

-----------------------------------------------------------------------------
(* Operators of alerting.py                                                *)

\* Whatever is stored, the policy in force is four numbers within their bounds.
LEMMA ResolvedPolicy ==
  ASSUME NEW o \in OptionSets
  PROVE  /\ ResolvePolicy(o) \in Policy
         /\ ResolvePolicy(o)["confirm"] \in Low["confirm"] .. High["confirm"]
         /\ ResolvePolicy(o)["clear"] \in Low["clear"] .. High["clear"]
<1>1. o \in [PolicyField -> Int \cup {NotANumber}]
  BY MonitorAssumption
<1>2. \A x \in PolicyField : Clamped(o[x], Default[x], Low[x], High[x]) \in Low[x] .. High[x]
  <2>1. SUFFICES ASSUME NEW x \in PolicyField
                 PROVE  Clamped(o[x], Default[x], Low[x], High[x]) \in Low[x] .. High[x]
    OBVIOUS
  <2>2. Default[x] \in Nat /\ Low[x] \in Nat /\ High[x] \in Nat
    BY BoundsAssumption
  <2>3. Low[x] <= Default[x] /\ Default[x] <= High[x]
    BY BoundsAssumption
  <2>4. CASE o[x] = NotANumber
    BY <2>2, <2>3, <2>4 DEF Clamped
  <2>5. CASE o[x] # NotANumber
    <3>1. o[x] \in Int
      BY <1>1, <2>5
    <3>2. QED
      BY <2>2, <2>3, <2>5, <3>1 DEF Clamped
  <2>6. QED
    BY <2>4, <2>5
<1>3. \A x \in PolicyField : Low[x] .. High[x] \subseteq Nat
  BY BoundsAssumption
<1>4. "confirm" \in PolicyField /\ "clear" \in PolicyField
  BY DEF PolicyField
<1>5. QED
  BY <1>2, <1>3, <1>4 DEF ResolvePolicy, Policy

\* The options, clamped as they are read, are a policy.
LEMMA PolicyType ==
  ASSUME options \in OptionSets
  PROVE  /\ LivePolicy \in Policy
         /\ LivePolicy["confirm"] \in Low["confirm"] .. High["confirm"]
         /\ LivePolicy["clear"] \in Low["clear"] .. High["clear"]
BY ResolvedPolicy DEF LivePolicy

\* The debouncer counts keys and its transitions are of keys.
LEMMA ObserveType ==
  ASSUME NEW d \in Debouncer, NEW seen \in SUBSET Key, NEW policy \in Policy
  PROVE  /\ Observe(d, seen, policy) \in Debouncer
         /\ Asserted(d, seen, policy) \in SUBSET Key
         /\ Cleared(d, seen, policy) \in SUBSET Key
BY DEF Observe, Asserted, Cleared, Debouncer

LEMMA ForgetType ==
  ASSUME NEW d \in Debouncer, NEW keys \in SUBSET Key
  PROVE  Forget(d, keys) \in Debouncer
BY DEF Forget, Debouncer

\* A debouncer seeded from the file has the keys confirmed there.
LEMMA SeedType ==
  ASSUME NEW keys \in SUBSET Key
  PROVE  /\ FreshDebouncer \in Debouncer
         /\ Seed(FreshDebouncer, keys) \in Debouncer
         /\ Seed(FreshDebouncer, keys).confirmed = keys
BY DEF Seed, FreshDebouncer, Debouncer

LEMMA ProposeType ==
  ASSUME NEW h \in HeldFlag, NEW wanted \in BOOLEAN, NEW t \in Nat, NEW policy \in Policy
  PROVE  Propose(h, wanted, t, policy) \in HeldFlag
<1>1. policy["hold"] \in Nat
  BY DEF Policy, PolicyField
<1>2. HoldAt(h, t) \in Nat \cup {NoTime}
  BY DEF HoldAt, HeldFlag
<1>3. QED
  BY <1>1, <1>2 DEF Propose, HeldFlag

\* Whether the timer that has just fired was taken off the table or not, the
\* proposal decides anew whether there is one.
LEMMA RetriedProposes ==
  ASSUME NEW m \in FlagState, NEW policy
  PROVE  Retried(m, policy) = Proposed(m, policy)
<1> DEFINE popped == [m EXCEPT !.timer = NoTime]
<1>1. popped.held = m.held /\ popped.wanted = m.wanted
  BY DEF FlagState
<1>2. Proposed(popped, policy) = Proposed(m, policy)
  BY <1>1 DEF Proposed, FlagState
<1>3. QED
  BY <1>2 DEF Retried

\* The deque without what has left the hour.
LEMMA LiveType ==
  ASSUME NEW l \in Limiter, NEW t \in Nat
  PROVE  Live(l.sent, t) \in Seq(Nat) /\ Len(Live(l.sent, t)) \in Nat
<1> DEFINE gone == Expired(l.sent, t - Window)
<1>1. l.sent \in Seq(Nat)
  BY DEF Limiter
<1>2. gone \subseteq 1 .. Len(l.sent)
  BY DEF Expired
<1>3. IsFiniteSet(1 .. Len(l.sent))
  BY <1>1, FS_Interval
<1>4. Cardinality(gone) \in Nat
  BY <1>2, <1>3, FS_Subset, FS_CardinalityType
<1>5. Live(l.sent, t) \in Seq(Nat)
  BY <1>1, <1>4 DEF Live
<1>6. QED
  BY <1>5

LEMMA AllowEachType ==
  ASSUME NEW l \in Limiter, NEW n \in Nat, NEW t \in Nat, NEW policy \in Policy
  PROVE  AllowEach(l, n, t, policy) \in Limiter
<1> DEFINE live == Live(l.sent, t)
           fire == Granted(l, n, t, policy)
<1>1. policy["cap"] \in Nat
  BY DEF Policy, PolicyField
<1>2. l.sent \in Seq(Nat) /\ l.suppressed \in Nat
  BY DEF Limiter
<1>4. live \in Seq(Nat) /\ Len(live) \in Nat
  BY LiveType
<1>5. fire \in 0 .. n
  BY <1>1, <1>4 DEF Granted
<1>6. live \o [i \in 1 .. fire |-> t] \in Seq(Nat)
  <2> HIDE DEF live, fire
  <2>1. [i \in 1 .. fire |-> t] \in Seq(Nat)
    BY <1>5
  <2>2. QED
    BY <1>4, <2>1
<1>7. l.suppressed + (n - fire) \in Nat
  BY <1>2, <1>5
<1>8. QED
  BY <1>6, <1>7 DEF AllowEach, Limiter

\* Of n events at one instant each is sent or counted as suppressed; none is sent past
\* the cap, whatever the cap was when the deque filled, and none dropped below it.
THEOREM BurstWithinCap ==
  ASSUME NEW l \in Limiter, NEW n \in Nat \ {0}, NEW t \in Nat, NEW policy \in Policy
  PROVE  LET after == AllowEach(l, n, t, policy)
             fire  == Granted(l, n, t, policy)
         IN  /\ fire + (after.suppressed - l.suppressed) = n
             /\ fire > 0 => Len(after.sent) <= policy["cap"]
             /\ fire < n => Len(after.sent) >= policy["cap"]
<1> DEFINE live  == Live(l.sent, t)
           fire  == Granted(l, n, t, policy)
           sent  == [i \in 1 .. fire |-> t]
           after == AllowEach(l, n, t, policy)
           Room(cap, len) ==
             IF n <= cap - len THEN n ELSE IF cap - len > 0 THEN cap - len ELSE 0
<1>1. policy["cap"] \in Nat /\ l.suppressed \in Nat
  BY DEF Policy, PolicyField, Limiter
<1>2. live \in Seq(Nat) /\ Len(live) \in Nat
  BY LiveType
<1>3. fire = Room(policy["cap"], Len(live))
  BY DEF Granted
<1>4. fire \in 0 .. n
  BY <1>1, <1>2, <1>3
<1>5. after.sent = live \o sent /\ after.suppressed = l.suppressed + (n - fire)
  BY DEF AllowEach
<1>6. sent \in Seq(Nat) /\ Len(sent) = fire
  <2> HIDE DEF live, fire
  <2>1. QED
    BY <1>4
<1>7. Len(after.sent) = Len(live) + fire
  <2>1. \A a, b \in Seq(Nat) : Len(a \o b) = Len(a) + Len(b)
    OBVIOUS
  <2> HIDE DEF live, fire, sent, after
  <2>2. QED
    BY <1>2, <1>5, <1>6, <2>1, Zenon
<1>8. Len(live) \in Nat /\ after.suppressed = l.suppressed + (n - fire)
  BY <1>2, <1>5
<1>9. \A cap, len, sup \in Nat :
        /\ Room(cap, len) + ((sup + (n - Room(cap, len))) - sup) = n
        /\ Room(cap, len) > 0 => len + Room(cap, len) <= cap
        /\ Room(cap, len) < n => len + Room(cap, len) >= cap
  OBVIOUS
<1>10. QED
  <2> HIDE DEF live, fire, sent, after, Room
  <2>1. /\ fire + ((l.suppressed + (n - fire)) - l.suppressed) = n
        /\ fire > 0 => Len(live) + fire <= policy["cap"]
        /\ fire < n => Len(live) + fire >= policy["cap"]
    BY <1>1, <1>3, <1>8, <1>9, Zenon
  <2>2. /\ fire + (after.suppressed - l.suppressed) = n
        /\ fire > 0 => Len(after.sent) <= policy["cap"]
        /\ fire < n => Len(after.sent) >= policy["cap"]
    BY <1>7, <1>8, <2>1, Zenon
  <2>3. QED
    BY <2>2 DEF fire, after

-----------------------------------------------------------------------------
(* What a callback does to one flag                                        *)

View == [present : SUBSET Key, forgotten : SUBSET Key, stamp : Nat]

LEMMA ViewType ==
  /\ \A i \in Inventory : ScanView(i) \in View
  /\ \A c : c.stamp \in Nat => CveView(c) \in View
BY MonitorAssumption DEF View, ScanView, CveView, Inventory

LEMMA DetailType ==
  ASSUME NEW f \in Flag, NEW m \in FlagState, NEW view \in View
  PROVE  Detail(f, m, view) \in FlagState
<1>1. Forget(m.deb, view.forgotten) \in Debouncer
  BY ForgetType DEF FlagState, View
<1>2. Detailed(f, view) \subseteq Key
  BY MonitorAssumption DEF Detailed, View
<1>3. QED
  BY <1>1, <1>2 DEF Detail, FlagState

LEMMA CountedType ==
  ASSUME NEW m \in FlagState, NEW view \in View, NEW policy \in Policy, now \in Nat
  PROVE  Counted(m, view, policy) \in FlagState
<1> DEFINE rose == Cardinality(Asserted(m.deb, view.present, policy))
           fell == Cardinality(Cleared(m.deb, view.present, policy))
<1>1. m.deb \in Debouncer /\ view.present \in SUBSET Key /\ view.stamp \in Int
  BY DEF FlagState, View
<1>2. rose \in Nat /\ fell \in Nat
  <2>1. /\ Asserted(m.deb, view.present, policy) \subseteq Key
        /\ Cleared(m.deb, view.present, policy) \subseteq Key
    BY <1>1, ObserveType
  <2>2. /\ IsFiniteSet(Asserted(m.deb, view.present, policy))
        /\ IsFiniteSet(Cleared(m.deb, view.present, policy))
    BY <2>1, MonitorAssumption, FS_Subset
  <2>3. QED
    BY <2>2, FS_CardinalityType
<1>3. AllowEach(m.rise, rose, now, policy) \in Limiter
  BY <1>2, AllowEachType DEF FlagState
<1>4. AllowEach(m.fall, fell, now, policy) \in Limiter
  BY <1>2, AllowEachType DEF FlagState
<1>5. Observe(m.deb, view.present, policy) \in Debouncer
  BY <1>1, ObserveType
<1>6. QED
  <2> HIDE DEF rose, fell
  <2>1. Counted(m, view, policy) =
          IF ~Counts(m, view) THEN m
          ELSE [m EXCEPT !.stamp = view.stamp,
                         !.deb = Observe(m.deb, view.present, policy),
                         !.rise = AllowEach(m.rise, rose, now, policy),
                         !.fall = AllowEach(m.fall, fell, now, policy)]
    BY DEF Counted, rose, fell
  <2>2. QED
    BY <2>1, <1>1, <1>3, <1>4, <1>5 DEF FlagState

LEMMA ProposedType ==
  ASSUME NEW m \in FlagState, NEW policy \in Policy, now \in Nat
  PROVE  Proposed(m, policy) \in FlagState
<1>1. Propose(m.held, m.wanted, now, policy) \in HeldFlag
  BY ProposeType DEF FlagState
<1>2. QED
  BY <1>1 DEF Proposed, FlagState, HeldFlag

LEMMA PublishedType ==
  ASSUME NEW f \in Flag, NEW m \in FlagState, NEW view \in View, NEW policy \in Policy,
         now \in Nat
  PROVE  Published(f, m, view, policy) \in FlagState
<1>1. Detail(f, m, view) \in FlagState
  BY DetailType
<1>2. Counted(Detail(f, m, view), view, policy) \in FlagState
  BY <1>1, CountedType
<1>3. Wanting(Counted(Detail(f, m, view), view, policy)) \in FlagState
  BY <1>2 DEF Wanting, FlagState
<1>4. QED
  BY <1>3, ProposedType DEF Published

\* What a publish announces are keys.
LEMMA TransitionsType ==
  ASSUME NEW f \in Flag, NEW m \in FlagState, NEW view \in View, NEW policy \in Policy
  PROVE  /\ Rising(f, m, view, policy) \in SUBSET Key
         /\ Falling(f, m, view, policy) \in SUBSET Key
<1>1. Detail(f, m, view).deb \in Debouncer /\ view.present \in SUBSET Key
  BY DetailType DEF FlagState, View
<1>2. QED
  BY <1>1, ObserveType DEF Rising, Falling

LEMMA NotedType ==
  ASSUME NEW h \in History, NEW f \in Flag, NEW m \in FlagState, NEW view \in View,
         NEW policy \in Policy
  PROVE  Noted(h, f, m, view, policy) \in History
<1>1. /\ Rising(f, m, view, policy) \in SUBSET Key
      /\ Falling(f, m, view, policy) \in SUBSET Key
  BY TransitionsType
<1>2. \A run \in [Key -> Nat] : \A grow : Run(run, view.forgotten, Counts(m, view), grow) \in [Key -> Nat]
  BY DEF Run
<1>3. policy["hold"] \in Nat
  BY DEF Policy, PolicyField
<1>4. view.stamp \in Int
  BY DEF View
<1>5. QED
  BY <1>1, <1>2, <1>3, <1>4 DEF Noted, History

LEMMA FreshType == FreshFlag \in FlagState
<1>1. FreshDebouncer \in Debouncer
  BY DEF FreshDebouncer, Debouncer
<1>2. FreshHeldFlag \in HeldFlag
  BY DEF FreshHeldFlag, HeldFlag
<1>3. FreshLimiter \in Limiter
  BY DEF FreshLimiter, Limiter
<1>4. NoStamp \in Int
  BY DEF NoStamp
<1>5. QED
  BY <1>1, <1>2, <1>3, <1>4 DEF FreshFlag, FlagState

LEMMA SeededType ==
  ASSUME NEW row \in Row
  PROVE  Seeded(row) \in FlagState
<1>1. Seed(FreshDebouncer, row.confirmed) \in Debouncer
  BY SeedType DEF Row
<1>2. FreshFlag \in FlagState
  BY FreshType
<1>3. QED
  BY <1>1, <1>2 DEF Seeded, FlagState, Row

LEMMA SavedType ==
  ASSUME NEW m \in FlagState
  PROVE  Saved(m) \in Row
BY DEF Saved, Row, FlagState, Debouncer

-----------------------------------------------------------------------------
(* Type correctness                                                        *)

LEMMA InitType == Init => TypeOK
<1>1. EmptyInventory \in Inventory
  BY DEF EmptyInventory, Inventory, Status
<1>2. FreshFlag \in FlagState
  BY FreshType
<1>3. FreshHistory \in History
  BY DEF FreshHistory, History
<1>4. [confirmed |-> {}, stamp |-> NoStamp, detail |-> {}] \in Row
  BY DEF Row, NoStamp
<1>5. [count |-> Unread, stamp |-> 0] \in [count : CveReads \cup {Unread}, stamp : Nat]
  OBVIOUS
<1>6. QED
  BY <1>1, <1>2, <1>3, <1>4, <1>5 DEF Init, TypeOK

LEMMA PublishType ==
  ASSUME TypeOK, NEW f \in Flag, NEW view \in View, Publish(f, view)
  PROVE  /\ mon' \in [Flag -> FlagState]
         /\ hist' \in [Flag -> History]
         /\ savePending' \in BOOLEAN
<1>1. mon[f] \in FlagState /\ hist[f] \in History /\ now \in Nat
  BY DEF TypeOK
<1>2. LivePolicy \in Policy
  BY PolicyType DEF TypeOK
<1>3. Published(f, mon[f], view, LivePolicy) \in FlagState
  BY <1>1, <1>2, PublishedType
<1>4. Noted(hist[f], f, mon[f], view, LivePolicy) \in History
  BY <1>1, <1>2, NotedType
<1>5. QED
  BY <1>3, <1>4 DEF Publish, TypeOK

LEMMA NextType ==
  ASSUME TypeOK, [Next]_vars
  PROVE  TypeOK'
<1> USE DEF TypeOK
<1>1. \A S \in AckSets \cup DeviceSets : S \subseteq HostKey
  BY MonitorAssumption
<1>2. LivePolicy \in Policy
  BY PolicyType
<1>3. \A f \in Flag : Saved(mon[f]) \in Row
  BY SavedType
<1>4. AllSaved \in [Flag -> History]
  BY DEF AllSaved, History
<1>5. FreshFlag \in FlagState
  BY FreshType
<1>6. Flag = {"unknown_hosts", "vulnerabilities"}
  BY DEF Flag
<1>7. CASE UNCHANGED vars
  BY <1>7 DEF vars, env
<1>8. CASE Tick
  BY <1>8 DEF Tick, env
<1>9. ASSUME NEW o \in OptionSets, EditOptions(o) PROVE TypeOK'
  BY <1>9 DEF EditOptions
<1>10. ASSUME NEW S \in AckSets, EditAcknowledged(S) PROVE TypeOK'
  BY <1>1, <1>10 DEF EditAcknowledged
<1>11. ASSUME NEW S \in DeviceSets, RegisterDevice(S) PROVE TypeOK'
  BY <1>1, <1>11 DEF RegisterDevice
<1>12. CASE InventoryWritten
  BY <1>12 DEF InventoryWritten
<1>13. ASSUME NEW s \in [HostKey -> Status], ScanLands(s) PROVE TypeOK'
  <2>1. inv' \in Inventory /\ scans' \in Nat
    BY <1>13 DEF ScanLands, Inventory
  <2>2. ScanView(inv') \in View
    BY <2>1, ViewType
  <2>3. Publish("unknown_hosts", ScanView(inv'))
    BY <1>13 DEF ScanLands
  <2>4. mon' \in [Flag -> FlagState] /\ hist' \in [Flag -> History] /\ savePending' \in BOOLEAN
    BY <1>6, <2>2, <2>3, PublishType
  <2>5. QED
    BY <1>13, <2>1, <2>3, <2>4 DEF ScanLands, Publish
<1>14. CASE RepublishScan
  <2>1. Publish("unknown_hosts", ScanView(inv)) /\ ScanView(inv) \in View
    BY <1>14, ViewType DEF RepublishScan
  <2>2. mon' \in [Flag -> FlagState] /\ hist' \in [Flag -> History] /\ savePending' \in BOOLEAN
    BY <1>6, <2>1, PublishType
  <2>3. QED
    BY <1>14, <2>1, <2>2 DEF RepublishScan, Publish
<1>15. ASSUME NEW c \in CveReads, CveLands(c) PROVE TypeOK'
  <2>1. cve' \in [count : CveReads \cup {Unread}, stamp : Nat]
    BY <1>15 DEF CveLands
  <2>2. CASE c = Unread
    BY <1>15, <2>1, <2>2 DEF CveLands
  <2>3. CASE c # Unread
    <3>1. Publish("vulnerabilities", CveView(cve')) /\ CveView(cve') \in View
      BY <1>15, <2>1, <2>3, ViewType DEF CveLands
    <3>2. mon' \in [Flag -> FlagState] /\ hist' \in [Flag -> History] /\ savePending' \in BOOLEAN
      BY <1>6, <3>1, PublishType
    <3>3. QED
      BY <1>15, <2>1, <3>1, <3>2 DEF CveLands, Publish
  <2>4. QED
    BY <2>2, <2>3
<1>16. CASE RepublishCve
  <2>1. Publish("vulnerabilities", CveView(cve)) /\ CveView(cve) \in View
    BY <1>16, ViewType DEF RepublishCve
  <2>2. mon' \in [Flag -> FlagState] /\ hist' \in [Flag -> History] /\ savePending' \in BOOLEAN
    BY <1>6, <2>1, PublishType
  <2>3. QED
    BY <1>16, <2>1, <2>2 DEF RepublishCve, Publish
<1>17. ASSUME NEW f \in Flag, Retry(f) PROVE TypeOK'
  <2>1. Proposed(mon[f], LivePolicy) \in FlagState
    BY <1>2, ProposedType
  <2>2. LivePolicy["hold"] \in Nat
    BY <1>2 DEF Policy, PolicyField
  <2>3. mon' \in [Flag -> FlagState]
    BY <1>17, <2>1, RetriedProposes DEF Retry
  <2>4. hist' \in [Flag -> History]
    <3> DEFINE h == IF mon'[f].held.state # mon[f].held.state THEN LivePolicy["hold"]
                    ELSE hist[f].holdAt
    <3>1. h \in Nat
      BY <2>2 DEF History
    <3>2. hist' = [hist EXCEPT ![f].holdAt = h]
      BY <1>17 DEF Retry
    <3>3. QED
      <4> HIDE DEF h
      <4>1. QED
        BY <3>1, <3>2 DEF History
  <2>5. QED
    BY <1>17, <2>3, <2>4 DEF Retry, env
<1>18. CASE WriteSave
  BY <1>3, <1>4, <1>18 DEF WriteSave, env
<1>19. ASSUME NEW c \in CveReads, Start(c) PROVE TypeOK'
  <2> DEFINE newCve == [count |-> c, stamp |-> cve.stamp + 1]
             reads(f) == f = "unknown_hosts" \/ c # Unread
             view == [f \in Flag |-> IF f = "unknown_hosts" THEN ScanView(invFile)
                                     ELSE CveView(newCve)]
             row(f) == Seeded(disk[f])
  <2>1. newCve \in [count : CveReads \cup {Unread}, stamp : Nat]
    OBVIOUS
  <2>2. \A f \in Flag : view[f] \in View
    BY <2>1, ViewType
  <2>3. \A f \in Flag : row(f) \in FlagState
    BY SeededType
  <2>4. \A h \in History : Restarted(h) \in History
    BY DEF Restarted, History
  <2>5. \A f \in Flag : Published(f, row(f), view[f], LivePolicy) \in FlagState
    BY <1>2, <2>2, <2>3, PublishedType
  <2>6. \A f \in Flag : Noted(Restarted(hist[f]), f, row(f), view[f], LivePolicy) \in History
    BY <1>2, <2>2, <2>3, <2>4, NotedType
  <2>7. /\ mon' = [f \in Flag |-> IF reads(f) THEN Published(f, row(f), view[f], LivePolicy)
                                 ELSE row(f)]
        /\ hist' = [f \in Flag |->
                      IF reads(f) THEN Noted(Restarted(hist[f]), f, row(f), view[f], LivePolicy)
                      ELSE Restarted(hist[f])]
        /\ cve' = newCve
        /\ savePending' = (\E f \in Flag : reads(f) /\ Transitions(f, row(f), view[f], LivePolicy) # {})
    BY <1>19 DEF Start
  <2>8. mon' \in [Flag -> FlagState] /\ hist' \in [Flag -> History]
    <3> HIDE DEF view, row, reads
    <3>1. QED
      BY <2>3, <2>4, <2>5, <2>6, <2>7
  <2>9. savePending' \in BOOLEAN
    BY <2>7
  <2>10. QED
    <3> HIDE DEF view, row, reads, newCve
    <3>1. QED
      BY <1>19, <2>1, <2>7, <2>8, <2>9 DEF Start
<1>20. ASSUME Stopped
       PROVE  mon' \in [Flag -> FlagState] /\ running' \in BOOLEAN /\ savePending' \in BOOLEAN
  BY <1>5, <1>20 DEF Stopped
<1>21. CASE Unload
  BY <1>3, <1>4, <1>20, <1>21 DEF Unload, Stopped
<1>22. CASE Shutdown
  BY <1>3, <1>4, <1>20, <1>22 DEF Shutdown, Stopped
<1>23. CASE Crash
  <2>1. hist' \in [Flag -> History]
    BY <1>23 DEF Crash, History
  <2>2. QED
    BY <1>20, <1>23, <2>1 DEF Crash, Stopped
<1>24. QED
  BY <1>7, <1>8, <1>9, <1>10, <1>11, <1>12, <1>13, <1>14, <1>15, <1>16, <1>17, <1>18,
     <1>19, <1>21, <1>22, <1>23 DEF Next

\* Whatever publishes, edits, restarts and crashes interleave, every variable keeps
\* its type: in particular every flag keeps whole counters and a real clock.
THEOREM TypeCorrect == Spec => []TypeOK
<1>1. Init => TypeOK
  BY InitType
<1>2. TypeOK /\ [Next]_vars => TypeOK'
  BY NextType
<1>3. QED
  BY <1>1, <1>2, PTL DEF Spec

-----------------------------------------------------------------------------
(* What one callback does to the confirmed findings, the detail, the hold  *)

\* The three steps of a publish, named.
LEMMA PublishedParts ==
  ASSUME NEW f \in Flag, NEW m \in FlagState, NEW view \in View, NEW policy \in Policy,
         now \in Nat
  PROVE  LET n == Published(f, m, view, policy)
         IN  /\ n.deb = IF Counts(m, view)
                        THEN Observe(Forget(m.deb, view.forgotten), view.present, policy)
                        ELSE Forget(m.deb, view.forgotten)
             /\ n.detail = m.detail \cup Detailed(f, view)
             /\ n.stamp = IF Counts(m, view) THEN view.stamp ELSE m.stamp
             /\ n.wanted = (n.deb.confirmed # {})
             /\ n.held = Propose(m.held, n.wanted, now, policy)
             /\ n.timer = IF n.held.state # n.wanted /\ n.held.heldUntil # NoTime
                          THEN n.held.heldUntil ELSE NoTime
<1> DEFINE d == Detail(f, m, view)
           c == Counted(d, view, policy)
           w == Wanting(c)
<1>1. /\ d \in FlagState
      /\ d.deb = Forget(m.deb, view.forgotten)
      /\ d.detail = m.detail \cup Detailed(f, view)
      /\ d.stamp = m.stamp /\ d.held = m.held
  BY DetailType DEF Detail, FlagState
<1>2. Counts(d, view) = Counts(m, view)
  BY <1>1 DEF Counts
<1>3. /\ c \in FlagState
      /\ c.deb = IF Counts(m, view) THEN Observe(d.deb, view.present, policy) ELSE d.deb
      /\ c.stamp = IF Counts(m, view) THEN view.stamp ELSE m.stamp
      /\ c.detail = d.detail /\ c.held = d.held
  <2> HIDE DEF d
  <2>1. c \in FlagState
    BY <1>1, CountedType
  <2>2. CASE ~Counts(d, view)
    BY <1>1, <1>2, <2>1, <2>2 DEF Counted
  <2>3. CASE Counts(d, view)
    <3> DEFINE rose == AllowEach(d.rise, Cardinality(Asserted(d.deb, view.present, policy)), now, policy)
               fell == AllowEach(d.fall, Cardinality(Cleared(d.deb, view.present, policy)), now, policy)
    <3>1. c = [d EXCEPT !.stamp = view.stamp,
                        !.deb = Observe(d.deb, view.present, policy),
                        !.rise = rose, !.fall = fell]
      BY <2>3 DEF Counted
    <3>2. QED
      <4> HIDE DEF rose, fell, c
      <4>1. QED
        BY <1>1, <1>2, <2>1, <2>3, <3>1 DEF FlagState
  <2>4. QED
    BY <2>2, <2>3
<1>4. /\ w \in FlagState
      /\ w.deb = c.deb /\ w.detail = c.detail /\ w.stamp = c.stamp /\ w.held = c.held
      /\ w.wanted = (c.deb.confirmed # {})
  <2> HIDE DEF c
  <2>1. QED
    BY <1>3 DEF Wanting, FlagState
<1>5. Published(f, m, view, policy) = Proposed(w, policy)
  BY DEF Published
<1>6. LET n == Proposed(w, policy)
      IN  /\ n.deb = w.deb /\ n.detail = w.detail /\ n.stamp = w.stamp /\ n.wanted = w.wanted
          /\ n.held = Propose(w.held, w.wanted, now, policy)
          /\ n.timer = IF n.held.state # w.wanted /\ n.held.heldUntil # NoTime
                       THEN n.held.heldUntil ELSE NoTime
  <2> HIDE DEF w
  <2> DEFINE held == Propose(w.held, w.wanted, now, policy)
             timer == IF held.state # w.wanted /\ held.heldUntil # NoTime
                      THEN held.heldUntil ELSE NoTime
             n == Proposed(w, policy)
  <2>1. n = [w EXCEPT !.held = held, !.timer = timer]
    BY DEF Proposed
  <2>2. /\ n.deb = w.deb /\ n.detail = w.detail /\ n.stamp = w.stamp /\ n.wanted = w.wanted
        /\ n.held = held /\ n.timer = timer
    <3> HIDE DEF held, timer, n
    <3>1. QED
      BY <1>4, <2>1 DEF FlagState
  <2>3. QED
    BY <2>2
<1>7. QED
  <2> HIDE DEF w, c, d
  <2>1. QED
    BY <1>1, <1>3, <1>4, <1>5, <1>6

\* The transitions of a publish, in terms of the debouncer before it.
LEMMA ConfirmedBy ==
  ASSUME NEW f \in Flag, NEW m \in FlagState, NEW view \in View, NEW policy \in Policy,
         now \in Nat
  PROVE  LET rising == Rising(f, m, view, policy)
             falling == Falling(f, m, view, policy)
             kept == m.deb.confirmed \ view.forgotten
         IN  /\ Published(f, m, view, policy).deb.confirmed = (kept \cup rising) \ falling
             /\ rising \subseteq view.present \ kept
             /\ falling \subseteq kept \ view.present
<1> DEFINE d == Detail(f, m, view)
<1>1. d \in FlagState /\ d.deb = Forget(m.deb, view.forgotten)
  BY DetailType DEF Detail, FlagState
<1>2. d.deb.confirmed = m.deb.confirmed \ view.forgotten
  BY <1>1 DEF Forget
<1>3. CASE Counts(m, view)
  <2>1. /\ Rising(f, m, view, policy) = Asserted(d.deb, view.present, policy)
        /\ Falling(f, m, view, policy) = Cleared(d.deb, view.present, policy)
    BY <1>3 DEF Rising, Falling
  <2>2. Published(f, m, view, policy).deb = Observe(d.deb, view.present, policy)
    BY <1>1, <1>3, PublishedParts
  <2>3. Observe(d.deb, view.present, policy).confirmed =
          (d.deb.confirmed \cup Asserted(d.deb, view.present, policy))
             \ Cleared(d.deb, view.present, policy)
    BY DEF Observe
  <2>4. QED
    <3> HIDE DEF d
    <3>1. QED
      BY <1>2, <2>1, <2>2, <2>3 DEF Asserted, Cleared
<1>4. CASE ~Counts(m, view)
  <2>1. Rising(f, m, view, policy) = {} /\ Falling(f, m, view, policy) = {}
    BY <1>4 DEF Rising, Falling
  <2>2. Published(f, m, view, policy).deb = d.deb
    BY <1>1, <1>4, PublishedParts
  <2>3. QED
    BY <1>2, <2>1, <2>2
<1>5. QED
  BY <1>3, <1>4

-----------------------------------------------------------------------------
(* The safety properties                                                   *)


\* What a flag resumes from in this step, and its history.
Base(f)     == IF running THEN mon[f] ELSE Seeded(disk[f])
BaseHist(f) == IF running THEN hist[f] ELSE Restarted(hist[f])

\* The views that reach a flag.
FlagView(f) == {view \in View : f = "vulnerabilities" =>
                                  view.present \subseteq {CveKey} /\ view.forgotten = {}}

Keeps(f) ==
  /\ running' = running /\ mon'[f] = mon[f] /\ hist'[f] = hist[f] /\ disk'[f] = disk[f]
  /\ savePending => savePending'
  /\ now' \in {now, now + 1}

Publishes(f) ==
  /\ running' /\ disk'[f] = disk[f] /\ now' = now
  /\ running /\ savePending => savePending'
  /\ \E view \in FlagView(f) :
       /\ mon'[f] = Published(f, Base(f), view, LivePolicy)
       /\ hist'[f] = Noted(BaseHist(f), f, Base(f), view, LivePolicy)
       /\ Transitions(f, Base(f), view, LivePolicy) # {} => savePending'

Resumes(f) ==
  /\ ~running /\ running' /\ disk'[f] = disk[f] /\ now' = now
  /\ mon'[f] = Base(f) /\ hist'[f] = BaseHist(f)

Retries(f) ==
  /\ running /\ running' /\ disk'[f] = disk[f] /\ now' = now /\ savePending' = savePending
  /\ mon'[f] = Proposed(mon[f], LivePolicy)
  /\ hist'[f] = [hist[f] EXCEPT !.holdAt = IF mon'[f].held.state # mon[f].held.state
                                           THEN LivePolicy["hold"] ELSE @]

Writes(f) ==
  /\ running /\ running' /\ now' = now
  /\ mon'[f] = mon[f] /\ disk'[f] = Saved(mon[f])
  /\ hist'[f] = [hist[f] EXCEPT !.unsaved = {}]

Stops(f) ==
  /\ running /\ ~running' /\ now' = now
  /\ mon'[f] = FreshFlag
  /\ \/ /\ disk'[f] = Saved(mon[f]) \/ (disk'[f] = disk[f] /\ ~savePending)
        /\ hist'[f] = [hist[f] EXCEPT !.unsaved = {}]
     \/ /\ disk'[f] = disk[f]
        /\ hist'[f] = [hist[f] EXCEPT !.lost = @ \cup hist[f].unsaved, !.unsaved = {}]

\* A publish of one flag is a publish to it and nothing to the other.
LEMMA PublishSteps ==
  ASSUME TypeOK, NEW f \in Flag, NEW view \in FlagView(f), Publish(f, view), disk' = disk
  PROVE  /\ Publishes(f)
         /\ \A g \in Flag \ {f} : Keeps(g)
<1>1. /\ running /\ running' /\ now' = now
      /\ mon' = [mon EXCEPT ![f] = Published(f, mon[f], view, LivePolicy)]
      /\ hist' = [hist EXCEPT ![f] = Noted(hist[f], f, mon[f], view, LivePolicy)]
      /\ savePending' = (savePending \/ Transitions(f, mon[f], view, LivePolicy) # {})
  BY DEF Publish, TypeOK
<1>2. mon'[f] = Published(f, mon[f], view, LivePolicy)
  BY <1>1 DEF TypeOK
<1>3. hist'[f] = Noted(hist[f], f, mon[f], view, LivePolicy)
  BY <1>1 DEF TypeOK
<1>4. \A g \in Flag \ {f} : mon'[g] = mon[g] /\ hist'[g] = hist[g]
  BY <1>1 DEF TypeOK
<1>5. Base(f) = mon[f] /\ BaseHist(f) = hist[f]
  BY <1>1 DEF Base, BaseHist
<1>6. Publishes(f)
  BY <1>1, <1>2, <1>3, <1>5 DEF Publishes
<1>7. \A g \in Flag \ {f} : Keeps(g)
  BY <1>1, <1>4 DEF Keeps
<1>8. QED
  BY <1>6, <1>7

\* What either coordinator publishes is a view of its own flag.
LEMMA Views ==
  ASSUME TypeOK
  PROVE  /\ \A i \in Inventory : ScanView(i) \in FlagView("unknown_hosts")
         /\ \A c : c.stamp \in Nat => CveView(c) \in FlagView("vulnerabilities")
<1>1. \A c : CveView(c).present \subseteq {CveKey} /\ CveView(c).forgotten = {}
  BY DEF CveView
<1>2. QED
  BY <1>1, ViewType DEF FlagView

\* Every step does one of six things to each flag.
LEMMA StepOf ==
  ASSUME TypeOK, [Next]_vars, NEW f \in Flag
  PROVE  Keeps(f) \/ Publishes(f) \/ Resumes(f) \/ Retries(f) \/ Writes(f) \/ Stops(f)
<1>1. f \in {"unknown_hosts", "vulnerabilities"} /\ "unknown_hosts" \in Flag
      /\ "vulnerabilities" \in Flag
  BY DEF Flag
<1>2. CASE UNCHANGED vars \/ Tick \/ InventoryWritten
          \/ (\E o \in OptionSets : EditOptions(o))
          \/ (\E S \in AckSets : EditAcknowledged(S))
          \/ (\E S \in DeviceSets : RegisterDevice(S))
  <2>1. Keeps(f)
    BY <1>2 DEF vars, env, Tick, InventoryWritten, EditOptions, EditAcknowledged,
                RegisterDevice, Keeps
  <2>2. QED
    BY <2>1
<1>3. ASSUME NEW s \in [HostKey -> Status], ScanLands(s) PROVE Publishes(f) \/ Keeps(f)
  <2>1. Publish("unknown_hosts", ScanView(inv')) /\ disk' = disk
    BY <1>3 DEF ScanLands, Publish
  <2>2. inv' \in Inventory
    BY <1>3 DEF ScanLands, Inventory, TypeOK
  <2>3. ScanView(inv') \in FlagView("unknown_hosts")
    BY <2>2, Views
  <2>4. QED
    BY <1>1, <2>1, <2>3, PublishSteps
<1>4. CASE RepublishScan
  <2>1. Publish("unknown_hosts", ScanView(inv)) /\ disk' = disk
    BY <1>4 DEF RepublishScan, Publish
  <2>2. ScanView(inv) \in FlagView("unknown_hosts")
    BY Views DEF TypeOK
  <2>3. QED
    BY <1>1, <2>1, <2>2, PublishSteps
<1>5. ASSUME NEW c \in CveReads, CveLands(c) PROVE Publishes(f) \/ Keeps(f)
  <2>1. CASE c = Unread
    BY <1>5, <2>1 DEF CveLands, Keeps
  <2>2. CASE c # Unread
    <3>1. Publish("vulnerabilities", CveView(cve')) /\ disk' = disk
      BY <1>5, <2>2 DEF CveLands, Publish
    <3>2. cve'.stamp \in Nat
      BY <1>5 DEF CveLands, TypeOK
    <3>3. CveView(cve') \in FlagView("vulnerabilities")
      BY <3>2, Views
    <3>4. QED
      BY <1>1, <3>1, <3>3, PublishSteps
  <2>3. QED
    BY <2>1, <2>2
<1>6. CASE RepublishCve
  <2>1. Publish("vulnerabilities", CveView(cve)) /\ disk' = disk
    BY <1>6 DEF RepublishCve, Publish
  <2>2. CveView(cve) \in FlagView("vulnerabilities")
    BY Views DEF TypeOK
  <2>3. QED
    BY <1>1, <2>1, <2>2, PublishSteps
<1>7. ASSUME NEW g \in Flag, Retry(g) PROVE Retries(f) \/ Keeps(f)
  <2>1. /\ running /\ running' /\ disk' = disk /\ now' = now /\ savePending' = savePending
        /\ mon' = [mon EXCEPT ![g] = Proposed(mon[g], LivePolicy)]
        /\ hist' = [hist EXCEPT ![g].holdAt =
                IF mon'[g].held.state # mon[g].held.state THEN LivePolicy["hold"] ELSE @]
    BY <1>7, RetriedProposes DEF Retry, TypeOK
  <2>2. CASE f = g
    <3>1. mon'[f] = Proposed(mon[f], LivePolicy)
      BY <2>1, <2>2 DEF TypeOK
    <3>2. hist'[f] = [hist[f] EXCEPT !.holdAt = IF mon'[f].held.state # mon[f].held.state
                                               THEN LivePolicy["hold"] ELSE @]
      BY <2>1, <2>2 DEF TypeOK
    <3>3. QED
      BY <2>1, <3>1, <3>2 DEF Retries
  <2>3. CASE f # g
    <3>1. mon'[f] = mon[f] /\ hist'[f] = hist[f]
      BY <2>1, <2>3 DEF TypeOK
    <3>2. QED
      BY <2>1, <3>1 DEF Keeps
  <2>4. QED
    BY <2>2, <2>3
<1>8. CASE WriteSave
  BY <1>8 DEF WriteSave, AllSaved, Writes
<1>9. ASSUME NEW c \in CveReads, Start(c) PROVE Publishes(f) \/ Resumes(f)
  <2> DEFINE newCve == [count |-> c, stamp |-> cve.stamp + 1]
             reads(g) == g = "unknown_hosts" \/ c # Unread
             view == [g \in Flag |-> IF g = "unknown_hosts" THEN ScanView(invFile)
                                     ELSE CveView(newCve)]
             row(g) == Seeded(disk[g])
  <2>1. /\ ~running /\ running' /\ disk' = disk /\ now' = now
        /\ mon' = [g \in Flag |-> IF reads(g) THEN Published(g, row(g), view[g], LivePolicy)
                                  ELSE row(g)]
        /\ hist' = [g \in Flag |->
                      IF reads(g) THEN Noted(Restarted(hist[g]), g, row(g), view[g], LivePolicy)
                      ELSE Restarted(hist[g])]
        /\ savePending' = (\E g \in Flag : reads(g) /\ Transitions(g, row(g), view[g], LivePolicy) # {})
    BY <1>9 DEF Start
  <2>2. Base(f) = row(f) /\ BaseHist(f) = Restarted(hist[f])
    BY <2>1 DEF Base, BaseHist
  <2>3. newCve.stamp \in Nat
    BY DEF TypeOK
  <2>4. ScanView(invFile) \in FlagView("unknown_hosts")
    BY Views DEF TypeOK
  <2>5. CveView(newCve) \in FlagView("vulnerabilities")
    BY <2>3, Views
  <2>6. view[f] \in FlagView(f)
    <3> HIDE DEF newCve
    <3>1. QED
      BY <1>1, <2>4, <2>5
  <2>7. CASE reads(f)
    <3>1. /\ mon'[f] = Published(f, Base(f), view[f], LivePolicy)
          /\ hist'[f] = Noted(BaseHist(f), f, Base(f), view[f], LivePolicy)
      <4> HIDE DEF view, row
      <4>1. QED
        BY <2>1, <2>2, <2>7
    <3>2. Transitions(f, Base(f), view[f], LivePolicy) # {} => savePending'
      <4> HIDE DEF view, row
      <4>1. QED
        BY <2>1, <2>2, <2>7
    <3>3. QED
      <4> HIDE DEF view, row, reads
      <4>1. QED
        BY <2>1, <2>6, <3>1, <3>2 DEF Publishes
  <2>8. CASE ~reads(f)
    <3>1. mon'[f] = Base(f) /\ hist'[f] = BaseHist(f)
      <4> HIDE DEF view, row
      <4>1. QED
        BY <2>1, <2>2, <2>8
    <3>2. QED
      BY <2>1, <3>1 DEF Resumes
  <2>9. QED
    BY <2>7, <2>8
<1>10. ASSUME Stopped PROVE running /\ ~running' /\ now' = now /\ mon'[f] = FreshFlag
  BY <1>10 DEF Stopped
<1>11. CASE Unload
  BY <1>10, <1>11 DEF Unload, AllSaved, Stops
<1>12. CASE Shutdown
  BY <1>10, <1>12 DEF Shutdown, AllSaved, Stops
<1>13. CASE Crash
  BY <1>10, <1>13 DEF Crash, Stops
<1>14. QED
  BY <1>2, <1>3, <1>4, <1>5, <1>6, <1>7, <1>8, <1>9, <1>11, <1>12, <1>13 DEF Next

-----------------------------------------------------------------------------
(* The inductive invariant                                                 *)

\* What is confirmed has a detail, in memory and on disk.
DetailInv(f) ==
  /\ mon[f].deb.confirmed \subseteq mon[f].detail
  /\ disk[f].confirmed \subseteq disk[f].detail

\* The CVE flag has one key.
OneKeyInv(f) ==
  f = "vulnerabilities" =>
    mon[f].deb.confirmed \subseteq {CveKey} /\ disk[f].confirmed \subseteq {CveKey}

\* What is confirmed and not on disk has a write on its way and is remembered as unsaved.
SaveInv(f) ==
  running => /\ mon[f].deb.confirmed \ hist[f].unsaved \subseteq disk[f].confirmed
             /\ ~savePending => mon[f].deb.confirmed \subseteq disk[f].confirmed

\* What was announced is still confirmed, or was lost with the process.
AnnouncedInv(f) ==
  hist[f].announced \subseteq
    hist[f].lost \cup (IF running THEN mon[f].deb.confirmed ELSE disk[f].confirmed)

\* A deadline is the instant of the last flip plus the hold in force then, and it is
\* forgotten only once it has passed.
HoldInv(f) ==
  running => LET h == mon[f].held
             IN  /\ mon[f].timer = IF h.state # mon[f].wanted THEN h.heldUntil ELSE NoTime
                 /\ h.heldUntil # NoTime => /\ h.changedAt # NoTime
                                           /\ h.heldUntil = h.changedAt + hist[f].holdAt
                 /\ h.changedAt # NoTime /\ now < h.changedAt + hist[f].holdAt
                      => h.heldUntil = h.changedAt + hist[f].holdAt

MonitorInv ==
  /\ TypeOK
  /\ \A f \in Flag : DetailInv(f) /\ OneKeyInv(f) /\ SaveInv(f) /\ AnnouncedInv(f) /\ HoldInv(f)

-----------------------------------------------------------------------------
(* Facts about a flag before and after a step                              *)

\* What a step may use of the types.
LEMMA FlagTypes ==
  ASSUME TypeOK, NEW f \in Flag
  PROVE  /\ mon[f] \in FlagState /\ hist[f] \in History /\ disk[f] \in Row
         /\ Base(f) \in FlagState /\ BaseHist(f) \in History
         /\ Saved(mon[f]) \in Row
         /\ LivePolicy \in Policy /\ now \in Nat
<1>1. mon[f] \in FlagState /\ hist[f] \in History /\ disk[f] \in Row /\ now \in Nat
  BY DEF TypeOK
<1>2. LivePolicy \in Policy
  BY PolicyType DEF TypeOK
<1>3. Base(f) \in FlagState
  BY <1>1, SeededType DEF Base
<1>4. BaseHist(f) \in History
  BY <1>1 DEF BaseHist, Restarted, History
<1>5. QED
  BY <1>1, <1>2, <1>3, <1>4, SavedType

\* What a seeded flag holds.
LEMMA SeededParts ==
  ASSUME NEW row \in Row
  PROVE  /\ Seeded(row).deb.confirmed = row.confirmed
         /\ Seeded(row).detail = row.detail
         /\ Seeded(row).stamp = row.stamp
         /\ Seeded(row).held = FreshHeldFlag
         /\ Seeded(row).wanted = FALSE
         /\ Seeded(row).timer = NoTime
         /\ Seeded(row).deb = Seed(FreshDebouncer, row.confirmed)
<1>1. Seed(FreshDebouncer, row.confirmed).confirmed = row.confirmed
  BY SeedType DEF Row
<1>2. QED
  BY <1>1 DEF Seeded, FreshFlag

\* What Noted records.
LEMMA NotedParts ==
  ASSUME NEW h \in History, NEW f, NEW m, NEW view, NEW policy
  PROVE  LET n == Noted(h, f, m, view, policy)
             rising == Rising(f, m, view, policy)
             falling == Falling(f, m, view, policy)
         IN  /\ n.announced = ((h.announced \ view.forgotten) \cup rising) \ falling
             /\ n.unsaved = h.unsaved \cup rising \cup falling
             /\ n.lost = h.lost \ (rising \cup falling)
             /\ n.holdAt = IF Published(f, m, view, policy).held.state # m.held.state
                           THEN policy["hold"] ELSE h.holdAt
BY DEF Noted

\* What is fresh is empty.
LEMMA FreshParts ==
  /\ FreshFlag.deb.confirmed = {}
BY DEF FreshFlag, FreshDebouncer

-----------------------------------------------------------------------------
(* Each conjunct is preserved by each kind of step                         *)

\* The details cover what is confirmed, whichever of the six things a step does to a flag.
LEMMA DetailStep ==
  ASSUME TypeOK, NEW f \in Flag, DetailInv(f), OneKeyInv(f),
         Keeps(f) \/ Publishes(f) \/ Resumes(f) \/ Retries(f) \/ Writes(f) \/ Stops(f)
  PROVE  DetailInv(f)' /\ OneKeyInv(f)'
<1>1. /\ mon[f] \in FlagState /\ Base(f) \in FlagState /\ disk[f] \in Row
      /\ LivePolicy \in Policy /\ now \in Nat
  BY FlagTypes
<1>2. /\ Base(f).deb.confirmed \subseteq Base(f).detail
      /\ f = "vulnerabilities" => Base(f).deb.confirmed \subseteq {CveKey}
  BY <1>1, SeededParts DEF Base, DetailInv, OneKeyInv
<1>3. CASE Keeps(f)
  BY <1>3 DEF Keeps, DetailInv, OneKeyInv
<1>4. CASE Publishes(f)
  <2>1. PICK view \in FlagView(f) : mon'[f] = Published(f, Base(f), view, LivePolicy)
    BY <1>4 DEF Publishes
  <2>2. view \in View /\ (f = "vulnerabilities" => view.present \subseteq {CveKey})
    BY DEF FlagView
  <2>3. mon'[f].detail = Base(f).detail \cup Detailed(f, view)
    BY <1>1, <2>1, <2>2, PublishedParts
  <2>4. mon'[f].deb.confirmed \subseteq Base(f).deb.confirmed \cup view.present
    BY <1>1, <2>1, <2>2, ConfirmedBy
  <2>5. view.present \subseteq Detailed(f, view)
    BY <2>2 DEF Detailed
  <2>6. disk'[f] = disk[f]
    BY <1>4 DEF Publishes
  <2>7. QED
    BY <1>2, <2>2, <2>3, <2>4, <2>5, <2>6 DEF DetailInv, OneKeyInv
<1>5. CASE Resumes(f)
  BY <1>2, <1>5 DEF Resumes, DetailInv, OneKeyInv
<1>6. CASE Retries(f)
  <2>1. mon'[f].deb = mon[f].deb /\ mon'[f].detail = mon[f].detail
    BY <1>1, <1>6 DEF Retries, Proposed, FlagState
  <2>2. QED
    BY <1>6, <2>1 DEF Retries, DetailInv, OneKeyInv
<1>7. CASE Writes(f)
  <2>1. disk'[f].confirmed = mon[f].deb.confirmed
        /\ disk'[f].detail = mon[f].deb.confirmed \cap mon[f].detail
    BY <1>7 DEF Writes, Saved
  <2>2. QED
    BY <1>7, <2>1 DEF Writes, DetailInv, OneKeyInv
<1>8. CASE Stops(f)
  <2>1. mon'[f].deb.confirmed = {}
    BY <1>8, FreshParts DEF Stops
  <2>2. disk'[f] = Saved(mon[f]) \/ disk'[f] = disk[f]
    BY <1>8 DEF Stops
  <2>3. Saved(mon[f]).confirmed = mon[f].deb.confirmed
        /\ Saved(mon[f]).detail = mon[f].deb.confirmed \cap mon[f].detail
    BY DEF Saved
  <2>4. QED
    BY <2>1, <2>2, <2>3 DEF DetailInv, OneKeyInv
<1>9. QED
  BY <1>3, <1>4, <1>5, <1>6, <1>7, <1>8

\* Memory and file agree unless a write is pending; what was announced is confirmed, unsaved or lost.
LEMMA SaveStep ==
  ASSUME TypeOK, NEW f \in Flag, SaveInv(f), AnnouncedInv(f),
         Keeps(f) \/ Publishes(f) \/ Resumes(f) \/ Retries(f) \/ Writes(f) \/ Stops(f)
  PROVE  SaveInv(f)' /\ AnnouncedInv(f)'
<1>1. /\ mon[f] \in FlagState /\ Base(f) \in FlagState /\ disk[f] \in Row
      /\ hist[f] \in History /\ BaseHist(f) \in History
      /\ LivePolicy \in Policy /\ now \in Nat
  BY FlagTypes
<1>2. CASE Keeps(f)
  BY <1>2 DEF Keeps, SaveInv, AnnouncedInv
<1>3. /\ BaseHist(f).announced = hist[f].announced /\ BaseHist(f).lost = hist[f].lost
      /\ BaseHist(f).unsaved = hist[f].unsaved
  BY <1>1 DEF BaseHist, Restarted, History
<1>4. Base(f).deb.confirmed = IF running THEN mon[f].deb.confirmed ELSE disk[f].confirmed
  BY <1>1, SeededParts DEF Base
<1>5. CASE Publishes(f)
  <2>1. PICK view \in FlagView(f) :
          /\ mon'[f] = Published(f, Base(f), view, LivePolicy)
          /\ hist'[f] = Noted(BaseHist(f), f, Base(f), view, LivePolicy)
          /\ Transitions(f, Base(f), view, LivePolicy) # {} => savePending'
    BY <1>5 DEF Publishes
  <2> DEFINE rising == Rising(f, Base(f), view, LivePolicy)
             falling == Falling(f, Base(f), view, LivePolicy)
             kept == Base(f).deb.confirmed \ view.forgotten
  <2>2. view \in View
    BY DEF FlagView
  <2>3. /\ mon'[f].deb.confirmed = (kept \cup rising) \ falling
        /\ falling \subseteq kept \ view.present
        /\ rising \subseteq view.present \ kept
    BY <1>1, <2>1, <2>2, ConfirmedBy
  <2>4. /\ hist'[f].announced = ((hist[f].announced \ view.forgotten) \cup rising) \ falling
        /\ hist'[f].unsaved = hist[f].unsaved \cup rising \cup falling
        /\ hist'[f].lost = hist[f].lost \ (rising \cup falling)
    BY <1>1, <1>3, <2>1, NotedParts
  <2>5. rising \cup falling # {} => savePending'
    BY <2>1 DEF Transitions
  <2>6. running' /\ disk'[f] = disk[f] /\ (running /\ savePending => savePending')
    BY <1>5 DEF Publishes
  <2>7. QED
    <3> HIDE DEF rising, falling
    <3>1. SaveInv(f)'
      BY <1>4, <2>3, <2>4, <2>5, <2>6 DEF SaveInv
    <3>2. AnnouncedInv(f)'
      BY <1>4, <2>3, <2>4, <2>6 DEF AnnouncedInv
    <3>3. QED
      BY <3>1, <3>2
<1>6. CASE Resumes(f)
  BY <1>3, <1>4, <1>6 DEF Resumes, SaveInv, AnnouncedInv
<1>7. CASE Retries(f)
  <2>1. mon'[f].deb = mon[f].deb
    BY <1>1, <1>7 DEF Retries, Proposed, FlagState
  <2>2. hist'[f].announced = hist[f].announced /\ hist'[f].lost = hist[f].lost
        /\ hist'[f].unsaved = hist[f].unsaved
    BY <1>1, <1>7 DEF Retries, History
  <2>3. QED
    BY <1>7, <2>1, <2>2 DEF Retries, SaveInv, AnnouncedInv
<1>8. hist'[f] = [hist[f] EXCEPT !.unsaved = {}]
        => hist'[f].announced = hist[f].announced /\ hist'[f].lost = hist[f].lost
  BY <1>1 DEF History
<1>9. Saved(mon[f]).confirmed = mon[f].deb.confirmed
  BY DEF Saved
<1>10. CASE Writes(f)
  BY <1>8, <1>9, <1>10 DEF Writes, SaveInv, AnnouncedInv
<1>11. CASE Stops(f)
  <2>1. running /\ ~running'
    BY <1>11 DEF Stops
  <2>2. CASE /\ disk'[f] = Saved(mon[f]) \/ (disk'[f] = disk[f] /\ ~savePending)
             /\ hist'[f] = [hist[f] EXCEPT !.unsaved = {}]
    BY <1>8, <1>9, <2>1, <2>2 DEF SaveInv, AnnouncedInv
  <2>3. CASE /\ disk'[f] = disk[f]
             /\ hist'[f] = [hist[f] EXCEPT !.lost = @ \cup hist[f].unsaved, !.unsaved = {}]
    <3>1. /\ hist'[f].announced = hist[f].announced
          /\ hist'[f].lost = hist[f].lost \cup hist[f].unsaved
      BY <1>1, <2>3 DEF History
    <3>2. QED
      BY <2>1, <2>3, <3>1 DEF SaveInv, AnnouncedInv
  <2>4. QED
    BY <1>11, <2>2, <2>3 DEF Stops
<1>12. QED
  BY <1>2, <1>5, <1>6, <1>7, <1>10, <1>11

\* The hold after a proposal: kept or over, or started by a flip.
LEMMA ProposeParts ==
  ASSUME NEW h \in HeldFlag, NEW wanted \in BOOLEAN, NEW t \in Nat, NEW policy \in Policy
  PROVE  LET n == Propose(h, wanted, t, policy)
         IN  \/ /\ n.state = h.state /\ n.changedAt = h.changedAt
                /\ n.heldUntil = h.heldUntil \/ (n.heldUntil = NoTime /\ t >= h.heldUntil)
                /\ n.state # wanted => n.heldUntil # NoTime
             \/ /\ n.state = wanted /\ n.state # h.state
                /\ h.heldUntil = NoTime \/ t >= h.heldUntil
                /\ n.changedAt = t
                /\ n.heldUntil = IF policy["hold"] > 0 THEN t + policy["hold"] ELSE NoTime
<1> DEFINE until == HoldAt(h, t)
           n == Propose(h, wanted, t, policy)
<1>1. until = h.heldUntil \/ (until = NoTime /\ t >= h.heldUntil)
  BY DEF HoldAt
<1>2. until # NoTime \/ h.heldUntil = NoTime \/ t >= h.heldUntil
  BY <1>1
<1>3. CASE wanted = h.state
  BY <1>1, <1>3 DEF Propose, HeldFlag
<1>4. CASE wanted # h.state /\ until # NoTime
  <2>1. n = h
    BY <1>4 DEF Propose
  <2>2. until = h.heldUntil
    BY <1>1, <1>4
  <2>3. n.state = h.state /\ n.changedAt = h.changedAt /\ n.heldUntil = h.heldUntil
    BY <2>1 DEF HeldFlag
  <2>4. QED
    BY <1>4, <2>2, <2>3
<1>5. CASE wanted # h.state /\ until = NoTime
  <2>1. n = [state |-> wanted, changedAt |-> t,
             heldUntil |-> IF policy["hold"] > 0 THEN t + policy["hold"] ELSE NoTime]
    BY <1>5 DEF Propose
  <2>2. QED
    BY <1>2, <1>5, <2>1
<1>6. QED
  BY <1>3, <1>4, <1>5

\* What a flag's hold looks like after a proposal and the timer that goes with it.
LEMMA HoldKept ==
  ASSUME NEW h \in HeldFlag, NEW wanted \in BOOLEAN, NEW t \in Nat, NEW policy \in Policy,
         NEW at \in Nat,
         h.heldUntil # NoTime => h.changedAt # NoTime /\ h.heldUntil = h.changedAt + at,
         h.changedAt # NoTime /\ t < h.changedAt + at => h.heldUntil = h.changedAt + at
  PROVE  LET n == Propose(h, wanted, t, policy)
             after == IF n.state # h.state THEN policy["hold"] ELSE at
         IN  /\ n.heldUntil # NoTime => n.changedAt # NoTime /\ n.heldUntil = n.changedAt + after
             /\ n.changedAt # NoTime /\ t < n.changedAt + after
                  => n.heldUntil = n.changedAt + after
             /\ n.state # wanted => n.heldUntil # NoTime
             /\ n.state # h.state /\ h.changedAt # NoTime => t >= h.changedAt + at
<1> DEFINE n == Propose(h, wanted, t, policy)
<1>1. policy["hold"] \in Nat
  BY DEF Policy, PolicyField
<1>2. h.changedAt \in Nat \cup {NoTime} /\ h.heldUntil \in Nat \cup {NoTime}
  BY DEF HeldFlag
<1>3. CASE /\ n.state = h.state /\ n.changedAt = h.changedAt
           /\ n.heldUntil = h.heldUntil \/ (n.heldUntil = NoTime /\ t >= h.heldUntil)
           /\ n.state # wanted => n.heldUntil # NoTime
  <2> HIDE DEF n
  <2>1. QED
    BY <1>2, <1>3 DEF n, NoTime
<1>4. CASE /\ n.state = wanted /\ n.state # h.state
           /\ h.heldUntil = NoTime \/ t >= h.heldUntil
           /\ n.changedAt = t
           /\ n.heldUntil = IF policy["hold"] > 0 THEN t + policy["hold"] ELSE NoTime
  <2>1. n.heldUntil # NoTime => n.heldUntil = n.changedAt + policy["hold"]
    BY <1>4
  <2>2. n.changedAt # NoTime
    BY <1>4 DEF NoTime
  <2>3. t < n.changedAt + policy["hold"] => n.heldUntil = n.changedAt + policy["hold"]
    BY <1>1, <1>4
  <2>4. h.changedAt # NoTime => t >= h.changedAt + at
    BY <1>2, <1>4 DEF NoTime
  <2>5. QED
    <3> HIDE DEF n
    <3>1. QED
      BY <1>4, <2>1, <2>2, <2>3, <2>4 DEF n
<1>5. QED
  BY <1>3, <1>4, ProposeParts

\* What HoldRespected says of one flag.
HoldRespectedBy(f) ==
  running /\ running' /\ mon'[f].held.state # mon[f].held.state /\ mon[f].held.changedAt # NoTime
    => now >= mon[f].held.changedAt + hist[f].holdAt

\* The retry timer is that of the hold of the last flip, and no flip comes before the hold is over.
LEMMA HoldStep ==
  ASSUME TypeOK, NEW f \in Flag, HoldInv(f),
         Keeps(f) \/ Publishes(f) \/ Resumes(f) \/ Retries(f) \/ Writes(f) \/ Stops(f)
  PROVE  HoldInv(f)' /\ HoldRespectedBy(f)
<1>1. /\ mon[f] \in FlagState /\ Base(f) \in FlagState /\ disk[f] \in Row
      /\ hist[f] \in History /\ BaseHist(f) \in History
      /\ LivePolicy \in Policy /\ now \in Nat
  BY FlagTypes
<1> DEFINE h == Base(f).held
           at == BaseHist(f).holdAt
<1>2. h \in HeldFlag /\ at \in Nat
  BY <1>1 DEF FlagState, History
<1>3. ~running => h.heldUntil = NoTime /\ h.changedAt = NoTime /\ h.state = FALSE
                  /\ Base(f).wanted = FALSE /\ Base(f).timer = NoTime
  <2>1. ~running => Base(f) = Seeded(disk[f])
    BY DEF Base
  <2>2. /\ Seeded(disk[f]).held = FreshHeldFlag /\ Seeded(disk[f]).wanted = FALSE
        /\ Seeded(disk[f]).timer = NoTime
    BY <1>1, SeededParts
  <2>3. QED
    BY <2>1, <2>2 DEF FreshHeldFlag
<1>4. /\ h.heldUntil # NoTime => h.changedAt # NoTime /\ h.heldUntil = h.changedAt + at
      /\ h.changedAt # NoTime /\ now < h.changedAt + at => h.heldUntil = h.changedAt + at
  <2>1. CASE running
    BY <2>1 DEF HoldInv, Base, BaseHist
  <2>2. CASE ~running
    BY <1>3, <2>2
  <2>3. QED
    BY <2>1, <2>2
<1>5. running => h = mon[f].held /\ at = hist[f].holdAt
  BY DEF Base, BaseHist
<1>6. CASE Keeps(f)
  <2>1. mon'[f] = mon[f] /\ hist'[f] = hist[f] /\ running' = running /\ now' \in {now, now + 1}
    BY <1>6 DEF Keeps
  <2>2. mon[f].held.changedAt \in Int /\ hist[f].holdAt \in Nat
    BY <1>1 DEF FlagState, HeldFlag, History, NoTime
  <2>3. running => (now' < mon[f].held.changedAt + hist[f].holdAt
                      => now < mon[f].held.changedAt + hist[f].holdAt)
    BY <1>1, <2>1, <2>2
  <2>4. QED
    BY <2>1, <2>3 DEF HoldInv, HoldRespectedBy
<1>7. CASE Publishes(f)
  <2>1. PICK view \in FlagView(f) :
          /\ mon'[f] = Published(f, Base(f), view, LivePolicy)
          /\ hist'[f] = Noted(BaseHist(f), f, Base(f), view, LivePolicy)
    BY <1>7 DEF Publishes
  <2>2. view \in View
    BY DEF FlagView
  <2>3. mon'[f] \in FlagState
    BY <1>1, <2>1, <2>2, PublishedType
  <2>4. /\ mon'[f].held = Propose(h, mon'[f].wanted, now, LivePolicy)
        /\ mon'[f].timer = IF mon'[f].held.state # mon'[f].wanted
                                /\ mon'[f].held.heldUntil # NoTime
                           THEN mon'[f].held.heldUntil ELSE NoTime
    BY <1>1, <2>1, <2>2, PublishedParts
  <2>5. hist'[f].holdAt = IF mon'[f].held.state # h.state THEN LivePolicy["hold"] ELSE at
    BY <1>1, <2>1, NotedParts
  <2>6. mon'[f].wanted \in BOOLEAN
    BY <2>3 DEF FlagState
  <2>7. now' = now /\ running'
    BY <1>7 DEF Publishes
  <2>8. QED
    <3> HIDE DEF h, at
    <3>1. /\ mon'[f].held.heldUntil # NoTime
                => /\ mon'[f].held.changedAt # NoTime
                   /\ mon'[f].held.heldUntil = mon'[f].held.changedAt + hist'[f].holdAt
          /\ mon'[f].held.changedAt # NoTime /\ now < mon'[f].held.changedAt + hist'[f].holdAt
                => mon'[f].held.heldUntil = mon'[f].held.changedAt + hist'[f].holdAt
          /\ mon'[f].held.state # mon'[f].wanted => mon'[f].held.heldUntil # NoTime
          /\ mon'[f].held.state # h.state /\ h.changedAt # NoTime => now >= h.changedAt + at
      BY <1>1, <1>2, <1>4, <2>4, <2>5, <2>6, HoldKept
    <3>2. QED
      BY <1>5, <2>4, <2>7, <3>1 DEF HoldInv, HoldRespectedBy
<1>8. CASE Resumes(f)
  <2>1. mon'[f] = Base(f) /\ running' /\ ~running
    BY <1>8 DEF Resumes
  <2>2. QED
    BY <1>3, <2>1 DEF HoldInv, HoldRespectedBy
<1>9. CASE Retries(f)
  <2>1. mon'[f] = Proposed(mon[f], LivePolicy) /\ running /\ running' /\ now' = now
    BY <1>9 DEF Retries
  <2>2. /\ mon'[f].wanted = mon[f].wanted
        /\ mon'[f].held = Propose(mon[f].held, mon[f].wanted, now, LivePolicy)
        /\ mon'[f].timer = IF mon'[f].held.state # mon'[f].wanted
                                /\ mon'[f].held.heldUntil # NoTime
                           THEN mon'[f].held.heldUntil ELSE NoTime
    BY <1>1, <2>1 DEF Proposed, FlagState
  <2>3. hist'[f].holdAt = IF mon'[f].held.state # mon[f].held.state
                          THEN LivePolicy["hold"] ELSE hist[f].holdAt
    BY <1>1, <1>9 DEF Retries, History
  <2>4. mon[f].wanted \in BOOLEAN
    BY <1>1 DEF FlagState
  <2>5. QED
    <3> HIDE DEF h, at
    <3>1. /\ mon'[f].held.heldUntil # NoTime
                => /\ mon'[f].held.changedAt # NoTime
                   /\ mon'[f].held.heldUntil = mon'[f].held.changedAt + hist'[f].holdAt
          /\ mon'[f].held.changedAt # NoTime /\ now < mon'[f].held.changedAt + hist'[f].holdAt
                => mon'[f].held.heldUntil = mon'[f].held.changedAt + hist'[f].holdAt
          /\ mon'[f].held.state # mon'[f].wanted => mon'[f].held.heldUntil # NoTime
          /\ mon'[f].held.state # h.state /\ h.changedAt # NoTime => now >= h.changedAt + at
      BY <1>1, <1>2, <1>4, <1>5, <2>1, <2>2, <2>3, <2>4, HoldKept
    <3>2. QED
      BY <1>5, <2>1, <2>2, <3>1 DEF HoldInv, HoldRespectedBy
<1>10. CASE Writes(f)
  <2>1. hist'[f].holdAt = hist[f].holdAt
    BY <1>1, <1>10 DEF Writes, History
  <2>2. mon'[f] = mon[f] /\ now' = now /\ running
    BY <1>10 DEF Writes
  <2>3. QED
    BY <2>1, <2>2 DEF HoldInv, HoldRespectedBy
<1>11. CASE Stops(f)
  BY <1>11 DEF Stops, HoldInv, HoldRespectedBy
<1>12. QED
  BY <1>6, <1>7, <1>8, <1>9, <1>10, <1>11

-----------------------------------------------------------------------------
LEMMA InitMonitorInv == Init => MonitorInv
<1>1. Init => TypeOK
  BY InitType
<1>2. ASSUME Init, NEW f \in Flag
      PROVE  DetailInv(f) /\ OneKeyInv(f) /\ SaveInv(f) /\ AnnouncedInv(f) /\ HoldInv(f)
  <2>1. mon[f] = FreshFlag /\ hist[f] = FreshHistory /\ ~running
        /\ disk[f] = [confirmed |-> {}, stamp |-> NoStamp, detail |-> {}]
    BY <1>2 DEF Init
  <2>2. hist[f].announced = {}
    BY <2>1 DEF FreshHistory
  <2>3. QED
    BY <2>1, <2>2, FreshParts DEF DetailInv, OneKeyInv, SaveInv, AnnouncedInv, HoldInv
<1>3. QED
  BY <1>1, <1>2 DEF MonitorInv

LEMMA NextMonitorInv ==
  ASSUME MonitorInv, [Next]_vars
  PROVE  MonitorInv'
<1>1. TypeOK'
  BY NextType DEF MonitorInv
<1>2. ASSUME NEW f \in Flag
      PROVE  DetailInv(f)' /\ OneKeyInv(f)' /\ SaveInv(f)' /\ AnnouncedInv(f)' /\ HoldInv(f)'
  BY StepOf, DetailStep, SaveStep, HoldStep DEF MonitorInv
<1>3. QED
  BY <1>1, <1>2 DEF MonitorInv

\* Everything the safety theorems rest on holds of every reachable state.
THEOREM MonitorInvariant == Spec => []MonitorInv
<1>1. QED
  BY InitMonitorInv, NextMonitorInv, PTL DEF Spec

\* A flag that shows something other than what is wanted always has a timer set for
\* the instant its hold ends, and no other timer is ever left behind (alerts.py's
\* _propose and _schedule_retry).
THEOREM DeferredFlipHasTimerHolds == Spec => []DeferredFlipHasTimer
<1>1. MonitorInv => DeferredFlipHasTimer
  BY DEF MonitorInv, HoldInv, DeferredFlipHasTimer
<1>2. QED
  BY <1>1, MonitorInvariant, PTL

\* No timer is set later than the end of the hold the last flip started: a deferral
\* is not extended by whatever is published or edited meanwhile.
THEOREM DeferralIsBoundedHolds == Spec => []DeferralIsBounded
<1>1. MonitorInv => DeferralIsBounded
  <2>1. SUFFICES ASSUME MonitorInv, running, NEW f \in Flag, mon[f].timer # NoTime
                 PROVE  mon[f].timer <= mon[f].held.changedAt + hist[f].holdAt
    BY DEF DeferralIsBounded
  <2>2. mon[f].timer = mon[f].held.changedAt + hist[f].holdAt
    BY <2>1 DEF MonitorInv, HoldInv
  <2>3. mon[f].timer \in Int
    BY <2>1 DEF MonitorInv, TypeOK, FlagState, NoTime
  <2>4. QED
    BY <2>2, <2>3
<1>2. QED
  BY <1>1, MonitorInvariant, PTL

\* A flag that has flipped does not flip again before its hold is over, for any
\* interleaving of publishes, retries and option edits.
THEOREM HoldRespectedHolds == Spec => HoldRespected
<1>1. MonitorInv /\ [Next]_vars =>
        [running /\ running' => \A f \in Flag :
           mon'[f].held.state # mon[f].held.state /\ mon[f].held.changedAt # NoTime
             => now >= mon[f].held.changedAt + hist[f].holdAt]_vars
  BY StepOf, HoldStep DEF MonitorInv, HoldRespectedBy
<1>2. QED
  BY <1>1, MonitorInvariant, PTL DEF Spec, HoldRespected

\* Every confirmed finding has the detail a cleared event names it by, across any
\* sequence of restarts and crashes.
THEOREM ClearedFindingHasDetailHolds == Spec => []ClearedFindingHasDetail
<1>1. MonitorInv => ClearedFindingHasDetail
  BY DEF MonitorInv, DetailInv, ClearedFindingHasDetail
<1>2. QED
  BY <1>1, MonitorInvariant, PTL

\* With no write pending, what is confirmed is on disk.
THEOREM ConfirmedIsOnDiskHolds == Spec => []ConfirmedIsOnDisk
<1>1. MonitorInv => ConfirmedIsOnDisk
  BY DEF MonitorInv, SaveInv, ConfirmedIsOnDisk
<1>2. QED
  BY <1>1, MonitorInvariant, PTL

\* A finding announced and not withdrawn is announced a second time only when the
\* process died before its announcement reached the disk.
THEOREM NoSecondAnnouncementHolds == Spec => NoSecondAnnouncement
<1>1. ASSUME MonitorInv, [Next]_vars, running', NEW f \in Flag
      PROVE  (mon'[f].deb.confirmed \ Before(f)) \cap hist[f].announced \subseteq hist[f].lost
  <2>1. hist[f].announced \subseteq hist[f].lost \cup Before(f)
    BY <1>1 DEF MonitorInv, AnnouncedInv, Before
  <2>2. QED
    BY <2>1
<1>2. MonitorInv /\ [Next]_vars =>
        [running' => \A f \in Flag :
           (mon'[f].deb.confirmed \ Before(f)) \cap hist[f].announced \subseteq hist[f].lost]_vars
  BY <1>1
<1>3. QED
  BY <1>2, MonitorInvariant, PTL DEF Spec, NoSecondAnnouncement
-----------------------------------------------------------------------------
(* The counters are those of the promise                                   *)

\* A debouncer counts a finding in the direction it may still move, and counts
\* there what the history counts.
CountersOf(m, h) ==
  \A k \in Key : IF k \in m.deb.confirmed THEN m.deb.falling[k] = h.outRun[k]
                 ELSE m.deb.rising[k] = h.inRun[k]

\* What AlertPromise calls a new scan and a forgetting, in terms of one publish.
LEMMA RunsOfPublish ==
  ASSUME NEW h \in History, NEW f, NEW m, NEW view, NEW policy
  PROVE  LET n == Noted(h, f, m, view, policy)
         IN  /\ Counts(m, view) =>
                  /\ n.counted = h.counted \cup {view.stamp}
                  /\ n.inRun = [k \in Key |-> IF k \notin view.present THEN 0
                                              ELSE IF k \in view.forgotten THEN 1 ELSE h.inRun[k] + 1]
                  /\ n.outRun = [k \in Key |-> IF k \notin Key \ view.present THEN 0
                                               ELSE IF k \in view.forgotten THEN 1 ELSE h.outRun[k] + 1]
             /\ ~Counts(m, view) =>
                  /\ n.counted = h.counted
                  /\ n.inRun = [k \in Key |-> IF k \in view.forgotten THEN 0 ELSE h.inRun[k]]
                  /\ n.outRun = [k \in Key |-> IF k \in view.forgotten THEN 0 ELSE h.outRun[k]]
<1> DEFINE n == Noted(h, f, m, view, policy)
<1>1. /\ n.counted = IF Counts(m, view) THEN h.counted \cup {view.stamp} ELSE h.counted
      /\ n.inRun = Run(h.inRun, view.forgotten, Counts(m, view), view.present)
      /\ n.outRun = Run(h.outRun, view.forgotten, Counts(m, view), Key \ view.present)
  BY DEF Noted
<1>2. \A run \in [Key -> Nat] : \A grow :
        /\ Run(run, view.forgotten, TRUE, grow) =
             [k \in Key |-> IF k \notin grow THEN 0 ELSE IF k \in view.forgotten THEN 1 ELSE run[k] + 1]
        /\ Run(run, view.forgotten, FALSE, grow) =
             [k \in Key |-> IF k \in view.forgotten THEN 0 ELSE run[k]]
  BY DEF Run
<1>3. h.inRun \in [Key -> Nat] /\ h.outRun \in [Key -> Nat]
  BY DEF History
<1>4. Counts(m, view) \in BOOLEAN
  BY DEF Counts
<1>5. CASE Counts(m, view)
  <2>1. /\ n.inRun = Run(h.inRun, view.forgotten, TRUE, view.present)
        /\ n.outRun = Run(h.outRun, view.forgotten, TRUE, Key \ view.present)
    BY <1>1, <1>4, <1>5
  <2>2. QED
    BY <1>1, <1>2, <1>3, <1>5, <2>1
<1>6. CASE ~Counts(m, view)
  <2>1. /\ n.inRun = Run(h.inRun, view.forgotten, FALSE, view.present)
        /\ n.outRun = Run(h.outRun, view.forgotten, FALSE, Key \ view.present)
    BY <1>1, <1>4, <1>6
  <2>2. QED
    BY <1>1, <1>2, <1>3, <1>6, <2>1
<1>7. QED
  BY <1>5, <1>6

\* What is reported of the findings in `kept` by the runs after a scan.
Reported(kept, present, inRun, outRun, policy) ==
  {k \in kept : k \in present \/ outRun[k] < policy["clear"]}
    \cup {k \in present \ kept : inRun[k] >= policy["confirm"]}

\* A publish that counts keeps the counters and reports by the runs; one that does
\* not count only forgets.
LEMMA CountersOfPublish ==
  ASSUME NEW f \in Flag, NEW m \in FlagState, NEW h \in History, NEW view \in View,
         NEW policy \in Policy, now \in Nat, CountersOf(m, h)
  PROVE  /\ CountersOf(Published(f, m, view, policy), Noted(h, f, m, view, policy))
         /\ Counts(m, view) =>
              Published(f, m, view, policy).deb.confirmed =
                Reported(m.deb.confirmed \ view.forgotten, view.present,
                         Noted(h, f, m, view, policy).inRun,
                         Noted(h, f, m, view, policy).outRun, policy)
         /\ ~Counts(m, view) =>
              Published(f, m, view, policy).deb.confirmed = m.deb.confirmed \ view.forgotten
<1> DEFINE n    == Published(f, m, view, policy)
           hn   == Noted(h, f, m, view, policy)
           kept == m.deb.confirmed \ view.forgotten
           d    == Forget(m.deb, view.forgotten)
<1>0. /\ Counts(m, view) =>
           /\ hn.inRun = [k \in Key |-> IF k \notin view.present THEN 0
                                       ELSE IF k \in view.forgotten THEN 1 ELSE h.inRun[k] + 1]
           /\ hn.outRun = [k \in Key |-> IF k \notin Key \ view.present THEN 0
                                        ELSE IF k \in view.forgotten THEN 1 ELSE h.outRun[k] + 1]
      /\ ~Counts(m, view) =>
           /\ hn.inRun = [k \in Key |-> IF k \in view.forgotten THEN 0 ELSE h.inRun[k]]
           /\ hn.outRun = [k \in Key |-> IF k \in view.forgotten THEN 0 ELSE h.outRun[k]]
  BY RunsOfPublish
<1>1. /\ m.deb \in Debouncer /\ view.present \in SUBSET Key /\ kept \in SUBSET Key
      /\ h.inRun \in [Key -> Nat] /\ h.outRun \in [Key -> Nat]
      /\ policy["confirm"] \in Nat /\ policy["clear"] \in Nat
  BY DEF FlagState, View, History, Debouncer, Policy, PolicyField
<1>2. n.deb = IF Counts(m, view) THEN Observe(d, view.present, policy) ELSE d
  BY PublishedParts
<1>3. /\ d.confirmed = kept
      /\ d.rising = [k \in Key |-> IF k \in view.forgotten THEN 0 ELSE m.deb.rising[k]]
      /\ d.falling = [k \in Key |-> IF k \in view.forgotten THEN 0 ELSE m.deb.falling[k]]
  BY DEF Forget
<1>4. ASSUME NEW k \in Key
      PROVE  /\ k \in kept => d.falling[k] = h.outRun[k] /\ k \notin view.forgotten
             /\ k \notin kept /\ k \notin view.forgotten => d.rising[k] = h.inRun[k]
             /\ k \in view.forgotten => d.rising[k] = 0
  BY <1>3 DEF CountersOf
<1>5. CASE Counts(m, view)
  <2> DEFINE asserted == Asserted(d, view.present, policy)
             cleared  == Cleared(d, view.present, policy)
  <2>1. /\ hn.inRun = [k \in Key |-> IF k \notin view.present THEN 0
                                     ELSE IF k \in view.forgotten THEN 1 ELSE h.inRun[k] + 1]
        /\ hn.outRun = [k \in Key |-> IF k \notin Key \ view.present THEN 0
                                      ELSE IF k \in view.forgotten THEN 1 ELSE h.outRun[k] + 1]
    BY <1>0, <1>5
  <2>2. /\ n.deb.confirmed = (kept \cup asserted) \ cleared
        /\ n.deb.rising = [k \in Key |-> IF k \notin view.present \/ k \in asserted THEN 0
                                         ELSE IF k \in kept THEN d.rising[k]
                                         ELSE d.rising[k] + 1]
        /\ n.deb.falling = [k \in Key |->
                              IF k \in cleared \/ k \in view.present \cap (kept \cup asserted) THEN 0
                              ELSE IF k \notin kept THEN d.falling[k]
                              ELSE d.falling[k] + 1]
    <3> HIDE DEF n
    <3>1. QED
      BY <1>2, <1>3, <1>5 DEF Observe
  <2>3. asserted = {k \in view.present \ kept : d.rising[k] + 1 >= policy["confirm"]}
    BY <1>3 DEF Asserted
  <2>4. cleared = {k \in kept \ view.present : d.falling[k] + 1 >= policy["clear"]}
    BY <1>3 DEF Cleared
  <2>5. ASSUME NEW k \in Key
        PROVE  /\ k \in view.present \ kept => hn.inRun[k] = d.rising[k] + 1
               /\ k \in kept \ view.present => hn.outRun[k] = d.falling[k] + 1
               /\ k \notin view.present => hn.inRun[k] = 0
               /\ k \in view.present => hn.outRun[k] = 0
    <3> HIDE DEF hn, d, kept
    <3>1. QED
      BY <1>1, <1>4, <2>1
  <2>6. /\ asserted = {k \in view.present \ kept : hn.inRun[k] >= policy["confirm"]}
        /\ cleared = {k \in kept \ view.present : ~(hn.outRun[k] < policy["clear"])}
    <3>1. \A k \in Key : d.falling[k] + 1 \in Nat
      BY <1>1, <1>3 DEF Debouncer
    <3>2. QED
      <4> HIDE DEF hn, d, kept, asserted, cleared
      <4>1. QED
        BY <1>1, <2>3, <2>4, <2>5, <3>1
  <2>7. n.deb.confirmed = Reported(kept, view.present, hn.inRun, hn.outRun, policy)
    <3> HIDE DEF n, hn, d, kept, asserted, cleared
    <3>1. QED
      BY <2>2, <2>6 DEF Reported
  <2>8. CountersOf(n, hn)
    <3>1. ASSUME NEW k \in Key
          PROVE  /\ k \in n.deb.confirmed => n.deb.falling[k] = hn.outRun[k]
                 /\ k \notin n.deb.confirmed => n.deb.rising[k] = hn.inRun[k]
      <4> HIDE DEF n, hn, d, kept
      <4>1. asserted \cap kept = {} /\ cleared \subseteq kept \ view.present
            /\ asserted \subseteq view.present
        BY <2>3, <2>4
      <4> HIDE DEF asserted, cleared
      <4>2. QED
        BY <2>2, <2>5, <3>1, <4>1
    <3>2. QED
      BY <3>1 DEF CountersOf
  <2>9. QED
    BY <1>5, <2>7, <2>8
<1>6. CASE ~Counts(m, view)
  <2>1. /\ hn.inRun = [k \in Key |-> IF k \in view.forgotten THEN 0 ELSE h.inRun[k]]
        /\ hn.outRun = [k \in Key |-> IF k \in view.forgotten THEN 0 ELSE h.outRun[k]]
    BY <1>0, <1>6
  <2>2. n.deb = d
    BY <1>2, <1>6
  <2>3. CountersOf(n, hn)
    <3> HIDE DEF n, hn, d, kept
    <3>1. QED
      BY <1>3, <1>4, <2>1, <2>2 DEF CountersOf
  <2>4. QED
    BY <1>3, <1>6, <2>2, <2>3
<1>7. QED
  BY <1>5, <1>6

\* What a flag resumes from has counted nothing.
LEMMA CountersOfBase ==
  ASSUME TypeOK, NEW f \in Flag, running => CountersOf(mon[f], hist[f])
  PROVE  CountersOf(Base(f), BaseHist(f))
<1>1. CASE running
  BY <1>1 DEF Base, BaseHist
<1>2. CASE ~running
  <2>1. Base(f).deb = Seed(FreshDebouncer, disk[f].confirmed) /\ BaseHist(f) = Restarted(hist[f])
    BY <1>2, FlagTypes, SeededParts DEF Base, BaseHist
  <2>2. \A k \in Key : Base(f).deb.rising[k] = 0 /\ Base(f).deb.falling[k] = 0
    BY <2>1 DEF Seed, FreshDebouncer
  <2>3. hist[f] \in History
    BY FlagTypes
  <2>4. BaseHist(f).inRun = [k \in Key |-> 0] /\ BaseHist(f).outRun = [k \in Key |-> 0]
    BY <2>1, <2>3 DEF Restarted, History
  <2>5. QED
    BY <2>2, <2>4 DEF CountersOf
<1>3. QED
  BY <1>1, <1>2

\* A debouncer counts a finding in the one direction it may move, as the history does.
LEMMA CountersStep ==
  ASSUME TypeOK, NEW f \in Flag, running => CountersOf(mon[f], hist[f]),
         Keeps(f) \/ Publishes(f) \/ Resumes(f) \/ Retries(f) \/ Writes(f) \/ Stops(f)
  PROVE  (running => CountersOf(mon[f], hist[f]))'
<1>1. /\ mon[f] \in FlagState /\ Base(f) \in FlagState
      /\ hist[f] \in History /\ BaseHist(f) \in History
      /\ LivePolicy \in Policy /\ now \in Nat
  BY FlagTypes
<1>2. CountersOf(Base(f), BaseHist(f))
  BY CountersOfBase
<1>3. CASE Publishes(f)
  <2>1. PICK view \in FlagView(f) :
          /\ mon'[f] = Published(f, Base(f), view, LivePolicy)
          /\ hist'[f] = Noted(BaseHist(f), f, Base(f), view, LivePolicy)
    BY <1>3 DEF Publishes
  <2>2. view \in View
    BY DEF FlagView
  <2>3. CountersOf(Published(f, Base(f), view, LivePolicy),
                   Noted(BaseHist(f), f, Base(f), view, LivePolicy))
    BY <1>1, <1>2, <2>2, CountersOfPublish
  <2>4. CountersOf(mon'[f], hist'[f])
    BY <2>1, <2>3
  <2>5. QED
    BY <2>4 DEF CountersOf
<1>4. CASE Keeps(f)
  BY <1>4 DEF Keeps, CountersOf
<1>5. CASE Resumes(f)
  BY <1>2, <1>5 DEF Resumes, CountersOf
<1>6. CASE Retries(f)
  <2>1. mon'[f].deb = mon[f].deb
    BY <1>1, <1>6 DEF Retries, Proposed, FlagState
  <2>2. hist'[f].inRun = hist[f].inRun /\ hist'[f].outRun = hist[f].outRun
    BY <1>1, <1>6 DEF Retries, History
  <2>3. QED
    BY <1>6, <2>1, <2>2 DEF Retries, CountersOf
<1>7. CASE Writes(f)
  <2>1. hist'[f].inRun = hist[f].inRun /\ hist'[f].outRun = hist[f].outRun
    BY <1>1, <1>7 DEF Writes, History
  <2>2. QED
    BY <1>7, <2>1 DEF Writes, CountersOf
<1>8. CASE Stops(f)
  BY <1>8 DEF Stops
<1>9. QED
  BY <1>3, <1>4, <1>5, <1>6, <1>7, <1>8

\* A stamp already counted is never handed out again: what a callback would count
\* twice is the stamp the flag holds.
StampsInv ==
  /\ inv.stamp <= scans /\ invFile.stamp <= scans
  /\ \A s \in hist["unknown_hosts"].counted : s <= scans
  /\ \A s \in hist["vulnerabilities"].counted : s <= cve.stamp
  /\ running => mon["unknown_hosts"].stamp = inv.stamp
  /\ running /\ cve.count # Unread => mon["vulnerabilities"].stamp = cve.stamp

PromiseInv ==
  /\ MonitorInv /\ StampsInv
  /\ \A f \in Flag : running => CountersOf(mon[f], hist[f])

\* After a publish the flag holds the stamp published, which is counted if it is new.
LEMMA StampsOfPublish ==
  ASSUME NEW f \in Flag, NEW m \in FlagState, NEW h \in History, NEW view \in View,
         NEW policy \in Policy, now \in Nat
  PROVE  /\ Published(f, m, view, policy).stamp = view.stamp
         /\ Noted(h, f, m, view, policy).counted \subseteq h.counted \cup {view.stamp}
<1>1. Published(f, m, view, policy).stamp = IF Counts(m, view) THEN view.stamp ELSE m.stamp
  BY PublishedParts
<1>2. Noted(h, f, m, view, policy).counted =
        IF Counts(m, view) THEN h.counted \cup {view.stamp} ELSE h.counted
  BY DEF Noted
<1>3. QED
  BY <1>1, <1>2 DEF Counts

\* A publish of the running monitor, as AlertPromise sees it: a new scan, if the view
\* brings a stamp the flag does not hold, or a forgetting.
LEMMA PublishIsPromised ==
  ASSUME TypeOK, NEW f \in Flag, NEW view \in View, Publish(f, view)
  PROVE  /\ running /\ running' /\ UNCHANGED <<now, options, acked, known, disk>>
         /\ mon'[f] = Published(f, mon[f], view, LivePolicy)
         /\ hist'[f] = Noted(hist[f], f, mon[f], view, LivePolicy)
         /\ \A g \in Flag \ {f} : mon'[g] = mon[g] /\ hist'[g] = hist[g]
         /\ LivePolicy' = LivePolicy
BY DEF Publish, TypeOK, LivePolicy

LEMMA InitPromiseInv == Init => PromiseInv
<1>1. SUFFICES ASSUME Init PROVE PromiseInv
  OBVIOUS
<1>2. MonitorInv /\ ~running
  BY <1>1, InitMonitorInv DEF Init
<1>3. StampsInv
  <2>1. \A f \in Flag : hist[f].counted = {}
    BY <1>1 DEF Init, FreshHistory
  <2>2. inv.stamp = 0 /\ invFile.stamp = 0 /\ scans = 0
    BY <1>1 DEF Init, EmptyInventory
  <2>3. QED
    BY <1>2, <2>1, <2>2 DEF StampsInv, Flag
<1>4. QED
  BY <1>2, <1>3 DEF PromiseInv

\* The stamp that may be published again is the one the flag holds.
LEMMA NextStampsInv ==
  ASSUME TypeOK, StampsInv, [Next]_vars
  PROVE  StampsInv'
<1>1. /\ "unknown_hosts" \in Flag /\ "vulnerabilities" \in Flag
      /\ "unknown_hosts" # "vulnerabilities"
  BY DEF Flag
<1>2. /\ LivePolicy \in Policy /\ now \in Nat /\ scans \in Nat /\ cve.stamp \in Nat
      /\ inv \in Inventory /\ invFile \in Inventory
      /\ \A f \in Flag : mon[f] \in FlagState /\ hist[f] \in History /\ disk[f] \in Row
  BY <1>1, FlagTypes DEF TypeOK
<1>3. \A f \in Flag : hist[f].counted \subseteq Int
  BY <1>2 DEF History
<1>4. CASE UNCHANGED <<scans, inv, invFile, cve, running, mon, hist>>
  BY <1>4 DEF StampsInv
<1>5. CASE UNCHANGED vars \/ Tick
           \/ (\E o \in OptionSets : EditOptions(o))
           \/ (\E S \in AckSets : EditAcknowledged(S))
           \/ (\E S \in DeviceSets : RegisterDevice(S))
  BY <1>4, <1>5 DEF vars, env, Tick, EditOptions, EditAcknowledged, RegisterDevice
<1>6. CASE InventoryWritten
  BY <1>6 DEF InventoryWritten, StampsInv
<1>7. ASSUME NEW s \in [HostKey -> Status], ScanLands(s) PROVE StampsInv'
  <2>1. /\ scans' = scans + 1 /\ inv' = [stamp |-> scans + 1, status |-> s]
        /\ invFile' = invFile /\ cve' = cve
        /\ Publish("unknown_hosts", ScanView(inv'))
    BY <1>7 DEF ScanLands
  <2>2. inv' \in Inventory
    BY <1>2, <2>1 DEF Inventory
  <2>3. ScanView(inv') \in View /\ ScanView(inv').stamp = scans + 1
    BY <2>1, <2>2, ViewType DEF ScanView
  <2>4. /\ mon'["unknown_hosts"].stamp = scans + 1
        /\ hist'["unknown_hosts"].counted \subseteq hist["unknown_hosts"].counted \cup {scans + 1}
    BY <1>1, <1>2, <2>1, <2>3, PublishIsPromised, StampsOfPublish
  <2>5. /\ mon'["vulnerabilities"] = mon["vulnerabilities"]
        /\ hist'["vulnerabilities"] = hist["vulnerabilities"]
        /\ running
    BY <1>1, <2>1, <2>3, PublishIsPromised
  <2>6. \A s2 \in hist'["unknown_hosts"].counted : s2 <= scans'
    BY <1>1, <1>2, <1>3, <2>1, <2>4 DEF StampsInv
  <2>7. inv'.stamp = scans' /\ invFile'.stamp <= scans'
    BY <1>2, <2>1 DEF StampsInv, Inventory
  <2>8. QED
    BY <1>2, <2>1, <2>4, <2>5, <2>6, <2>7 DEF StampsInv
<1>8. CASE RepublishScan
  <2>1. /\ UNCHANGED <<scans, inv, invFile, cve>> /\ Publish("unknown_hosts", ScanView(inv))
    BY <1>8 DEF RepublishScan
  <2>2. ScanView(inv) \in View /\ ScanView(inv).stamp = inv.stamp
    BY <1>2, ViewType DEF ScanView
  <2>3. /\ mon'["unknown_hosts"].stamp = inv.stamp
        /\ hist'["unknown_hosts"].counted \subseteq hist["unknown_hosts"].counted \cup {inv.stamp}
    BY <1>1, <1>2, <2>1, <2>2, PublishIsPromised, StampsOfPublish
  <2>4. /\ mon'["vulnerabilities"] = mon["vulnerabilities"]
        /\ hist'["vulnerabilities"] = hist["vulnerabilities"]
        /\ running
    BY <1>1, <2>1, <2>2, PublishIsPromised
  <2>5. QED
    BY <2>1, <2>3, <2>4 DEF StampsInv
<1>9. ASSUME NEW c \in CveReads, CveLands(c) PROVE StampsInv'
  <2>1. /\ cve' = [count |-> c, stamp |-> cve.stamp + 1] /\ UNCHANGED <<scans, inv, invFile>>
    BY <1>9 DEF CveLands
  <2>2. cve'.stamp = cve.stamp + 1 /\ cve'.count = c
    BY <2>1
  <2>3. CASE c = Unread
    <3>1. UNCHANGED <<running, mon, hist>>
      BY <1>9, <2>3 DEF CveLands
    <3>2. \A s \in hist'["vulnerabilities"].counted : s <= cve'.stamp
      BY <1>1, <1>2, <1>3, <2>2, <3>1 DEF StampsInv
    <3>3. QED
      BY <2>1, <2>2, <2>3, <3>1, <3>2 DEF StampsInv
  <2>4. CASE c # Unread
    <3>1. Publish("vulnerabilities", CveView(cve'))
      BY <1>9, <2>4 DEF CveLands
    <3>2. CveView(cve') \in View /\ CveView(cve').stamp = cve'.stamp
      BY <1>2, <2>2, ViewType DEF CveView
    <3>3. /\ mon'["vulnerabilities"].stamp = cve'.stamp
          /\ hist'["vulnerabilities"].counted
               \subseteq hist["vulnerabilities"].counted \cup {cve'.stamp}
      BY <1>1, <1>2, <3>1, <3>2, PublishIsPromised, StampsOfPublish
    <3>4. /\ mon'["unknown_hosts"] = mon["unknown_hosts"]
          /\ hist'["unknown_hosts"] = hist["unknown_hosts"]
          /\ running
      BY <1>1, <3>1, <3>2, PublishIsPromised
    <3>5. \A s \in hist'["vulnerabilities"].counted : s <= cve'.stamp
      BY <1>1, <1>2, <1>3, <2>2, <3>3 DEF StampsInv
    <3>6. QED
      BY <2>1, <3>3, <3>4, <3>5 DEF StampsInv
  <2>5. QED
    BY <2>3, <2>4
<1>10. CASE RepublishCve
  <2>1. /\ UNCHANGED <<scans, inv, invFile, cve>> /\ Publish("vulnerabilities", CveView(cve))
    BY <1>10 DEF RepublishCve
  <2>2. CveView(cve) \in View /\ CveView(cve).stamp = cve.stamp
    BY <1>2, ViewType DEF CveView
  <2>3. /\ mon'["vulnerabilities"].stamp = cve.stamp
        /\ hist'["vulnerabilities"].counted
             \subseteq hist["vulnerabilities"].counted \cup {cve.stamp}
    BY <1>1, <1>2, <2>1, <2>2, PublishIsPromised, StampsOfPublish
  <2>4. /\ mon'["unknown_hosts"] = mon["unknown_hosts"]
        /\ hist'["unknown_hosts"] = hist["unknown_hosts"]
        /\ running
    BY <1>1, <2>1, <2>2, PublishIsPromised
  <2>5. \A s \in hist'["vulnerabilities"].counted : s <= cve.stamp
    BY <1>1, <1>2, <1>3, <2>3 DEF StampsInv
  <2>6. QED
    BY <2>1, <2>3, <2>4, <2>5 DEF StampsInv
<1>11. ASSUME NEW g \in Flag, Retry(g) PROVE StampsInv'
  <2>1. UNCHANGED <<scans, inv, invFile, cve, running>>
    BY <1>11 DEF Retry, env
  <2>2. \A f \in Flag : mon'[f].stamp = mon[f].stamp /\ hist'[f].counted = hist[f].counted
    <3>1. ASSUME NEW f \in Flag
          PROVE  mon'[f].stamp = mon[f].stamp /\ hist'[f].counted = hist[f].counted
      <4>1. mon'[f] = IF f = g THEN Proposed(mon[f], LivePolicy) ELSE mon[f]
        BY <1>11, RetriedProposes DEF Retry, TypeOK
      <4>2. Proposed(mon[f], LivePolicy).stamp = mon[f].stamp
        BY <1>2 DEF Proposed, FlagState
      <4>3. hist'[f].counted = hist[f].counted
        BY <1>2, <1>11 DEF Retry, TypeOK, History
      <4>4. QED
        BY <4>1, <4>2, <4>3
    <3>2. QED
      BY <3>1
  <2>3. QED
    BY <1>1, <2>1, <2>2 DEF StampsInv
<1>12. CASE WriteSave
  <2>1. UNCHANGED <<scans, inv, invFile, cve, running, mon>>
    BY <1>12 DEF WriteSave, env
  <2>2. \A f \in Flag : hist'[f].counted = hist[f].counted
    BY <1>2, <1>12 DEF WriteSave, AllSaved, History
  <2>3. QED
    BY <1>1, <2>1, <2>2 DEF StampsInv
<1>13. ASSUME NEW c \in CveReads, Start(c) PROVE StampsInv'
  <2> DEFINE newCve == [count |-> c, stamp |-> cve.stamp + 1]
             row(f) == Seeded(disk[f])
             scan == ScanView(invFile)
             read == CveView(newCve)
  <2>1. /\ inv' = invFile /\ cve' = newCve /\ running' /\ UNCHANGED <<scans, invFile>>
    BY <1>13 DEF Start
  <2>2. /\ mon'["unknown_hosts"] =
             Published("unknown_hosts", row("unknown_hosts"), scan, LivePolicy)
        /\ hist'["unknown_hosts"] =
             Noted(Restarted(hist["unknown_hosts"]), "unknown_hosts", row("unknown_hosts"),
                   scan, LivePolicy)
    BY <1>1, <1>13 DEF Start
  <2>3. IF c # Unread
        THEN /\ mon'["vulnerabilities"] =
                  Published("vulnerabilities", row("vulnerabilities"), read, LivePolicy)
             /\ hist'["vulnerabilities"] =
                  Noted(Restarted(hist["vulnerabilities"]), "vulnerabilities",
                        row("vulnerabilities"), read, LivePolicy)
        ELSE hist'["vulnerabilities"] = Restarted(hist["vulnerabilities"])
    BY <1>1, <1>13 DEF Start
  <2>4. \A f \in Flag : /\ row(f) \in FlagState
                        /\ Restarted(hist[f]) \in History /\ Restarted(hist[f]).counted = {}
    BY <1>2, SeededType DEF Restarted, History
  <2>5. newCve.stamp = cve.stamp + 1 /\ newCve.count = c
    OBVIOUS
  <2> HIDE DEF newCve, row
  <2>6. scan \in View /\ scan.stamp = invFile.stamp
    BY <1>2, ViewType DEF ScanView
  <2>7. read \in View /\ read.stamp = cve.stamp + 1
    <3>1. newCve.stamp \in Nat
      BY <1>2, <2>5
    <3>2. read \in View
      BY <3>1, ViewType
    <3>3. QED
      BY <2>5, <3>2 DEF CveView
  <2> HIDE DEF scan, read
  <2>8. /\ mon'["unknown_hosts"].stamp = invFile.stamp
        /\ hist'["unknown_hosts"].counted \subseteq {invFile.stamp}
    <3>1. Published("unknown_hosts", row("unknown_hosts"), scan, LivePolicy).stamp = scan.stamp
      BY <1>1, <1>2, <2>4, <2>6, StampsOfPublish
    <3>2. Noted(Restarted(hist["unknown_hosts"]), "unknown_hosts", row("unknown_hosts"),
                scan, LivePolicy).counted \subseteq {scan.stamp}
      BY <1>1, <1>2, <2>4, <2>6, StampsOfPublish
    <3>3. QED
      BY <2>2, <2>6, <3>1, <3>2
  <2>9. /\ c # Unread => mon'["vulnerabilities"].stamp = cve.stamp + 1
        /\ hist'["vulnerabilities"].counted \subseteq {cve.stamp + 1}
    <3>1. Published("vulnerabilities", row("vulnerabilities"), read, LivePolicy).stamp = read.stamp
      BY <1>1, <1>2, <2>4, <2>7, StampsOfPublish
    <3>2. Noted(Restarted(hist["vulnerabilities"]), "vulnerabilities", row("vulnerabilities"),
                read, LivePolicy).counted \subseteq {read.stamp}
      BY <1>1, <1>2, <2>4, <2>7, StampsOfPublish
    <3>3. QED
      BY <1>1, <2>3, <2>4, <2>7, <3>1, <3>2
  <2>10. cve.stamp + 1 <= cve.stamp + 1 /\ invFile.stamp <= scans
    BY <1>2 DEF StampsInv
  <2>11. QED
    BY <2>1, <2>5, <2>8, <2>9, <2>10 DEF StampsInv
<1>14. CASE Unload \/ Shutdown \/ Crash
  <2>1. /\ ~running' /\ UNCHANGED <<scans, inv, cve>> /\ invFile' \in {inv, invFile}
    BY <1>14 DEF Unload, Shutdown, Crash, Stopped
  <2>2. \A f \in Flag : hist'[f].counted = hist[f].counted
    BY <1>2, <1>14 DEF Unload, Shutdown, Crash, AllSaved, History
  <2>3. QED
    BY <1>1, <2>1, <2>2 DEF StampsInv
<1>15. QED
  BY <1>5, <1>6, <1>7, <1>8, <1>9, <1>10, <1>11, <1>12, <1>13, <1>14 DEF Next

LEMMA NextPromiseInv ==
  ASSUME PromiseInv, [Next]_vars
  PROVE  PromiseInv'
<1>1. MonitorInv' /\ StampsInv'
  BY NextMonitorInv, NextStampsInv DEF PromiseInv, MonitorInv
<1>2. \A f \in Flag : (running => CountersOf(mon[f], hist[f]))'
  BY StepOf, CountersStep DEF PromiseInv, MonitorInv
<1>3. QED
  BY <1>1, <1>2 DEF PromiseInv

\* The counters of every flag are the runs of its history, and no stamp is counted
\* under which a scan could still land.
THEOREM PromiseInvariant == Spec => []PromiseInv
<1>1. QED
  BY InitPromiseInv, NextPromiseInv, PTL DEF Spec

-----------------------------------------------------------------------------
(* The steps of one flag in the words of AlertPromise                      *)

\* The fields AlertPromise's variables are mapped to.
Watched(f) == <<mon[f].deb.confirmed, disk[f].confirmed, hist[f].counted, hist[f].inRun,
                hist[f].outRun>>

Extension(run, forgotten, held) ==
  [k \in Key |-> IF k \notin held THEN 0 ELSE IF k \in forgotten THEN 1 ELSE run[k] + 1]

\* What is reported of `before` after a counted scan that held `present`.
ReportedBy(f, before, present, forgotten) ==
  mon'[f].deb.confirmed =
    Reported(before \ forgotten, present, hist'[f].inRun, hist'[f].outRun, LivePolicy)

\* The running monitor publishes on f.
LEMMA PublishAsPromised ==
  ASSUME TypeOK, NEW f \in Flag, NEW view \in View, Publish(f, view),
         CountersOf(mon[f], hist[f])
  PROVE  /\ Counts(mon[f], view) =>
              /\ hist'[f].counted = hist[f].counted \cup {view.stamp}
              /\ hist'[f].inRun = Extension(hist[f].inRun, view.forgotten, view.present)
              /\ hist'[f].outRun = Extension(hist[f].outRun, view.forgotten, Key \ view.present)
              /\ ReportedBy(f, mon[f].deb.confirmed, view.present, view.forgotten)
         /\ ~Counts(mon[f], view) =>
              /\ hist'[f].counted = hist[f].counted
              /\ hist'[f].inRun =
                   [k \in Key |-> IF k \in view.forgotten THEN 0 ELSE hist[f].inRun[k]]
              /\ hist'[f].outRun =
                   [k \in Key |-> IF k \in view.forgotten THEN 0 ELSE hist[f].outRun[k]]
              /\ mon'[f].deb.confirmed = mon[f].deb.confirmed \ view.forgotten
<1> DEFINE m  == mon[f]
           h  == hist[f]
           n  == Published(f, m, view, LivePolicy)
           hn == Noted(h, f, m, view, LivePolicy)
<1>1. m \in FlagState /\ h \in History /\ LivePolicy \in Policy /\ now \in Nat
  BY FlagTypes
<1>2. mon'[f] = n /\ hist'[f] = hn
  BY PublishIsPromised
<1>3. /\ Counts(m, view) =>
           n.deb.confirmed = Reported(m.deb.confirmed \ view.forgotten, view.present,
                                      hn.inRun, hn.outRun, LivePolicy)
      /\ ~Counts(m, view) => n.deb.confirmed = m.deb.confirmed \ view.forgotten
  <2>1. CountersOf(m, h)
    OBVIOUS
  <2> HIDE DEF m, h
  <2>2. QED
    BY <1>1, <2>1, CountersOfPublish
<1>4. /\ Counts(m, view) =>
           /\ hn.counted = h.counted \cup {view.stamp}
           /\ hn.inRun = Extension(h.inRun, view.forgotten, view.present)
           /\ hn.outRun = Extension(h.outRun, view.forgotten, Key \ view.present)
      /\ ~Counts(m, view) =>
           /\ hn.counted = h.counted
           /\ hn.inRun = [k \in Key |-> IF k \in view.forgotten THEN 0 ELSE h.inRun[k]]
           /\ hn.outRun = [k \in Key |-> IF k \in view.forgotten THEN 0 ELSE h.outRun[k]]
  BY <1>1, RunsOfPublish DEF Extension
<1> HIDE DEF n, hn
<1>5. QED
  BY <1>2, <1>3, <1>4 DEF ReportedBy

\* A start seeds f and publishes the view at hand.
LEMMA StartAsPromised ==
  ASSUME TypeOK, NEW f \in Flag, NEW view \in View, ~running,
         mon'[f] = Published(f, Seeded(disk[f]), view, LivePolicy),
         hist'[f] = Noted(Restarted(hist[f]), f, Seeded(disk[f]), view, LivePolicy)
  PROVE  \/ /\ hist'[f].counted = {view.stamp}
            /\ hist'[f].inRun = [k \in Key |-> IF k \in view.present THEN 1 ELSE 0]
            /\ hist'[f].outRun = [k \in Key |-> IF k \in view.present THEN 0 ELSE 1]
            /\ ReportedBy(f, disk[f].confirmed, view.present, view.forgotten)
         \/ /\ hist'[f].counted = {}
            /\ hist'[f].inRun = [k \in Key |-> 0] /\ hist'[f].outRun = [k \in Key |-> 0]
            /\ mon'[f].deb.confirmed = disk[f].confirmed \ view.forgotten
<1> DEFINE m  == Seeded(disk[f])
           h  == Restarted(hist[f])
           n  == Published(f, m, view, LivePolicy)
           hn == Noted(h, f, m, view, LivePolicy)
<1>1. m = Base(f) /\ h = BaseHist(f)
  BY DEF Base, BaseHist
<1>2. m \in FlagState /\ h \in History /\ LivePolicy \in Policy /\ now \in Nat
      /\ disk[f] \in Row /\ hist[f] \in History
  BY <1>1, FlagTypes
<1>3. CountersOf(m, h)
  BY <1>1, CountersOfBase
<1>4. m.deb.confirmed = disk[f].confirmed
  BY <1>2, SeededParts
<1>5. h.counted = {} /\ h.inRun = [k \in Key |-> 0] /\ h.outRun = [k \in Key |-> 0]
  BY <1>2 DEF Restarted, History
<1>6. /\ Counts(m, view) =>
           n.deb.confirmed = Reported(m.deb.confirmed \ view.forgotten, view.present,
                                      hn.inRun, hn.outRun, LivePolicy)
      /\ ~Counts(m, view) => n.deb.confirmed = m.deb.confirmed \ view.forgotten
  BY <1>2, <1>3, CountersOfPublish
<1>7. /\ Counts(m, view) =>
           /\ hn.counted = h.counted \cup {view.stamp}
           /\ hn.inRun = Extension(h.inRun, view.forgotten, view.present)
           /\ hn.outRun = Extension(h.outRun, view.forgotten, Key \ view.present)
      /\ ~Counts(m, view) =>
           /\ hn.counted = h.counted
           /\ hn.inRun = [k \in Key |-> IF k \in view.forgotten THEN 0 ELSE h.inRun[k]]
           /\ hn.outRun = [k \in Key |-> IF k \in view.forgotten THEN 0 ELSE h.outRun[k]]
  BY <1>2, RunsOfPublish DEF Extension
<1>8. mon'[f] = n /\ hist'[f] = hn
  OBVIOUS
<1> HIDE DEF n, hn, m, h
<1>9. CASE Counts(m, view)
  <2>1. Extension(h.inRun, view.forgotten, view.present)
          = [k \in Key |-> IF k \in view.present THEN 1 ELSE 0]
    BY <1>5 DEF Extension
  <2>2. Extension(h.outRun, view.forgotten, Key \ view.present)
          = [k \in Key |-> IF k \in view.present THEN 0 ELSE 1]
    BY <1>5 DEF Extension
  <2>3. QED
    BY <1>4, <1>5, <1>6, <1>7, <1>8, <1>9, <2>1, <2>2 DEF ReportedBy
<1>10. CASE ~Counts(m, view)
  BY <1>4, <1>5, <1>6, <1>7, <1>8, <1>10
<1>11. QED
  BY <1>9, <1>10

\* What the steps that publish nothing change of the fields watched.
LEMMA QuietSteps ==
  ASSUME TypeOK, NEW f \in Flag
  PROVE  /\ \A g \in Flag : Retry(g) => UNCHANGED <<Watched(f), LivePolicy, acked, known, running>>
         /\ WriteSave => /\ running /\ running' /\ disk'[f].confirmed = mon[f].deb.confirmed
                         /\ mon'[f] = mon[f] /\ UNCHANGED <<LivePolicy, acked, known>>
                         /\ hist'[f].counted = hist[f].counted
                         /\ hist'[f].inRun = hist[f].inRun /\ hist'[f].outRun = hist[f].outRun
         /\ Unload \/ Shutdown \/ Crash =>
              /\ running /\ ~running' /\ mon'[f].deb.confirmed = {}
              /\ disk'[f].confirmed \in {disk[f].confirmed, mon[f].deb.confirmed}
              /\ UNCHANGED <<LivePolicy, acked, known>>
              /\ hist'[f].counted = hist[f].counted
              /\ hist'[f].inRun = hist[f].inRun /\ hist'[f].outRun = hist[f].outRun
<1>1. mon[f] \in FlagState /\ hist[f] \in History
  BY FlagTypes
<1>2. Saved(mon[f]).confirmed = mon[f].deb.confirmed
  BY DEF Saved
<1>3. options' = options => LivePolicy' = LivePolicy
  BY DEF LivePolicy
<1>4. ASSUME NEW g \in Flag, Retry(g)
      PROVE  UNCHANGED <<Watched(f), LivePolicy, acked, known, running>>
  <2>1. UNCHANGED <<options, acked, known, running, disk>>
    BY <1>4 DEF Retry, env
  <2>2. mon'[f] = IF f = g THEN Proposed(mon[f], LivePolicy) ELSE mon[f]
    BY <1>4, RetriedProposes DEF Retry, TypeOK
  <2>3. Proposed(mon[f], LivePolicy).deb = mon[f].deb
    BY <1>1 DEF Proposed, FlagState
  <2>4. /\ hist'[f].counted = hist[f].counted
        /\ hist'[f].inRun = hist[f].inRun /\ hist'[f].outRun = hist[f].outRun
    BY <1>1, <1>4 DEF Retry, TypeOK, History
  <2>5. mon'[f].deb = mon[f].deb
    BY <2>2, <2>3
  <2>6. QED
    BY <1>3, <2>1, <2>4, <2>5 DEF Watched
<1>5. ASSUME WriteSave
      PROVE  /\ running /\ running' /\ disk'[f].confirmed = mon[f].deb.confirmed
             /\ mon'[f] = mon[f] /\ UNCHANGED <<LivePolicy, acked, known>>
             /\ hist'[f].counted = hist[f].counted
             /\ hist'[f].inRun = hist[f].inRun /\ hist'[f].outRun = hist[f].outRun
  BY <1>1, <1>2, <1>3, <1>5 DEF WriteSave, env, AllSaved, History
<1>6. ASSUME Unload \/ Shutdown \/ Crash
      PROVE  /\ running /\ ~running' /\ mon'[f].deb.confirmed = {}
             /\ disk'[f].confirmed \in {disk[f].confirmed, mon[f].deb.confirmed}
             /\ UNCHANGED <<LivePolicy, acked, known>>
             /\ hist'[f].counted = hist[f].counted
             /\ hist'[f].inRun = hist[f].inRun /\ hist'[f].outRun = hist[f].outRun
  <2>1. Stopped
    BY <1>6 DEF Unload, Shutdown, Crash
  <2>2. mon'[f].deb.confirmed = {}
    BY <2>1, FreshParts DEF Stopped
  <2>3. disk'[f].confirmed \in {disk[f].confirmed, mon[f].deb.confirmed}
    BY <1>2, <1>6 DEF Unload, Shutdown, Crash
  <2>4. /\ hist'[f].counted = hist[f].counted
        /\ hist'[f].inRun = hist[f].inRun /\ hist'[f].outRun = hist[f].outRun
    BY <1>1, <1>6 DEF Unload, Shutdown, Crash, AllSaved, History
  <2>5. QED
    BY <1>3, <2>1, <2>2, <2>3, <2>4 DEF Stopped
<1>7. QED
  BY <1>4, <1>5, <1>6

\* What a step of the model that AlertPromise does not see leaves alone.
Unseen(f) == UNCHANGED <<Watched(f), LivePolicy, acked, known, running>>

\* A publish to one flag is nothing to the promise of the other.
LEMMA OthersUnseen ==
  ASSUME TypeOK, NEW f \in Flag, NEW g \in Flag \ {f}, NEW view \in View, Publish(g, view)
  PROVE  Unseen(f)
<1>1. /\ UNCHANGED <<acked, known, disk, LivePolicy>> /\ running /\ running'
      /\ mon'[f] = mon[f] /\ hist'[f] = hist[f]
  BY PublishIsPromised
<1>2. QED
  BY <1>1 DEF Unseen, Watched

\* Every step is one of the promise for unknown hosts, or a stutter of it.
LEMMA HostStep ==
  ASSUME PromiseInv, TypeOK', [Next]_vars
  PROVE  [HostPromise!Next]_(HostPromise!vars)
<1> DEFINE f == "unknown_hosts"
<1>1. TypeOK /\ StampsInv /\ (running => CountersOf(mon[f], hist[f])) /\ f \in Flag
      /\ "vulnerabilities" \in Flag \ {f}
  BY DEF PromiseInv, MonitorInv, Flag
<1>2. ASSUME Unseen(f) PROVE [HostPromise!Next]_(HostPromise!vars)
  BY <1>2 DEF Unseen, Watched, HostPromise!vars, HostPromise!operator
<1>3. CASE UNCHANGED vars \/ Tick \/ InventoryWritten
  <2>1. Unseen(f)
    BY <1>3 DEF vars, env, Tick, InventoryWritten, Unseen, Watched, LivePolicy
  <2>2. QED
    BY <1>2, <2>1
<1>4. CASE \/ \E o \in OptionSets : EditOptions(o)
           \/ \E S \in AckSets : EditAcknowledged(S)
           \/ \E S \in DeviceSets : RegisterDevice(S)
  <2>1. UNCHANGED <<running, mon, disk, hist>>
    BY <1>4 DEF EditOptions, EditAcknowledged, RegisterDevice
  <2>2. /\ LivePolicy["confirm"]' \in Observations /\ LivePolicy["clear"]' \in Observations
        /\ (acked \ known)' \subseteq Key
    <3>1. options' \in OptionSets /\ acked' \subseteq HostKey
      BY DEF TypeOK
    <3>2. QED
      BY <3>1, ResolvedPolicy, MonitorAssumption DEF LivePolicy, Observations
  <2>3. HostPromise!Edit
    BY <2>1, <2>2 DEF HostPromise!Edit
  <2>4. QED
    BY <2>3 DEF HostPromise!Next
<1>5. ASSUME NEW s \in [HostKey -> Status], ScanLands(s)
      PROVE  [HostPromise!Next]_(HostPromise!vars)
  <2> DEFINE view == ScanView(inv')
  <2>1. inv' \in Inventory /\ inv'.stamp = scans + 1
    BY <1>1, <1>5 DEF ScanLands, Inventory, TypeOK
  <2>2. view \in View /\ view.stamp = scans + 1
    BY <2>1, ViewType DEF ScanView
  <2>3. view.present \in SUBSET Key /\ view.forgotten \in SUBSET (acked \ known)
    BY <2>2 DEF ScanView, View
  <2>4. Publish(f, view)
    BY <1>5 DEF ScanLands
  <2> HIDE DEF view
  <2>5. running /\ running' /\ UNCHANGED <<LivePolicy, acked, known, disk>>
    BY <1>1, <2>2, <2>4, PublishIsPromised
  <2>6. Counts(mon[f], view) /\ view.stamp \notin hist[f].counted
    <3>1. \A t \in hist[f].counted : t <= scans
      BY <1>1 DEF StampsInv
    <3>2. mon[f].stamp <= scans
      BY <1>1, <2>5 DEF StampsInv
    <3>3. scans \in Nat
      BY <1>1 DEF TypeOK
    <3>4. ~(scans + 1 <= scans)
      BY <3>3
    <3>5. QED
      BY <2>2, <3>1, <3>2, <3>4 DEF Counts
  <2>7. /\ hist'[f].counted = hist[f].counted \cup {view.stamp}
        /\ hist'[f].inRun = Extension(hist[f].inRun, view.forgotten, view.present)
        /\ hist'[f].outRun = Extension(hist[f].outRun, view.forgotten, Key \ view.present)
        /\ ReportedBy(f, mon[f].deb.confirmed, view.present, view.forgotten)
    BY <1>1, <2>2, <2>4, <2>5, <2>6, PublishAsPromised
  <2>8. HostPromise!NewScan(view.stamp, view.present, view.forgotten)
    BY <2>5, <2>6, <2>7
    DEF HostPromise!NewScan, HostPromise!Extended, HostPromise!Count, HostPromise!operator,
        Extension, ReportedBy, Reported
  <2>9. HostPromise!Next
    BY <2>3, <2>7, <2>8 DEF HostPromise!Next
  <2>10. QED
    BY <2>9
<1>6. CASE RepublishScan
  <2> DEFINE view == ScanView(inv)
  <2>1. Publish(f, view)
    BY <1>6 DEF RepublishScan
  <2>2. view \in View /\ view.stamp = inv.stamp /\ view.forgotten \in SUBSET (acked \ known)
    BY <1>1, ViewType DEF ScanView, TypeOK
  <2> HIDE DEF view
  <2>3. running /\ running' /\ UNCHANGED <<LivePolicy, acked, known, disk>>
    BY <1>1, <2>1, <2>2, PublishIsPromised
  <2>4. ~Counts(mon[f], view)
    BY <1>1, <2>2, <2>3 DEF Counts, StampsInv
  <2>5. /\ hist'[f].counted = hist[f].counted
        /\ hist'[f].inRun = [k \in Key |-> IF k \in view.forgotten THEN 0 ELSE hist[f].inRun[k]]
        /\ hist'[f].outRun = [k \in Key |-> IF k \in view.forgotten THEN 0 ELSE hist[f].outRun[k]]
        /\ mon'[f].deb.confirmed = mon[f].deb.confirmed \ view.forgotten
    BY <1>1, <2>1, <2>2, <2>3, <2>4, PublishAsPromised
  <2>6. HostPromise!Forget(view.forgotten)
    BY <2>3, <2>5 DEF HostPromise!Forget, HostPromise!Without, HostPromise!operator
  <2>7. HostPromise!Next
    BY <2>2, <2>6 DEF HostPromise!Next
  <2>8. QED
    BY <2>7
<1>7. ASSUME NEW c \in CveReads, CveLands(c) PROVE [HostPromise!Next]_(HostPromise!vars)
  <2>1. CASE c = Unread
    <3>1. Unseen(f)
      BY <1>7, <2>1 DEF CveLands, Unseen, Watched, LivePolicy
    <3>2. QED
      BY <1>2, <3>1
  <2>2. CASE c # Unread
    <3>1. Publish("vulnerabilities", CveView(cve')) /\ CveView(cve') \in View
      BY <1>1, <1>7, <2>2, ViewType DEF CveLands, TypeOK
    <3>2. QED
      BY <1>1, <1>2, <3>1, OthersUnseen
  <2>3. QED
    BY <2>1, <2>2
<1>8. CASE RepublishCve
  <2>1. Publish("vulnerabilities", CveView(cve)) /\ CveView(cve) \in View
    BY <1>1, <1>8, ViewType DEF RepublishCve, TypeOK
  <2>2. QED
    BY <1>1, <1>2, <2>1, OthersUnseen
<1>9. ASSUME NEW g \in Flag, Retry(g) PROVE [HostPromise!Next]_(HostPromise!vars)
  <2>1. Unseen(f)
    BY <1>1, <1>9, QuietSteps DEF Unseen
  <2>2. QED
    BY <1>2, <2>1
<1>10. CASE WriteSave
  <2>1. /\ running /\ running' /\ disk'[f].confirmed = mon[f].deb.confirmed
        /\ mon'[f] = mon[f] /\ UNCHANGED <<LivePolicy, acked, known>>
        /\ hist'[f].counted = hist[f].counted
        /\ hist'[f].inRun = hist[f].inRun /\ hist'[f].outRun = hist[f].outRun
    BY <1>1, <1>10, QuietSteps
  <2>2. HostPromise!Write
    BY <2>1 DEF HostPromise!Write, HostPromise!operator
  <2>3. QED
    BY <2>2 DEF HostPromise!Next
<1>11. ASSUME NEW c \in CveReads, Start(c) PROVE [HostPromise!Next]_(HostPromise!vars)
  <2> DEFINE view == ScanView(invFile)
  <2>1. view \in View /\ view.forgotten \in SUBSET (acked \ known) /\ view.present \in SUBSET Key
    BY <1>1, ViewType DEF ScanView, TypeOK, View
  <2>2. /\ ~running /\ running' /\ disk' = disk /\ UNCHANGED <<options, acked, known>>
        /\ mon'[f] = Published(f, Seeded(disk[f]), view, LivePolicy)
        /\ hist'[f] = Noted(Restarted(hist[f]), f, Seeded(disk[f]), view, LivePolicy)
    BY <1>1, <1>11 DEF Start
  <2> HIDE DEF view
  <2>3. LivePolicy' = LivePolicy
    BY <2>2 DEF LivePolicy
  <2>4. \/ /\ hist'[f].counted = {view.stamp}
           /\ hist'[f].inRun = [k \in Key |-> IF k \in view.present THEN 1 ELSE 0]
           /\ hist'[f].outRun = [k \in Key |-> IF k \in view.present THEN 0 ELSE 1]
           /\ ReportedBy(f, disk[f].confirmed, view.present, view.forgotten)
        \/ /\ hist'[f].counted = {}
           /\ hist'[f].inRun = [k \in Key |-> 0] /\ hist'[f].outRun = [k \in Key |-> 0]
           /\ mon'[f].deb.confirmed = disk[f].confirmed \ view.forgotten
    BY <1>1, <2>1, <2>2, StartAsPromised
  <2>5. ~running /\ running' /\ UNCHANGED <<LivePolicy, acked, known, disk>>
    BY <2>2, <2>3
  <2>6. CASE hist'[f].counted = {}
    <3>1. HostPromise!Resume
      BY <2>1, <2>4, <2>5, <2>6 DEF HostPromise!Resume, HostPromise!operator
    <3>2. QED
      BY <3>1 DEF HostPromise!Next
  <2>7. CASE hist'[f].counted = {view.stamp}
    <3>1. \E t \in hist'[f].counted : hist'[f].counted = {t}
      BY <2>7
    <3>2. HostPromise!Count(disk[f].confirmed, view.present, view.forgotten)
      BY <2>4, <2>7 DEF HostPromise!Count, ReportedBy, Reported
    <3>3. HostPromise!Resume
      BY <2>1, <2>4, <2>5, <2>7, <3>1, <3>2 DEF HostPromise!Resume, HostPromise!operator
    <3>4. QED
      BY <3>3 DEF HostPromise!Next
  <2>8. QED
    BY <2>4, <2>6, <2>7
<1>12. CASE Unload \/ Shutdown \/ Crash
  <2>1. HostPromise!End
    BY <1>1, <1>12, QuietSteps DEF HostPromise!End, HostPromise!operator
  <2>2. QED
    BY <2>1 DEF HostPromise!Next
<1>13. QED
  BY <1>3, <1>4, <1>5, <1>6, <1>7, <1>8, <1>9, <1>10, <1>11, <1>12 DEF Next

\* A publish that brings no new stamp and forgets nothing goes unseen.
LEMMA PublishUncounted ==
  ASSUME TypeOK, NEW f \in Flag, NEW view \in View, Publish(f, view),
         running => CountersOf(mon[f], hist[f]), ~Counts(mon[f], view), view.forgotten = {}
  PROVE  Unseen(f)
<1>1. hist[f] \in History
  BY FlagTypes
<1>2. running /\ running' /\ UNCHANGED <<LivePolicy, acked, known, disk>>
  BY PublishIsPromised
<1>3. /\ hist'[f].counted = hist[f].counted
      /\ hist'[f].inRun =
           [k \in Key |-> IF k \in view.forgotten THEN 0 ELSE hist[f].inRun[k]]
      /\ hist'[f].outRun =
           [k \in Key |-> IF k \in view.forgotten THEN 0 ELSE hist[f].outRun[k]]
      /\ mon'[f].deb.confirmed = mon[f].deb.confirmed \ view.forgotten
  <2>1. CountersOf(mon[f], hist[f])
    BY <1>2
  <2>2. QED
    BY <2>1, PublishAsPromised
<1>4. hist'[f].inRun = hist[f].inRun /\ hist'[f].outRun = hist[f].outRun
  BY <1>1, <1>3 DEF History
<1>5. QED
  BY <1>2, <1>3, <1>4 DEF Unseen, Watched

\* Every step is one of the promise for vulnerabilities, or a stutter of it.
LEMMA CveStep ==
  ASSUME PromiseInv, TypeOK', [Next]_vars
  PROVE  [CvePromise!Next]_(CvePromise!vars)
<1> DEFINE f == "vulnerabilities"
<1>1. TypeOK /\ StampsInv /\ (running => CountersOf(mon[f], hist[f])) /\ f \in Flag
      /\ "unknown_hosts" \in Flag \ {f}
  BY DEF PromiseInv, MonitorInv, Flag
<1>2. ASSUME Unseen(f) PROVE [CvePromise!Next]_(CvePromise!vars)
  BY <1>2 DEF Unseen, Watched, CvePromise!vars, CvePromise!operator
<1>3. CASE UNCHANGED vars \/ Tick \/ InventoryWritten
  <2>1. Unseen(f)
    BY <1>3 DEF vars, env, Tick, InventoryWritten, Unseen, Watched, LivePolicy
  <2>2. QED
    BY <1>2, <2>1
<1>4. CASE \/ \E o \in OptionSets : EditOptions(o)
           \/ \E S \in AckSets : EditAcknowledged(S)
           \/ \E S \in DeviceSets : RegisterDevice(S)
  <2>1. UNCHANGED <<running, mon, disk, hist>>
    BY <1>4 DEF EditOptions, EditAcknowledged, RegisterDevice
  <2>2. LivePolicy["confirm"]' \in Observations /\ LivePolicy["clear"]' \in Observations
    <3>1. options' \in OptionSets
      BY DEF TypeOK
    <3>2. QED
      BY <3>1, ResolvedPolicy DEF LivePolicy, Observations
  <2>3. CvePromise!Edit
    BY <2>1, <2>2 DEF CvePromise!Edit
  <2>4. QED
    BY <2>3 DEF CvePromise!Next
<1>5. ASSUME NEW s \in [HostKey -> Status], ScanLands(s)
      PROVE  [CvePromise!Next]_(CvePromise!vars)
  <2>1. inv' \in Inventory
    BY <1>1, <1>5 DEF ScanLands, Inventory, TypeOK
  <2>2. Publish("unknown_hosts", ScanView(inv')) /\ ScanView(inv') \in View
    BY <1>5, <2>1, ViewType DEF ScanLands
  <2>3. QED
    BY <1>1, <1>2, <2>2, OthersUnseen
<1>6. CASE RepublishScan
  <2>1. Publish("unknown_hosts", ScanView(inv)) /\ ScanView(inv) \in View
    BY <1>1, <1>6, ViewType DEF RepublishScan, TypeOK
  <2>2. QED
    BY <1>1, <1>2, <2>1, OthersUnseen
<1>7. ASSUME NEW c \in CveReads, CveLands(c) PROVE [CvePromise!Next]_(CvePromise!vars)
  <2>1. CASE c = Unread
    <3>1. Unseen(f)
      BY <1>7, <2>1 DEF CveLands, Unseen, Watched, LivePolicy
    <3>2. QED
      BY <1>2, <3>1
  <2>2. CASE c # Unread
    <3> DEFINE view == CveView(cve')
    <3>1. /\ view \in View /\ view.stamp = cve.stamp + 1 /\ view.forgotten = {}
          /\ view.present \in SUBSET Key
      BY <1>1, <1>7, ViewType DEF CveLands, TypeOK, CveView, View
    <3>2. Publish(f, view)
      BY <1>7, <2>2 DEF CveLands
    <3> HIDE DEF view
    <3>3. running /\ running' /\ UNCHANGED <<LivePolicy, acked, known, disk>>
      BY <1>1, <3>1, <3>2, PublishIsPromised
    <3>4. CASE Counts(mon[f], view)
      <4>1. view.stamp \notin hist[f].counted
        <5>1. \A t \in hist[f].counted : t <= cve.stamp
          BY <1>1 DEF StampsInv
        <5>2. ~(cve.stamp + 1 <= cve.stamp)
          BY <1>1 DEF TypeOK
        <5>3. QED
          BY <3>1, <5>1, <5>2
      <4>2. /\ hist'[f].counted = hist[f].counted \cup {view.stamp}
            /\ hist'[f].inRun = Extension(hist[f].inRun, view.forgotten, view.present)
            /\ hist'[f].outRun = Extension(hist[f].outRun, view.forgotten, Key \ view.present)
            /\ ReportedBy(f, mon[f].deb.confirmed, view.present, view.forgotten)
        BY <1>1, <3>1, <3>2, <3>3, <3>4, PublishAsPromised
      <4>3. CvePromise!NewScan(view.stamp, view.present, view.forgotten)
        BY <3>3, <4>1, <4>2
        DEF CvePromise!NewScan, CvePromise!Extended, CvePromise!Count, CvePromise!operator,
            Extension, ReportedBy, Reported
      <4>4. view.forgotten \in SUBSET {}
        BY <3>1
      <4>5. CvePromise!Next
        BY <3>1, <4>2, <4>3, <4>4 DEF CvePromise!Next
      <4>6. QED
        BY <4>5
    <3>5. CASE ~Counts(mon[f], view)
      <4>1. Unseen(f)
        BY <1>1, <3>1, <3>2, <3>3, <3>5, PublishUncounted
      <4>2. QED
        BY <1>2, <4>1
    <3>6. QED
      BY <3>4, <3>5
  <2>3. QED
    BY <2>1, <2>2
<1>8. CASE RepublishCve
  <2> DEFINE view == CveView(cve)
  <2>1. view \in View /\ view.stamp = cve.stamp /\ view.forgotten = {} /\ Publish(f, view)
    BY <1>1, <1>8, ViewType DEF RepublishCve, TypeOK, CveView
  <2> HIDE DEF view
  <2>2. running /\ UNCHANGED <<LivePolicy, acked, known, disk>>
    BY <1>1, <2>1, PublishIsPromised
  <2>3. ~Counts(mon[f], view)
    BY <1>1, <1>8, <2>1, <2>2 DEF Counts, StampsInv, RepublishCve
  <2>4. Unseen(f)
    BY <1>1, <2>1, <2>2, <2>3, PublishUncounted
  <2>5. QED
    BY <1>2, <2>4
<1>9. ASSUME NEW g \in Flag, Retry(g) PROVE [CvePromise!Next]_(CvePromise!vars)
  <2>1. Unseen(f)
    BY <1>1, <1>9, QuietSteps DEF Unseen
  <2>2. QED
    BY <1>2, <2>1
<1>10. CASE WriteSave
  <2>1. /\ running /\ running' /\ disk'[f].confirmed = mon[f].deb.confirmed
        /\ mon'[f] = mon[f] /\ UNCHANGED <<LivePolicy, acked, known>>
        /\ hist'[f].counted = hist[f].counted
        /\ hist'[f].inRun = hist[f].inRun /\ hist'[f].outRun = hist[f].outRun
    BY <1>1, <1>10, QuietSteps
  <2>2. CvePromise!Write
    BY <2>1 DEF CvePromise!Write, CvePromise!operator
  <2>3. QED
    BY <2>2 DEF CvePromise!Next
<1>11. ASSUME NEW c \in CveReads, Start(c) PROVE [CvePromise!Next]_(CvePromise!vars)
  <2> DEFINE newCve == [count |-> c, stamp |-> cve.stamp + 1]
             view   == CveView(newCve)
  <2>1. /\ ~running /\ running' /\ disk' = disk /\ UNCHANGED <<options, acked, known>>
        /\ IF c # Unread
           THEN /\ mon'[f] = Published(f, Seeded(disk[f]), view, LivePolicy)
                /\ hist'[f] = Noted(Restarted(hist[f]), f, Seeded(disk[f]), view, LivePolicy)
           ELSE mon'[f] = Seeded(disk[f]) /\ hist'[f] = Restarted(hist[f])
    BY <1>1, <1>11 DEF Start
  <2>2. newCve.stamp \in Nat
    BY <1>1 DEF TypeOK
  <2> HIDE DEF newCve
  <2>3. view \in View
    BY <2>2, ViewType
  <2>4. view.forgotten = {} /\ view.present \in SUBSET Key
    BY <2>3 DEF CveView, View
  <2> HIDE DEF view
  <2>5. ~running /\ running' /\ UNCHANGED <<LivePolicy, acked, known, disk>>
    BY <2>1 DEF LivePolicy
  <2>6. \/ /\ hist'[f].counted = {view.stamp}
           /\ hist'[f].inRun = [k \in Key |-> IF k \in view.present THEN 1 ELSE 0]
           /\ hist'[f].outRun = [k \in Key |-> IF k \in view.present THEN 0 ELSE 1]
           /\ ReportedBy(f, disk[f].confirmed, view.present, view.forgotten)
        \/ /\ hist'[f].counted = {}
           /\ hist'[f].inRun = [k \in Key |-> 0] /\ hist'[f].outRun = [k \in Key |-> 0]
           /\ mon'[f].deb.confirmed = disk[f].confirmed \ {}
    <3>1. CASE c # Unread
      BY <1>1, <2>1, <2>3, <2>4, <3>1, StartAsPromised
    <3>2. CASE c = Unread
      <4>1. hist[f] \in History /\ disk[f] \in Row
        BY <1>1, FlagTypes
      <4>2. /\ hist'[f].counted = {}
            /\ hist'[f].inRun = [k \in Key |-> 0] /\ hist'[f].outRun = [k \in Key |-> 0]
        BY <2>1, <3>2, <4>1 DEF Restarted, History
      <4>3. mon'[f].deb.confirmed = disk[f].confirmed
        BY <2>1, <3>2, <4>1, SeededParts
      <4>4. QED
        BY <4>2, <4>3
    <3>3. QED
      BY <3>1, <3>2
  <2>7. CASE hist'[f].counted = {}
    <3>1. CvePromise!Resume
      BY <2>5, <2>6, <2>7 DEF CvePromise!Resume, CvePromise!operator
    <3>2. QED
      BY <3>1 DEF CvePromise!Next
  <2>8. CASE hist'[f].counted = {view.stamp}
    <3>1. \E t \in hist'[f].counted : hist'[f].counted = {t}
      BY <2>8
    <3>2. CvePromise!Count(disk[f].confirmed, view.present, {})
      BY <2>4, <2>6, <2>8 DEF CvePromise!Count, ReportedBy, Reported
    <3>3. CvePromise!Resume
      BY <2>4, <2>5, <2>6, <2>8, <3>1, <3>2 DEF CvePromise!Resume, CvePromise!operator
    <3>4. QED
      BY <3>3 DEF CvePromise!Next
  <2>9. QED
    BY <2>6, <2>7, <2>8
<1>12. CASE Unload \/ Shutdown \/ Crash
  <2>1. CvePromise!End
    BY <1>1, <1>12, QuietSteps DEF CvePromise!End, CvePromise!operator
  <2>2. QED
    BY <2>1 DEF CvePromise!Next
<1>13. QED
  BY <1>3, <1>4, <1>5, <1>6, <1>7, <1>8, <1>9, <1>10, <1>11, <1>12 DEF Next

\* The debouncer of the host flag keeps AlertPromise: whatever publishes, edits,
\* restarts and crashes interleave, a MAC is reported once `confirm` scans in a row have
\* held it and withdrawn once `clear` in a row have missed it, each scan counted once.
THEOREM ImplementsHostPromiseHolds == Spec => ImplementsHostPromise
<1>1. Init => HostPromise!Init
  <2>1. SUFFICES ASSUME Init PROVE HostPromise!Init
    OBVIOUS
  <2>2. LivePolicy["confirm"] \in Observations /\ LivePolicy["clear"] \in Observations
    BY <2>1, PolicyType DEF Init, Observations
  <2>3. QED
    BY <2>1, <2>2
    DEF Init, HostPromise!Init, Flag, FreshFlag, FreshDebouncer, FreshHistory
<1>2. PromiseInv /\ TypeOK' /\ [Next]_vars => [HostPromise!Next]_(HostPromise!vars)
  BY HostStep
<1>3. QED
  BY <1>1, <1>2, PromiseInvariant, TypeCorrect, PTL
  DEF Spec, ImplementsHostPromise, HostPromise!Spec

\* The same of the CVE flag, of which nothing can be dismissed: an unread refresh and a
\* refresh published again count for nothing.
THEOREM ImplementsCvePromiseHolds == Spec => ImplementsCvePromise
<1>1. Init => CvePromise!Init
  <2>1. SUFFICES ASSUME Init PROVE CvePromise!Init
    OBVIOUS
  <2>2. LivePolicy["confirm"] \in Observations /\ LivePolicy["clear"] \in Observations
    BY <2>1, PolicyType DEF Init, Observations
  <2>3. QED
    BY <2>1, <2>2
    DEF Init, CvePromise!Init, Flag, FreshFlag, FreshDebouncer, FreshHistory
<1>2. PromiseInv /\ TypeOK' /\ [Next]_vars => [CvePromise!Next]_(CvePromise!vars)
  BY CveStep
<1>3. QED
  BY <1>1, <1>2, PromiseInvariant, TypeCorrect, PTL
  DEF Spec, ImplementsCvePromise, CvePromise!Spec

\* A read moves the CVE finding only as its count says.
LEMMA ReadingMoves ==
  ASSUME NEW m \in FlagState, NEW c, CveView(c) \in View, TypeOK,
         m.deb.confirmed \subseteq {CveKey}
  PROVE  LET n == Published("vulnerabilities", m, CveView(c), LivePolicy)
         IN  /\ m.deb.confirmed \ n.deb.confirmed # {} => c.count = 0
             /\ n.deb.confirmed \ m.deb.confirmed # {} => c.count # 0
<1> DEFINE f    == "vulnerabilities"
           view == CveView(c)
           n    == Published(f, m, view, LivePolicy)
           rising  == Rising(f, m, view, LivePolicy)
           falling == Falling(f, m, view, LivePolicy)
<1>1. f \in Flag /\ LivePolicy \in Policy /\ now \in Nat
  BY FlagTypes DEF Flag
<1>2. /\ n.deb.confirmed = ((m.deb.confirmed \ view.forgotten) \cup rising) \ falling
      /\ rising \subseteq view.present \ (m.deb.confirmed \ view.forgotten)
      /\ falling \subseteq (m.deb.confirmed \ view.forgotten) \ view.present
  BY <1>1, ConfirmedBy
<1>3. view.forgotten = {} /\ view.present = IF c.count # 0 THEN {CveKey} ELSE {}
  BY DEF CveView
<1> HIDE DEF n, view, rising, falling
<1>4. m.deb.confirmed \ n.deb.confirmed # {} => c.count = 0
  BY <1>2, <1>3
<1>5. n.deb.confirmed \ m.deb.confirmed # {} => c.count # 0
  BY <1>2, <1>3
<1>6. QED
  BY <1>4, <1>5 DEF n, view

\* What OnlyAReadingMovesCve says of one step.
MovedByAReading ==
  running' => LET after == mon'["vulnerabilities"].deb.confirmed
              IN  /\ Before("vulnerabilities") \ after # {} => cve'.count = 0
                  /\ after \ Before("vulnerabilities") # {} => cve'.count \in Nat \ {0}

\* What confirms or clears a vulnerability is a refresh that read something.
LEMMA ReadingStep ==
  ASSUME MonitorInv, [Next]_vars
  PROVE  MovedByAReading
<1> DEFINE f == "vulnerabilities"
<1>1. /\ TypeOK /\ f \in Flag /\ "unknown_hosts" \in Flag \ {f} /\ mon[f] \in FlagState
      /\ mon[f].deb.confirmed \subseteq {CveKey} /\ disk[f].confirmed \subseteq {CveKey}
  BY FlagTypes DEF MonitorInv, OneKeyInv, Flag
<1>2. \A c \in CveReads : c # Unread => c \in Nat
  BY MonitorAssumption
<1>3. ASSUME mon'[f].deb.confirmed = mon[f].deb.confirmed, running
      PROVE  MovedByAReading
  BY <1>3 DEF MovedByAReading, Before
<1>4. ASSUME UNCHANGED mon, running' = running PROVE MovedByAReading
  BY <1>3, <1>4 DEF MovedByAReading
<1>5. CASE UNCHANGED vars \/ Tick \/ InventoryWritten \/ WriteSave
           \/ (\E o \in OptionSets : EditOptions(o))
           \/ (\E S \in AckSets : EditAcknowledged(S))
           \/ (\E S \in DeviceSets : RegisterDevice(S))
  <2>1. UNCHANGED mon /\ running' = running
    BY <1>5 DEF vars, env, Tick, InventoryWritten, WriteSave, EditOptions, EditAcknowledged,
                RegisterDevice
  <2>2. QED
    BY <1>4, <2>1
<1>6. ASSUME NEW s \in [HostKey -> Status], ScanLands(s) PROVE MovedByAReading
  <2>1. inv' \in Inventory
    BY <1>1, <1>6 DEF ScanLands, Inventory, TypeOK
  <2>2. Publish("unknown_hosts", ScanView(inv')) /\ ScanView(inv') \in View
    BY <1>6, <2>1, ViewType DEF ScanLands
  <2>3. mon'[f] = mon[f] /\ running
    BY <1>1, <2>2, PublishIsPromised
  <2>4. QED
    BY <1>3, <2>3
<1>7. CASE RepublishScan
  <2>1. Publish("unknown_hosts", ScanView(inv)) /\ ScanView(inv) \in View
    BY <1>1, <1>7, ViewType DEF RepublishScan, TypeOK
  <2>2. mon'[f] = mon[f] /\ running
    BY <1>1, <2>1, PublishIsPromised
  <2>3. QED
    BY <1>3, <2>2
<1>8. ASSUME NEW c \in CveReads, CveLands(c) PROVE MovedByAReading
  <2>1. cve' = [count |-> c, stamp |-> cve.stamp + 1] /\ cve'.count = c
    BY <1>8 DEF CveLands
  <2>2. CASE c = Unread
    BY <1>4, <1>8, <2>2 DEF CveLands
  <2>3. CASE c # Unread
    <3>1. Publish(f, CveView(cve')) /\ CveView(cve') \in View
      BY <1>1, <1>8, <2>3, ViewType DEF CveLands, TypeOK
    <3>2. mon'[f] = Published(f, mon[f], CveView(cve'), LivePolicy) /\ running
      BY <1>1, <3>1, PublishIsPromised
    <3>3. /\ mon[f].deb.confirmed \ mon'[f].deb.confirmed # {} => cve'.count = 0
          /\ mon'[f].deb.confirmed \ mon[f].deb.confirmed # {} => cve'.count # 0
      BY <1>1, <3>1, <3>2, ReadingMoves
    <3>4. cve'.count \in Nat
      BY <1>2, <2>1, <2>3
    <3>5. QED
      BY <3>2, <3>3, <3>4 DEF MovedByAReading, Before
  <2>4. QED
    BY <2>2, <2>3
<1>9. CASE RepublishCve
  <2>1. /\ Publish(f, CveView(cve)) /\ CveView(cve) \in View /\ cve' = cve
        /\ cve.count # Unread
    BY <1>1, <1>9, ViewType DEF RepublishCve, TypeOK
  <2>2. mon'[f] = Published(f, mon[f], CveView(cve), LivePolicy) /\ running
    BY <1>1, <2>1, PublishIsPromised
  <2>3. /\ mon[f].deb.confirmed \ mon'[f].deb.confirmed # {} => cve.count = 0
        /\ mon'[f].deb.confirmed \ mon[f].deb.confirmed # {} => cve.count # 0
    BY <1>1, <2>1, <2>2, ReadingMoves
  <2>4. cve.count \in Nat
    BY <1>1, <1>2, <2>1 DEF TypeOK
  <2>5. QED
    BY <2>1, <2>2, <2>3, <2>4 DEF MovedByAReading, Before
<1>10. ASSUME NEW g \in Flag, Retry(g) PROVE MovedByAReading
  <2>1. UNCHANGED <<Watched(f), running>>
    BY <1>1, <1>10, QuietSteps
  <2>2. mon'[f].deb.confirmed = mon[f].deb.confirmed /\ running
    BY <1>10, <2>1 DEF Watched, Retry
  <2>3. QED
    BY <1>3, <2>2
<1>11. ASSUME NEW c \in CveReads, Start(c) PROVE MovedByAReading
  <2> DEFINE newCve == [count |-> c, stamp |-> cve.stamp + 1]
             row    == Seeded(disk[f])
  <2>1. /\ ~running /\ cve' = newCve
        /\ mon'[f] = IF c # Unread THEN Published(f, row, CveView(newCve), LivePolicy) ELSE row
    BY <1>1, <1>11 DEF Start
  <2>2. row \in FlagState /\ row.deb.confirmed = disk[f].confirmed
    BY <1>1, SeededType, SeededParts DEF TypeOK
  <2>3. newCve.count = c /\ newCve.stamp \in Nat
    BY <1>1 DEF TypeOK
  <2> HIDE DEF newCve, row
  <2>4. CASE c = Unread
    BY <2>1, <2>2, <2>4 DEF MovedByAReading, Before
  <2>5. CASE c # Unread
    <3>1. CveView(newCve) \in View
      BY <2>3, ViewType
    <3>2. /\ row.deb.confirmed \ mon'[f].deb.confirmed # {} => newCve.count = 0
          /\ mon'[f].deb.confirmed \ row.deb.confirmed # {} => newCve.count # 0
      BY <1>1, <2>1, <2>2, <2>5, <3>1, ReadingMoves
    <3>3. QED
      BY <1>2, <2>1, <2>2, <2>3, <2>5, <3>2 DEF MovedByAReading, Before
  <2>6. QED
    BY <2>4, <2>5
<1>12. CASE Unload \/ Shutdown \/ Crash
  BY <1>12 DEF Unload, Shutdown, Crash, Stopped, MovedByAReading
<1>13. QED
  BY <1>5, <1>6, <1>7, <1>8, <1>9, <1>10, <1>11, <1>12 DEF Next

\* Whatever outages, restarts and republishes come between, the CVE finding appears only
\* on a refresh that read one and goes only on one that read none.
THEOREM OnlyAReadingMovesCveHolds == Spec => OnlyAReadingMovesCve
<1>1. MonitorInv /\ [Next]_vars => MovedByAReading
  BY ReadingStep
<1>2. MonitorInv /\ [Next]_vars =>
        [running' => LET after == mon'["vulnerabilities"].deb.confirmed
                     IN  /\ Before("vulnerabilities") \ after # {} => cve'.count = 0
                         /\ after \ Before("vulnerabilities") # {} => cve'.count \in Nat \ {0}]_vars
  BY <1>1 DEF MovedByAReading
<1>3. QED
  BY <1>2, MonitorInvariant, PTL DEF Spec, OnlyAReadingMovesCve
=============================================================================
