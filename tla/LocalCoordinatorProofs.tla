------------------------ MODULE LocalCoordinatorProofs ------------------------
(***************************************************************************)
(* The safety of the local coordinator for any hosts, scopes, schedules    *)
(* and bounds, from one inductive invariant.  Types come first; the rest   *)
(* goes through what a step does to the setup that is loaded (its clocks   *)
(* against the history, its view against its store) and to the file.       *)
(***************************************************************************)
EXTENDS LocalCoordinator, TLAPS

-----------------------------------------------------------------------------
(* Types                                                                   *)

\* No stamp is ahead of time either, in memory or on file.
StampsPast ==
  /\ \A g \in Gen : store[g].lastScan <= now /\ store[g].lastPortScan <= now
  /\ disk.lastScan <= now /\ disk.lastPortScan <= now

Typed == TypeOK /\ StampsPast

\* A setup that is loaded is one of the setups.
LEMMA LoadedIsSetUp == TypeOK /\ (up \/ gen # 0) => gen \in Gen
BY CoordinatorAssumption DEF TypeOK, Gen

LEMMA FreshTypes ==
  FreshCoordinator \in Coordinator /\ EmptyStore \in Store /\ FreshHistory \in History
BY DEF FreshCoordinator, Coordinator, EmptyStore, Store, FreshHistory, History, Clock, Never, Profile

LEMMA StoredTypes ==
  ASSUME NEW x \in SettingSets
  PROVE  x.scope \in Scope /\ x.discovery \in Nat \ {0} /\ x.service \in Nat \ {0}
BY CoordinatorAssumption

\* Seeding takes the clocks from the store, once.
LEMMA SeededType ==
  ASSUME NEW c \in Coordinator, NEW st \in Store, NEW n \in Nat,
         c.discovery <= n, c.service <= n, st.lastScan <= n, st.lastPortScan <= n
  PROVE  /\ Seeded(c, st) \in Coordinator
         /\ Seeded(c, st).discovery <= n /\ Seeded(c, st).service <= n
         /\ Seeded(c, st).seeded = TRUE
         /\ Seeded(c, st).swept = c.swept
         /\ c.seeded = TRUE => Seeded(c, st) = c
BY DEF Seeded, Coordinator, Store

\* A fold stamps the store with the present and adds to its hosts.
LEMMA FoldedType ==
  ASSUME NEW st \in Store, NEW found \in SUBSET Host, NEW ports \in BOOLEAN, now \in Nat,
         st.lastPortScan <= now
  PROVE  /\ Folded(st, found, ports) \in Store
         /\ Folded(st, found, ports).lastScan = now /\ Folded(st, found, ports).lastScan <= now
         /\ Folded(st, found, ports).lastPortScan <= now
         /\ st.hosts \subseteq Folded(st, found, ports).hosts
BY DEF Folded, Store, Clock, Never

LEMMA FullSweepType ==
  ASSUME NEW c \in Coordinator, NEW s \in Sweep, now \in Nat, c.service <= now
  PROVE  /\ FullSweep(c, s) \in Coordinator
         /\ FullSweep(c, s).discovery = now /\ FullSweep(c, s).service <= now
         /\ FullSweep(c, s).swept = s.scope /\ FullSweep(c, s).seeded = c.seeded
         /\ FullSweep(c, s).service = IF s.kind = "service" THEN now ELSE c.service
<1>1. s.scope \in Scope /\ now \in Clock
  BY DEF Sweep, Clock
<1>2. /\ FullSweep(c, s).discovery = now /\ FullSweep(c, s).swept = s.scope
      /\ FullSweep(c, s).seeded = c.seeded
      /\ FullSweep(c, s).service = IF s.kind = "service" THEN now ELSE c.service
  BY DEF FullSweep, SweptScope, Coordinator
<1>3. FullSweep(c, s) \in Coordinator
  BY <1>1 DEF FullSweep, SweptScope, Coordinator
<1> QED
  BY <1>2, <1>3

LEMMA FailedType ==
  ASSUME NEW c \in Coordinator, NEW s \in Sweep, now \in Nat, c.discovery <= now, c.service <= now
  PROVE  /\ Failed(c, s) \in Coordinator
         /\ Failed(c, s).discovery <= now /\ Failed(c, s).service <= now
         /\ Failed(c, s).seeded = c.seeded
         /\ Failed(c, s).discovery = IF s.kind = "discovery" THEN now ELSE c.discovery
         /\ Failed(c, s).service = IF s.kind = "service" THEN now ELSE c.service
         /\ Failed(c, s).swept = IF s.kind = "discovery" THEN s.scope ELSE c.swept
<1>1. s.scope \in Scope /\ now \in Clock
  BY DEF Sweep, Clock
<1>2. CASE s.kind = "discovery"
  <2>1. Failed(c, s) = [c EXCEPT !.discovery = now, !.swept = s.scope]
    BY <1>2 DEF Failed, SweptScope
  <2>2. Failed(c, s) \in Coordinator
    BY <1>1, <2>1 DEF Coordinator
  <2>3. /\ Failed(c, s).discovery = now /\ Failed(c, s).swept = s.scope
        /\ Failed(c, s).seeded = c.seeded /\ Failed(c, s).service = c.service
    BY <2>1 DEF Coordinator
  <2> QED
    BY <1>2, <2>2, <2>3
<1>3. CASE s.kind = "service"
  <2>1. Failed(c, s) = [c EXCEPT !.service = now]
    BY <1>3 DEF Failed
  <2> QED
    BY <1>1, <1>3, <2>1 DEF Coordinator
<1>4. CASE s.kind \notin {"discovery", "service"}
  BY <1>4 DEF Failed
<1> QED
  BY <1>2, <1>3, <1>4

\* A custom scan, and a sweep that is refused, move at most the service clock.
LEMMA CustomType ==
  ASSUME NEW c \in Coordinator, NEW moved \in BOOLEAN, now \in Nat, c.discovery <= now, c.service <= now
  PROVE  LET x == [c EXCEPT !.service = IF moved THEN now ELSE c.service]
         IN  /\ x \in Coordinator /\ x.discovery = c.discovery /\ x.swept = c.swept
             /\ x.seeded = c.seeded /\ x.service <= now /\ c.service <= x.service
BY DEF Coordinator, Clock, Never

\* A publish clears one field of the history.
LEMMA ToldKeeps ==
  ASSUME hist \in History
  PROVE  /\ Told \in History /\ Told.askedFailed = FALSE
         /\ Told.fullAt = hist.fullAt /\ Told.fullScope = hist.fullScope
         /\ Told.fullFailed = hist.fullFailed /\ Told.serviceAt = hist.serviceAt
         /\ Told.overlap = hist.overlap
BY DEF Told, History

LEMMA HistoryTypes ==
  ASSUME NEW s \in Sweep, now \in Nat, hist \in History
  PROVE  /\ FullHistory(s) \in History /\ FailedHistory(s) \in History
         /\ Noted(s, FullHistory(s)) \in History /\ Noted(s, FailedHistory(s)) \in History
         /\ Noted(s, Told) \in History
BY DEF FullHistory, FailedHistory, Noted, Told, History, Sweep, Clock, Never

\* What is published of a setup has its type, whatever else the step did.
LEMMA PublishedType ==
  ASSUME NEW running, gen \in Gen, store' \in [Gen -> Store]
  PROVE  Published(running) \in [scanning : BOOLEAN, lastScan : Clock]
BY DEF Published, Busy, Store

LEMMA TypedAtFirst == Init => Typed
<1> SUFFICES ASSUME Init PROVE Typed
  OBVIOUS
<1>1. FreshCoordinator \in Coordinator /\ EmptyStore \in Store /\ FreshHistory \in History
  BY FreshTypes
<1>2. FreshCoordinator.discovery <= 0 /\ FreshCoordinator.service <= 0
      /\ EmptyStore.lastScan <= 0 /\ EmptyStore.lastPortScan <= 0
  BY DEF FreshCoordinator, EmptyStore, Never
<1>3. Unpublished \in [scanning : BOOLEAN, lastScan : Clock]
  BY DEF Unpublished, Clock
<1>4. /\ now = 0 /\ gen = 0 /\ up = FALSE /\ removed = FALSE /\ settings \in SettingSets
      /\ pending = {} /\ sweeps = {} /\ asks = 0 /\ view = Unpublished /\ hist = FreshHistory
      /\ disk = EmptyStore
  BY DEF Init
<1>5. /\ coord \in [Gen -> Coordinator] /\ store \in [Gen -> Store]
      /\ \A g \in Gen : coord[g] = FreshCoordinator /\ store[g] = EmptyStore
  BY <1>1 DEF Init
<1>6. 0 \in 0 .. MaxGen
  BY CoordinatorAssumption
<1>7. TypeOK
  BY <1>1, <1>2, <1>3, <1>4, <1>5, <1>6 DEF TypeOK
<1>8. StampsPast
  BY <1>2, <1>4, <1>5 DEF StampsPast
<1> QED
  BY <1>7, <1>8 DEF Typed

LEMMA TypedByRefresh == Typed /\ Refresh => Typed'
<1> SUFFICES ASSUME Typed, Refresh PROVE Typed'
  OBVIOUS
<1>1. gen \in Gen /\ settings.scope \in Scope
  BY LoadedIsSetUp, StoredTypes DEF Typed, TypeOK, Refresh
<1> DEFINE c == Seeded(coord[gen], store[gen])
<1>2. c \in Coordinator /\ c.discovery <= now /\ c.service <= now
  BY <1>1, SeededType DEF Typed, TypeOK, StampsPast
<1>3. /\ sweeps' = sweeps \/ sweeps' = Launch(gen, "service") \/ sweeps' = Launch(gen, "discovery")
      /\ \/ coord' = [coord EXCEPT ![gen] = c]
         \/ coord' = [coord EXCEPT ![gen] = [c EXCEPT !.service = now]]
      /\ hist' = Told \/ hist' = [Told EXCEPT !.serviceAt = now]
      /\ UNCHANGED <<now, settings, gen, up, removed, store, pending, disk, asks>>
      /\ view' = Published(sweeps')
  BY DEF Refresh, files
<1>4. sweeps' \subseteq Sweep /\ \A s \in sweeps' : s.gen <= gen
  <2>1. /\ Launch(gen, "service") \subseteq Sweep /\ Launch(gen, "discovery") \subseteq Sweep
        /\ \A k \in {"service", "discovery"} : \A s \in Launch(gen, k) : s \in sweeps \/ s.gen = gen
    BY <1>1 DEF Launch, Sweep, Kind, Typed, TypeOK
  <2> QED
    BY <1>1, <1>3, <2>1 DEF Typed, TypeOK, Gen
<1>5. coord' \in [Gen -> Coordinator]
      /\ \A g \in Gen : coord'[g].discovery <= now /\ coord'[g].service <= now
  <2> HIDE DEF c
  <2>1. /\ [c EXCEPT !.service = now] \in Coordinator
        /\ [c EXCEPT !.service = now].discovery <= now /\ [c EXCEPT !.service = now].service <= now
    <3>1. now \in Nat /\ now <= now /\ TRUE \in BOOLEAN
      BY DEF Typed, TypeOK
    <3>2. [c EXCEPT !.service = IF TRUE THEN now ELSE c.service] = [c EXCEPT !.service = now]
      OBVIOUS
    <3> QED
      BY <1>2, <3>1, <3>2, CustomType
  <2>2. PICK x \in Coordinator : x.discovery <= now /\ x.service <= now /\ coord' = [coord EXCEPT ![gen] = x]
    BY <1>2, <1>3, <2>1
  <2> QED
    BY <1>1, <2>2 DEF Typed, TypeOK
<1>6. hist' \in History
  BY <1>3, ToldKeeps DEF Typed, TypeOK, History, Clock
<1>7. view' \in [scanning : BOOLEAN, lastScan : Clock]
  BY <1>1, <1>3, PublishedType DEF Typed, TypeOK
<1> QED
  BY <1>3, <1>4, <1>5, <1>6, <1>7 DEF Typed, TypeOK, StampsPast

\* What the end of a sweep does to types: some of its setup's coordinator, store and
\* history is replaced by something of its type, stamped no later than now.
LEMMA TypedByAnEnd ==
  ASSUME Typed, NEW s \in sweeps, NEW x \in Coordinator, NEW st \in Store, hist' \in History,
         x.discovery <= now, x.service <= now, st.lastScan <= now, st.lastPortScan <= now,
         sweeps' = sweeps \ {s}, coord' = [coord EXCEPT ![s.gen] = x],
         store' = [store EXCEPT ![s.gen] = st],
         pending' = pending \/ pending' = pending \cup {s.gen},
         view' = view \/ view' = PublishedBy(s),
         UNCHANGED <<now, settings, gen, up, removed, disk, asks>>
  PROVE  Typed'
<1>1. s \in Sweep /\ s.gen \in Gen /\ s.gen <= gen
  BY DEF Typed, TypeOK, Sweep
<1>2. coord' \in [Gen -> Coordinator] /\ store' \in [Gen -> Store]
      /\ \A g \in Gen : coord'[g].discovery <= now /\ coord'[g].service <= now
                        /\ store'[g].lastScan <= now /\ store'[g].lastPortScan <= now
  BY <1>1 DEF Typed, TypeOK, StampsPast
<1>3. view' \in [scanning : BOOLEAN, lastScan : Clock]
  <2>1. up => Published(sweeps') \in [scanning : BOOLEAN, lastScan : Clock]
    BY <1>2, LoadedIsSetUp, PublishedType DEF Typed
  <2> QED
    BY <2>1 DEF PublishedBy, Typed, TypeOK
<1>4. pending' \subseteq Gen /\ \A g \in pending' \cup {r.gen : r \in sweeps'} : g <= gen
  BY <1>1 DEF Typed, TypeOK
<1> QED
  BY <1>2, <1>3, <1>4 DEF Typed, TypeOK, StampsPast

\* What each kind of end leaves, in the form of TypedByAnEnd.
LEMMA FullSweepLeaves ==
  ASSUME Typed, NEW s \in sweeps, NEW found \in SUBSET Host, FullSweepLands(s, found)
  PROVE  /\ coord' = [coord EXCEPT ![s.gen] = FullSweep(coord[s.gen], s)]
         /\ store' = [store EXCEPT ![s.gen] = Folded(store[s.gen], found, s.kind = "service")]
         /\ FullSweep(coord[s.gen], s) \in Coordinator
         /\ Folded(store[s.gen], found, s.kind = "service") \in Store
         /\ Typed'
<1>1. s \in Sweep /\ s.gen \in Gen /\ (s.kind = "service") \in BOOLEAN /\ now \in Nat
      /\ hist \in History /\ coord[s.gen] \in Coordinator /\ store[s.gen] \in Store
  BY DEF Typed, TypeOK, Sweep
<1>2. coord[s.gen].service <= now /\ store[s.gen].lastPortScan <= now
  BY <1>1 DEF Typed, TypeOK, StampsPast
<1>3. /\ coord' = [coord EXCEPT ![s.gen] = FullSweep(coord[s.gen], s)]
      /\ store' = [store EXCEPT ![s.gen] = Folded(store[s.gen], found, s.kind = "service")]
      /\ pending' = pending \cup {s.gen} /\ sweeps' = sweeps \ {s}
      /\ hist' = Noted(s, FullHistory(s)) /\ view' = PublishedBy(s)
      /\ UNCHANGED <<now, settings, gen, up, removed, disk, asks>>
  BY DEF FullSweepLands, Kept
<1>4. /\ FullSweep(coord[s.gen], s) \in Coordinator
      /\ FullSweep(coord[s.gen], s).discovery <= now /\ FullSweep(coord[s.gen], s).service <= now
  BY <1>1, <1>2, FullSweepType
<1>5. LET st == Folded(store[s.gen], found, s.kind = "service")
      IN  st \in Store /\ st.lastScan <= now /\ st.lastPortScan <= now
  BY <1>1, <1>2, FoldedType
<1>6. hist' \in History
  BY <1>1, <1>3, HistoryTypes
<1> QED
  BY <1>3, <1>4, <1>5, <1>6, TypedByAnEnd

\* A custom scan leaves the discovery clock, and the service clock unless it looked at ports.
LEMMA CustomScanLeaves ==
  ASSUME Typed, NEW s \in sweeps, NEW found \in SUBSET Host, NEW ports \in BOOLEAN,
         CustomScanLands(s, found, ports)
  PROVE  LET x == [coord[s.gen] EXCEPT !.service = IF ports /\ found # {} THEN now ELSE coord[s.gen].service]
         IN  /\ coord' = [coord EXCEPT ![s.gen] = x]
             /\ store' = [store EXCEPT ![s.gen] = Folded(store[s.gen], found, ports)]
             /\ x.discovery = coord[s.gen].discovery /\ x.swept = coord[s.gen].swept
             /\ x.seeded = coord[s.gen].seeded /\ coord[s.gen].service <= x.service
             /\ Typed'
<1> DEFINE x == [coord[s.gen] EXCEPT !.service = IF ports /\ found # {} THEN now ELSE coord[s.gen].service]
<1>1. s \in Sweep /\ s.gen \in Gen /\ now \in Nat /\ (ports /\ found # {}) \in BOOLEAN
      /\ hist \in History /\ coord[s.gen] \in Coordinator /\ store[s.gen] \in Store
  BY DEF Typed, TypeOK, Sweep
<1>2. coord[s.gen].discovery <= now /\ coord[s.gen].service <= now /\ store[s.gen].lastPortScan <= now
  BY <1>1 DEF Typed, TypeOK, StampsPast
<1>3. /\ coord' = [coord EXCEPT ![s.gen] = x]
      /\ store' = [store EXCEPT ![s.gen] = Folded(store[s.gen], found, ports)]
      /\ pending' = pending \cup {s.gen} /\ sweeps' = sweeps \ {s}
      /\ hist' = Noted(s, Told) /\ view' = PublishedBy(s)
      /\ UNCHANGED <<now, settings, gen, up, removed, disk, asks>>
  BY DEF CustomScanLands
<1>4. /\ x \in Coordinator /\ x.discovery = coord[s.gen].discovery /\ x.swept = coord[s.gen].swept
      /\ x.seeded = coord[s.gen].seeded /\ x.service <= now /\ coord[s.gen].service <= x.service
  BY <1>1, <1>2, CustomType
<1>5. LET st == Folded(store[s.gen], found, ports)
      IN  st \in Store /\ st.lastScan <= now /\ st.lastPortScan <= now
  BY <1>1, <1>2, FoldedType
<1>6. hist' \in History
  BY <1>1, <1>3, HistoryTypes
<1> HIDE DEF x
<1>7. Typed'
  BY <1>2, <1>3, <1>4, <1>5, <1>6, TypedByAnEnd
<1> QED
  BY <1>3, <1>4, <1>7 DEF x

\* A sweep that fails moves at most the clocks and the scope last swept of its own setup.
LEMMA FailureLeaves ==
  ASSUME Typed, NEW s \in sweeps, SweepFails(s)
  PROVE  /\ coord' = [coord EXCEPT ![s.gen] = Failed(coord[s.gen], s)]
         /\ Failed(coord[s.gen], s) \in Coordinator
         /\ Typed'
<1>1. s \in Sweep /\ s.gen \in Gen /\ now \in Nat
      /\ hist \in History /\ coord[s.gen] \in Coordinator /\ store[s.gen] \in Store
  BY DEF Typed, TypeOK, Sweep
<1>2. coord[s.gen].discovery <= now /\ coord[s.gen].service <= now
      /\ store[s.gen].lastScan <= now /\ store[s.gen].lastPortScan <= now
  BY <1>1 DEF Typed, TypeOK, StampsPast
<1>3. /\ coord' = [coord EXCEPT ![s.gen] = Failed(coord[s.gen], s)]
      /\ store' = [store EXCEPT ![s.gen] = store[s.gen]]
      /\ pending' = pending /\ sweeps' = sweeps \ {s}
      /\ hist' = Noted(s, FailedHistory(s)) /\ (view' = view \/ view' = PublishedBy(s))
      /\ UNCHANGED <<now, settings, gen, up, removed, disk, asks>>
  BY <1>1 DEF SweepFails, PublishedOnFailure, files, Typed, TypeOK
<1>4. /\ Failed(coord[s.gen], s) \in Coordinator
      /\ Failed(coord[s.gen], s).discovery <= now /\ Failed(coord[s.gen], s).service <= now
  BY <1>1, <1>2, FailedType
<1>5. hist' \in History
  BY <1>1, <1>3, HistoryTypes
<1> QED
  BY <1>1, <1>2, <1>3, <1>4, <1>5, TypedByAnEnd

LEMMA TypedByOperator ==
  ASSUME Typed,
         \/ \E kind \in {"request", "custom"} : Ask(kind)
         \/ \E p \in Profile, on \in BOOLEAN : SetSchedule(p, on)
         \/ \E x \in SettingSets : EditSettings(x)
  PROVE  Typed'
<1>1. ASSUME NEW kind \in {"request", "custom"}, Ask(kind) PROVE Typed'
  <2>1. gen \in Gen /\ settings.scope \in Scope
    BY <1>1, LoadedIsSetUp, StoredTypes DEF Typed, TypeOK, Ask
  <2>2. [gen |-> gen, kind |-> kind, scope |-> settings.scope] \in Sweep
    BY <2>1 DEF Sweep, Kind
  <2>3. sweeps' \subseteq Sweep /\ \A s \in sweeps' : s.gen <= gen
    BY <1>1, <2>1, <2>2 DEF Ask, Typed, TypeOK, Gen
  <2> QED
    BY <1>1, <2>3 DEF Ask, files, Typed, TypeOK, StampsPast
<1>2. ASSUME NEW p \in Profile, NEW on \in BOOLEAN, SetSchedule(p, on) PROVE Typed'
  <2>1. gen \in Gen /\ coord[gen] \in Coordinator
    BY <1>2, LoadedIsSetUp DEF Typed, TypeOK, SetSchedule
  <2> DEFINE x == [coord[gen] EXCEPT !.enabled = [coord[gen].enabled EXCEPT ![p] = on]]
  <2>2. x \in Coordinator /\ x.discovery = coord[gen].discovery /\ x.service = coord[gen].service
    BY <2>1 DEF Coordinator
  <2>3. coord' = [coord EXCEPT ![gen] = x]
    BY <1>2 DEF SetSchedule
  <2>4. view' \in [scanning : BOOLEAN, lastScan : Clock] /\ hist' \in History
    BY <1>2, <2>1, PublishedType, ToldKeeps DEF SetSchedule, files, Typed, TypeOK
  <2> HIDE DEF x
  <2>5. coord' \in [Gen -> Coordinator]
        /\ \A g \in Gen : coord'[g].discovery <= now /\ coord'[g].service <= now
    BY <2>1, <2>2, <2>3 DEF Typed, TypeOK
  <2> QED
    BY <1>2, <2>4, <2>5 DEF SetSchedule, files, Typed, TypeOK, StampsPast
<1>3. ASSUME NEW x \in SettingSets, EditSettings(x) PROVE Typed'
  BY <1>3 DEF EditSettings, files, Typed, TypeOK, StampsPast
<1> QED
  BY <1>1, <1>2, <1>3

LEMMA TypedBySetup == ASSUME Typed, NEW nse \in BOOLEAN, Setup(nse) PROVE Typed'
<1> DEFINE x == [FreshCoordinator EXCEPT !.nse = nse]
<1>1. x \in Coordinator /\ x.discovery = Never /\ x.service = Never
  BY FreshTypes DEF Coordinator, FreshCoordinator
<1>2. gen' \in Gen /\ gen' = gen + 1 /\ gen \in Nat /\ now \in Nat /\ Never <= now
  BY CoordinatorAssumption DEF Setup, Typed, TypeOK, Gen, Never
<1>3. coord' = [coord EXCEPT ![gen'] = x] /\ store' = [store EXCEPT ![gen'] = disk]
  BY DEF Setup, Loaded
<1> HIDE DEF x
<1>4. coord' \in [Gen -> Coordinator] /\ store' \in [Gen -> Store]
      /\ \A g \in Gen : coord'[g].discovery <= now /\ coord'[g].service <= now
                        /\ store'[g].lastScan <= now /\ store'[g].lastPortScan <= now
  BY <1>1, <1>2, <1>3 DEF Typed, TypeOK, StampsPast
<1>5. hist' \in History
  <2>1. disk.lastScan \in Clock /\ disk.lastPortScan \in Clock
    BY DEF Typed, TypeOK, Store
  <2> QED
    BY <2>1, FreshTypes DEF Setup, History, Typed, TypeOK
<1>6. \A g \in pending \cup {s.gen : s \in sweeps} : g <= gen'
  <2>1. \A g \in pending \cup {s.gen : s \in sweeps} : g \in Gen /\ g <= gen
    BY DEF Typed, TypeOK, Sweep
  <2> QED
    BY <1>2, <2>1 DEF Gen
<1>7. view' \in [scanning : BOOLEAN, lastScan : Clock]
  BY DEF Setup, Unpublished, Clock
<1> QED
  BY <1>2, <1>4, <1>5, <1>6, <1>7 DEF Setup, Typed, TypeOK, StampsPast, Gen

LEMMA TypedByTheEnd == ASSUME Typed, Shutdown \/ Crash PROVE Typed'
<1>1. PICK file \in Store : ProcessEnds(file) /\ file.lastScan <= now /\ file.lastPortScan <= now
  BY DEF Shutdown, Crash, Typed, TypeOK, StampsPast
<1>2. FreshCoordinator.discovery <= now /\ FreshCoordinator.service <= now
      /\ EmptyStore.lastScan <= now /\ EmptyStore.lastPortScan <= now
  BY DEF FreshCoordinator, EmptyStore, Never, Typed, TypeOK
<1>3. /\ coord' \in [Gen -> Coordinator] /\ store' \in [Gen -> Store]
      /\ \A g \in Gen : coord'[g] = FreshCoordinator /\ store'[g] = EmptyStore
  BY <1>1, FreshTypes DEF ProcessEnds
<1>4. hist' \in History
  BY <1>1 DEF ProcessEnds, History, Typed, TypeOK
<1>5. view' \in [scanning : BOOLEAN, lastScan : Clock]
  BY <1>1 DEF ProcessEnds, Unpublished, Clock
<1> QED
  BY <1>1, <1>2, <1>3, <1>4, <1>5 DEF ProcessEnds, Typed, TypeOK, StampsPast

LEMMA TypedByTheRest ==
  ASSUME Typed, Unload \/ Remove \/ (\E g \in Gen : WriteSave(g)) \/ Tick \/ UNCHANGED vars
  PROVE  Typed'
<1>1. CASE Unload
  BY <1>1 DEF Unload, files, Typed, TypeOK, StampsPast
<1>5. CASE UNCHANGED vars
  BY <1>5 DEF vars, files, Typed, TypeOK, StampsPast
<1>2. CASE Remove
  <2>1. hist' \in History
    BY <1>2 DEF Remove, History, Typed, TypeOK
  <2>2. disk' \in Store /\ disk'.lastScan <= now /\ disk'.lastPortScan <= now
    BY <1>2, FreshTypes DEF Remove, RemovedFile, EmptyStore, Never, Typed, TypeOK
  <2> QED
    BY <1>2, <2>1, <2>2 DEF Remove, Typed, TypeOK, StampsPast
<1>3. CASE \E g \in Gen : WriteSave(g)
  BY <1>3 DEF WriteSave, Typed, TypeOK, StampsPast
<1>4. CASE Tick
  <2>1. \A n \in Clock : n <= now => n <= now'
    BY <1>4 DEF Tick, Clock, Never, Typed, TypeOK
  <2>2. /\ \A g \in Gen : /\ coord[g].discovery <= now' /\ coord[g].service <= now'
                          /\ store[g].lastScan <= now' /\ store[g].lastPortScan <= now'
        /\ disk.lastScan <= now' /\ disk.lastPortScan <= now'
    BY <2>1 DEF Typed, TypeOK, StampsPast, Coordinator, Store
  <2> QED
    BY <1>4, <2>2 DEF Tick, files, Typed, TypeOK, StampsPast
<1> QED
  BY <1>1, <1>2, <1>3, <1>4, <1>5

LEMMA StaysTyped == Typed /\ [Next]_vars => Typed'
<1> SUFFICES ASSUME Typed, [Next]_vars PROVE Typed'
  OBVIOUS
<1>1. CASE SweepEnds
  <2>1. PICK s \in sweeps :
          \/ SweepFails(s)
          \/ \E found \in SUBSET Host : FullSweepLands(s, found)
          \/ \E found \in SUBSET Host : \E ports \in BOOLEAN : CustomScanLands(s, found, ports)
    BY <1>1 DEF SweepEnds
  <2>2. CASE SweepFails(s)
    BY <2>2, FailureLeaves
  <2>3. CASE \E found \in SUBSET Host : FullSweepLands(s, found)
    BY <2>3, FullSweepLeaves
  <2>4. CASE \E found \in SUBSET Host : \E ports \in BOOLEAN : CustomScanLands(s, found, ports)
    BY <2>4, CustomScanLeaves
  <2> QED
    BY <2>1, <2>2, <2>3, <2>4
<1>2. CASE \E nse \in BOOLEAN : Setup(nse)
  BY <1>2, TypedBySetup
<1>3. CASE Refresh
  BY <1>3, TypedByRefresh
<1>4. CASE Shutdown \/ Crash
  BY <1>4, TypedByTheEnd
<1>5. CASE \/ \E kind \in {"request", "custom"} : Ask(kind)
           \/ \E p \in Profile, on \in BOOLEAN : SetSchedule(p, on)
           \/ \E x \in SettingSets : EditSettings(x)
  BY <1>5, TypedByOperator
<1>6. CASE Unload \/ Remove \/ (\E g \in Gen : WriteSave(g)) \/ Tick \/ UNCHANGED vars
  BY <1>6, TypedByTheRest
<1> QED
  BY <1>1, <1>2, <1>3, <1>4, <1>5, <1>6 DEF Next

\* Types hold, and no clock or stamp is ahead of time.
THEOREM TypeCorrect == Spec => []TypeOK
<1>1. Typed => TypeOK
  BY DEF Typed
<1> QED
  BY <1>1, TypedAtFirst, StaysTyped, PTL DEF Spec

-----------------------------------------------------------------------------
(* The setup that is loaded                                                *)

\* What it takes for swept is what was tried; a sweep runs only once its clocks are
\* seeded; and these are, or will be once seeded, no earlier than the last tries.
SweptIsNoted == up => coord[gen].swept = hist.fullScope

SeededFirst == up /\ Busy(sweeps, gen) => coord[gen].seeded

ClocksAreNoted ==
  up => LET c == Seeded(coord[gen], store[gen])
        IN  hist.fullAt <= c.discovery /\ hist.serviceAt <= c.service

Heard == SweptIsNoted /\ SeededFirst /\ ClocksAreNoted /\ ClockIsBackedByAScan /\ ViewIsCurrent

LEMMA HeardAtFirst == Init => Heard
BY DEF Init, Heard, SweptIsNoted, SeededFirst, ClocksAreNoted, ClockIsBackedByAScan, ViewIsCurrent

\* Nobody listens to a setup that is not loaded.
LEMMA NothingHeard == ASSUME ~up' PROVE Heard'
BY DEF Heard, SweptIsNoted, SeededFirst, ClocksAreNoted, ClockIsBackedByAScan, ViewIsCurrent

\* A sweep of an earlier setup ends unheard.
LEMMA HeardDespiteEarlierSetups ==
  ASSUME Typed, Heard, gen \in Gen, NEW s \in sweeps, s.gen # gen,
         sweeps' = sweeps \ {s}, coord'[gen] = coord[gen], store'[gen] = store[gen],
         UNCHANGED <<gen, up, view, hist>>
  PROVE  Heard'
<1>1. Busy(sweeps', gen) <=> Busy(sweeps, gen)
  BY DEF Busy
<1> QED
  BY <1>1 DEF Heard, SweptIsNoted, SeededFirst, ClocksAreNoted, ClockIsBackedByAScan, ViewIsCurrent, Seeded

\* A full sweep that lands is noted with its time and its scope, as the coordinator keeps them.
LEMMA HeardByFullSweep ==
  ASSUME Typed, Heard, NEW s \in sweeps, NEW found \in SUBSET Host, FullSweepLands(s, found)
  PROVE  Heard'
<1> SUFFICES ASSUME up PROVE Heard'
  BY NothingHeard DEF FullSweepLands
<1>1. gen \in Gen /\ s \in Sweep /\ s.gen \in Gen /\ now \in Nat /\ hist \in History
      /\ coord[gen] \in Coordinator /\ store[gen] \in Store
      /\ coord[gen].service <= now /\ store[gen].lastPortScan <= now /\ coord[gen].discovery <= now
  BY LoadedIsSetUp DEF Typed, TypeOK, Sweep, StampsPast
<1>2. /\ coord' = [coord EXCEPT ![s.gen] = FullSweep(coord[s.gen], s)]
      /\ store' = [store EXCEPT ![s.gen] = Folded(store[s.gen], found, s.kind = "service")]
      /\ sweeps' = sweeps \ {s} /\ gen' = gen /\ up' = up /\ now' = now
      /\ hist' = Noted(s, FullHistory(s)) /\ view' = PublishedBy(s)
  BY FullSweepLeaves DEF FullSweepLands
<1>3. CASE s.gen # gen
  BY <1>1, <1>2, <1>3, HeardDespiteEarlierSetups DEF Noted, PublishedBy, Typed, TypeOK
<1>4. CASE s.gen = gen
  <2>1. coord[gen].seeded
    BY <1>4 DEF Heard, SeededFirst, Busy
  <2> DEFINE c == FullSweep(coord[gen], s)
             st == Folded(store[gen], found, s.kind = "service")
  <2>2. coord'[gen] = c /\ store'[gen] = st
    BY <1>1, <1>2, <1>4 DEF Typed, TypeOK
  <2>3. /\ c.discovery = now /\ c.swept = s.scope /\ c.seeded
        /\ c.service = IF s.kind = "service" THEN now ELSE coord[gen].service
    BY <1>1, <2>1, FullSweepType
  <2>4. st.lastScan = now
    BY <1>1, FoldedType
  <2>5. /\ hist'.fullAt = now /\ hist'.fullScope = s.scope
        /\ hist'.serviceAt = IF s.kind = "service" THEN now ELSE hist.serviceAt
    BY <1>1, <1>2, <1>4, ToldKeeps DEF Noted, FullHistory, History
  <2>6. hist.serviceAt <= coord[gen].service
    BY <2>1 DEF Heard, ClocksAreNoted, Seeded
  <2>7. view' = Published(sweeps')
    BY <1>2, <1>4 DEF PublishedBy
  <2> HIDE DEF c, st
  <2>8. ViewIsCurrent' /\ ClockIsBackedByAScan'
    BY <1>1, <1>2, <2>2, <2>3, <2>4, <2>7 DEF ViewIsCurrent, ClockIsBackedByAScan, Published
  <2>9. SweptIsNoted' /\ SeededFirst' /\ ClocksAreNoted'
    BY <1>1, <1>2, <2>2, <2>3, <2>5, <2>6 DEF SweptIsNoted, SeededFirst, ClocksAreNoted, Seeded
  <2> QED
    BY <2>8, <2>9 DEF Heard
<1> QED
  BY <1>3, <1>4

\* A custom scan is no full sweep: it leaves the scope last swept.
LEMMA HeardByCustomScan ==
  ASSUME Typed, Heard, NEW s \in sweeps, NEW found \in SUBSET Host, NEW ports \in BOOLEAN,
         CustomScanLands(s, found, ports)
  PROVE  Heard'
<1> SUFFICES ASSUME up PROVE Heard'
  BY NothingHeard DEF CustomScanLands
<1> DEFINE x == [coord[s.gen] EXCEPT !.service = IF ports /\ found # {} THEN now ELSE coord[s.gen].service]
           st == Folded(store[s.gen], found, ports)
<1>1. gen \in Gen /\ s \in Sweep /\ s.gen \in Gen /\ now \in Nat /\ hist \in History
      /\ coord[gen] \in Coordinator /\ store[s.gen] \in Store /\ store[s.gen].lastPortScan <= now
      /\ coord[gen].discovery <= now
  BY LoadedIsSetUp DEF Typed, TypeOK, Sweep, StampsPast
<1>2. /\ coord' = [coord EXCEPT ![s.gen] = x] /\ store' = [store EXCEPT ![s.gen] = st]
      /\ x.discovery = coord[s.gen].discovery /\ x.swept = coord[s.gen].swept
      /\ x.seeded = coord[s.gen].seeded /\ coord[s.gen].service <= x.service
      /\ sweeps' = sweeps \ {s} /\ gen' = gen /\ up' = up /\ now' = now
      /\ hist' = Noted(s, Told) /\ view' = PublishedBy(s)
  <2>1. /\ coord' = [coord EXCEPT ![s.gen] = x] /\ store' = [store EXCEPT ![s.gen] = st]
        /\ x.discovery = coord[s.gen].discovery /\ x.swept = coord[s.gen].swept
        /\ x.seeded = coord[s.gen].seeded /\ coord[s.gen].service <= x.service
    BY CustomScanLeaves
  <2>2. /\ sweeps' = sweeps \ {s} /\ gen' = gen /\ up' = up /\ now' = now
        /\ hist' = Noted(s, Told) /\ view' = PublishedBy(s)
    BY DEF CustomScanLands
  <2> QED
    BY <2>1, <2>2
<1>3. st.lastScan = now
  BY <1>1, FoldedType
<1>0. x.service \in Int /\ coord[s.gen].service \in Int /\ hist.serviceAt \in Int
  BY <1>1 DEF Typed, TypeOK, Coordinator, History, Clock, Never
<1> HIDE DEF x, st
<1>4. CASE s.gen # gen
  BY <1>1, <1>2, <1>4, HeardDespiteEarlierSetups DEF Noted, PublishedBy, Typed, TypeOK
<1>5. CASE s.gen = gen
  <2>1. coord[gen].seeded
    BY <1>5 DEF Heard, SeededFirst, Busy
  <2>2. coord'[gen] = x /\ store'[gen] = st
    BY <1>1, <1>2, <1>5 DEF Typed, TypeOK
  <2>3. hist'.fullAt = hist.fullAt /\ hist'.fullScope = hist.fullScope /\ hist'.serviceAt = hist.serviceAt
    BY <1>1, <1>2, <1>5, ToldKeeps DEF Noted, History
  <2>4. hist.serviceAt <= coord[gen].service /\ hist.fullAt <= coord[gen].discovery
        /\ coord[gen].swept = hist.fullScope
    BY <2>1 DEF Heard, ClocksAreNoted, SweptIsNoted, Seeded
  <2>5. view' = Published(sweeps')
    BY <1>2, <1>5 DEF PublishedBy
  <2>6. ViewIsCurrent' /\ ClockIsBackedByAScan'
    BY <1>1, <1>2, <1>3, <1>5, <2>2, <2>5 DEF ViewIsCurrent, ClockIsBackedByAScan, Published
  <2>7. hist.serviceAt <= x.service
    BY <1>0, <1>2, <1>5, <2>4
  <2>8. SweptIsNoted' /\ SeededFirst' /\ ClocksAreNoted'
    BY <1>1, <1>2, <1>5, <2>1, <2>2, <2>3, <2>4, <2>7 DEF SweptIsNoted, SeededFirst, ClocksAreNoted, Seeded
  <2> QED
    BY <2>6, <2>8 DEF Heard
<1> QED
  BY <1>4, <1>5

\* A sweep that fails counts as a try: its clock and its scope are noted as if it had landed.
LEMMA HeardByFailure ==
  ASSUME Typed, Heard, NEW s \in sweeps, SweepFails(s)
  PROVE  Heard'
<1> SUFFICES ASSUME up PROVE Heard'
  BY NothingHeard DEF SweepFails
<1> DEFINE c == Failed(coord[gen], s)
<1>1. gen \in Gen /\ s \in Sweep /\ s.gen \in Gen /\ s.kind \in Kind /\ now \in Nat /\ hist \in History
      /\ coord[gen] \in Coordinator /\ coord[gen].service <= now /\ coord[gen].discovery <= now
  BY LoadedIsSetUp DEF Typed, TypeOK, Sweep
<1>2. /\ coord' = [coord EXCEPT ![s.gen] = Failed(coord[s.gen], s)] /\ store' = store
      /\ sweeps' = sweeps \ {s} /\ gen' = gen /\ up' = up
      /\ hist' = Noted(s, FailedHistory(s)) /\ view' = PublishedOnFailure(s)
  BY FailureLeaves DEF SweepFails, files
<1>3. CASE s.gen # gen
  BY <1>1, <1>2, <1>3, HeardDespiteEarlierSetups
  DEF Noted, PublishedOnFailure, PublishedBy, Typed, TypeOK
<1>4. CASE s.gen = gen
  <2>1. coord[gen].seeded
    BY <1>4 DEF Heard, SeededFirst, Busy
  <2>2. coord'[gen] = c
    BY <1>1, <1>2, <1>4 DEF Typed, TypeOK
  <2>3. /\ c.seeded = coord[gen].seeded
        /\ c.discovery = IF s.kind = "discovery" THEN now ELSE coord[gen].discovery
        /\ c.service = IF s.kind = "service" THEN now ELSE coord[gen].service
        /\ c.swept = IF s.kind = "discovery" THEN s.scope ELSE coord[gen].swept
    BY <1>1, FailedType
  <2>4. /\ hist' \in History
        /\ hist'.fullAt = IF s.kind = "discovery" THEN now ELSE hist.fullAt
        /\ hist'.serviceAt = IF s.kind = "service" THEN now ELSE hist.serviceAt
        /\ hist'.fullScope = IF s.kind = "discovery" THEN s.scope ELSE hist.fullScope
        /\ hist'.fullFailed = IF s.kind = "discovery" THEN TRUE ELSE hist.fullFailed
        /\ s.kind \notin {"discovery", "service"} => hist'.askedFailed
    BY <1>1, <1>2, <1>4, HistoryTypes, ToldKeeps DEF Noted, FailedHistory, History
  <2>5. hist.serviceAt <= coord[gen].service /\ hist.fullAt <= coord[gen].discovery
        /\ coord[gen].swept = hist.fullScope
    BY <2>1 DEF Heard, ClocksAreNoted, SweptIsNoted, Seeded
  <2> HIDE DEF c
  <2>6. ViewIsCurrent'
    <3>1. CASE s.kind \in {"discovery", "service"}
      BY <1>2, <1>4, <3>1 DEF ViewIsCurrent, PublishedOnFailure, PublishedBy, Published
    <3>2. CASE s.kind \notin {"discovery", "service"}
      BY <1>2, <2>1, <2>4, <3>2 DEF Heard, ViewIsCurrent, PublishedOnFailure
    <3> QED
      BY <3>1, <3>2
  <2>7. ClockIsBackedByAScan'
    BY <1>2, <2>1, <2>2, <2>3, <2>4 DEF Heard, ClockIsBackedByAScan
  <2>8. c.seeded /\ hist'.fullAt <= c.discovery /\ hist'.serviceAt <= c.service /\ c.swept = hist'.fullScope
    BY <1>1, <2>1, <2>3, <2>4, <2>5
  <2>9. SweptIsNoted' /\ SeededFirst' /\ ClocksAreNoted'
    BY <1>2, <2>2, <2>8 DEF SweptIsNoted, SeededFirst, ClocksAreNoted, Seeded
  <2> QED
    BY <2>6, <2>7, <2>9 DEF Heard
<1> QED
  BY <1>3, <1>4

\* A refresh seeds the clocks before it starts a sweep.
LEMMA HeardByRefresh == ASSUME Typed, Heard, Refresh PROVE Heard'
<1> DEFINE c == Seeded(coord[gen], store[gen])
           refused == [c EXCEPT !.service = now]
<1>1. gen \in Gen /\ now \in Nat /\ hist \in History /\ up
      /\ coord[gen] \in Coordinator /\ store[gen] \in Store
      /\ coord[gen].discovery <= now /\ coord[gen].service <= now
      /\ store[gen].lastScan <= now /\ store[gen].lastPortScan <= now
  BY LoadedIsSetUp DEF Refresh, Typed, TypeOK, StampsPast
<1>2. /\ c \in Coordinator /\ c.seeded = TRUE /\ c.swept = coord[gen].swept /\ c.service <= now
      /\ coord[gen].seeded = TRUE => c = coord[gen]
  BY <1>1, SeededType
<1>3. /\ hist.fullAt <= c.discovery /\ hist.serviceAt <= c.service
      /\ ~hist.fullFailed => c.discovery <= store[gen].lastScan
  <2>1. ~coord[gen].seeded => c.discovery = store[gen].lastScan
    BY <1>1 DEF Seeded, Coordinator
  <2>2. store[gen].lastScan <= store[gen].lastScan
    BY <1>1 DEF Store, Clock, Never
  <2> HIDE DEF c
  <2>3. coord[gen].seeded \in BOOLEAN
    BY <1>1 DEF Coordinator
  <2>4. hist.fullAt <= c.discovery /\ hist.serviceAt <= c.service
    BY <1>1 DEF Heard, ClocksAreNoted, c
  <2> QED
    BY <1>1, <1>2, <2>1, <2>2, <2>3, <2>4 DEF Heard, ClockIsBackedByAScan
<1>4. /\ \/ coord' = [coord EXCEPT ![gen] = c] /\ hist' = Told
         \/ coord' = [coord EXCEPT ![gen] = refused] /\ hist' = [Told EXCEPT !.serviceAt = now]
      /\ UNCHANGED <<now, gen, up, store>>
      /\ view' = Published(sweeps')
  BY DEF Refresh, files
<1>5. refused.service = now /\ refused.discovery = c.discovery /\ refused.swept = c.swept
      /\ refused.seeded = TRUE
  BY <1>2 DEF Coordinator
<1>6. PICK x : /\ coord'[gen] = x /\ x.seeded = TRUE /\ x.discovery = c.discovery /\ x.swept = c.swept
               /\ hist'.serviceAt <= x.service
  <2> HIDE DEF c
  <2>1. CASE coord' = [coord EXCEPT ![gen] = c] /\ hist' = Told
    BY <1>1, <1>2, <1>3, <2>1, ToldKeeps DEF Typed, TypeOK
  <2>2. CASE coord' = [coord EXCEPT ![gen] = refused] /\ hist' = [Told EXCEPT !.serviceAt = now]
    <3>1. coord'[gen] = refused
      BY <1>1, <2>2 DEF Typed, TypeOK
    <3>2. hist'.serviceAt = now /\ now <= now
      BY <1>1, <2>2, ToldKeeps DEF History
    <3> HIDE DEF refused
    <3> QED
      BY <1>5, <3>1, <3>2
  <2> QED
    BY <1>4, <2>1, <2>2
<1>7. hist'.fullAt = hist.fullAt /\ hist'.fullScope = hist.fullScope /\ hist'.fullFailed = hist.fullFailed
  BY <1>1, <1>4, ToldKeeps DEF History
<1> HIDE DEF c
<1>8. SweptIsNoted' /\ SeededFirst' /\ ClocksAreNoted'
  BY <1>1, <1>2, <1>3, <1>4, <1>6, <1>7 DEF Heard, SweptIsNoted, SeededFirst, ClocksAreNoted, Seeded
<1>9. ClockIsBackedByAScan' /\ ViewIsCurrent'
  BY <1>3, <1>4, <1>6, <1>7 DEF ClockIsBackedByAScan, ViewIsCurrent, Published
<1> QED
  BY <1>8, <1>9 DEF Heard

\* A setup begins unseeded, and has nothing swept.
LEMMA HeardBySetup == ASSUME Typed, NEW nse \in BOOLEAN, Setup(nse) PROVE Heard'
<1>1. gen' \in Gen /\ gen' = gen + 1 /\ gen \in Nat
  BY CoordinatorAssumption DEF Setup, Typed, TypeOK, Gen
<1>2. ~Busy(sweeps', gen')
  <2>1. \A s \in sweeps : s.gen \in Nat /\ s.gen <= gen
    BY DEF Typed, TypeOK, Sweep, Gen
  <2> QED
    BY <1>1, <2>1 DEF Setup, Busy
<1>3. /\ coord'[gen'] = [FreshCoordinator EXCEPT !.nse = nse] /\ store'[gen'] = disk
      /\ hist'.fullAt = disk.lastScan /\ hist'.serviceAt = disk.lastPortScan /\ hist'.fullScope = NoScope
  BY <1>1 DEF Setup, Loaded, FreshHistory, Typed, TypeOK
<1>4. /\ coord'[gen'].swept = NoScope /\ coord'[gen'].seeded = FALSE
      /\ Seeded(coord'[gen'], store'[gen']).discovery = disk.lastScan
      /\ Seeded(coord'[gen'], store'[gen']).service = disk.lastPortScan
  BY <1>3 DEF FreshCoordinator, Seeded
<1>5. disk.lastScan <= disk.lastScan /\ disk.lastPortScan <= disk.lastPortScan
  BY DEF Typed, TypeOK, Store, Clock, Never
<1> QED
  BY <1>2, <1>3, <1>4, <1>5
  DEF Heard, SweptIsNoted, SeededFirst, ClocksAreNoted, ClockIsBackedByAScan, ViewIsCurrent

LEMMA HeardByOperator ==
  ASSUME Typed, Heard,
         \/ \E kind \in {"request", "custom"} : Ask(kind)
         \/ \E p \in Profile, on \in BOOLEAN : SetSchedule(p, on)
  PROVE  Heard'
<1>1. gen \in Gen /\ coord[gen] \in Coordinator
  BY LoadedIsSetUp DEF Ask, SetSchedule, Typed, TypeOK
<1>2. ASSUME NEW kind \in {"request", "custom"}, Ask(kind) PROVE Heard'
  <2>1. Busy(sweeps, gen) => Busy(sweeps', gen)
    BY <1>2 DEF Ask, Busy
  <2> QED
    BY <1>2, <2>1 DEF Ask, files, Heard, SweptIsNoted, SeededFirst, ClocksAreNoted, Seeded,
                     ClockIsBackedByAScan, ViewIsCurrent
<1>3. ASSUME NEW p \in Profile, NEW on \in BOOLEAN, SetSchedule(p, on) PROVE Heard'
  <2>1. /\ coord'[gen].discovery = coord[gen].discovery /\ coord'[gen].service = coord[gen].service
        /\ coord'[gen].swept = coord[gen].swept /\ coord'[gen].seeded = coord[gen].seeded
        /\ coord[gen].seeded
    BY <1>1, <1>3 DEF SetSchedule, Coordinator, Typed, TypeOK
  <2>2. UNCHANGED <<gen, up, store, sweeps>> /\ view' = Published(sweeps)
    BY <1>3 DEF SetSchedule, files
  <2>3. /\ hist'.fullAt = hist.fullAt /\ hist'.fullScope = hist.fullScope
        /\ hist'.fullFailed = hist.fullFailed /\ hist'.serviceAt = hist.serviceAt
    BY <1>3, ToldKeeps DEF SetSchedule, Typed, TypeOK
  <2> QED
    BY <2>1, <2>2, <2>3 DEF Heard, SweptIsNoted, SeededFirst, ClocksAreNoted, Seeded,
                     ClockIsBackedByAScan, ViewIsCurrent, Published
<1> QED
  BY <1>2, <1>3

\* Steps that leave what is listened to as it was.
LEMMA HeardByTheRest ==
  ASSUME Heard, UNCHANGED <<gen, up, coord, store, sweeps, view, hist>>
  PROVE  Heard'
BY DEF Heard, SweptIsNoted, SeededFirst, ClocksAreNoted, Seeded, ClockIsBackedByAScan, ViewIsCurrent

\* Every step keeps it.
LEMMA StaysHeard == Typed /\ Heard /\ [Next]_vars => Heard'
<1> SUFFICES ASSUME Typed, Heard, [Next]_vars PROVE Heard'
  OBVIOUS
<1>1. CASE SweepEnds
  <2>1. PICK s \in sweeps :
          \/ SweepFails(s)
          \/ \E found \in SUBSET Host : FullSweepLands(s, found)
          \/ \E found \in SUBSET Host : \E ports \in BOOLEAN : CustomScanLands(s, found, ports)
    BY <1>1 DEF SweepEnds
  <2>2. CASE SweepFails(s)
    BY <2>2, HeardByFailure
  <2>3. CASE \E found \in SUBSET Host : FullSweepLands(s, found)
    BY <2>3, HeardByFullSweep
  <2>4. CASE \E found \in SUBSET Host : \E ports \in BOOLEAN : CustomScanLands(s, found, ports)
    BY <2>4, HeardByCustomScan
  <2> QED
    BY <2>1, <2>2, <2>3, <2>4
<1>2. CASE \E nse \in BOOLEAN : Setup(nse)
  BY <1>2, HeardBySetup
<1>3. CASE Refresh
  BY <1>3, HeardByRefresh
<1>4. CASE Unload \/ Shutdown \/ Crash
  BY <1>4, NothingHeard DEF Unload, Shutdown, Crash, ProcessEnds
<1>5. CASE \/ \E kind \in {"request", "custom"} : Ask(kind)
           \/ \E p \in Profile, on \in BOOLEAN : SetSchedule(p, on)
  BY <1>5, HeardByOperator
<1>6. CASE Remove \/ (\E x \in SettingSets : EditSettings(x)) \/ (\E g \in Gen : WriteSave(g)) \/ Tick
           \/ UNCHANGED vars
  BY <1>6, HeardByTheRest DEF Remove, EditSettings, WriteSave, Tick, vars, files, Typed, TypeOK
<1> QED
  BY <1>1, <1>2, <1>3, <1>4, <1>5, <1>6 DEF Next

-----------------------------------------------------------------------------
(* The inventory file                                                      *)

\* Unless setups overlapped, only the latest writes, and what it has to write holds
\* every host that is on file.
Filed ==
  ~hist.overlap =>
    /\ pending \subseteq {gen} /\ \A s \in sweeps : s.gen = gen
    /\ up \/ pending # {} \/ sweeps # {} => disk.hosts \subseteq store[gen].hosts

\* What an end of a sweep tells the history of the file: nothing.
LEMMA NothingNotedOfTheFile ==
  ASSUME hist \in History, NEW s \in Sweep
  PROVE  /\ Noted(s, FullHistory(s)).overlap = hist.overlap
         /\ Noted(s, FailedHistory(s)).overlap = hist.overlap
         /\ Noted(s, Told).overlap = hist.overlap
BY DEF Noted, FullHistory, FailedHistory, Told, History

\* A sweep that ends adds hosts to the store of its setup, if it does anything to it.
LEMMA FiledByAnEnd ==
  ASSUME Typed, Filed, NEW s \in sweeps, NEW st \in Store, store[s.gen].hosts \subseteq st.hosts,
         sweeps' = sweeps \ {s}, store' = [store EXCEPT ![s.gen] = st],
         pending' = pending \/ pending' = pending \cup {s.gen},
         hist'.overlap = hist.overlap,
         UNCHANGED <<gen, up, removed, disk>>
  PROVE  Filed'
<1>1. s.gen \in Gen
  BY DEF Typed, TypeOK, Sweep
<1>2. \A g \in Gen : store[g].hosts \subseteq store'[g].hosts
  BY <1>1 DEF Typed, TypeOK
<1>3. ~hist.overlap => s.gen = gen /\ gen \in Gen /\ disk.hosts \subseteq store[gen].hosts
  BY <1>1 DEF Filed
<1> QED
  BY <1>2, <1>3 DEF Filed

\* A sweep that ends writes through the store of its own setup.
LEMMA FiledBySweeps == ASSUME Typed, Filed, SweepEnds PROVE Filed'
<1>1. PICK s \in sweeps :
        \/ SweepFails(s)
        \/ \E found \in SUBSET Host : FullSweepLands(s, found)
        \/ \E found \in SUBSET Host : \E ports \in BOOLEAN : CustomScanLands(s, found, ports)
  BY DEF SweepEnds
<1>2. s \in Sweep /\ s.gen \in Gen /\ store[s.gen] \in Store /\ hist \in History /\ now \in Nat
      /\ store[s.gen].lastPortScan <= now
  BY DEF Typed, TypeOK, Sweep, StampsPast
<1>3. CASE SweepFails(s)
  <2>1. /\ sweeps' = sweeps \ {s} /\ pending' = pending /\ hist' = Noted(s, FailedHistory(s))
        /\ UNCHANGED <<gen, up, removed, disk, store>>
    BY <1>3 DEF SweepFails, files
  <2>2. store' = [store EXCEPT ![s.gen] = store[s.gen]]
    BY <1>2, <2>1 DEF Typed, TypeOK
  <2> QED
    BY <1>2, <2>1, <2>2, NothingNotedOfTheFile, FiledByAnEnd
<1>4. ASSUME NEW found \in SUBSET Host, FullSweepLands(s, found) PROVE Filed'
  <2> DEFINE st == Folded(store[s.gen], found, s.kind = "service")
  <2>1. st \in Store /\ store[s.gen].hosts \subseteq st.hosts
    BY <1>2, FoldedType
  <2>2. /\ sweeps' = sweeps \ {s} /\ pending' = pending \cup {s.gen}
        /\ hist' = Noted(s, FullHistory(s)) /\ store' = [store EXCEPT ![s.gen] = st]
        /\ UNCHANGED <<gen, up, removed, disk>>
    BY <1>4, FullSweepLeaves DEF FullSweepLands
  <2> HIDE DEF st
  <2> QED
    BY <1>2, <2>1, <2>2, NothingNotedOfTheFile, FiledByAnEnd
<1>5. ASSUME NEW found \in SUBSET Host, NEW ports \in BOOLEAN, CustomScanLands(s, found, ports)
      PROVE  Filed'
  <2> DEFINE st == Folded(store[s.gen], found, ports)
  <2>1. st \in Store /\ store[s.gen].hosts \subseteq st.hosts
    BY <1>2, FoldedType
  <2>2. /\ sweeps' = sweeps \ {s} /\ pending' = pending \cup {s.gen}
        /\ hist' = Noted(s, Told) /\ store' = [store EXCEPT ![s.gen] = st]
        /\ UNCHANGED <<gen, up, removed, disk>>
    BY <1>5 DEF CustomScanLands
  <2> HIDE DEF st
  <2> QED
    BY <1>2, <2>1, <2>2, NothingNotedOfTheFile, FiledByAnEnd
<1> QED
  BY <1>1, <1>3, <1>4, <1>5

LEMMA FiledByScheduling ==
  ASSUME Typed, Filed,
         \/ Refresh
         \/ \E kind \in {"request", "custom"} : Ask(kind)
         \/ \E p \in Profile, on \in BOOLEAN : SetSchedule(p, on)
  PROVE  Filed'
<1>1. /\ up /\ UNCHANGED <<gen, up, removed, store, pending, disk>>
      /\ hist'.overlap = hist.overlap
      /\ sweeps \subseteq sweeps' /\ \A s \in sweeps' \ sweeps : s.gen = gen
  <2>1. /\ up /\ UNCHANGED <<gen, up, removed, store, pending, disk>>
        /\ sweeps \subseteq sweeps' /\ \A s \in sweeps' \ sweeps : s.gen = gen
    BY DEF Refresh, Launch, Ask, SetSchedule, files
  <2>2. hist' \in {hist, Told, [Told EXCEPT !.serviceAt = now]}
    BY DEF Refresh, Ask, SetSchedule
  <2>3. hist'.overlap = hist.overlap
    BY <2>2, ToldKeeps DEF Typed, TypeOK, History
  <2> QED
    BY <2>1, <2>3
<1> QED
  BY <1>1 DEF Filed

\* Setups, unloads, removal, writes and the end of the process leave the file to one writer.
LEMMA FiledByLifecycle ==
  ASSUME Typed, Filed,
         \/ \E nse \in BOOLEAN : Setup(nse)
         \/ Unload \/ Remove \/ Shutdown \/ Crash
         \/ \E g \in Gen : WriteSave(g)
  PROVE  Filed'
<1>1. ASSUME NEW nse \in BOOLEAN, Setup(nse) PROVE Filed'
  <2>1. gen' \in Gen
    BY <1>1, CoordinatorAssumption DEF Setup, Typed, TypeOK, Gen
  <2>2. store'[gen'] = disk /\ UNCHANGED <<removed, pending, disk, sweeps>> /\ ~removed
        /\ hist'.overlap = (hist.overlap \/ pending # {} \/ sweeps # {})
    BY <1>1, <2>1 DEF Setup, Loaded, FreshHistory, Typed, TypeOK
  <2> QED
    BY <2>2 DEF Filed
<1>2. CASE Unload
  BY <1>2 DEF Unload, files, Filed
<1>3. CASE Remove
  <2>1. /\ hist'.overlap = hist.overlap
        /\ disk' = EmptyStore /\ EmptyStore.hosts = {} /\ ~up' /\ removed'
        /\ UNCHANGED <<gen, up, store, pending, sweeps>>
    BY <1>3 DEF Remove, RemovedFile, EmptyStore, Typed, TypeOK, History
  <2> QED
    BY <2>1 DEF Filed
<1>4. CASE Shutdown \/ Crash
  <2>1. PICK file \in {disk} \cup {store[g] : g \in pending} :
          ProcessEnds(file) /\ (pending = {} => file = disk)
    BY <1>4 DEF Shutdown, Crash
  <2>2. hist'.overlap = FALSE
    BY <2>1 DEF ProcessEnds, Typed, TypeOK, History
  <2> QED
    BY <2>1, <2>2 DEF ProcessEnds, Filed
<1>5. ASSUME NEW g \in Gen, WriteSave(g) PROVE Filed'
  BY <1>5 DEF WriteSave, Filed
<1> QED
  BY <1>1, <1>2, <1>3, <1>4, <1>5

\* Every step keeps it.
LEMMA StaysFiled == Typed /\ Filed /\ [Next]_vars => Filed'
<1> SUFFICES ASSUME Typed, Filed, [Next]_vars PROVE Filed'
  OBVIOUS
<1>1. CASE (\E x \in SettingSets : EditSettings(x)) \/ Tick \/ UNCHANGED vars
  BY <1>1 DEF EditSettings, Tick, vars, files, Filed
<1>2. CASE Refresh \/ (\E kind \in {"request", "custom"} : Ask(kind))
           \/ (\E p \in Profile, on \in BOOLEAN : SetSchedule(p, on))
  BY <1>2, FiledByScheduling
<1>3. CASE (\E nse \in BOOLEAN : Setup(nse)) \/ Unload \/ Remove \/ Shutdown \/ Crash
           \/ (\E g \in Gen : WriteSave(g))
  BY <1>3, FiledByLifecycle
<1> QED
  BY <1>1, <1>2, <1>3, FiledBySweeps DEF Next

LEMMA FiledAtFirst == Init => Filed
BY DEF Init, Filed

-----------------------------------------------------------------------------
(* Theorems                                                                *)

\* The inductive invariant of the coordinator, its history and its file.
THEOREM CoordinatorInvariant == Spec => [](Typed /\ Heard /\ Filed)
BY TypedAtFirst, HeardAtFirst, FiledAtFirst, StaysTyped, StaysHeard, StaysFiled, PTL DEF Spec

\* The scope taken for swept is one a sweep was given, for any edits while it ran.
THEOREM SweptScopeWasSweptHolds == Spec => []SweptScopeWasSwept
<1>1. Heard => SweptScopeWasSwept
  BY DEF Heard, SweptIsNoted, SweptScopeWasSwept
<1> QED
  BY <1>1, CoordinatorInvariant, PTL

\* No discovery clock moves without its result in the inventory or a failure.
THEOREM ClockIsBackedByAScanHolds == Spec => []ClockIsBackedByAScan
<1>1. Heard => ClockIsBackedByAScan
  BY DEF Heard
<1> QED
  BY <1>1, CoordinatorInvariant, PTL

\* What is shown is the inventory as the last scan left it.
THEOREM ViewIsCurrentHolds == Spec => []ViewIsCurrent
<1>1. Heard => ViewIsCurrent
  BY DEF Heard
<1> QED
  BY <1>1, CoordinatorInvariant, PTL

\* Of what starts in a step: a sweep of the loaded setup, due by the history.
LEMMA LaunchesKeepTheirInterval ==
  ASSUME Typed, Heard, [Next]_vars, NEW s \in sweeps' \ sweeps
  PROVE  /\ s.kind = "discovery" =>
              \/ Due(TRUE, hist.fullAt, settings.discovery)
              \/ hist.fullScope # NoScope /\ hist.fullScope # s.scope
         /\ s.kind = "service" => Due(TRUE, hist.serviceAt, settings.service)
<1>1. Refresh \/ \E kind \in {"request", "custom"} : Ask(kind)
  BY DEF Next, SweepEnds, SweepFails, FullSweepLands, CustomScanLands, SetSchedule, EditSettings,
         Setup, Unload, Remove, WriteSave, Shutdown, Crash, ProcessEnds, Tick, vars
<1>2. ASSUME NEW kind \in {"request", "custom"}, Ask(kind)
      PROVE  s.kind \notin {"discovery", "service"}
  <2>1. s = [gen |-> gen, kind |-> kind, scope |-> settings.scope]
    BY <1>2 DEF Ask
  <2> QED
    BY <2>1
<1>3. CASE Refresh
  <2> DEFINE c == Seeded(coord[gen], store[gen])
  <2>1. gen \in Gen /\ up /\ now \in Nat /\ coord[gen] \in Coordinator /\ store[gen] \in Store
        /\ coord[gen].discovery <= now /\ coord[gen].service <= now
        /\ store[gen].lastScan <= now /\ store[gen].lastPortScan <= now
    BY <1>3, LoadedIsSetUp DEF Refresh, Typed, TypeOK, StampsPast
  <2>2. c \in Coordinator /\ c.swept = hist.fullScope
        /\ hist.fullAt <= c.discovery /\ hist.serviceAt <= c.service
    BY <2>1, SeededType DEF Heard, SweptIsNoted, ClocksAreNoted
  <2>3. hist.fullAt \in Clock /\ hist.serviceAt \in Clock /\ c.discovery \in Clock /\ c.service \in Clock
        /\ settings.discovery \in Nat /\ settings.service \in Nat
    BY <2>2, StoredTypes DEF Typed, TypeOK, History, Coordinator
  <2>4. s.scope = settings.scope
        /\ \/ s.kind = "service" /\ ServiceDue(c)
           \/ s.kind = "discovery" /\ DiscoveryDue(c)
    BY <1>3 DEF Refresh, Launch
  <2> HIDE DEF c
  <2>5. \A x, y \in Clock, n \in Nat, e \in BOOLEAN : x <= y /\ Due(e, y, n) => Due(TRUE, x, n)
    BY <2>1 DEF Due, Clock, Never
  <2>6. c.enabled["standard"] \in BOOLEAN /\ c.enabled["discovery"] \in BOOLEAN
    BY <2>2 DEF Coordinator, Profile
  <2>7. CASE s.kind = "service"
    BY <2>2, <2>3, <2>4, <2>5, <2>6, <2>7 DEF ServiceDue
  <2>8. CASE s.kind = "discovery"
    <3>1. \/ Due(c.enabled["discovery"], c.discovery, settings.discovery)
          \/ hist.fullScope # NoScope /\ hist.fullScope # s.scope
      BY <2>2, <2>4, <2>8 DEF DiscoveryDue, ScopeChanged
    <3>2. Due(c.enabled["discovery"], c.discovery, settings.discovery) => Due(TRUE, hist.fullAt, settings.discovery)
      BY <2>2, <2>3, <2>5, <2>6
    <3> QED
      BY <2>8, <3>1, <3>2
  <2> QED
    BY <2>4, <2>7, <2>8
<1> QED
  BY <1>1, <1>2, <1>3

\* No sweep is launched before its interval is over since this setup's last try, or,
\* before its first, since the last scan on file when it was set up.
THEOREM SweepsKeepTheirIntervalHolds == Spec => SweepsKeepTheirInterval
<1>1. Typed /\ Heard /\ [Next]_vars =>
        [\A s \in sweeps' \ sweeps :
           /\ s.kind = "discovery" =>
                \/ Due(TRUE, hist.fullAt, settings.discovery)
                \/ hist.fullScope # NoScope /\ hist.fullScope # s.scope
           /\ s.kind = "service" => Due(TRUE, hist.serviceAt, settings.service)]_vars
  BY LaunchesKeepTheirInterval
<1> QED
  BY <1>1, CoordinatorInvariant, PTL DEF Spec, SweepsKeepTheirInterval

\* Only a write and the end of the process write the file, and neither takes a host
\* off it unless setups overlapped.
LEMMA WritesKeepHosts ==
  ASSUME Typed, Filed, [Next]_vars, ~hist.overlap, removed' = removed
  PROVE  disk.hosts \subseteq disk'.hosts
<1>1. CASE \E g \in Gen : WriteSave(g)
  BY <1>1 DEF WriteSave, Filed
<1>2. CASE Shutdown \/ Crash
  <2>1. PICK file \in {disk} \cup {store[g] : g \in pending} : disk' = file
    BY <1>2 DEF Shutdown, Crash, ProcessEnds
  <2> QED
    BY <2>1 DEF Filed
<1>3. CASE Remove
  BY <1>3 DEF Remove, Typed, TypeOK
<1> QED
  BY <1>1, <1>2, <1>3 DEF Next, Refresh, SweepEnds, SweepFails, FullSweepLands, CustomScanLands, Ask,
     SetSchedule, EditSettings, Setup, Unload, Tick, vars, files

\* The file keeps its hosts through any writes, restarts and crashes of one setup at a time.
THEOREM FileKeepsItsHostsHolds == Spec => FileKeepsItsHosts
<1>1. Typed /\ Filed /\ [Next]_vars =>
        [~hist.overlap /\ removed' = removed => disk.hosts \subseteq disk'.hosts]_vars
  BY WritesKeepHosts
<1> QED
  BY <1>1, CoordinatorInvariant, PTL DEF Spec, FileKeepsItsHosts
=============================================================================
