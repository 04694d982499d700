-------------------------- MODULE LocalCoordinator --------------------------
(***************************************************************************)
(* scan/coordinator.py in local mode: which sweep a tick launches, what a  *)
(* sweep does when it ends, the scans someone asks for, and the inventory  *)
(* file across reloads, restarts and crashes.                              *)
(*                                                                         *)
(* A sweep is two steps: nmap starts, and nmap ends, holding the scanner's *)
(* lock between them; everything else on the event loop interleaves.  A    *)
(* setup makes a new scanner, store and coordinator and nothing cancels a  *)
(* sweep, so those of an earlier setup may still be running: each setup is *)
(* a generation with a state of its own.                                   *)
(*                                                                         *)
(* How a scan is merged is Inventory's; here the inventory is its stamps   *)
(* and the set of its hosts, none of which grows stale.  What a sweep says *)
(* about silent targets, the text of a service error and SSH probing feed  *)
(* nothing here and are left out.  An operator named for a change to the   *)
(* one below it is a mutation of it.                                       *)
(***************************************************************************)
EXTENDS Integers, FiniteSets

CONSTANTS
  Host,         \* the hosts a scan can find
  Scope,        \* the targets and exclusions an operator may store
  SettingSets,  \* the schedules and scopes an operator may store
  NoScope,      \* _swept_scope None: no full sweep in this process yet
  MaxTime,      \* bound on the clock
  MaxGen,       \* bound on setups
  MaxAsks       \* bound on the scans someone asks for

ASSUME CoordinatorAssumption ==
  /\ NoScope \notin Scope
  /\ SettingSets \subseteq [scope : Scope, discovery : Nat \ {0}, service : Nat \ {0}]
  /\ {MaxTime, MaxGen, MaxAsks} \subseteq Nat

Gen == 1 .. MaxGen
Profile == {"discovery", "standard"}
Kind == {"discovery", "service", "request", "custom"}
Never == -1
Clock == Nat \cup {Never}

VARIABLES
  now,      \* wall clock
  settings, \* scope and schedule, as stored in the entry
  gen,      \* the latest setup; 0 before the first
  up,       \* whether that setup is still loaded
  removed,  \* whether the entry was removed
  coord,    \* per setup, the LocalCoordinator
  store,    \* per setup, the InventoryStore
  pending,  \* the setups whose store has a delayed write scheduled
  disk,     \* the inventory file
  sweeps,   \* the sweeps nmap is running
  asks,     \* scans someone asked for so far
  view,     \* what the loaded coordinator last published
  hist      \* history, see below

files == <<store, pending, disk>>
vars  == <<now, settings, gen, up, removed, coord, files, sweeps, asks, view, hist>>

Coordinator ==
  [discovery : Clock, service : Clock, enabled : [Profile -> BOOLEAN], seeded : BOOLEAN,
   swept : Scope \cup {NoScope}, nse : BOOLEAN]

FreshCoordinator ==
  [discovery |-> Never, service |-> Never, enabled |-> [p \in Profile |-> TRUE], seeded |-> FALSE,
   swept |-> NoScope, nse |-> TRUE]

Store == [hosts : SUBSET Host, lastScan : Clock, lastPortScan : Clock]
EmptyStore == [hosts |-> {}, lastScan |-> Never, lastPortScan |-> Never]

Unpublished == [scanning |-> FALSE, lastScan |-> Never]

Sweep == [gen : Gen, kind : Kind, scope : Scope]

\* When the last sweep of the whole scope was tried since the setup (or is on file
\* from before it), over what, and whether it failed; likewise the last service
\* sweep; whether a scan someone asked for failed since the last publish; and
\* whether a setup ever began while an earlier one still had a write or a sweep to
\* finish (overlap).
History ==
  [fullAt : Clock, fullScope : Scope \cup {NoScope}, fullFailed : BOOLEAN, serviceAt : Clock,
   askedFailed : BOOLEAN, overlap : BOOLEAN]

FreshHistory ==
  [fullAt |-> Never, fullScope |-> NoScope, fullFailed |-> FALSE, serviceAt |-> Never,
   askedFailed |-> FALSE, overlap |-> FALSE]

TypeOK ==
  /\ now \in Nat
  /\ settings \in SettingSets
  /\ gen \in 0 .. MaxGen /\ {up, removed} \subseteq BOOLEAN /\ (up => gen # 0 /\ ~removed)
  /\ coord \in [Gen -> Coordinator]
  /\ store \in [Gen -> Store] /\ pending \subseteq Gen /\ disk \in Store
  /\ sweeps \subseteq Sweep /\ asks \in Nat
  /\ view \in [scanning : BOOLEAN, lastScan : Clock]
  /\ hist \in History
  \* No clock is ahead of time, and only what was set up runs or writes.
  /\ \A g \in Gen : coord[g].discovery <= now /\ coord[g].service <= now
  /\ \A g \in pending \cup {s.gen : s \in sweeps} : g <= gen

-----------------------------------------------------------------------------
(* The tick                                                                *)

\* The scanner of a setup holds its lock while nmap runs.
Busy(running, g) == \E s \in running : s.gen = g

\* _seed_clocks_from_store.
NotSeeded(c, st) == [c EXCEPT !.seeded = TRUE]

Seeded(c, st) ==
  IF c.seeded THEN c
  ELSE [c EXCEPT !.seeded = TRUE, !.discovery = st.lastScan, !.service = st.lastPortScan]

Due(enabled, clock, interval) == enabled /\ (clock = Never \/ now - clock >= interval)

ScopeNeverChanges(c) == FALSE

ScopeChanged(c) == c.swept # NoScope /\ settings.scope # c.swept

ServiceDue(c) == Due(c.enabled["standard"], c.service, settings.service)

DiscoveryDue(c) ==
  \/ Due(c.enabled["discovery"], c.discovery, settings.discovery)
  \/ c.enabled["discovery"] /\ ScopeChanged(c)

\* A launch while the scanner is busy raises ScanBusy and leaves everything as it
\* was; the sweep reads the settings once, as it starts.
Launch(g, kind) ==
  IF Busy(sweeps, g) THEN sweeps ELSE sweeps \cup {[gen |-> g, kind |-> kind, scope |-> settings.scope]}

Published(running) == [scanning |-> Busy(running, gen), lastScan |-> store'[gen].lastScan]

\* A publish takes back whatever the listeners were left to believe.
Told == [hist EXCEPT !.askedFailed = FALSE]

Refresh ==
  LET c == Seeded(coord[gen], store[gen])
  IN  /\ up
      /\ \/ /\ ServiceDue(c) /\ c.nse
            /\ sweeps' = Launch(gen, "service")
            /\ coord' = [coord EXCEPT ![gen] = c]
            /\ hist' = Told
         \* Without the script engine the sweep is refused before nmap starts.
         \/ /\ ServiceDue(c) /\ ~c.nse
            /\ sweeps' = sweeps
            /\ coord' = [coord EXCEPT ![gen] = [c EXCEPT !.service = now]]
            /\ hist' = [Told EXCEPT !.serviceAt = now]
         \/ /\ ~ServiceDue(c) /\ DiscoveryDue(c)
            /\ sweeps' = Launch(gen, "discovery")
            /\ coord' = [coord EXCEPT ![gen] = c]
            /\ hist' = Told
         \/ /\ ~ServiceDue(c) /\ ~DiscoveryDue(c)
            /\ sweeps' = sweeps
            /\ coord' = [coord EXCEPT ![gen] = c]
            /\ hist' = Told
      /\ UNCHANGED <<now, settings, gen, up, removed, files, asks>>
      /\ view' = Published(sweeps')

-----------------------------------------------------------------------------
(* The end of a sweep                                                      *)

\* store.apply_scan, as far as stamps and the set of hosts go.
Folded(st, found, ports) ==
  [hosts |-> st.hosts \cup found, lastScan |-> now,
   lastPortScan |-> IF ports /\ found # {} THEN now ELSE st.lastPortScan]

\* What is kept of a sweep of the whole scope.
KeptUnlessAsked(st, s, found) ==
  IF s.kind = "request" THEN st ELSE Folded(st, found, s.kind = "service")

Kept(st, s, found) == Folded(st, found, s.kind = "service")

\* The scope a finished sweep stamps: the one it was started with.
ScopeNow(s) == settings.scope

SweptScope(s) == s.scope

\* What a sweep of the whole scope that answered leaves in the coordinator.
FullSweep(c, s) ==
  [c EXCEPT !.discovery = now,
            !.swept = SweptScope(s),
            !.service = IF s.kind = "service" THEN now ELSE @]

\* What one that failed leaves: the attempt counts, so it is not tried each tick.
Failed(c, s) ==
  CASE s.kind = "discovery" -> [c EXCEPT !.discovery = now, !.swept = SweptScope(s)]
    [] s.kind = "service"   -> [c EXCEPT !.service = now]
    [] OTHER                -> c

FullHistory(s) ==
  [Told EXCEPT !.fullAt = now, !.fullScope = s.scope, !.fullFailed = FALSE,
               !.serviceAt = IF s.kind = "service" THEN now ELSE @]

FailedHistory(s) ==
  CASE s.kind = "discovery" ->
         [Told EXCEPT !.fullAt = now, !.fullScope = s.scope, !.fullFailed = TRUE]
    [] s.kind = "service" -> [Told EXCEPT !.serviceAt = now]
    [] OTHER -> [hist EXCEPT !.askedFailed = TRUE]

\* The history is that of the latest setup; only while it is loaded does anyone listen.
Noted(s, h) == IF s.gen = gen THEN h ELSE hist

PublishedBy(s) == IF up /\ s.gen = gen THEN Published(sweeps') ELSE view

\* A scheduled sweep, or a discovery someone asked for, comes back with hosts.
FullSweepLands(s, found) ==
  /\ s.kind \in {"discovery", "service", "request"}
  /\ sweeps' = sweeps \ {s}
  /\ coord' = [coord EXCEPT ![s.gen] = FullSweep(@, s)]
  /\ store' = [store EXCEPT ![s.gen] = Kept(@, s, found)]
  /\ pending' = pending \cup {s.gen}
  /\ hist' = Noted(s, FullHistory(s))
  /\ view' = PublishedBy(s)
  /\ UNCHANGED <<now, settings, gen, up, removed, disk, asks>>

\* A custom scan, of any targets and options, comes back with hosts.
CustomScanLands(s, found, ports) ==
  /\ s.kind = "custom"
  /\ sweeps' = sweeps \ {s}
  /\ coord' = [coord EXCEPT ![s.gen].service = IF ports /\ found # {} THEN now ELSE @]
  /\ store' = [store EXCEPT ![s.gen] = Folded(@, found, ports)]
  /\ pending' = pending \cup {s.gen}
  /\ hist' = Noted(s, Told)
  /\ view' = PublishedBy(s)
  /\ UNCHANGED <<now, settings, gen, up, removed, disk, asks>>

UnpublishedOnFailure(s) == view

\* nmap could not start, said nothing, or said nothing that parses.  A scheduled
\* sweep publishes all the same; a scan someone asked for raises to its caller.
PublishedOnFailure(s) == IF s.kind \in {"discovery", "service"} THEN PublishedBy(s) ELSE view

SweepFails(s) ==
  /\ sweeps' = sweeps \ {s}
  /\ coord' = [coord EXCEPT ![s.gen] = Failed(@, s)]
  /\ hist' = Noted(s, FailedHistory(s))
  /\ UNCHANGED <<now, settings, gen, up, removed, files, asks>>
  /\ view' = PublishedOnFailure(s)

-----------------------------------------------------------------------------
(* What an operator does                                                   *)

Ask(kind) ==
  /\ up /\ coord[gen].seeded /\ asks < MaxAsks
  /\ ~Busy(sweeps, gen)
  /\ sweeps' = sweeps \cup {[gen |-> gen, kind |-> kind, scope |-> settings.scope]}
  /\ asks' = asks + 1
  /\ UNCHANGED <<now, settings, gen, up, removed, coord, files, view, hist>>

SetSchedule(profile, enabled) ==
  /\ up /\ coord[gen].seeded
  /\ coord' = [coord EXCEPT ![gen].enabled[profile] = enabled]
  /\ hist' = Told
  /\ UNCHANGED <<now, settings, gen, up, removed, files, sweeps, asks>>
  /\ view' = Published(sweeps)

EditSettings(s) ==
  /\ ~removed
  /\ settings' = s
  /\ UNCHANGED <<now, gen, up, removed, coord, files, sweeps, asks, view, hist>>

-----------------------------------------------------------------------------
(* Lifecycle                                                               *)

LoadedEmpty(file) == EmptyStore

Loaded(file) == file

Setup(nse) ==
  /\ ~up /\ ~removed /\ gen < MaxGen
  /\ gen' = gen + 1
  /\ up' = TRUE
  /\ coord' = [coord EXCEPT ![gen'] = [FreshCoordinator EXCEPT !.nse = nse]]
  /\ store' = [store EXCEPT ![gen'] = Loaded(disk)]
  /\ view' = Unpublished
  /\ hist' = [FreshHistory EXCEPT !.fullAt = disk.lastScan, !.serviceAt = disk.lastPortScan,
                                  !.overlap = hist.overlap \/ pending # {} \/ sweeps # {}]
  /\ UNCHANGED <<now, settings, removed, pending, disk, sweeps, asks>>

\* An unload, alone or as the first half of a reload, cancels no sweep and no write.
Unload ==
  /\ up
  /\ up' = FALSE
  /\ UNCHANGED <<now, settings, gen, removed, coord, files, sweeps, asks, view, hist>>

RemovedFile == EmptyStore

\* The entry is removed once it is unloaded: its file goes, as a store of its own sees
\* it, and with it neither a sweep nor a write of the store that was loaded.
Remove ==
  /\ gen > 0 /\ ~up /\ ~removed
  /\ removed' = TRUE
  /\ disk' = RemovedFile
  /\ UNCHANGED <<now, settings, gen, up, coord, store, pending, sweeps, asks, view, hist>>

WriteSave(g) ==
  /\ g \in pending
  /\ disk' = store[g]
  /\ pending' = pending \ {g}
  /\ UNCHANGED <<now, settings, gen, up, removed, coord, store, sweeps, asks, view, hist>>

\* The process ends: with its last writes made in some order, or with none.
ProcessEnds(file) ==
  /\ gen > 0
  /\ up' = FALSE
  /\ disk' = file
  /\ pending' = {} /\ sweeps' = {}
  /\ hist' = [hist EXCEPT !.overlap = FALSE]
  /\ coord' = [g \in Gen |-> FreshCoordinator] /\ store' = [g \in Gen |-> EmptyStore]
  /\ view' = Unpublished
  /\ UNCHANGED <<now, settings, gen, removed, asks>>

Shutdown == \E file \in IF pending = {} THEN {disk} ELSE {store[g] : g \in pending} : ProcessEnds(file)

Crash == ProcessEnds(disk)

Tick ==
  /\ now < MaxTime
  /\ now' = now + 1
  /\ UNCHANGED <<settings, gen, up, removed, coord, files, sweeps, asks, view, hist>>

-----------------------------------------------------------------------------
Init ==
  /\ now = 0
  /\ settings \in SettingSets
  /\ gen = 0 /\ up = FALSE /\ removed = FALSE
  /\ coord = [g \in Gen |-> FreshCoordinator]
  /\ store = [g \in Gen |-> EmptyStore]
  /\ pending = {} /\ disk = EmptyStore
  /\ sweeps = {} /\ asks = 0
  /\ view = Unpublished
  /\ hist = FreshHistory

SweepEnds ==
  \E s \in sweeps :
    \/ SweepFails(s)
    \/ \E found \in SUBSET Host :
         \/ FullSweepLands(s, found)
         \/ \E ports \in BOOLEAN : CustomScanLands(s, found, ports)

Next ==
  \/ Refresh
  \/ SweepEnds
  \/ \E kind \in {"request", "custom"} : Ask(kind)
  \/ \E p \in Profile, on \in BOOLEAN : SetSchedule(p, on)
  \/ \E s \in SettingSets : EditSettings(s)
  \/ \E nse \in BOOLEAN : Setup(nse)
  \/ Unload
  \/ Remove
  \/ \E g \in Gen : WriteSave(g)
  \/ Shutdown
  \/ Crash
  \/ Tick

Spec == Init /\ [][Next]_vars

\* The coordinator is refreshed on its interval, and a sweep is killed at its timeout.
FairSpec == Spec /\ WF_vars(Refresh) /\ WF_vars(SweepEnds)

-----------------------------------------------------------------------------
(* Properties                                                              *)

\* A scheduled sweep starts only when its interval is over since this setup last
\* tried, whoever asked for that try and however it ended, or when the scope is not
\* the one last tried.  Before its first try a setup goes by the scans on file when
\* it was set up, so a restart sweeps nothing again that is on file; what an earlier
\* setup tried in vain, had not written, or was still running, it does not know of.
SweepsKeepTheirInterval ==
  [][\A s \in sweeps' \ sweeps :
       /\ s.kind = "discovery" =>
            \/ Due(TRUE, hist.fullAt, settings.discovery)
            \/ hist.fullScope # NoScope /\ hist.fullScope # s.scope
       /\ s.kind = "service" => Due(TRUE, hist.serviceAt, settings.service)]_vars

\* The scope the coordinator takes for swept is one nmap was given, so a scope
\* edited while a sweep ran is still swept.
SweptScopeWasSwept ==
  up /\ coord[gen].seeded => coord[gen].swept = hist.fullScope

\* A discovery clock that moved has its result in the inventory, unless the sweep
\* it moved for failed: no sweep is spent and thrown away.
ClockIsBackedByAScan ==
  up /\ coord[gen].seeded /\ ~hist.fullFailed => coord[gen].discovery <= store[gen].lastScan

\* What the entities show is the inventory as the last scan left it, and they show
\* a scan running only while one is; a scan someone asked for that failed is the
\* one exception, and lasts until the next publish.
ViewIsCurrent ==
  up /\ coord[gen].seeded =>
    /\ view.lastScan = store[gen].lastScan
    /\ view.scanning => Busy(sweeps, gen) \/ hist.askedFailed

\* A host in the inventory file stays in it, whatever restarts and crashes come
\* between, as long as no setup began before an earlier one had finished writing.
FileKeepsItsHosts ==
  [][~hist.overlap /\ removed' = removed => disk.hosts \subseteq disk'.hosts]_vars

\* A scope the operator changed is swept in the end, or changed back, or discovery
\* is switched off: not left to a clock that may be a day away.
Unswept ==
  /\ up /\ coord[gen].enabled["discovery"]
  /\ coord[gen].swept \notin {NoScope, settings.scope}

ChangedScopeIsSwept == Unswept ~> ~Unswept
=============================================================================
