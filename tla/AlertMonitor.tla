---------------------------- MODULE AlertMonitor ----------------------------
(***************************************************************************)
(* alerts.py: the monitor that turns the scan and CVE coordinators'        *)
(* publishes into debounced, held flags and bus events, with the store     *)
(* that carries confirmed findings over a restart.                         *)
(*                                                                         *)
(* Home Assistant runs every callback here on one event loop, so a         *)
(* callback is one step; steps interleave between callbacks.  The          *)
(* coordinators and the store are the environment: a scan lands with an    *)
(* arbitrary result, the inventory file may lag the inventory by the 30 s  *)
(* of its delayed save, and the process may stop, reload or crash between  *)
(* any two steps.  As in Alerting, an operator named for a change to the   *)
(* one below it (CountsEveryPublish) is a mutation of it.                  *)
(***************************************************************************)
EXTENDS Alerting

CONSTANTS
  HostKey,     \* the MACs that can appear in a scan
  CveKey,      \* alerts.py's _CVE_KEY, the one key of the CVE flag
  CveReads,    \* what a refresh of the CVE coordinator can report
  Unread,      \* a refresh whose actionable count is None
  OptionSets,  \* the alerting options an operator may store
  MayCrash,    \* whether the process may die without an orderly stop
  MaxTime,     \* bound on the clock during which publishes arrive
  AckSets,     \* the acknowledgement lists an operator may store
  DeviceSets,  \* the MACs other integrations may come to know
  MaxScans,    \* bound on scans landing
  MaxReads,    \* bound on CVE refreshes
  MaxBoots     \* bound on starts of the monitor

ASSUME MonitorAssumption ==
  /\ Key = HostKey \cup {CveKey} /\ CveKey \notin HostKey
  /\ IsFiniteSet(Key)
  /\ CveReads \subseteq Nat \cup {Unread} /\ Unread \notin Nat
  /\ NotANumber \notin Int
  /\ OptionSets \subseteq [PolicyField -> Int \cup {NotANumber}]
  /\ AckSets \cup DeviceSets \subseteq SUBSET HostKey
  /\ MayCrash \in BOOLEAN
  /\ {MaxTime, MaxScans, MaxReads, MaxBoots} \subseteq Nat

Flag == {"unknown_hosts", "vulnerabilities"}
Status == {"absent", "down", "up"}
NoStamp == -1 \* stamp None: this flag has never counted an observation

VARIABLES
  now,         \* wall clock
  options,     \* the alerting part of entry.options
  acked,       \* CONF_ACKNOWLEDGED_MACS
  known,       \* MACs another integration has a device for
  scans,       \* the highest inventory stamp handed out so far
  inv,         \* the inventory: its stamp and each host's status
  invFile,     \* the inventory as its store last wrote it
  cve,         \* the CVE coordinator's data: actionable count and stamp
  running,     \* the entry is set up
  boots,       \* starts so far
  mon,         \* per flag, the monitor's _Flag, retry timer and limiters
  disk,        \* per flag, the row of the alert store on disk
  savePending, \* async_delay_save has a write scheduled
  hist         \* history of what the world outside the monitor saw

env  == <<options, acked, known, scans, inv, invFile, cve>>
vars == <<now, env, running, boots, mon, disk, savePending, hist>>

FlagState ==
  [deb : Debouncer, held : HeldFlag, detail : SUBSET Key, wanted : BOOLEAN,
   stamp : Int, timer : Nat \cup {NoTime}, rise : Limiter, fall : Limiter]

FreshFlag ==
  [deb |-> FreshDebouncer, held |-> FreshHeldFlag, detail |-> {}, wanted |-> FALSE,
   stamp |-> NoStamp, timer |-> NoTime, rise |-> FreshLimiter, fall |-> FreshLimiter]

Row == [confirmed : SUBSET Key, stamp : Int, detail : SUBSET Key]

\* hist[f]: the stamps counted since the start, the length of the run of
\* counted scans each key has just been in (or missing from) since then, the
\* hold the last flip started, the keys whose last event said "detected",
\* those whose transition is not on disk yet and those lost that way.
History ==
  [counted : SUBSET Int, inRun : [Key -> Nat], outRun : [Key -> Nat], holdAt : Nat,
   announced : SUBSET Key, unsaved : SUBSET Key, lost : SUBSET Key]

FreshHistory ==
  [counted |-> {}, inRun |-> [k \in Key |-> 0], outRun |-> [k \in Key |-> 0],
   holdAt |-> 0, announced |-> {}, unsaved |-> {}, lost |-> {}]

Inventory == [stamp : Nat, status : [HostKey -> Status]]

TypeOK ==
  /\ now \in Nat
  /\ options \in OptionSets
  /\ acked \subseteq HostKey /\ known \subseteq HostKey
  /\ scans \in Nat
  /\ inv \in Inventory /\ invFile \in Inventory
  /\ cve \in [count : CveReads \cup {Unread}, stamp : Nat]
  /\ running \in BOOLEAN /\ savePending \in BOOLEAN
  /\ boots \in Nat
  /\ mon \in [Flag -> FlagState]
  /\ disk \in [Flag -> Row]
  /\ hist \in [Flag -> History]

-----------------------------------------------------------------------------
(* What a callback does to one flag                                        *)

\* AlertMonitor.policy: read off the entry at every use.
LivePolicy == ResolvePolicy(options)

\* What a publish observes: the keys present, the keys forgotten first, the
\* details it carries, its stamp.  A CVE refresh that could not read NVD
\* observes nothing at all.
ScanView(i) ==
  [present |-> {k \in HostKey : i.status[k] = "up" /\ k \notin known \cup acked},
   forgotten |-> {k \in HostKey : i.status[k] # "absent" /\ k \in acked \ known},
   stamp |-> i.stamp]

CveView(c) ==
  [present |-> IF c.count # 0 THEN {CveKey} ELSE {}, forgotten |-> {}, stamp |-> c.stamp]

Detailed(f, view) == IF f = "vulnerabilities" THEN {CveKey} ELSE view.present

CountsEveryPublish(m, view) == TRUE

Counts(m, view) == view.stamp # m.stamp

ProposedKeepingTimer(m, policy) ==
  LET held == Propose(m.held, m.wanted, now, policy)
  IN  [m EXCEPT !.held = held,
                !.timer = IF held.state # m.wanted /\ held.heldUntil # NoTime
                          THEN held.heldUntil ELSE @]

ProposedWithoutTimer(m, policy) ==
  [m EXCEPT !.held = Propose(@, m.wanted, now, policy)]

Proposed(m, policy) ==
  LET held == Propose(m.held, m.wanted, now, policy)
  IN  [m EXCEPT !.held = held,
                !.timer = IF held.state # m.wanted /\ held.heldUntil # NoTime
                          THEN held.heldUntil ELSE NoTime]

\* The callback of a timer: it takes itself off the table, then proposes.
Retried(m, policy) == Proposed([m EXCEPT !.timer = NoTime], policy)

Counted(m, view, policy) ==
  IF ~Counts(m, view) THEN m
  ELSE LET rose == Cardinality(Asserted(m.deb, view.present, policy))
           fell == Cardinality(Cleared(m.deb, view.present, policy))
       IN  [m EXCEPT !.stamp = view.stamp,
                     !.deb = Observe(m.deb, view.present, policy),
                     !.rise = AllowEach(m.rise, rose, now, policy),
                     !.fall = AllowEach(m.fall, fell, now, policy)]

DetailReplaced(f, m, view) ==
  [m EXCEPT !.detail = Detailed(f, view), !.deb = Forget(m.deb, view.forgotten)]

Detail(f, m, view) ==
  [m EXCEPT !.detail = @ \cup Detailed(f, view), !.deb = Forget(m.deb, view.forgotten)]

Wanting(m) == [m EXCEPT !.wanted = (m.deb.confirmed # {})]

\* _on_scan and _on_cve with the _observe they end in.
Published(f, m, view, policy) ==
  Proposed(Wanting(Counted(Detail(f, m, view), view, policy)), policy)

\* The keys one callback confirms or clears, for the events and the save.
Rising(f, m, view, policy) ==
  IF Counts(m, view) THEN Asserted(Detail(f, m, view).deb, view.present, policy) ELSE {}

Falling(f, m, view, policy) ==
  IF Counts(m, view) THEN Cleared(Detail(f, m, view).deb, view.present, policy) ELSE {}

Transitions(f, m, view, policy) ==
  Rising(f, m, view, policy) \cup Falling(f, m, view, policy)

\* async_start for one flag: a fresh object seeded from its row.
Seeded(row) ==
  [FreshFlag EXCEPT !.deb = Seed(FreshDebouncer, row.confirmed),
                    !.stamp = row.stamp, !.detail = row.detail]

\* _data_to_save for one flag.
Saved(m) == [confirmed |-> m.deb.confirmed, stamp |-> m.stamp,
             detail |-> m.deb.confirmed \cap m.detail]

-----------------------------------------------------------------------------
(* History                                                                 *)

Run(run, forgotten, counts, grow) ==
  [k \in Key |-> LET r == IF k \in forgotten THEN 0 ELSE run[k]
                 IN  IF ~counts THEN r ELSE IF k \in grow THEN r + 1 ELSE 0]

Noted(h, f, m, view, policy) ==
  LET counts == Counts(m, view)
      rising == Rising(f, m, view, policy)
      falling == Falling(f, m, view, policy)
      flips  == Published(f, m, view, policy).held.state # m.held.state
  IN  [counted |-> IF counts THEN h.counted \cup {view.stamp} ELSE h.counted,
       inRun |-> Run(h.inRun, view.forgotten, counts, view.present),
       outRun |-> Run(h.outRun, view.forgotten, counts, Key \ view.present),
       holdAt |-> IF flips THEN policy["hold"] ELSE h.holdAt,
       announced |-> ((h.announced \ view.forgotten) \cup rising) \ falling,
       unsaved |-> h.unsaved \cup rising \cup falling,
       lost |-> h.lost \ (rising \cup falling)]

Restarted(h) ==
  [h EXCEPT !.counted = {}, !.inRun = [k \in Key |-> 0], !.outRun = [k \in Key |-> 0],
            !.holdAt = 0]

AllSaved == [f \in Flag |-> [hist[f] EXCEPT !.unsaved = {}]]

-----------------------------------------------------------------------------
(* The environment                                                         *)

Tick ==
  /\ now < MaxTime + High["hold"]
  /\ now' = now + 1
  /\ UNCHANGED <<env, running, boots, mon, disk, savePending, hist>>

EditOptions(o) ==
  /\ options' = o
  /\ UNCHANGED <<now, acked, known, scans, inv, invFile, cve>>
  /\ UNCHANGED <<running, boots, mon, disk, savePending, hist>>

EditAcknowledged(S) ==
  /\ acked' = S
  /\ UNCHANGED <<now, options, known, scans, inv, invFile, cve>>
  /\ UNCHANGED <<running, boots, mon, disk, savePending, hist>>

RegisterDevice(S) ==
  /\ known' = S
  /\ UNCHANGED <<now, options, acked, scans, inv, invFile, cve>>
  /\ UNCHANGED <<running, boots, mon, disk, savePending, hist>>

InventoryWritten ==
  /\ invFile' = inv
  /\ UNCHANGED <<now, options, acked, known, scans, inv, cve>>
  /\ UNCHANGED <<running, boots, mon, disk, savePending, hist>>

-----------------------------------------------------------------------------
(* Callbacks of the running monitor                                        *)

\* One publish on flag f, the whole of _on_scan or _on_cve.
Publish(f, view) ==
  /\ running
  /\ now <= MaxTime
  /\ mon' = [mon EXCEPT ![f] = Published(f, @, view, LivePolicy)]
  /\ hist' = [hist EXCEPT ![f] = Noted(@, f, mon[f], view, LivePolicy)]
  /\ savePending' = (savePending \/ Transitions(f, mon[f], view, LivePolicy) # {})
  /\ UNCHANGED <<now, options, acked, known, running, boots, disk>>

\* A sweep finishes: the inventory takes its result and is published.
ScanLands(status) ==
  /\ scans < MaxScans
  /\ scans' = scans + 1
  /\ inv' = [stamp |-> scans + 1, status |-> status]
  /\ Publish("unknown_hosts", ScanView(inv'))
  /\ UNCHANGED <<invFile, cve>>

\* A tick of the coordinator, or a refresh after an options edit.
RepublishScan ==
  /\ Publish("unknown_hosts", ScanView(inv))
  /\ UNCHANGED <<scans, inv, invFile, cve>>

CveLandsUnreadAsNone(count) ==
  /\ cve.stamp < MaxReads
  /\ cve' = [count |-> count, stamp |-> cve.stamp + 1]
  /\ Publish("vulnerabilities",
             CveView([cve' EXCEPT !.count = IF count = Unread THEN 0 ELSE count]))
  /\ UNCHANGED <<scans, inv, invFile>>

\* A refresh of the CVE coordinator, read or unread.
CveLands(count) ==
  /\ cve.stamp < MaxReads
  /\ cve' = [count |-> count, stamp |-> cve.stamp + 1]
  /\ IF count = Unread
     THEN /\ running
          /\ UNCHANGED <<now, options, acked, known, running, boots, mon, disk>>
          /\ UNCHANGED <<savePending, hist>>
     ELSE Publish("vulnerabilities", CveView(cve'))
  /\ UNCHANGED <<scans, inv, invFile>>

\* The CVE coordinator tells its listeners again without new data.
RepublishCve ==
  /\ cve.count # Unread
  /\ Publish("vulnerabilities", CveView(cve))
  /\ UNCHANGED <<scans, inv, invFile, cve>>

\* The timer of _schedule_retry, which proposes what was last wanted.
Retry(f) ==
  /\ running
  /\ mon[f].timer # NoTime /\ now >= mon[f].timer
  /\ mon' = [mon EXCEPT ![f] = Retried(@, LivePolicy)]
  /\ hist' = [hist EXCEPT ![f].holdAt =
                IF mon'[f].held.state # mon[f].held.state THEN LivePolicy["hold"] ELSE @]
  /\ UNCHANGED <<now, env, running, boots, disk, savePending>>

\* The delayed write falls due.
WriteSave ==
  /\ running /\ savePending
  /\ disk' = [f \in Flag |-> Saved(mon[f])]
  /\ savePending' = FALSE
  /\ hist' = AllSaved
  /\ UNCHANGED <<now, env, running, boots, mon>>

-----------------------------------------------------------------------------
(* Lifecycle                                                               *)

Start(count) ==
  LET view == [f \in Flag |-> IF f = "unknown_hosts" THEN ScanView(invFile)
                              ELSE CveView([count |-> count, stamp |-> cve.stamp + 1])]
      reads(f) == f = "unknown_hosts" \/ count # Unread
      row(f)   == Seeded(disk[f])
  IN  /\ ~running /\ boots < MaxBoots /\ cve.stamp < MaxReads /\ now <= MaxTime
      /\ running' = TRUE
      /\ boots' = boots + 1
      /\ inv' = invFile
      /\ cve' = [count |-> count, stamp |-> cve.stamp + 1]
      /\ mon' = [f \in Flag |-> IF reads(f) THEN Published(f, row(f), view[f], LivePolicy)
                                ELSE row(f)]
      /\ hist' = [f \in Flag |->
                    IF reads(f) THEN Noted(Restarted(hist[f]), f, row(f), view[f], LivePolicy)
                    ELSE Restarted(hist[f])]
      /\ savePending' = (\E f \in Flag : reads(f) /\ Transitions(f, row(f), view[f], LivePolicy) # {})
      /\ UNCHANGED <<now, options, acked, known, scans, invFile, disk>>

Stopped ==
  /\ running
  /\ running' = FALSE
  /\ mon' = [f \in Flag |-> FreshFlag]
  /\ savePending' = FALSE
  /\ UNCHANGED <<now, options, acked, known, scans, inv, cve, boots>>

\* async_stop: a reload or an unload writes the store before it returns.
Unload ==
  /\ Stopped
  /\ disk' = [f \in Flag |-> Saved(mon[f])]
  /\ hist' = AllSaved
  /\ UNCHANGED invFile

\* Home Assistant stops: entries are not unloaded, pending writes are flushed.
Shutdown ==
  /\ Stopped
  /\ disk' = IF savePending THEN [f \in Flag |-> Saved(mon[f])] ELSE disk
  /\ hist' = AllSaved
  /\ invFile' = inv

\* The process dies: what was not written is gone.
Crash ==
  /\ MayCrash
  /\ Stopped
  /\ hist' = [f \in Flag |-> [hist[f] EXCEPT !.lost = @ \cup hist[f].unsaved, !.unsaved = {}]]
  /\ UNCHANGED <<disk, invFile>>

-----------------------------------------------------------------------------
EmptyInventory == [stamp |-> 0, status |-> [k \in HostKey |-> "absent"]]

Init ==
  /\ now = 0
  /\ options \in OptionSets
  /\ acked = {} /\ known = {}
  /\ scans = 0
  /\ inv = EmptyInventory /\ invFile = EmptyInventory
  /\ cve = [count |-> Unread, stamp |-> 0]
  /\ running = FALSE
  /\ boots = 0
  /\ mon = [f \in Flag |-> FreshFlag]
  /\ disk = [f \in Flag |-> [confirmed |-> {}, stamp |-> NoStamp, detail |-> {}]]
  /\ savePending = FALSE
  /\ hist = [f \in Flag |-> FreshHistory]

Next ==
  \/ Tick
  \/ \E o \in OptionSets : EditOptions(o)
  \/ \E S \in AckSets : EditAcknowledged(S)
  \/ \E S \in DeviceSets : RegisterDevice(S)
  \/ InventoryWritten
  \/ \E s \in [HostKey -> Status] : ScanLands(s)
  \/ RepublishScan
  \/ \E c \in CveReads : CveLands(c)
  \/ RepublishCve
  \/ \E f \in Flag : Retry(f)
  \/ WriteSave
  \/ \E c \in CveReads : Start(c)
  \/ Unload
  \/ Shutdown
  \/ Crash

Spec == Init /\ [][Next]_vars

\* The event loop runs the timers it was given, and time passes.
FairSpec == Spec /\ WF_vars(Tick) /\ \A f \in Flag : WF_vars(Retry(f))

-----------------------------------------------------------------------------
(* Properties                                                              *)

\* A flag that shows something other than what is wanted has a timer set for the
\* very instant its hold ends, and a timer is set for nothing else: a deferred
\* change is never left waiting for the next coordinator tick, and none fires
\* after the change it was for has been withdrawn.
DeferredFlipHasTimer ==
  running => \A f \in Flag :
    LET h == mon[f].held
    IN  mon[f].timer = IF h.state # mon[f].wanted THEN h.heldUntil ELSE NoTime

\* A timer that should have fired is never for a hold that is still running: the
\* deferral the retry is for can be applied when the retry runs.
DeferralIsBounded ==
  running => \A f \in Flag :
    mon[f].timer # NoTime => mon[f].timer <= mon[f].held.changedAt + hist[f].holdAt

\* Once the flag flips it does not flip again before the hold its flip started is
\* over, whatever publishes, retries, acknowledgements and option edits do.
HoldRespected ==
  [][running /\ running' => \A f \in Flag :
       mon'[f].held.state # mon[f].held.state /\ mon[f].held.changedAt # NoTime
         => now >= mon[f].held.changedAt + hist[f].holdAt]_vars

\* What the debouncer held before the step: at a start, what it is seeded with.
Before(f) == IF running THEN mon[f].deb.confirmed ELSE disk[f].confirmed

\* A finding announced and not withdrawn is announced again only if the process
\* died before the announcement reached the disk: not by a restart, a reload, a
\* republish or an acknowledgement.
NoSecondAnnouncement ==
  [][running' => \A f \in Flag :
       (mon'[f].deb.confirmed \ Before(f)) \cap hist[f].announced \subseteq hist[f].lost]_vars

\* A confirmed finding can always be named: every event that clears one carries
\* the detail it was announced with, across any restart.
ClearedFindingHasDetail ==
  running => \A f \in Flag : mon[f].deb.confirmed \subseteq mon[f].detail

\* Whatever is confirmed is on disk, unless a write is on its way; the disk may
\* only hold more, findings forgotten since (forgetting writes nothing).
ConfirmedIsOnDisk ==
  running /\ ~savePending => \A f \in Flag : mon[f].deb.confirmed \subseteq disk[f].confirmed

\* The CVE finding is withdrawn only by a refresh that read a zero, and reported
\* only by one that read a finding: an outage moves it in neither direction.
OnlyAReadingMovesCve ==
  [][running' => LET after == mon'["vulnerabilities"].deb.confirmed
                 IN  /\ Before("vulnerabilities") \ after # {} => cve'.count = 0
                     /\ after \ Before("vulnerabilities") # {} => cve'.count \in Nat \ {0}]_vars

\* The counters are those of the promise: the debouncer of each flag implements
\* AlertPromise with the scans it counted and the thresholds the operator stored.
Observations == (Low["confirm"] .. High["confirm"]) \cup (Low["clear"] .. High["clear"])

HostPromise == INSTANCE AlertPromise WITH
  Finding <- Key, Threshold <- Observations,
  rise <- LivePolicy["confirm"], fall <- LivePolicy["clear"], dismissed <- acked \ known,
  up <- running,
  reported <- mon["unknown_hosts"].deb.confirmed,
  written <- disk["unknown_hosts"].confirmed,
  counted <- hist["unknown_hosts"].counted,
  inRun <- hist["unknown_hosts"].inRun, outRun <- hist["unknown_hosts"].outRun

CvePromise == INSTANCE AlertPromise WITH
  Finding <- Key, Threshold <- Observations,
  rise <- LivePolicy["confirm"], fall <- LivePolicy["clear"], dismissed <- {},
  up <- running,
  reported <- mon["vulnerabilities"].deb.confirmed,
  written <- disk["vulnerabilities"].confirmed,
  counted <- hist["vulnerabilities"].counted,
  inRun <- hist["vulnerabilities"].inRun, outRun <- hist["vulnerabilities"].outRun

ImplementsHostPromise == HostPromise!Spec
ImplementsCvePromise  == CvePromise!Spec

\* A change the hold deferred is shown in the end if it stays wanted, however the
\* operator edits the hold meanwhile and however often the coordinators publish.
DeferredFlipLands ==
  \A f \in Flag :
    (running /\ mon[f].held.state # mon[f].wanted)
      ~> (~running \/ mon[f].held.state = mon[f].wanted)

=============================================================================
