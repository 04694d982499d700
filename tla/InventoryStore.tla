--------------------------- MODULE InventoryStore ---------------------------
(***************************************************************************)
(* The inventory of one entry over time: the sweeps and on-demand scans    *)
(* that fold into it, the delayed save, and the process stopping or dying  *)
(* between any two of them.  Devices move between addresses as they like,  *)
(* answer or sleep, and show their MAC only on the segments nmap can learn *)
(* it from; what a scan reports is therefore any placement of devices.     *)
(***************************************************************************)
EXTENDS Inventory

CONSTANTS
  MaxTime,   \* bound on the clock
  MaxScans,  \* bound on scans
  MayCrash   \* whether the process may die without an orderly stop

ASSUME StoreAssumption == MaxTime \in Nat /\ MaxScans \in Nat /\ MayCrash \in BOOLEAN

VARIABLES
  now,         \* wall clock, in the seconds the stamps are kept in
  store,       \* the InventoryStore in memory
  disk,        \* its file
  savePending, \* async_delay_save has a write scheduled
  scans,       \* scans folded in so far
  last         \* history: what the last scan reported, and whether it was a complete scheduled sweep

vars == <<now, store, disk, savePending, scans, last>>

NoScan == [scan |-> Nothing, whole |-> FALSE]

TypeOK ==
  /\ now \in Nat
  /\ IsStore(store) /\ IsStore(disk)
  /\ savePending \in BOOLEAN
  /\ scans \in Nat
  /\ last \in [scan : {last.scan}, whole : BOOLEAN] /\ IsScan(last.scan)

Init ==
  /\ now = 0
  /\ store = EmptyStore /\ disk = EmptyStore
  /\ savePending = FALSE
  /\ scans = 0
  /\ last = NoScan

-----------------------------------------------------------------------------
\* Where the devices that answer are: no two share an address.
Placement ==
  UNION {{at \in [D -> Addr] : \A d, e \in D : at[d] = at[e] => d = e} : D \in SUBSET Device}

\* The sightings of the devices placed by at, with the MACs shown, and for a scan
\* that looks at ports those open on each.
Sightings(at, shown, looks, open) ==
  {[mac |-> IF d \in shown THEN d ELSE NoMac, ip |-> at[d], portsScanned |-> looks,
    ports |-> open] : d \in DOMAIN at}

ScanLands(sightings, complete, scheduled) ==
  LET scan == ParseScan(sightings)
  IN  /\ scans < MaxScans
      /\ scans' = scans + 1
      /\ store' = ApplyScan(store, scan, complete, scheduled, now)
      /\ savePending' = TRUE
      /\ last' = [scan |-> scan, whole |-> complete /\ scheduled]
      /\ UNCHANGED <<now, disk>>

WriteSave ==
  /\ savePending
  /\ disk' = store
  /\ savePending' = FALSE
  /\ UNCHANGED <<now, store, scans, last>>

\* Home Assistant stops: the pending write is flushed; the next start loads it.
Restart ==
  /\ disk' = IF savePending THEN store ELSE disk
  /\ store' = disk'
  /\ savePending' = FALSE
  /\ last' = NoScan
  /\ UNCHANGED <<now, scans>>

\* The process dies and starts again from what was written.
Crash ==
  /\ MayCrash /\ savePending
  /\ store' = disk
  /\ savePending' = FALSE
  /\ last' = NoScan
  /\ UNCHANGED <<now, disk, scans>>

Tick ==
  /\ now < MaxTime
  /\ now' = now + 1
  /\ UNCHANGED <<store, disk, savePending, scans, last>>

Next ==
  \/ \E at \in Placement, looks, complete, scheduled \in BOOLEAN :
       \E shown \in SUBSET DOMAIN at, open \in IF looks THEN SUBSET Port ELSE {{}} :
         ScanLands(Sightings(at, shown, looks, open), complete, scheduled)
  \/ WriteSave
  \/ Restart
  \/ Crash
  \/ Tick

Spec == Init /\ [][Next]_vars

-----------------------------------------------------------------------------
(* Properties                                                              *)

hosts == store.hosts

\* A step that folds a scan in, as against a start from the file.
Folds == scans' # scans

\* What is known of a host is only ever added to: no scan moves a first sighting
\* later, and a record goes only when a complete scheduled sweep finds it stale or
\* when the host it was the address of takes its history over.
HistoryIsKept ==
  [][Folds => \A k \in DOMAIN hosts :
       \/ /\ k \in DOMAIN hosts'
          /\ hosts'[k].first <= hosts[k].first
          /\ hosts'[k].last >= hosts[k].last
       \/ /\ last'.whole
          /\ now - hosts[k].last > Stale
       \/ /\ k \in Addr
          /\ \E d \in DOMAIN last'.scan \cap Device :
               last'.scan[d].ip = k /\ d \in DOMAIN hosts' /\ hosts'[d].first <= hosts[k].first]_vars

\* The ports of every record after a fold, and their age: those of the scan when
\* it looked at this host's ports, those the record had when it did not - a
\* liveness sweep or a scan of another host never reads as services having closed,
\* or as having been looked at - and none, of no age, on a record that is new.  New
\* is also the record of a host whose MAC a liveness sweep has just learnt: what was
\* measured under its address goes with the address's record
\* (_retire_ip_keyed_duplicates brings over the first sighting alone).
PortsAreMeasured ==
  [][Folds => \A k \in DOMAIN hosts' :
       LET shown == [at |-> hosts'[k].portsAt, ports |-> hosts'[k].ports]
       IN  IF k \in DOMAIN last'.scan /\ last'.scan[k].portsScanned
           THEN shown = [at |-> now, ports |-> last'.scan[k].ports]
           ELSE IF k \in DOMAIN hosts
           THEN shown = [at |-> hosts[k].portsAt, ports |-> hosts[k].ports]
           ELSE shown = [at |-> Never, ports |-> {}]]_vars

\* Ports with no age are ports nobody measured: there are none, and no age is
\* later than the last port scan the sensors report or the last sighting.
PortsHaveTheirAge ==
  \A k \in DOMAIN hosts :
    /\ hosts[k].portsAt = Never => hosts[k].ports = {}
    /\ hosts[k].portsAt <= store.lastPortScan
    /\ hosts[k].portsAt <= hosts[k].last
    /\ hosts[k].first <= hosts[k].last /\ hosts[k].last <= store.lastScan

\* A record under the address a host with a MAC was last seen at is not that host's:
\* something answered there since, without showing a MAC.
AddressIsNotTheHost(h) ==
  \A d \in DOMAIN h \cap Device : h[d].ip \in DOMAIN h => h[h[d].ip].last >= h[d].last

\* A host that has shown its MAC is not also kept under the address it was last seen
\* at, over scans that hide the MAC again, restarts and crashes, and a host the last
\* scan learnt the MAC of is not there under its address at all.  Only that one
\* address is looked at: a host that was seen without its MAC at one address and
\* shows it at another stays twice in the inventory until the old record is stale.
EnrichedHostIsThereOnce ==
  /\ \A d \in DOMAIN last.scan \cap Device : last.scan[d].ip \notin DOMAIN hosts
  /\ AddressIsNotTheHost(hosts)

\* The endpoints that may not be deleted are those of the last scan that saw
\* anyone; a host last seen in an earlier second is not among them.
LiveIsTheLastSighting ==
  last.scan # Nothing =>
    /\ DOMAIN last.scan \cap Device \subseteq LiveEndpoints(hosts)
    /\ \A d \in LiveEndpoints(hosts) : hosts[d].last = store.lastScan
=============================================================================
