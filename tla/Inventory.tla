------------------------------ MODULE Inventory ------------------------------
(***************************************************************************)
(* scan/parse.py, scan/store.py, scan/join.py: how one scan is folded into *)
(* the hosts this integration has ever seen, and what is read off them.    *)
(*                                                                         *)
(* A host is keyed by its MAC where the scan learnt one and by its address *)
(* otherwise; here a key is the Device or the Addr itself.  A scan is a    *)
(* function from the keys it reports to sightings.  Host names, vendor and *)
(* operating system are carried like ports and are left out.  An operator  *)
(* named for a change to the one below it is a mutation of it.             *)
(***************************************************************************)
EXTENDS Integers, FiniteSets

CONSTANTS
  Device,    \* MACs
  Addr,      \* addresses
  Port,      \* open ports a port scan can report
  Stale,     \* stale_days: how long an unseen host is kept
  NoMac      \* a sighting of a host whose MAC the scan did not learn

ASSUME InventoryAssumption ==
  /\ Device \cap Addr = {} /\ NoMac \notin Device \cup Addr
  /\ IsFiniteSet(Device) /\ IsFiniteSet(Addr)
  /\ Stale \in Nat \ {0}

Key == Device \cup Addr
Never == -1 \* a timestamp that is None

HostKey(mac, ip) == IF mac # NoMac THEN mac ELSE ip

Sighting == [mac : Device \cup {NoMac}, ip : Addr, portsScanned : BOOLEAN, ports : SUBSET Port]

HostRecord ==
  [mac : Device \cup {NoMac}, ip : Addr, status : {"up", "down"}, first : Nat, last : Nat,
   ports : SUBSET Port, portsAt : Nat \cup {Never}]

AreHosts(hosts) == DOMAIN hosts \subseteq Key /\ hosts \in [DOMAIN hosts -> HostRecord]

IsStore(store) ==
  /\ store \in [hosts : {store.hosts}, lastScan : Nat \cup {Never}, lastPortScan : Nat \cup {Never}]
  /\ AreHosts(store.hosts)

Nothing == [k \in {} |-> Never]

EmptyStore == [hosts |-> Nothing, lastScan |-> Never, lastPortScan |-> Never]

\* A scan that reports each host it saw under its key.
IsScan(scan) ==
  /\ DOMAIN scan \subseteq Key /\ scan \in [DOMAIN scan -> Sighting]
  /\ \A k \in DOMAIN scan : k = HostKey(scan[k].mac, scan[k].ip)

\* What parse_scan makes of the hosts nmap answered for.  Neither argument list
\* asks nmap for hosts that did not answer, so each one it reports is up.
ParseScan(sightings) ==
  [k \in {HostKey(s.mac, s.ip) : s \in sightings} |->
     CHOOSE s \in sightings : HostKey(s.mac, s.ip) = k]

-----------------------------------------------------------------------------
(* merge_inventory                                                         *)

FirstSeen(hosts, k, ts) == IF k \in DOMAIN hosts THEN hosts[k].first ELSE ts

PortsAlwaysReplaced(hosts, k, s, ts) == [ports |-> s.ports, at |-> ts]

\* A scan that did not look at the ports asserts nothing about them.
Ports(hosts, k, s, ts) ==
  IF s.portsScanned \/ k \notin DOMAIN hosts
  THEN [ports |-> s.ports, at |-> IF s.portsScanned THEN ts ELSE Never]
  ELSE [ports |-> hosts[k].ports, at |-> hosts[k].portsAt]

Merged(hosts, k, s, ts) ==
  LET seen == Ports(hosts, k, s, ts)
  IN  [mac |-> s.mac, ip |-> s.ip, status |-> "up", first |-> FirstSeen(hosts, k, ts),
       last |-> ts, ports |-> seen.ports, portsAt |-> seen.at]

MergeHosts(hosts, scan, ts) ==
  [k \in DOMAIN hosts \cup DOMAIN scan |->
     IF k \in DOMAIN scan THEN Merged(hosts, k, scan[k], ts) ELSE hosts[k]]

\* The records keyed by the address of a host this scan learnt the MAC of.
Legacy(hosts, scan) == {scan[k].ip : k \in DOMAIN scan \cap Device} \cap DOMAIN hosts

Earlier(a, b) == IF b < a THEN b ELSE a

RetireNothing(hosts, scan) == hosts

Retire(hosts, scan) ==
  [k \in DOMAIN hosts \ Legacy(hosts, scan) |->
     IF k \in DOMAIN scan \cap Device /\ scan[k].ip \in Legacy(hosts, scan)
     THEN [hosts[k] EXCEPT !.first = Earlier(@, hosts[scan[k].ip].first)]
     ELSE hosts[k]]

Prune(hosts, now) == [k \in {j \in DOMAIN hosts : hosts[j].last >= now - Stale} |-> hosts[k]]

-----------------------------------------------------------------------------
(* InventoryStore.apply_scan                                               *)

MergeInventory(hosts, scan, ts) == Retire(MergeHosts(hosts, scan, ts), scan)

PrunesPartial(complete, scheduled) == scheduled

\* A partial scan is merged and never prunes; nor does a scan someone asked for.
Prunes(complete, scheduled) == complete /\ scheduled

ApplyScan(store, scan, complete, scheduled, ts) ==
  LET merged == MergeInventory(store.hosts, scan, ts)
  IN  [hosts |-> IF Prunes(complete, scheduled) THEN Prune(merged, ts) ELSE merged,
       lastScan |-> ts,
       lastPortScan |-> IF \E k \in DOMAIN scan : scan[k].portsScanned THEN ts
                        ELSE store.lastPortScan]

-----------------------------------------------------------------------------
(* What is read off the inventory                                          *)

\* InventoryView.endpoints: every host ever seen that has a MAC.
Endpoints(hosts) == {hosts[k].mac : k \in DOMAIN hosts} \ {NoMac}

LiveOnceSeen(hosts) == Endpoints(hosts)

\* InventoryView.live_endpoints: those stamped with the newest sighting.
LiveEndpoints(hosts) ==
  {hosts[k].mac : k \in {j \in DOMAIN hosts : \A i \in DOMAIN hosts : hosts[i].last <= hosts[j].last}}
    \ {NoMac}

\* join_hosts: the MACs listed as unknown.
Unmatched(hosts, known, acked) ==
  {hosts[k].mac : k \in {j \in DOMAIN hosts : hosts[j].status = "up"}} \ (known \cup acked \cup {NoMac})
=============================================================================
