-------------------------- MODULE InventoryProofs --------------------------
(***************************************************************************)
(* What the inventory keeps, for any sets of devices, addresses and ports, *)
(* any staleness and any interleaving of scans, writes, restarts and       *)
(* crashes.                                                                *)
(*                                                                         *)
(* Sound says of a store that its records are typed and under their own    *)
(* key, and that every stamp is in order, first before last, ports before  *)
(* last and before the store's own, all before now.  Folding a scan in     *)
(* keeps it (FoldIsSound), by way of the three maps a fold is made of:     *)
(* merge, re-key, prune.  The invariant is Sound of the store in memory    *)
(* and of its file, that neither keeps a host under the address it was     *)
(* last seen at as well (AddressIsNotTheHost), and what is known of the    *)
(* last scan.                                                              *)
(***************************************************************************)
EXTENDS InventoryStore, TLAPS

Keyed(h) == \A k \in DOMAIN h : k = HostKey(h[k].mac, h[k].ip)

\* The order of the stamps of the records h, of which the newest scan was at s
\* and the newest port scan at p.
InOrder(h, s, p) ==
  \A k \in DOMAIN h :
    /\ h[k].portsAt = Never => h[k].ports = {}
    /\ h[k].portsAt <= p /\ h[k].portsAt <= h[k].last
    /\ h[k].first <= h[k].last /\ h[k].last <= s

Sound(s, t) ==
  /\ IsStore(s) /\ Keyed(s.hosts)
  /\ InOrder(s.hosts, s.lastScan, s.lastPortScan)
  /\ s.lastScan <= t /\ s.lastPortScan <= t

\* A scan that did not look at ports reports none.
Honest(scan) == \A k \in DOMAIN scan : ~scan[k].portsScanned => scan[k].ports = {}

-----------------------------------------------------------------------------
(* Scans                                                                   *)

\* parse_scan yields a scan, made of the sightings it was given.
LEMMA ParseScanIsAScan ==
  ASSUME NEW S \in SUBSET Sighting
  PROVE  /\ IsScan(ParseScan(S))
         /\ \A k \in DOMAIN ParseScan(S) : ParseScan(S)[k] \in S
<1>1. ASSUME NEW k \in DOMAIN ParseScan(S)
      PROVE  ParseScan(S)[k] \in S /\ HostKey(ParseScan(S)[k].mac, ParseScan(S)[k].ip) = k
  BY <1>1 DEF ParseScan
<1>2. DOMAIN ParseScan(S) \subseteq Key
  BY DEF ParseScan, HostKey, Key, Sighting
<1>3. ParseScan(S) \in [DOMAIN ParseScan(S) -> Sighting]
  BY <1>1 DEF ParseScan
<1> QED
  BY <1>1, <1>2, <1>3 DEF IsScan

-----------------------------------------------------------------------------
(* The three maps of a fold                                                *)

\* merge_inventory keeps records typed, under their key and with stamps in order,
\* up to the stamps of the scan.
LEMMA MergeIsSound ==
  ASSUME NEW h, AreHosts(h), Keyed(h), NEW scan, IsScan(scan), Honest(scan),
         NEW t \in Nat, NEW s \in Int, NEW p \in Int, NEW q \in Int,
         InOrder(h, s, p), s <= t, p <= q, Never <= q,
         \A k \in DOMAIN scan : scan[k].portsScanned => q = t
  PROVE  /\ AreHosts(MergeHosts(h, scan, t)) /\ Keyed(MergeHosts(h, scan, t))
         /\ InOrder(MergeHosts(h, scan, t), t, q)
<1> DEFINE m == MergeHosts(h, scan, t)
<1>1. DOMAIN m = DOMAIN h \cup DOMAIN scan
  BY DEF MergeHosts
<1>2. ASSUME NEW k \in DOMAIN scan
      PROVE  /\ m[k] \in HostRecord /\ k = HostKey(m[k].mac, m[k].ip)
             /\ m[k].portsAt = Never => m[k].ports = {}
             /\ m[k].portsAt <= q /\ m[k].portsAt <= m[k].last
             /\ m[k].first <= m[k].last /\ m[k].last <= t
  <2>1. m[k] = Merged(h, k, scan[k], t)
    BY <1>2, <1>1 DEF MergeHosts
  <2>2. scan[k] \in Sighting /\ k = HostKey(scan[k].mac, scan[k].ip)
    BY <1>2 DEF IsScan
  <2>3. CASE k \in DOMAIN h
    <3>1. h[k] \in HostRecord
      BY <2>3 DEF AreHosts
    <3>2. /\ h[k].portsAt = Never => h[k].ports = {}
          /\ h[k].portsAt <= p /\ h[k].portsAt <= h[k].last
          /\ h[k].first <= h[k].last /\ h[k].last <= s
      BY <2>3 DEF InOrder
    <3>3. CASE scan[k].portsScanned
      <4>1. m[k] = [mac |-> scan[k].mac, ip |-> scan[k].ip, status |-> "up", first |-> h[k].first,
                    last |-> t, ports |-> scan[k].ports, portsAt |-> t]
        BY <2>1, <2>3, <3>3 DEF Merged, Ports, FirstSeen
      <4> QED
        BY <4>1, <2>2, <3>1, <3>2, <3>3, <1>2 DEF Sighting, HostRecord, Never
    <3>4. CASE ~scan[k].portsScanned
      <4>1. m[k] = [mac |-> scan[k].mac, ip |-> scan[k].ip, status |-> "up", first |-> h[k].first,
                    last |-> t, ports |-> h[k].ports, portsAt |-> h[k].portsAt]
        BY <2>1, <2>3, <3>4 DEF Merged, Ports, FirstSeen
      <4> QED
        BY <4>1, <2>2, <3>1, <3>2 DEF Sighting, HostRecord, Never
    <3> QED
      BY <3>3, <3>4
  <2>4. CASE k \notin DOMAIN h
    <3>1. m[k] = [mac |-> scan[k].mac, ip |-> scan[k].ip, status |-> "up", first |-> t,
                  last |-> t, ports |-> scan[k].ports,
                  portsAt |-> IF scan[k].portsScanned THEN t ELSE Never]
      BY <2>1, <2>4 DEF Merged, Ports, FirstSeen
    <3>2. ~scan[k].portsScanned => scan[k].ports = {}
      BY <1>2 DEF Honest
    <3> QED
      BY <3>1, <3>2, <2>2, <1>2 DEF Sighting, HostRecord, Never
  <2> QED
    BY <2>3, <2>4
<1>3. ASSUME NEW k \in DOMAIN h \ DOMAIN scan
      PROVE  /\ m[k] \in HostRecord /\ k = HostKey(m[k].mac, m[k].ip)
             /\ m[k].portsAt = Never => m[k].ports = {}
             /\ m[k].portsAt <= q /\ m[k].portsAt <= m[k].last
             /\ m[k].first <= m[k].last /\ m[k].last <= t
  <2>1. m[k] = h[k] /\ h[k] \in HostRecord
    BY <1>3, <1>1 DEF MergeHosts, AreHosts
  <2>2. /\ k = HostKey(h[k].mac, h[k].ip)
        /\ h[k].portsAt = Never => h[k].ports = {}
        /\ h[k].portsAt <= p /\ h[k].portsAt <= h[k].last
        /\ h[k].first <= h[k].last /\ h[k].last <= s
    BY <1>3 DEF Keyed, InOrder
  <2> QED
    BY <2>1, <2>2 DEF HostRecord, Never
<1>4. DOMAIN m \subseteq Key
  BY <1>1 DEF AreHosts, IsScan
<1>5. m \in [DOMAIN m -> HostRecord]
  BY <1>1, <1>2, <1>3 DEF MergeHosts
<1> HIDE DEF m
<1>6. AreHosts(m) /\ Keyed(m) /\ InOrder(m, t, q)
  BY <1>1, <1>2, <1>3, <1>4, <1>5 DEF AreHosts, Keyed, InOrder
<1> QED
  BY <1>6 DEF m

\* Re-keying a legacy record moves a first sighting earlier and nothing else.
LEMMA RetireIsSound ==
  ASSUME NEW h, AreHosts(h), Keyed(h), NEW scan, IsScan(scan), DOMAIN scan \subseteq DOMAIN h,
         NEW s \in Int, NEW p \in Int, InOrder(h, s, p)
  PROVE  /\ AreHosts(Retire(h, scan)) /\ Keyed(Retire(h, scan))
         /\ InOrder(Retire(h, scan), s, p)
         /\ \A k \in DOMAIN Retire(h, scan) :
              /\ k \in DOMAIN h
              /\ Retire(h, scan)[k].first <= h[k].first
              /\ Retire(h, scan)[k].last = h[k].last
              /\ Retire(h, scan)[k].ports = h[k].ports
              /\ Retire(h, scan)[k].portsAt = h[k].portsAt
<1> DEFINE r == Retire(h, scan)
<1>1. DOMAIN r = DOMAIN h \ Legacy(h, scan)
  BY DEF Retire
<1>2. ASSUME NEW k \in DOMAIN r
      PROVE  /\ r[k] \in HostRecord /\ k = HostKey(r[k].mac, r[k].ip)
             /\ r[k].portsAt = Never => r[k].ports = {}
             /\ r[k].portsAt <= p /\ r[k].portsAt <= r[k].last
             /\ r[k].first <= r[k].last /\ r[k].last <= s
             /\ r[k].first <= h[k].first /\ r[k].last = h[k].last
             /\ r[k].ports = h[k].ports /\ r[k].portsAt = h[k].portsAt
  <2>1. /\ h[k] \in HostRecord /\ k = HostKey(h[k].mac, h[k].ip)
        /\ h[k].portsAt = Never => h[k].ports = {}
        /\ h[k].portsAt <= p /\ h[k].portsAt <= h[k].last
        /\ h[k].first <= h[k].last /\ h[k].last <= s
    BY <1>1, <1>2 DEF AreHosts, Keyed, InOrder
  <2>2. CASE r[k] = h[k]
    BY <2>1, <2>2 DEF HostRecord
  <2>3. CASE r[k] # h[k]
    <3>1. /\ scan[k].ip \in Legacy(h, scan)
          /\ r[k] = [h[k] EXCEPT !.first = Earlier(h[k].first, h[scan[k].ip].first)]
      BY <1>1, <1>2, <2>3 DEF Retire
    <3>2. h[scan[k].ip] \in HostRecord
      BY <3>1 DEF Legacy, AreHosts
    <3>3. Earlier(h[k].first, h[scan[k].ip].first) \in Nat
          /\ Earlier(h[k].first, h[scan[k].ip].first) <= h[k].first
      BY <2>1, <3>2 DEF HostRecord, Earlier
    <3> QED
      BY <3>1, <3>3, <2>1 DEF HostRecord, Never
  <2> QED
    BY <2>2, <2>3
<1>3. r \in [DOMAIN r -> HostRecord]
  BY <1>1, <1>2 DEF Retire
<1>4. DOMAIN r \subseteq Key
  BY <1>1 DEF AreHosts
<1>5. \A k \in DOMAIN r : k \in DOMAIN h
  BY <1>1
<1> HIDE DEF r
<1>6. AreHosts(r) /\ Keyed(r) /\ InOrder(r, s, p)
  BY <1>2, <1>3, <1>4 DEF AreHosts, Keyed, InOrder
<1> QED
  BY <1>2, <1>5, <1>6 DEF r

\* A prune only takes records out.
LEMMA PruneIsSound ==
  ASSUME NEW h, AreHosts(h), Keyed(h), NEW t \in Nat, NEW s \in Int, NEW p \in Int, InOrder(h, s, p)
  PROVE  /\ AreHosts(Prune(h, t)) /\ Keyed(Prune(h, t)) /\ InOrder(Prune(h, t), s, p)
         /\ DOMAIN Prune(h, t) = {k \in DOMAIN h : h[k].last >= t - Stale}
         /\ \A k \in DOMAIN Prune(h, t) : Prune(h, t)[k] = h[k]
<1>1. DOMAIN Prune(h, t) = {k \in DOMAIN h : h[k].last >= t - Stale}
      /\ \A k \in DOMAIN Prune(h, t) : Prune(h, t)[k] = h[k]
  BY DEF Prune
<1>2. AreHosts(Prune(h, t))
  BY <1>1 DEF AreHosts, Prune
<1> QED
  BY <1>1, <1>2 DEF Keyed, InOrder

-----------------------------------------------------------------------------
(* The fold                                                                *)

\* So folding an honest scan in keeps the store sound, whether or not it prunes.
LEMMA FoldIsSound ==
  ASSUME NEW s, NEW t \in Nat, Sound(s, t), NEW scan, IsScan(scan), Honest(scan),
         NEW complete \in BOOLEAN, NEW scheduled \in BOOLEAN
  PROVE  Sound(ApplyScan(s, scan, complete, scheduled, t), t)
<1> DEFINE a == ApplyScan(s, scan, complete, scheduled, t)
           m == MergeHosts(s.hosts, scan, t)
           r == Retire(m, scan)
           q == IF \E k \in DOMAIN scan : scan[k].portsScanned THEN t ELSE s.lastPortScan
<1>1. /\ AreHosts(s.hosts) /\ Keyed(s.hosts)
      /\ InOrder(s.hosts, s.lastScan, s.lastPortScan)
      /\ s.lastScan \in Nat \cup {Never} /\ s.lastPortScan \in Nat \cup {Never}
      /\ s.lastScan <= t /\ s.lastPortScan <= t
  BY DEF Sound, IsStore
<1>2. /\ q \in Nat \cup {Never} /\ q \in Int /\ s.lastPortScan <= q /\ q <= t /\ Never <= q
      /\ \A k \in DOMAIN scan : scan[k].portsScanned => q = t
  BY <1>1 DEF Never
<1>3. AreHosts(m) /\ Keyed(m) /\ InOrder(m, t, q)
  <2>1. s.lastScan \in Int /\ s.lastPortScan \in Int /\ t \in Int
    BY <1>1 DEF Never
  <2> HIDE DEF m, q
  <2> QED
    BY <1>1, <1>2, <2>1, MergeIsSound DEF m
<1>4. DOMAIN scan \subseteq DOMAIN m
  BY DEF MergeHosts
<1>5. AreHosts(r) /\ Keyed(r) /\ InOrder(r, t, q)
  <2> HIDE DEF m, q
  <2> QED
    BY <1>2, <1>3, <1>4, RetireIsSound
<1>6. AreHosts(Prune(r, t)) /\ Keyed(Prune(r, t)) /\ InOrder(Prune(r, t), t, q)
  <2>1. t \in Int
    OBVIOUS
  <2> HIDE DEF r, q
  <2> QED
    BY <1>2, <1>5, <2>1, PruneIsSound
<1>7. a = [hosts |-> IF Prunes(complete, scheduled) THEN Prune(r, t) ELSE r,
           lastScan |-> t, lastPortScan |-> q]
  BY DEF ApplyScan, MergeInventory
<1> HIDE DEF a, r, q, m
<1>8. AreHosts(a.hosts) /\ Keyed(a.hosts) /\ InOrder(a.hosts, t, q)
  BY <1>5, <1>6, <1>7
<1>9. a.lastScan = t /\ a.lastPortScan = q /\ IsStore(a)
  BY <1>2, <1>7, <1>8 DEF IsStore
<1>10. Sound(a, t)
  BY <1>2, <1>8, <1>9 DEF Sound
<1> QED
  BY <1>10 DEF a

\* What a fold leaves of a record, in a store whose stamps are not ahead of it.
LEMMA FoldKeeps ==
  ASSUME NEW s, NEW t \in Nat, Sound(s, t), NEW scan, IsScan(scan), Honest(scan),
         NEW complete \in BOOLEAN, NEW scheduled \in BOOLEAN
  PROVE  LET h == s.hosts
             g == ApplyScan(s, scan, complete, scheduled, t).hosts
             m == MergeHosts(h, scan, t)
         IN  /\ \A k \in DOMAIN g :
                  /\ k \in DOMAIN m \ Legacy(m, scan)
                  /\ g[k].first <= m[k].first /\ g[k].last = m[k].last
                  /\ g[k].ports = m[k].ports /\ g[k].portsAt = m[k].portsAt
                  /\ k \in DOMAIN scan \cap Device /\ scan[k].ip \in Legacy(m, scan)
                       => g[k].first <= m[scan[k].ip].first
             /\ \A k \in (DOMAIN m \ Legacy(m, scan)) \ DOMAIN g :
                  complete /\ scheduled /\ m[k].last < t - Stale
<1> DEFINE g == ApplyScan(s, scan, complete, scheduled, t).hosts
           m == MergeHosts(s.hosts, scan, t)
           r == Retire(m, scan)
           q == IF \E k \in DOMAIN scan : scan[k].portsScanned THEN t ELSE s.lastPortScan
<1>1. /\ AreHosts(s.hosts) /\ Keyed(s.hosts)
      /\ InOrder(s.hosts, s.lastScan, s.lastPortScan)
      /\ s.lastScan \in Int /\ s.lastPortScan \in Int /\ Never <= s.lastPortScan
      /\ s.lastScan <= t /\ s.lastPortScan <= t
  BY DEF Sound, IsStore, Never
<1>2. /\ q \in Int /\ s.lastPortScan <= q /\ Never <= q
      /\ \A k \in DOMAIN scan : scan[k].portsScanned => q = t
  BY <1>1 DEF Never
<1>3. AreHosts(m) /\ Keyed(m) /\ InOrder(m, t, q)
  <2>1. t \in Int
    OBVIOUS
  <2> HIDE DEF m, q
  <2> QED
    BY <1>1, <1>2, <2>1, MergeIsSound DEF m
<1>4. DOMAIN scan \subseteq DOMAIN m
  BY DEF MergeHosts
<1>5. /\ AreHosts(r) /\ Keyed(r) /\ InOrder(r, t, q)
      /\ \A k \in DOMAIN r : /\ k \in DOMAIN m /\ r[k].first <= m[k].first /\ r[k].last = m[k].last
                             /\ r[k].ports = m[k].ports /\ r[k].portsAt = m[k].portsAt
  <2> HIDE DEF m, q
  <2> QED
    BY <1>2, <1>3, <1>4, RetireIsSound
<1>6. DOMAIN r = DOMAIN m \ Legacy(m, scan)
  BY DEF Retire
<1>7. ASSUME NEW k \in DOMAIN r, k \in DOMAIN scan \cap Device, scan[k].ip \in Legacy(m, scan)
      PROVE  r[k].first <= m[scan[k].ip].first
  <2>1. r[k] = [m[k] EXCEPT !.first = Earlier(m[k].first, m[scan[k].ip].first)]
    BY <1>7, <1>6 DEF Retire
  <2>2. m[k] \in HostRecord /\ m[scan[k].ip] \in HostRecord
    BY <1>3, <1>6, <1>7 DEF Legacy, AreHosts
  <2> HIDE DEF m
  <2> QED
    BY <2>1, <2>2 DEF HostRecord, Earlier
<1>8. g = IF complete /\ scheduled THEN Prune(r, t) ELSE r
  BY DEF ApplyScan, MergeInventory, Prunes
<1>9. /\ DOMAIN Prune(r, t) = {k \in DOMAIN r : r[k].last >= t - Stale}
      /\ \A k \in DOMAIN Prune(r, t) : Prune(r, t)[k] = r[k]
  BY DEF Prune
<1>10. \A k \in DOMAIN r : r[k].last \in Int
  BY <1>5 DEF AreHosts, HostRecord
<1> HIDE DEF g, m, r, q
<1>11. \A k \in DOMAIN g : k \in DOMAIN r /\ g[k] = r[k]
  BY <1>8, <1>9
<1>12. \A k \in DOMAIN r \ DOMAIN g : complete /\ scheduled /\ m[k].last < t - Stale
  BY <1>5, <1>8, <1>9, <1>10, InventoryAssumption
<1> QED
  BY <1>5, <1>6, <1>7, <1>11, <1>12 DEF g, m

\* A key the scan learnt as a MAC is in the inventory after it.
LEMMA SeenDeviceIsKept ==
  ASSUME NEW s, NEW t \in Nat, Sound(s, t), NEW scan, IsScan(scan), Honest(scan),
         NEW complete \in BOOLEAN, NEW scheduled \in BOOLEAN,
         NEW k \in DOMAIN scan, k \notin Legacy(MergeHosts(s.hosts, scan, t), scan)
  PROVE  /\ k \in DOMAIN ApplyScan(s, scan, complete, scheduled, t).hosts
         /\ ApplyScan(s, scan, complete, scheduled, t).hosts[k].last = t
<1> DEFINE m == MergeHosts(s.hosts, scan, t)
           g == ApplyScan(s, scan, complete, scheduled, t).hosts
<1>1. k \in DOMAIN m \ Legacy(m, scan) /\ m[k].last = t
  BY DEF MergeHosts, Merged
<1>2. /\ \A j \in DOMAIN g : g[j].last = m[j].last
      /\ \A j \in (DOMAIN m \ Legacy(m, scan)) \ DOMAIN g : m[j].last < t - Stale
  BY FoldKeeps
<1>3. ~(t < t - Stale)
  BY InventoryAssumption
<1> HIDE DEF m, g
<1>4. k \in DOMAIN g /\ g[k].last = t
  BY <1>1, <1>2, <1>3
<1> QED
  BY <1>4 DEF g

\* Only records keyed by an address are retired.
LEMMA DevicesAreNotLegacy ==
  ASSUME NEW h, NEW scan, IsScan(scan)
  PROVE  Legacy(h, scan) \subseteq Addr /\ Legacy(h, scan) \cap Device = {}
BY InventoryAssumption DEF Legacy, IsScan, Sighting

\* A fold never leaves a host under the address it was last seen at: a scan that
\* shows the MAC takes that record out, and one that finds the address answering
\* without a MAC stamps it last.
LEMMA FoldLeavesNoDouble ==
  ASSUME NEW s, NEW t \in Nat, Sound(s, t), AddressIsNotTheHost(s.hosts),
         NEW scan, IsScan(scan), Honest(scan),
         NEW complete \in BOOLEAN, NEW scheduled \in BOOLEAN
  PROVE  AddressIsNotTheHost(ApplyScan(s, scan, complete, scheduled, t).hosts)
<1> DEFINE h == s.hosts
           m == MergeHosts(h, scan, t)
           g == ApplyScan(s, scan, complete, scheduled, t).hosts
<1>1. \A k \in DOMAIN g : k \in DOMAIN m \ Legacy(m, scan) /\ g[k].last = m[k].last
  BY FoldKeeps
<1>2. \A k \in DOMAIN g : g[k].ip = m[k].ip
  <2>1. MergeInventory(h, scan, t) = Retire(m, scan)
    BY DEF MergeInventory
  <2>2. \A k \in DOMAIN Retire(m, scan) : Retire(m, scan)[k].ip = m[k].ip
    BY DEF Retire
  <2>3. g = Retire(m, scan) \/ g = Prune(Retire(m, scan), t)
    BY <2>1 DEF ApplyScan
  <2> QED
    BY <2>2, <2>3 DEF Prune
<1>3. \A k \in DOMAIN h : h[k].last <= t /\ h[k].last \in Int
  BY DEF Sound, IsStore, AreHosts, HostRecord, InOrder, Never
<1>4. \A k \in DOMAIN scan : m[k].ip = scan[k].ip /\ m[k].last = t
  BY DEF MergeHosts, Merged
<1>5. /\ DOMAIN m = DOMAIN h \cup DOMAIN scan
      /\ \A k \in DOMAIN h \ DOMAIN scan : m[k] = h[k]
  BY DEF MergeHosts
<1> HIDE DEF m, g, h
<1>6. SUFFICES ASSUME NEW d \in DOMAIN g \cap Device, g[d].ip \in DOMAIN g
               PROVE  g[g[d].ip].last >= g[d].last
  BY DEF AddressIsNotTheHost, g
<1>7. CASE d \in DOMAIN scan
  <2>1. m[d].ip \in Legacy(m, scan)
    BY <1>1, <1>2, <1>4, <1>6, <1>7 DEF Legacy
  <2> QED
    BY <1>1, <1>2, <1>6, <2>1
<1>8. CASE d \notin DOMAIN scan
  <2>1. d \in DOMAIN h /\ m[d] = h[d] /\ g[d].ip = h[d].ip /\ g[d].last = h[d].last
    BY <1>1, <1>2, <1>5, <1>6, <1>8
  <2>2. CASE h[d].ip \in DOMAIN scan
    BY <1>1, <1>3, <1>4, <1>6, <2>1, <2>2
  <2>3. CASE h[d].ip \notin DOMAIN scan
    <3>1. h[d].ip \in DOMAIN h /\ m[h[d].ip] = h[h[d].ip]
      BY <1>1, <1>5, <1>6, <2>1, <2>3
    <3>2. h[h[d].ip].last >= h[d].last
      BY <1>6, <2>1, <3>1 DEF AddressIsNotTheHost, h
    <3> QED
      BY <1>1, <1>6, <2>1, <3>1, <3>2
  <2> QED
    BY <2>2, <2>3
<1> QED
  BY <1>7, <1>8

\* A step of the clock or of the lifecycle changes no record.
LEMMA LaterIsSound ==
  ASSUME NEW s, NEW t \in Nat, NEW u \in Nat, Sound(s, t), t <= u
  PROVE  Sound(s, u)
BY DEF Sound, IsStore, Never

\* The empty store of a first start.
LEMMA EmptyIsSound == Sound(EmptyStore, 0)
<1>1. AreHosts(Nothing) /\ DOMAIN Nothing = {}
  BY DEF AreHosts, Nothing
<1> QED
  BY <1>1 DEF Sound, IsStore, Keyed, InOrder, EmptyStore, Never

\* No scan yet is a scan that reports nobody.
LEMMA NoScanIsAScan == IsScan(Nothing) /\ DOMAIN Nothing = {}
BY DEF IsScan, Nothing

\* The sightings of any placement are sightings, and honest ones.
LEMMA SightingsAreHonest ==
  ASSUME NEW at \in Placement, NEW looks \in BOOLEAN, NEW shown \in SUBSET DOMAIN at,
         NEW open \in IF looks THEN SUBSET Port ELSE {{}}
  PROVE  /\ IsScan(ParseScan(Sightings(at, shown, looks, open)))
         /\ Honest(ParseScan(Sightings(at, shown, looks, open)))
<1> DEFINE S == Sightings(at, shown, looks, open)
<1>1. PICK D \in SUBSET Device : at \in [D -> Addr]
  BY DEF Placement
<1>2. open \in SUBSET Port /\ (~looks => open = {})
  OBVIOUS
<1>3. \A d \in DOMAIN at : at[d] \in Addr /\ d \in Device
  BY <1>1
<1>4. S \in SUBSET Sighting /\ \A s \in S : ~s.portsScanned => s.ports = {}
  BY <1>2, <1>3 DEF Sightings, Sighting
<1> HIDE DEF S
<1> QED
  BY <1>4, ParseScanIsAScan DEF Honest, S

-----------------------------------------------------------------------------
(* The invariant                                                           *)

Inv == /\ TypeOK
       /\ Sound(store, now) /\ Sound(disk, now)
       /\ AddressIsNotTheHost(store.hosts) /\ AddressIsNotTheHost(disk.hosts)
       /\ EnrichedHostIsThereOnce
       /\ LiveIsTheLastSighting

\* The scan that lands: what it leaves of each conjunct.
LEMMA ScanLandsKeepsInv ==
  ASSUME Inv, NEW sightings, NEW complete \in BOOLEAN, NEW scheduled \in BOOLEAN,
         IsScan(ParseScan(sightings)), Honest(ParseScan(sightings)),
         ScanLands(sightings, complete, scheduled)
  PROVE  Inv'
<1> DEFINE scan == ParseScan(sightings)
           m == MergeHosts(store.hosts, scan, now)
           g == store'.hosts
<1>1. /\ scans' = scans + 1 /\ store' = ApplyScan(store, scan, complete, scheduled, now)
      /\ savePending' = TRUE /\ now' = now /\ disk' = disk
      /\ last' = [scan |-> scan, whole |-> complete /\ scheduled]
      /\ g = ApplyScan(store, scan, complete, scheduled, now).hosts
  BY DEF ScanLands
<1>2. now \in Nat /\ Sound(store, now) /\ Sound(disk, now) /\ IsScan(scan) /\ Honest(scan)
  BY DEF Inv, TypeOK
<1> HIDE DEF scan
<1>3. Sound(store', now) /\ store'.lastScan = now
  <2>1. Sound(store', now)
    BY <1>1, <1>2, FoldIsSound
  <2>2. store'.lastScan = now
    BY <1>1 DEF ApplyScan
  <2> QED
    BY <2>1, <2>2
<1>4. Sound(disk', now') /\ Sound(store', now')
  BY <1>1, <1>2, <1>3
<1>5. TypeOK'
  BY <1>1, <1>2, <1>4 DEF Inv, TypeOK, Sound
<1>6. \A k \in DOMAIN g : k \in DOMAIN m \ Legacy(m, scan)
  BY <1>1, <1>2, FoldKeeps
<1>7. Legacy(m, scan) \subseteq Addr /\ Legacy(m, scan) \cap Device = {}
  BY <1>2, DevicesAreNotLegacy
<1>8. \A k \in DOMAIN scan : k \notin Legacy(m, scan) => k \in DOMAIN g /\ g[k].last = now
  BY <1>1, <1>2, SeenDeviceIsKept
<1>9. AddressIsNotTheHost(g) /\ AddressIsNotTheHost(disk'.hosts)
  BY <1>1, <1>2, FoldLeavesNoDouble DEF Inv
<1>10. EnrichedHostIsThereOnce'
  <2>1. SUFFICES ASSUME NEW d \in DOMAIN scan \cap Device PROVE scan[d].ip \notin DOMAIN g
    BY <1>1, <1>9 DEF EnrichedHostIsThereOnce, hosts
  <2>2. scan[d].ip \in DOMAIN m => scan[d].ip \in Legacy(m, scan)
    BY <2>1 DEF Legacy
  <2> QED
    BY <1>6, <2>2
<1>11. LiveIsTheLastSighting'
  <2>1. AreHosts(g) /\ Keyed(g) /\ \A k \in DOMAIN g : g[k].last <= now
    BY <1>3 DEF Sound, IsStore, InOrder
  <2>2. ASSUME NEW d \in DOMAIN scan \cap Device
        PROVE  d \in LiveEndpoints(g)
    <3>1. d \in DOMAIN g /\ g[d].last = now
      BY <1>7, <1>8, <2>2
    <3>2. g[d].mac = d /\ d # NoMac
      BY <2>1, <2>2, <3>1, InventoryAssumption DEF Keyed, HostKey, AreHosts, HostRecord
    <3> QED
      BY <2>1, <3>1, <3>2 DEF LiveEndpoints
  <2>3. ASSUME DOMAIN scan # {}, NEW d \in LiveEndpoints(g)
        PROVE  g[d].last = now
    <3>1. PICK k \in DOMAIN g : /\ g[k].mac = d /\ d # NoMac
                                /\ \A i \in DOMAIN g : g[i].last <= g[k].last
      BY <2>3 DEF LiveEndpoints
    <3>2. k = d
      BY <2>1, <3>1 DEF Keyed, HostKey
    <3>3. \E j \in DOMAIN scan : j \notin Legacy(m, scan)
      <4>1. CASE DOMAIN scan \cap Device = {}
        BY <2>3, <4>1 DEF Legacy
      <4>2. CASE DOMAIN scan \cap Device # {}
        BY <4>2, <1>7
      <4> QED
        BY <4>1, <4>2
    <3>4. now <= g[k].last
      BY <1>8, <3>1, <3>3
    <3>5. g[k].last <= now /\ g[k].last \in Nat
      BY <2>1, <3>1 DEF AreHosts, HostRecord
    <3> QED
      BY <1>2, <3>2, <3>4, <3>5
  <2>4. DOMAIN scan = {} => scan = Nothing
    BY <1>2 DEF IsScan, Nothing
  <2> QED
    BY <1>1, <1>3, <2>2, <2>3, <2>4 DEF LiveIsTheLastSighting, hosts
<1> QED
  BY <1>4, <1>5, <1>9, <1>10, <1>11 DEF Inv

\* The invariant, and with it every state property of the inventory.
THEOREM InventoryInvariant == Spec => []Inv
<1>1. Init => Inv
  <2> SUFFICES ASSUME Init PROVE Inv
    OBVIOUS
  <2>1. Sound(store, now) /\ Sound(disk, now)
    BY EmptyIsSound DEF Init
  <2>2. IsStore(store) /\ IsStore(disk)
    BY <2>1 DEF Sound
  <2>3. last = [scan |-> Nothing, whole |-> FALSE]
    BY DEF Init, NoScan
  <2>4. TypeOK
    <3>1. last \in [scan : {last.scan}, whole : BOOLEAN] /\ IsScan(last.scan)
      BY <2>3, NoScanIsAScan
    <3> QED
      BY <2>2, <3>1 DEF Init, TypeOK
  <2>5. AddressIsNotTheHost(store.hosts) /\ AddressIsNotTheHost(disk.hosts)
    BY NoScanIsAScan DEF Init, EmptyStore, AddressIsNotTheHost
  <2>6. EnrichedHostIsThereOnce /\ LiveIsTheLastSighting
    BY <2>3, <2>5, NoScanIsAScan DEF EnrichedHostIsThereOnce, LiveIsTheLastSighting, hosts
  <2> QED
    BY <2>1, <2>4, <2>5, <2>6 DEF Inv
<1>2. Inv /\ [Next]_vars => Inv'
  <2> SUFFICES ASSUME Inv, [Next]_vars PROVE Inv'
    OBVIOUS
  <2>1. ASSUME NEW at \in Placement, NEW looks \in BOOLEAN, NEW complete \in BOOLEAN,
               NEW scheduled \in BOOLEAN, NEW shown \in SUBSET DOMAIN at,
               NEW open \in IF looks THEN SUBSET Port ELSE {{}},
               ScanLands(Sightings(at, shown, looks, open), complete, scheduled)
        PROVE  Inv'
    BY <2>1, SightingsAreHonest, ScanLandsKeepsInv
  <2>2. CASE WriteSave
    BY <2>2 DEF WriteSave, Inv, TypeOK, EnrichedHostIsThereOnce, LiveIsTheLastSighting, hosts, Sound
  <2>3. CASE Restart
    <3>1. /\ Sound(store', now') /\ Sound(disk', now')
          /\ AddressIsNotTheHost(store'.hosts) /\ AddressIsNotTheHost(disk'.hosts)
          /\ last' = NoScan /\ savePending' = FALSE /\ scans' = scans /\ now' = now
      BY <2>3 DEF Restart, Inv
    <3> QED
      BY <3>1, NoScanIsAScan
         DEF Inv, TypeOK, Sound, NoScan, EnrichedHostIsThereOnce, LiveIsTheLastSighting, hosts
  <2>4. CASE Crash
    <3>1. /\ Sound(store', now') /\ Sound(disk', now')
          /\ AddressIsNotTheHost(store'.hosts) /\ AddressIsNotTheHost(disk'.hosts)
          /\ last' = NoScan /\ savePending' = FALSE /\ scans' = scans /\ now' = now
      BY <2>4 DEF Crash, Inv
    <3> QED
      BY <3>1, NoScanIsAScan
         DEF Inv, TypeOK, Sound, NoScan, EnrichedHostIsThereOnce, LiveIsTheLastSighting, hosts
  <2>5. CASE Tick
    <3>1. now \in Nat /\ now' \in Nat /\ now <= now'
      BY <2>5 DEF Tick, Inv, TypeOK
    <3>2. Sound(store, now') /\ Sound(disk, now')
      BY <3>1, LaterIsSound DEF Inv
    <3> QED
      BY <2>5, <3>1, <3>2
         DEF Tick, Inv, TypeOK, EnrichedHostIsThereOnce, LiveIsTheLastSighting, hosts
  <2>6. CASE UNCHANGED vars
    BY <2>6 DEF vars, Inv, TypeOK, EnrichedHostIsThereOnce, LiveIsTheLastSighting, hosts, Sound
  <2> QED
    BY <2>1, <2>2, <2>3, <2>4, <2>5, <2>6 DEF Next
<1> QED
  BY <1>1, <1>2, PTL DEF Spec

\* The inventory keeps its type, with every record under its own key.
THEOREM InventoryTyped == Spec => []TypeOK
<1>1. Inv => TypeOK
  BY DEF Inv
<1> QED
  BY <1>1, InventoryInvariant, PTL

\* No ports without an age, and every stamp in order, whatever order sweeps, port
\* scans, restarts and crashes come in.
THEOREM PortsHaveTheirAgeHolds == Spec => []PortsHaveTheirAge
<1>1. Inv => PortsHaveTheirAge
  BY DEF Inv, Sound, InOrder, PortsHaveTheirAge, hosts
<1> QED
  BY <1>1, InventoryInvariant, PTL

\* No host that has shown its MAC has a second record under the address it was last
\* seen at, but for one that is something else's: stamped later, without a MAC.
THEOREM EnrichedHostIsThereOnceHolds == Spec => []EnrichedHostIsThereOnce
<1>1. Inv => EnrichedHostIsThereOnce
  BY DEF Inv
<1> QED
  BY <1>1, InventoryInvariant, PTL

\* The endpoints protected from deletion are exactly those of the newest scan that
\* saw a MAC, with those stamped in the same second.
THEOREM LiveIsTheLastSightingHolds == Spec => []LiveIsTheLastSighting
<1>1. Inv => LiveIsTheLastSighting
  BY DEF Inv
<1> QED
  BY <1>1, InventoryInvariant, PTL

-----------------------------------------------------------------------------
(* What a fold may never do                                                *)

\* One fold, for HistoryIsKept: the record stays with no later first sighting, or
\* it is stale and pruned, or a re-keyed record has taken its history over.
LEMMA FoldKeepsHistory ==
  ASSUME Inv, NEW sightings, NEW complete \in BOOLEAN, NEW scheduled \in BOOLEAN,
         IsScan(ParseScan(sightings)), Honest(ParseScan(sightings)),
         ScanLands(sightings, complete, scheduled),
         NEW k \in DOMAIN hosts
  PROVE  \/ /\ k \in DOMAIN hosts'
            /\ hosts'[k].first <= hosts[k].first
            /\ hosts'[k].last >= hosts[k].last
         \/ /\ last'.whole
            /\ now - hosts[k].last > Stale
         \/ /\ k \in Addr
            /\ \E d \in DOMAIN last'.scan \cap Device :
                 last'.scan[d].ip = k /\ d \in DOMAIN hosts' /\ hosts'[d].first <= hosts[k].first
<1> DEFINE scan == ParseScan(sightings)
           m == MergeHosts(hosts, scan, now)
           g == hosts'
<1>1. /\ g = ApplyScan(store, scan, complete, scheduled, now).hosts
      /\ last'.scan = scan /\ last'.whole = (complete /\ scheduled)
  BY DEF ScanLands, hosts
<1>2. /\ now \in Nat /\ Sound(store, now) /\ IsScan(scan) /\ Honest(scan)
      /\ hosts[k] \in HostRecord /\ hosts[k].last \in Nat /\ hosts[k].last <= now
  <2>1. now \in Nat /\ Sound(store, now)
    BY DEF Inv, TypeOK
  <2>2. hosts[k] \in HostRecord
    BY <2>1 DEF Sound, IsStore, AreHosts, hosts
  <2>3. hosts[k].last \in Nat
    BY <2>2 DEF HostRecord
  <2>4. /\ hosts[k].last <= store.lastScan /\ store.lastScan <= now
        /\ store.lastScan \in Int
    BY <2>1 DEF Sound, IsStore, InOrder, Never, hosts
  <2> QED
    BY <2>1, <2>2, <2>3, <2>4
<1>3. /\ k \in DOMAIN m /\ m[k].first = hosts[k].first
      /\ m[k].last = IF k \in DOMAIN scan THEN now ELSE hosts[k].last
  BY DEF MergeHosts, Merged, FirstSeen
<1> HIDE DEF scan
<1>4. /\ \A j \in DOMAIN g :
           /\ g[j].first <= m[j].first /\ g[j].last = m[j].last
           /\ j \in DOMAIN scan \cap Device /\ scan[j].ip \in Legacy(m, scan)
                => g[j].first <= m[scan[j].ip].first
      /\ \A j \in (DOMAIN m \ Legacy(m, scan)) \ DOMAIN g :
           complete /\ scheduled /\ m[j].last < now - Stale
  BY <1>1, <1>2, FoldKeeps DEF hosts
<1>5. CASE k \in DOMAIN g
  BY <1>2, <1>3, <1>4, <1>5 DEF HostRecord
<1>6. CASE k \notin DOMAIN g /\ k \notin Legacy(m, scan)
  <2>1. complete /\ scheduled /\ m[k].last < now - Stale
    BY <1>3, <1>4, <1>6
  <2>2. ~(now < now - Stale)
    BY <1>2, InventoryAssumption
  <2>3. m[k].last = hosts[k].last
    BY <1>3, <2>1, <2>2
  <2>4. last'.whole
    <3> HIDE DEF m, g
    <3> QED
      BY <1>1, <2>1
  <2>5. now - hosts[k].last > Stale
    <3> HIDE DEF m, g
    <3>1. hosts[k].last < now - Stale
      BY <2>1, <2>3
    <3> QED
      BY <1>2, <3>1, InventoryAssumption
  <2> QED
    BY <2>4, <2>5
<1>7. CASE k \in Legacy(m, scan)
  <2>1. PICK d \in DOMAIN scan \cap Device : scan[d].ip = k
    BY <1>7 DEF Legacy
  <2>2. Legacy(m, scan) \subseteq Addr /\ d \notin Legacy(m, scan)
    BY <1>2, <2>1, DevicesAreNotLegacy
  <2>3. d \in DOMAIN g
    BY <1>1, <1>2, <2>1, <2>2, SeenDeviceIsKept DEF hosts
  <2>4. g[d].first <= hosts[k].first
    BY <1>3, <1>4, <1>7, <2>1, <2>3
  <2> QED
    BY <1>1, <1>7, <2>1, <2>2, <2>3, <2>4
<1> QED
  BY <1>5, <1>6, <1>7

\* One fold, for PortsAreMeasured: the re-key and the prune leave ports alone, and
\* the merge replaces them only by what was measured.
LEMMA FoldMeasuresPorts ==
  ASSUME Inv, NEW sightings, NEW complete \in BOOLEAN, NEW scheduled \in BOOLEAN,
         IsScan(ParseScan(sightings)), Honest(ParseScan(sightings)),
         ScanLands(sightings, complete, scheduled),
         NEW k \in DOMAIN hosts'
  PROVE  LET shown == [at |-> hosts'[k].portsAt, ports |-> hosts'[k].ports]
         IN  IF k \in DOMAIN last'.scan /\ last'.scan[k].portsScanned
             THEN shown = [at |-> now, ports |-> last'.scan[k].ports]
             ELSE IF k \in DOMAIN hosts
             THEN shown = [at |-> hosts[k].portsAt, ports |-> hosts[k].ports]
             ELSE shown = [at |-> Never, ports |-> {}]
<1> DEFINE scan == ParseScan(sightings)
           m == MergeHosts(hosts, scan, now)
           g == hosts'
<1>1. g = ApplyScan(store, scan, complete, scheduled, now).hosts /\ last'.scan = scan
  BY DEF ScanLands, hosts
<1>2. now \in Nat /\ Sound(store, now) /\ IsScan(scan) /\ Honest(scan)
  BY DEF Inv, TypeOK
<1>3. /\ k \in DOMAIN m /\ g[k].portsAt = m[k].portsAt /\ g[k].ports = m[k].ports
  <2> HIDE DEF scan
  <2> QED
    BY <1>1, <1>2, FoldKeeps DEF hosts
<1>4. DOMAIN m = DOMAIN hosts \cup DOMAIN scan
  BY DEF MergeHosts
<1> HIDE DEF scan
<1>5. CASE k \in DOMAIN scan /\ scan[k].portsScanned
  <2>1. m[k].portsAt = now /\ m[k].ports = scan[k].ports
    BY <1>5 DEF MergeHosts, Merged, Ports
  <2> QED
    BY <1>1, <1>3, <1>5, <2>1
<1>6. CASE ~(k \in DOMAIN scan /\ scan[k].portsScanned) /\ k \in DOMAIN hosts
  <2>1. m[k].portsAt = hosts[k].portsAt /\ m[k].ports = hosts[k].ports
    BY <1>6 DEF MergeHosts, Merged, Ports
  <2> QED
    BY <1>1, <1>3, <1>6, <2>1
<1>7. CASE ~(k \in DOMAIN scan /\ scan[k].portsScanned) /\ k \notin DOMAIN hosts
  <2>1. k \in DOMAIN scan /\ ~scan[k].portsScanned /\ scan[k].ports = {}
    BY <1>2, <1>3, <1>4, <1>7 DEF Honest
  <2>2. m[k].portsAt = Never /\ m[k].ports = {}
    BY <1>7, <2>1 DEF MergeHosts, Merged, Ports
  <2> QED
    BY <1>1, <1>3, <1>7, <2>2
<1> QED
  BY <1>5, <1>6, <1>7

\* Only the scan that lands folds anything in.
LEMMA OnlyAScanFolds ==
  ASSUME Inv, [Next]_vars, Folds
  PROVE  \E at \in Placement, looks, complete, scheduled \in BOOLEAN :
           \E shown \in SUBSET DOMAIN at, open \in IF looks THEN SUBSET Port ELSE {{}} :
             ScanLands(Sightings(at, shown, looks, open), complete, scheduled)
BY DEF Next, vars, Folds, WriteSave, Restart, Crash, Tick

\* No fold moves a first sighting later or drops a record, but for a stale one in
\* a complete scheduled sweep and one whose history a re-keyed record takes over.
THEOREM HistoryIsKeptHolds == Spec => HistoryIsKept
<1>1. Inv /\ [Next]_vars =>
        [Folds => \A k \in DOMAIN hosts :
           \/ /\ k \in DOMAIN hosts'
              /\ hosts'[k].first <= hosts[k].first
              /\ hosts'[k].last >= hosts[k].last
           \/ /\ last'.whole
              /\ now - hosts[k].last > Stale
           \/ /\ k \in Addr
              /\ \E d \in DOMAIN last'.scan \cap Device :
                   last'.scan[d].ip = k /\ d \in DOMAIN hosts' /\ hosts'[d].first <= hosts[k].first]_vars
  BY OnlyAScanFolds, SightingsAreHonest, FoldKeepsHistory
<1> QED
  BY <1>1, InventoryInvariant, PTL DEF Spec, HistoryIsKept

\* The ports of a record are those of the last scan that looked at them since the
\* record was made, with the age of that scan; a re-keyed host's is made anew.
THEOREM PortsAreMeasuredHolds == Spec => PortsAreMeasured
<1>1. Inv /\ [Next]_vars =>
        [Folds => \A k \in DOMAIN hosts' :
           LET shown == [at |-> hosts'[k].portsAt, ports |-> hosts'[k].ports]
           IN  IF k \in DOMAIN last'.scan /\ last'.scan[k].portsScanned
               THEN shown = [at |-> now, ports |-> last'.scan[k].ports]
               ELSE IF k \in DOMAIN hosts
               THEN shown = [at |-> hosts[k].portsAt, ports |-> hosts[k].ports]
               ELSE shown = [at |-> Never, ports |-> {}]]_vars
  BY OnlyAScanFolds, SightingsAreHonest, FoldMeasuresPorts
<1> QED
  BY <1>1, InventoryInvariant, PTL DEF Spec, PortsAreMeasured

-----------------------------------------------------------------------------
(* Hosts that left                                                         *)

AllUp(h) == \A k \in DOMAIN h : h[k].status = "up"

\* No fold lets a record be anything but up.
LEMMA FoldLeavesAllUp ==
  ASSUME NEW s, NEW t \in Nat, Sound(s, t), AllUp(s.hosts), NEW scan, IsScan(scan), Honest(scan),
         NEW complete \in BOOLEAN, NEW scheduled \in BOOLEAN
  PROVE  AllUp(ApplyScan(s, scan, complete, scheduled, t).hosts)
<1> DEFINE m == MergeHosts(s.hosts, scan, t)
           r == Retire(m, scan)
<1>1. \A k \in DOMAIN m : m[k].status = "up" /\ "status" \in DOMAIN m[k]
  <2>1. SUFFICES ASSUME NEW k \in DOMAIN m PROVE m[k].status = "up" /\ "status" \in DOMAIN m[k]
    OBVIOUS
  <2>2. CASE k \in DOMAIN scan
    <3>1. m[k] = Merged(s.hosts, k, scan[k], t)
      BY <2>1, <2>2 DEF MergeHosts
    <3> QED
      BY <3>1 DEF Merged
  <2>3. CASE k \notin DOMAIN scan
    <3>1. m[k] = s.hosts[k] /\ k \in DOMAIN s.hosts
      BY <2>1, <2>3 DEF MergeHosts
    <3>2. s.hosts[k] \in HostRecord
      BY <3>1 DEF Sound, IsStore, AreHosts
    <3> QED
      BY <3>1, <3>2 DEF AllUp, HostRecord
  <2> QED
    BY <2>2, <2>3
<1>2. \A k \in DOMAIN r : k \in DOMAIN m /\ r[k].status = m[k].status
  <2> HIDE DEF m
  <2> QED
    BY <1>1 DEF Retire
<1>3. AllUp(r) /\ AllUp(Prune(r, t))
  <2> HIDE DEF m, r
  <2> QED
    BY <1>1, <1>2 DEF AllUp, Prune
<1> QED
  BY <1>3 DEF ApplyScan, MergeInventory

\* What join_hosts lists as unknown is every endpoint on record that is neither known
\* nor acknowledged: its check of the status leaves nobody out, and a host that left
\* is listed until its record is pruned.
THEOREM UnknownUntilForgotten ==
  Spec => [](\A known, acked : Unmatched(hosts, known, acked) = Endpoints(hosts) \ (known \cup acked))
<1> DEFINE Up == AllUp(store.hosts) /\ AllUp(disk.hosts)
<1>1. Init => Up
  BY DEF Init, AllUp, EmptyStore, Nothing
<1>2. Inv /\ Up /\ [Next]_vars => Up'
  <2> SUFFICES ASSUME Inv, Up, [Next]_vars PROVE Up'
    OBVIOUS
  <2>1. ASSUME NEW at \in Placement, NEW looks \in BOOLEAN, NEW complete \in BOOLEAN,
               NEW scheduled \in BOOLEAN, NEW shown \in SUBSET DOMAIN at,
               NEW open \in IF looks THEN SUBSET Port ELSE {{}},
               ScanLands(Sightings(at, shown, looks, open), complete, scheduled)
        PROVE  Up'
    <3>1. /\ IsScan(ParseScan(Sightings(at, shown, looks, open)))
          /\ Honest(ParseScan(Sightings(at, shown, looks, open)))
      BY SightingsAreHonest
    <3>2. now \in Nat /\ Sound(store, now)
      BY DEF Inv, TypeOK
    <3>3. AllUp(ApplyScan(store, ParseScan(Sightings(at, shown, looks, open)), complete, scheduled, now).hosts)
      BY <3>1, <3>2, FoldLeavesAllUp
    <3> QED
      BY <2>1, <3>3 DEF ScanLands, AllUp
  <2>2. CASE WriteSave \/ Restart \/ Crash \/ Tick \/ UNCHANGED vars
    BY <2>2 DEF WriteSave, Restart, Crash, Tick, vars, AllUp
  <2> QED
    BY <2>1, <2>2 DEF Next
<1>3. Up => \A known, acked : Unmatched(hosts, known, acked) = Endpoints(hosts) \ (known \cup acked)
  BY DEF AllUp, Unmatched, Endpoints, hosts
<1> HIDE DEF Up
<1> QED
  BY <1>1, <1>2, <1>3, InventoryInvariant, PTL DEF Spec
=============================================================================
