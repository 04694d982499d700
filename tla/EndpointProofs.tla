--------------------------- MODULE EndpointProofs ---------------------------
(***************************************************************************)
(* What an entry shows of its endpoints, for any devices, services, scans, *)
(* deletions and restarts, and any time a probe takes.                     *)
(*                                                                         *)
(* Three invariants, of parts of the state that meet only in the hosts:    *)
(* the sensors (Shown), the record a host's SSH access is read from        *)
(* (Looked), and the walk of the SSH pass (Walked).  They need of the      *)
(* hosts that each is typed and under its own key (Kept).                  *)
(***************************************************************************)
EXTENDS EndpointDevices, FiniteSetTheorems, WellFoundedInduction, TLAPS

-----------------------------------------------------------------------------
(* Answers                                                                 *)

\* A set of numbers that is not empty has a least one.
LEMMA LeastNumber ==
  ASSUME NEW S \in SUBSET Nat, S # {}
  PROVE  \E x \in S : \A y \in S : x <= y
<1> DEFINE less == {p \in Nat \X Nat : p[1] < p[2]}
<1>1. IsWellFoundedOn(less, Nat)
  BY NatLessThanWellFounded DEF OpToRel
<1>2. \E x \in S : \A y \in S : <<y, x>> \notin less
  <2> HIDE DEF less
  <2> QED
    BY <1>1, WFMin
<1>3. PICK x \in S : \A y \in S : <<y, x>> \notin less
  BY <1>2
<1>4. ASSUME NEW y \in S PROVE x <= y
  <2>1. <<y, x>> \in Nat \X Nat /\ <<y, x>> \notin less
    BY <1>3
  <2>2. ~(y < x)
    BY <2>1
  <2> QED
    BY <2>2
<1> QED
  BY <1>4

Verdict == {"authorized", "host_key_changed", "refused", "unreachable"}

\* Whatever its users meet, the answer for a host is what one of them met.
LEMMA AnswerIsAVerdict == Answer \subseteq Verdict
<1>1. SUFFICES ASSUME NEW met \in [1 .. Users -> ProbeOne] PROVE AsyncProbe(met) \in Verdict
  BY DEF Answer
<1>2. ProbeOne \subseteq Verdict
  BY DEF ProbeOne, Classify, Verdict
<1> DEFINE decides == {u \in DOMAIN met : met[u] \in {"authorized", "host_key_changed"}}
<1>3. CASE decides = {}
  <2>1. AsyncProbe(met) = met[Users] /\ Users \in 1 .. Users
    BY <1>3, EndpointAssumption DEF AsyncProbe
  <2> QED
    BY <1>2, <2>1
<1>4. CASE decides # {}
  <2>1. \E u \in decides : \A v \in decides : u <= v
    <3>1. decides \subseteq Nat
      BY EndpointAssumption
    <3> HIDE DEF decides
    <3> QED
      BY <1>4, <3>1, LeastNumber
  <2>2. PICK u \in decides : AsyncProbe(met) = met[u]
    BY <1>4, <2>1 DEF AsyncProbe
  <2> QED
    BY <1>2, <2>2
<1> QED
  BY <1>3, <1>4

-----------------------------------------------------------------------------
(* The hosts                                                               *)

Keyed(h) == \A k \in DOMAIN h : k = HostKey(h[k].mac, h[k].ip)

\* A store whose records are typed and under their own key.
Kept(s) == IsStore(s) /\ Keyed(s.hosts)

\* A record with a MAC is keyed by it.
LEMMA KeyedByMac ==
  ASSUME NEW inv, Keyed(inv), NEW k \in DOMAIN inv, inv[k].mac # NoMac
  PROVE  k = inv[k].mac
BY DEF Keyed, HostKey

\* The empty store of a first start.
LEMMA EmptyIsKept == Kept(EmptyStore)
<1>1. AreHosts(Nothing) /\ DOMAIN Nothing = {}
  BY DEF AreHosts, Nothing
<1> QED
  BY <1>1 DEF Kept, IsStore, Keyed, EmptyStore, Never

\* Of the records of a scan and of those it did not see, each keeps its type and key.
LEMMA MergeIsKept ==
  ASSUME NEW h, AreHosts(h), Keyed(h), NEW scan, IsScan(scan), NEW t \in Nat
  PROVE  AreHosts(MergeHosts(h, scan, t)) /\ Keyed(MergeHosts(h, scan, t))
<1> DEFINE m == MergeHosts(h, scan, t)
<1>1. DOMAIN m = DOMAIN h \cup DOMAIN scan /\ DOMAIN m \subseteq Key
  BY DEF MergeHosts, AreHosts, IsScan
<1>2. ASSUME NEW k \in DOMAIN scan
      PROVE  m[k] \in HostRecord /\ k = HostKey(m[k].mac, m[k].ip)
  <2>1. m[k] = Merged(h, k, scan[k], t)
    BY <1>1 DEF MergeHosts
  <2>2. scan[k] \in Sighting /\ k = HostKey(scan[k].mac, scan[k].ip)
    BY DEF IsScan
  <2>3. k \in DOMAIN h => h[k] \in HostRecord
    BY DEF AreHosts
  <2>4. /\ FirstSeen(h, k, t) \in Nat
        /\ Ports(h, k, scan[k], t).ports \in SUBSET Port
        /\ Ports(h, k, scan[k], t).at \in Nat \cup {Never}
    BY <2>2, <2>3 DEF FirstSeen, Ports, Sighting, HostRecord
  <2> QED
    BY <2>1, <2>2, <2>4 DEF Merged, Sighting, HostRecord
<1>3. ASSUME NEW k \in DOMAIN h \ DOMAIN scan
      PROVE  m[k] \in HostRecord /\ k = HostKey(m[k].mac, m[k].ip)
  BY <1>1 DEF MergeHosts, AreHosts, Keyed
<1>4. m \in [DOMAIN m -> HostRecord]
  BY <1>1, <1>2, <1>3 DEF MergeHosts
<1> HIDE DEF m
<1> QED
  BY <1>1, <1>2, <1>3, <1>4 DEF AreHosts, Keyed, m

\* Re-keying takes records out, and changes of the others only a first sighting.
LEMMA RetireIsKept ==
  ASSUME NEW h, AreHosts(h), Keyed(h), NEW scan
  PROVE  /\ AreHosts(Retire(h, scan)) /\ Keyed(Retire(h, scan))
         /\ DOMAIN Retire(h, scan) = DOMAIN h \ Legacy(h, scan)
         /\ \A k \in DOMAIN Retire(h, scan) :
              /\ Retire(h, scan)[k].last = h[k].last
              /\ Retire(h, scan)[k].ports = h[k].ports
              /\ Retire(h, scan)[k].portsAt = h[k].portsAt
<1> DEFINE r == Retire(h, scan)
<1>1. DOMAIN r = DOMAIN h \ Legacy(h, scan) /\ DOMAIN r \subseteq Key
  BY DEF Retire, AreHosts
<1>2. ASSUME NEW k \in DOMAIN r
      PROVE  /\ r[k] \in HostRecord /\ k = HostKey(r[k].mac, r[k].ip)
             /\ r[k].last = h[k].last /\ r[k].ports = h[k].ports /\ r[k].portsAt = h[k].portsAt
  <2>1. h[k] \in HostRecord /\ k = HostKey(h[k].mac, h[k].ip)
    BY <1>1 DEF AreHosts, Keyed
  <2>2. CASE r[k] = h[k]
    BY <2>1, <2>2
  <2>3. CASE r[k] # h[k]
    <3>1. /\ scan[k].ip \in Legacy(h, scan)
          /\ r[k] = [h[k] EXCEPT !.first = Earlier(h[k].first, h[scan[k].ip].first)]
      BY <1>1, <2>3 DEF Retire
    <3>2. h[scan[k].ip] \in HostRecord
      BY <3>1 DEF Legacy, AreHosts
    <3>3. Earlier(h[k].first, h[scan[k].ip].first) \in Nat
      BY <2>1, <3>2 DEF HostRecord, Earlier
    <3> QED
      BY <2>1, <3>1, <3>3 DEF HostRecord
  <2> QED
    BY <2>2, <2>3
<1>3. r \in [DOMAIN r -> HostRecord]
  BY <1>1, <1>2 DEF Retire
<1> HIDE DEF r
<1> QED
  BY <1>1, <1>2, <1>3 DEF AreHosts, Keyed, r

\* A scan folded into the store leaves it kept; of the records that stay it leaves the
\* ports the merge gave them, and those it has just seen stay.
LEMMA FoldIsKept ==
  ASSUME NEW s, Kept(s), NEW scan, IsScan(scan), NEW t \in Nat,
         NEW complete \in BOOLEAN, NEW scheduled \in BOOLEAN
  PROVE  LET a == ApplyScan(s, scan, complete, scheduled, t)
             m == MergeHosts(s.hosts, scan, t)
         IN  /\ Kept(a)
             /\ \A k \in DOMAIN a.hosts :
                  k \in DOMAIN m /\ a.hosts[k].ports = m[k].ports /\ a.hosts[k].portsAt = m[k].portsAt
             /\ \A k \in DOMAIN scan \ Legacy(m, scan) : k \in DOMAIN a.hosts
<1> DEFINE a == ApplyScan(s, scan, complete, scheduled, t)
           m == MergeHosts(s.hosts, scan, t)
           r == Retire(m, scan)
<1>1. AreHosts(m) /\ Keyed(m)
  BY MergeIsKept DEF Kept, IsStore
<1>2. \A k \in DOMAIN scan : k \in DOMAIN m /\ m[k].last = t
  BY DEF MergeHosts, Merged
<1>3. /\ AreHosts(r) /\ Keyed(r) /\ DOMAIN r = DOMAIN m \ Legacy(m, scan)
      /\ \A k \in DOMAIN r :
           r[k].last = m[k].last /\ r[k].ports = m[k].ports /\ r[k].portsAt = m[k].portsAt
  <2> HIDE DEF m
  <2> QED
    BY <1>1, RetireIsKept
<1>4. /\ a.hosts \in {r, Prune(r, t)}
      /\ a = [hosts |-> a.hosts, lastScan |-> a.lastScan, lastPortScan |-> a.lastPortScan]
      /\ a.lastScan = t /\ a.lastPortScan \in {t, s.lastPortScan}
  BY DEF ApplyScan, MergeInventory, Prunes
<1> HIDE DEF a, m, r
<1>5. /\ DOMAIN a.hosts \subseteq DOMAIN r /\ \A k \in DOMAIN a.hosts : a.hosts[k] = r[k]
      /\ a.hosts \in [DOMAIN a.hosts -> HostRecord]
  BY <1>3, <1>4 DEF Prune, AreHosts
<1>6. \A k \in DOMAIN r : r[k].last = t => k \in DOMAIN a.hosts
  BY <1>4, InventoryAssumption DEF Prune
<1>7. AreHosts(a.hosts) /\ Keyed(a.hosts)
  BY <1>3, <1>5 DEF AreHosts, Keyed
<1>8. Kept(a)
  <2>1. s.lastPortScan \in Nat \cup {Never}
    BY DEF Kept, IsStore
  <2> QED
    BY <1>4, <1>7, <2>1 DEF Kept, IsStore
<1> QED
  BY <1>2, <1>3, <1>5, <1>6, <1>8 DEF a, m

\* What a scan reports of devices at home, by key.
Reported(found, shown, looks, open) ==
  ParseScan({[mac |-> IF d \in shown THEN d ELSE NoMac, ip |-> Home[d],
              portsScanned |-> looks, ports |-> open] : d \in found})

\* It is a scan: each sighting under its key.
LEMMA ReportedIsAScan ==
  ASSUME NEW found \in SUBSET Device, NEW shown, NEW looks \in BOOLEAN,
         NEW open \in IF looks THEN SUBSET Port ELSE {{}}
  PROVE  IsScan(Reported(found, shown, looks, open))
<1> DEFINE S == {[mac |-> IF d \in shown THEN d ELSE NoMac, ip |-> Home[d],
                  portsScanned |-> looks, ports |-> open] : d \in found}
           scan == ParseScan(S)
<1>1. \A d \in Device : Home[d] \in Addr
  BY EndpointAssumption
<1>2. S \in SUBSET Sighting
  <2>1. open \in SUBSET Port
    OBVIOUS
  <2> QED
    BY <1>1, <2>1 DEF Sighting
<1>3. Reported(found, shown, looks, open) = scan
  BY DEF Reported
<1> HIDE DEF S
<1>4. \A k \in DOMAIN scan : scan[k] \in S /\ HostKey(scan[k].mac, scan[k].ip) = k
  BY DEF ParseScan
<1>5. DOMAIN scan \subseteq Key
  BY <1>2 DEF ParseScan, HostKey, Key, Sighting
<1>6. scan \in [DOMAIN scan -> Sighting]
  BY <1>2, <1>4 DEF ParseScan
<1> HIDE DEF scan
<1> QED
  BY <1>3, <1>4, <1>5, <1>6 DEF IsScan

\* A candidate is a device under its own MAC that was seen to offer ssh.
LEMMA CandidateIsADevice ==
  ASSUME NEW inv, AreHosts(inv), Keyed(inv), NEW k \in Candidates(inv)
  PROVE  k \in DOMAIN inv /\ k \in Key /\ inv[k].mac = k /\ k \in Device
<1>1. k \in DOMAIN inv /\ inv[k].mac # NoMac /\ inv[k] \in HostRecord /\ k \in Key
  BY DEF Candidates, AreHosts
<1> QED
  BY <1>1, KeyedByMac DEF HostRecord

-----------------------------------------------------------------------------
(* The sensors                                                             *)

\* Everything published was given its sensor, which is still there or was deleted.
Shown ==
  /\ Endpoints(hosts) \cup OpenServices(hosts, Device) \subseteq seen
  /\ entities \subseteq seen /\ seen \subseteq entities \cup hist.deleted

Notes(h) == h = [pass |-> h.pass, last |-> h.last, look |-> h.look, deleted |-> h.deleted]

LEMMA ShownAtFirst == Init => Shown
<1>1. Init => hosts = Nothing /\ DOMAIN Nothing = {}
  BY DEF Init, EmptyStore, Nothing, hosts
<1> QED
  BY <1>1 DEF Init, Shown, Endpoints, OpenServices

\* A step that leaves hosts and sensors alone.
LEMMA ShownByTheRest ==
  ASSUME Shown, UNCHANGED <<store, seen, entities>>, hist'.deleted = hist.deleted
  PROVE  Shown'
BY DEF Shown, hosts, Endpoints, OpenServices, ServicesOf

\* Every step keeps what is published among the sensors.
LEMMA StaysShown ==
  ASSUME Notes(hist), Shown, [Next]_vars
  PROVE  Shown' /\ (seen' \ seen) \cap entities = {}
<1>1. ASSUME NEW found, NEW shown, NEW looks, NEW open, NEW whole,
             ScanLands(found, shown, looks, open, whole)
      PROVE  Shown' /\ (seen' \ seen) \cap entities = {}
  <2>1. /\ seen' = seen \cup Fresh(hosts') /\ entities' = entities \cup Fresh(hosts')
        /\ hist'.deleted = hist.deleted
    BY <1>1 DEF ScanLands, AddNewEndpoints, Seen, hosts, Notes
  <2>2. Endpoints(hosts') \cup OpenServices(hosts', Device) \subseteq seen \cup Fresh(hosts')
    BY DEF Fresh
  <2>3. Endpoints(hosts)' = Endpoints(hosts') /\ OpenServices(hosts, Device)' = OpenServices(hosts', Device)
    BY DEF Endpoints, OpenServices, ServicesOf
  <2> QED
    BY <2>1, <2>2, <2>3 DEF Shown, Fresh
<1>2. CASE Restart
  <2>1. /\ seen' = Endpoints(hosts) \cup OpenServices(hosts, Device) /\ entities' = seen'
        /\ store' = store
    BY <1>2 DEF Restart
  <2>2. Endpoints(hosts)' = Endpoints(hosts) /\ OpenServices(hosts, Device)' = OpenServices(hosts, Device)
    BY <2>1 DEF Endpoints, OpenServices, ServicesOf, hosts
  <2> QED
    BY <2>1, <2>2 DEF Shown
<1>3. ASSUME NEW d \in Device, DeleteDevice(d) PROVE Shown' /\ (seen' \ seen) \cap entities = {}
  <2>1. /\ entities' = entities \ SensorsOf(d) /\ UNCHANGED <<store, seen>>
        /\ hist'.deleted = hist.deleted \cup (entities \cap SensorsOf(d))
    BY <1>3 DEF DeleteDevice, Notes
  <2>2. Endpoints(hosts)' = Endpoints(hosts) /\ OpenServices(hosts, Device)' = OpenServices(hosts, Device)
    BY <2>1 DEF Endpoints, OpenServices, ServicesOf, hosts
  <2> QED
    BY <2>1, <2>2 DEF Shown
<1>4. CASE Refresh \/ ProbeComesBack \/ Tick \/ UNCHANGED vars
  <2>1. UNCHANGED <<store, seen, entities>>
    BY <1>4 DEF Refresh, ProbeComesBack, ProbeRaises, ProbeAnswers, ProbeEnds, Tick, vars
  <2>2. hist'.deleted = hist.deleted
    <3>1. CASE Refresh
      BY <3>1 DEF Refresh, Notes
    <3>2. ASSUME NEW results, ProbeEnds(results) PROVE hist'.deleted = hist.deleted
      BY <3>2 DEF ProbeEnds, Notes
    <3>3. CASE Tick \/ UNCHANGED vars
      BY <3>3 DEF Tick, vars
    <3> QED
      BY <1>4, <3>1, <3>2, <3>3 DEF ProbeComesBack, ProbeRaises, ProbeAnswers
  <2> QED
    BY <2>1, <2>2, ShownByTheRest
<1> QED
  BY <1>1, <1>2, <1>3, <1>4 DEF Next

-----------------------------------------------------------------------------
(* Types                                                                   *)

\* A pass under way probes a device.
Typed == TypeOK /\ Kept(store) /\ (Walking => pass.mac \in Device)

IsPass(p) ==
  /\ p \in [at : Key \cup {NoHost}, mac : Device \cup {NoMac}, left : SUBSET Key, size : Nat,
            changed : BOOLEAN, results : {p.results}]
  /\ AreAnswers(p.results)
  /\ p.at # NoHost => p.mac \in Device

IsHistory(h) ==
  h \in [pass : [offered : SUBSET Device, tried : SUBSET Device], last : SUBSET Device,
         look : [Device -> [looked : BOOLEAN, found : SUBSET Service]], deleted : SUBSET Sensor]

LEMMA NothingAnswered == AreAnswers(Nothing) /\ DOMAIN Nothing = {}
BY DEF AreAnswers, Nothing

LEMMA IdleIsAPass == IsPass(Idle) /\ Idle.at = NoHost /\ ~Idle.changed /\ Idle.results = Nothing
<1>1. Idle.results = Nothing
  BY DEF Idle
<1> QED
  BY <1>1, NothingAnswered DEF IsPass, Idle

\* An inventory of hosts has a number of them.
LEMMA HostsAreFinite ==
  ASSUME NEW inv, AreHosts(inv) PROVE IsFiniteSet(DOMAIN inv) /\ Cardinality(DOMAIN inv) \in Nat
<1>1. IsFiniteSet(Key)
  BY InventoryAssumption, FS_Union DEF Key
<1>2. IsFiniteSet(DOMAIN inv)
  BY <1>1, FS_Subset DEF AreHosts
<1> QED
  BY <1>2, FS_CardinalityType

\* Wherever a walk goes on from, it goes on to a device.
LEMMA WalkToADevice ==
  ASSUME AreHosts(hosts), Keyed(hosts), NEW from, IsPass(from), NEW keys \in SUBSET Key,
         NEW k \in Candidates(hosts), WalkTo(from, k, keys)
  PROVE  /\ IsPass(pass') /\ pass'.at = k /\ pass'.at # NoHost /\ pass'.mac = k
         /\ pass'.changed = from.changed /\ pass'.size = from.size /\ pass'.results = from.results
         /\ pass'.left \subseteq keys
         /\ \A j \in keys \cap Candidates(hosts) : j = k \/ j \in pass'.left
<1>1. PICK passed \in SUBSET (keys \ Candidates(hosts)) :
        pass' = [from EXCEPT !.at = k, !.mac = hosts[k].mac, !.left = keys \ (passed \cup {k})]
  BY DEF WalkTo
<1>2. k \in Key /\ hosts[k].mac = k /\ k \in Device /\ k # NoHost
  BY CandidateIsADevice, EndpointAssumption
<1>3. /\ pass'.at = k /\ pass'.mac = k /\ pass'.left = keys \ (passed \cup {k})
      /\ pass'.changed = from.changed /\ pass'.size = from.size /\ pass'.results = from.results
  BY <1>1, <1>2 DEF IsPass
<1>4. pass' \in [at : Key \cup {NoHost}, mac : Device \cup {NoMac}, left : SUBSET Key, size : Nat,
                 changed : BOOLEAN, results : {from.results}]
  BY <1>1, <1>2 DEF IsPass
<1> QED
  BY <1>2, <1>3, <1>4 DEF IsPass

\* What a probe that ends adds to the answers so far.
LEMMA ResultsType ==
  ASSUME AreAnswers(pass.results), pass.mac \in Device, NEW answer \in Answer
  PROVE  LET results == [d \in DOMAIN pass.results \cup {pass.mac} |->
                           IF d = pass.mac THEN answer ELSE pass.results[d]]
         IN  AreAnswers(results) /\ DOMAIN results = DOMAIN pass.results \cup {pass.mac}
BY DEF AreAnswers

LEMMA TypedAtFirst == Init => Typed
<1> SUFFICES ASSUME Init PROVE Typed
  OBVIOUS
<1>1. Kept(store) /\ IsStore(store)
  BY EmptyIsKept DEF Init, Kept
<1>2. IsPass(pass) /\ ~Walking /\ AreAnswers(ssh)
  BY IdleIsAPass, NothingAnswered DEF Init, Walking
<1>3. IsHistory(hist)
  BY DEF Init, IsHistory, NoPass, Unlooked
<1> QED
  BY <1>1, <1>2, <1>3 DEF Init, Typed, TypeOK, IsPass, IsHistory, Never

\* The parts a step may disturb, put together again.
LEMMA TypedFromParts ==
  ASSUME now' \in Nat, scans' \in Nat, restarts' \in Nat, Kept(store'), IsPass(pass'),
         AreAnswers(ssh'), sshAt' \in Nat \cup {Never}, seen' \subseteq Sensor, entities' \subseteq seen',
         IsHistory(hist')
  PROVE  Typed'
BY DEF Typed, TypeOK, IsPass, IsHistory, Kept, Walking, AreAnswers, IsStore, AreHosts, Keyed

\* The parts of the type invariant that the others are proved from.
LEMMA PartsFromTyped ==
  ASSUME Typed
  PROVE  /\ now \in Nat /\ scans \in Nat /\ restarts \in Nat /\ Kept(store) /\ IsPass(pass)
         /\ AreAnswers(ssh) /\ sshAt \in Nat \cup {Never} /\ seen \subseteq Sensor /\ entities \subseteq seen
         /\ IsHistory(hist) /\ Notes(hist)
         /\ AreHosts(hosts) /\ Keyed(hosts) /\ DOMAIN hosts \subseteq Key
BY DEF Typed, TypeOK, IsPass, IsHistory, Notes, Kept, Walking, IsStore, AreHosts, hosts

\* Whatever a view asks for is a sensor.
LEMMA AskedAreSensors ==
  ASSUME NEW inv, AreHosts(inv)
  PROVE  Endpoints(inv) \cup OpenServices(inv, Device) \subseteq Sensor
<1>1. \A k \in DOMAIN inv : inv[k].mac \in Device \cup {NoMac}
  BY DEF AreHosts, HostRecord
<1> QED
  BY <1>1 DEF Endpoints, OpenServices, Sensor

\* The keys a scan leaves a pass under way to walk are keys.
LEMMA DisturbedIsAPass ==
  ASSUME IsPass(pass), NEW keys \in SUBSET Key, DOMAIN hosts \subseteq Key
  PROVE  /\ IsPass(Disturbed(keys))
         /\ Disturbed(keys).at = pass.at /\ Disturbed(keys).mac = pass.mac
         /\ Disturbed(keys).results = pass.results /\ Disturbed(keys).size = pass.size
         /\ Walking => Disturbed(keys).left = (pass.left \cap keys) \cup (keys \ DOMAIN hosts)
         /\ Walking => (Disturbed(keys).changed <=> pass.changed \/ keys # DOMAIN hosts)
<1>1. CASE ~Walking
  BY <1>1 DEF Disturbed
<1>2. CASE Walking
  <2> DEFINE left == (pass.left \cap keys) \cup (keys \ DOMAIN hosts)
             changed == pass.changed \/ keys # DOMAIN hosts
  <2>1. Disturbed(keys) = [pass EXCEPT !.left = left, !.changed = changed]
    BY <1>2 DEF Disturbed
  <2>2. left \in SUBSET Key /\ changed \in BOOLEAN
    BY DEF IsPass
  <2> HIDE DEF left, changed
  <2>3. /\ Disturbed(keys).at = pass.at /\ Disturbed(keys).mac = pass.mac
        /\ Disturbed(keys).results = pass.results /\ Disturbed(keys).size = pass.size
        /\ Disturbed(keys).left = left /\ Disturbed(keys).changed = changed
    BY <2>1 DEF IsPass
  <2>4. Disturbed(keys) \in [at : Key \cup {NoHost}, mac : Device \cup {NoMac}, left : SUBSET Key,
                             size : Nat, changed : BOOLEAN, results : {pass.results}]
    BY <2>1, <2>2 DEF IsPass
  <2>5. IsPass(Disturbed(keys))
    BY <2>3, <2>4 DEF IsPass
  <2> QED
    BY <2>3, <2>5 DEF left, changed
<1> QED
  BY <1>1, <1>2

\* A scan leaves the store kept.
LEMMA LandedIsKept ==
  ASSUME Typed, NEW found \in SUBSET Device, NEW shown, NEW looks \in BOOLEAN,
         NEW open \in IF looks THEN SUBSET Port ELSE {{}}, NEW whole \in BOOLEAN,
         ScanLands(found, shown, looks, open, whole)
  PROVE  /\ store' = ApplyScan(store, Reported(found, shown, looks, open), whole, whole, now)
         /\ Kept(store') /\ AreHosts(hosts') /\ Keyed(hosts') /\ DOMAIN hosts' \subseteq Key
<1>1. store' = ApplyScan(store, Reported(found, shown, looks, open), whole, whole, now)
  BY DEF ScanLands, Reported
<1>2. Kept(store')
  <2>1. Kept(store) /\ now \in Nat
    BY PartsFromTyped
  <2> QED
    BY <1>1, <2>1, ReportedIsAScan, FoldIsKept
<1> QED
  BY <1>1, <1>2 DEF Kept, IsStore, AreHosts, hosts

LEMMA StaysTyped ==
  ASSUME Typed, [Next]_vars
  PROVE  Typed'
<1>0. /\ now \in Nat /\ scans \in Nat /\ restarts \in Nat /\ Kept(store) /\ IsPass(pass)
      /\ AreAnswers(ssh) /\ sshAt \in Nat \cup {Never} /\ seen \subseteq Sensor /\ entities \subseteq seen
      /\ IsHistory(hist) /\ Notes(hist)
      /\ AreHosts(hosts) /\ Keyed(hosts) /\ DOMAIN hosts \subseteq Key
  BY PartsFromTyped
<1>1. ASSUME NEW found \in SUBSET Device, NEW looks \in BOOLEAN, NEW whole \in BOOLEAN,
             NEW shown, NEW open \in IF looks THEN SUBSET Port ELSE {{}},
             ScanLands(found, shown, looks, open, whole)
      PROVE  Typed'
  <2> DEFINE scan == Reported(found, shown, looks, open)
  <2>1. /\ Kept(store') /\ AreHosts(hosts') /\ DOMAIN hosts' \subseteq Key
    BY <1>1, LandedIsKept
  <2>2. IsPass(pass')
    <3>1. pass' = Disturbed(DOMAIN hosts')
      BY <1>1 DEF ScanLands, hosts
    <3> QED
      BY <1>0, <2>1, <3>1, DisturbedIsAPass
  <2>3. seen' \subseteq Sensor /\ entities' \subseteq seen'
    <3>1. seen' = seen \cup Fresh(hosts') /\ entities' = entities \cup Fresh(hosts')
      BY <1>1 DEF ScanLands, AddNewEndpoints, Seen, hosts
    <3>2. Fresh(hosts') \subseteq Sensor
      BY <2>1, AskedAreSensors DEF Fresh
    <3> QED
      BY <1>0, <3>1, <3>2
  <2>4. IsHistory(hist')
    <3> DEFINE offered == hist.pass.offered \cap {hosts'[k].mac : k \in Candidates(hosts')}
               look == [d \in Device |-> Look(scan, hosts', d)]
    <3>1. hist' = [hist EXCEPT !.pass.offered = offered, !.look = look]
      BY <1>1 DEF ScanLands, Reported, hosts
    <3>2. offered \subseteq Device
      BY <1>0 DEF IsHistory
    <3>3. look \in [Device -> [looked : BOOLEAN, found : SUBSET Service]]
      <4>1. SUFFICES ASSUME NEW d \in Device
                     PROVE  Look(scan, hosts', d) \in [looked : BOOLEAN, found : SUBSET Service]
        OBVIOUS
      <4>2. CASE d \in DOMAIN scan /\ scan[d].portsScanned
        <5>1. scan[d].ports \subseteq Port
          <6>1. IsScan(scan)
            BY <1>1, ReportedIsAScan
          <6> HIDE DEF scan
          <6> QED
            BY <4>2, <6>1 DEF IsScan, Sighting
        <5>2. {ServiceOf[p] : p \in scan[d].ports} \subseteq Service
          BY <5>1, EndpointAssumption
        <5> HIDE DEF scan
        <5> QED
          BY <4>2, <5>2 DEF Look
      <4>3. CASE ~(d \in DOMAIN scan /\ scan[d].portsScanned)
        <5> HIDE DEF scan
        <5> QED
          BY <4>3, <1>0 DEF Look, Unlooked, IsHistory
      <4> QED
        BY <4>2, <4>3
    <3> HIDE DEF offered, look
    <3> QED
      BY <1>0, <3>1, <3>2, <3>3 DEF IsHistory
  <2>5. UNCHANGED <<now, restarts, ssh, sshAt>> /\ scans' = scans + 1
    BY <1>1 DEF ScanLands
  <2> QED
    BY <1>0, <2>1, <2>2, <2>3, <2>4, <2>5, TypedFromParts
<1>2. CASE Refresh
  <2>1. UNCHANGED <<now, store, scans, restarts, ssh, seen, entities>>
    BY <1>2 DEF Refresh
  <2>2. IsPass(pass') /\ sshAt' \in Nat \cup {Never} /\ IsHistory(hist')
    <3>1. CASE UNCHANGED <<pass, sshAt, hist>> \/ (sshAt' = ClockOfEmptyPass /\ UNCHANGED <<pass, hist>>)
      BY <1>0, <3>1 DEF ClockOfEmptyPass
    <3>2. ASSUME NEW k \in Candidates(hosts),
                 WalkTo([Idle EXCEPT !.size = Cardinality(DOMAIN hosts)], k, DOMAIN hosts),
                 hist' = [hist EXCEPT !.pass =
                            [offered |-> {hosts[j].mac : j \in Candidates(hosts)}, tried |-> {}]],
                 UNCHANGED sshAt
          PROVE  IsPass(pass') /\ sshAt' \in Nat \cup {Never} /\ IsHistory(hist')
      <4>1. IsPass([Idle EXCEPT !.size = Cardinality(DOMAIN hosts)])
        <5>1. Cardinality(DOMAIN hosts) \in Nat
          BY <1>0, HostsAreFinite
        <5> QED
          BY <5>1, NothingAnswered DEF IsPass, Idle
      <4>2. IsPass(pass')
        BY <1>0, <3>2, <4>1, WalkToADevice
      <4>3. {hosts[j].mac : j \in Candidates(hosts)} \subseteq Device
        BY <1>0, CandidateIsADevice
      <4>4. IsHistory(hist')
        BY <1>0, <3>2, <4>3 DEF IsHistory
      <4> QED
        BY <1>0, <3>2, <4>2, <4>4
    <3> QED
      BY <1>2, <3>1, <3>2 DEF Refresh
  <2> QED
    BY <1>0, <2>1, <2>2, TypedFromParts
<1>3. ASSUME NEW results, AreAnswers(results), ProbeEnds(results)
      PROVE  Typed'
  <2>1. UNCHANGED <<now, store, scans, restarts, seen, entities>>
    BY <1>3 DEF ProbeEnds
  <2>2. pass.mac \in Device
    BY <1>0, <1>3 DEF IsPass, ProbeEnds, Walking
  <2>3. IsPass(pass') /\ AreAnswers(ssh') /\ sshAt' \in Nat \cup {Never} /\ IsHistory(hist')
    <3>1. CASE /\ pass' = Idle /\ sshAt' = ClockOnError
               /\ hist' = [hist EXCEPT !.pass = NoPass] /\ UNCHANGED ssh
      BY <1>0, <3>1, IdleIsAPass DEF ClockOnError, IsHistory, NoPass
    <3>2. CASE /\ pass' = Idle /\ sshAt' = now /\ ssh' = Replaced(results)
               /\ hist' = [hist EXCEPT !.pass = NoPass, !.last = hist.pass.tried \cup {pass.mac}]
      BY <1>0, <1>3, <2>2, <3>2, IdleIsAPass DEF Replaced, IsHistory, NoPass
    <3>3. ASSUME NEW keys \in SUBSET pass.left, NEW k \in Candidates(hosts),
                 WalkTo([pass EXCEPT !.results = results], k, keys),
                 hist' = [hist EXCEPT !.pass.tried = @ \cup {pass.mac}],
                 UNCHANGED <<ssh, sshAt>>
          PROVE  IsPass(pass') /\ AreAnswers(ssh') /\ sshAt' \in Nat \cup {Never} /\ IsHistory(hist')
      <4>1. IsPass([pass EXCEPT !.results = results])
        BY <1>0, <1>3, <2>2 DEF IsPass
      <4>2. keys \in SUBSET Key
        BY <1>0 DEF IsPass
      <4>3. IsPass(pass')
        BY <1>0, <3>3, <4>1, <4>2, WalkToADevice
      <4>4. IsHistory(hist')
        BY <1>0, <2>2, <3>3 DEF IsHistory
      <4> QED
        BY <1>0, <3>3, <4>3, <4>4
    <3> QED
      BY <1>3, <3>1, <3>2, <3>3 DEF ProbeEnds
  <2> QED
    BY <1>0, <2>1, <2>3, TypedFromParts
<1>4. CASE ProbeComesBack
  <2>1. CASE ProbeRaises
    BY <1>0, <1>3, <2>1 DEF ProbeRaises, IsPass
  <2>2. ASSUME NEW answer \in Answer, ProbeAnswers(answer) PROVE Typed'
    <3>1. pass.mac \in Device /\ AreAnswers(pass.results)
      BY <1>0, <2>2 DEF IsPass, ProbeAnswers, ProbeEnds, Walking
    <3> QED
      BY <1>3, <2>2, <3>1, ResultsType DEF ProbeAnswers
  <2> QED
    BY <1>4, <2>1, <2>2 DEF ProbeComesBack
<1>5. ASSUME NEW d \in Device, DeleteDevice(d) PROVE Typed'
  <2>1. IsHistory(hist')
    <3>1. hist' = [hist EXCEPT !.deleted = hist.deleted \cup (entities \cap SensorsOf(d))]
      BY <1>5 DEF DeleteDevice
    <3>2. hist.deleted \cup (entities \cap SensorsOf(d)) \subseteq Sensor
      BY <1>0 DEF IsHistory
    <3> QED
      BY <1>0, <3>1, <3>2 DEF IsHistory
  <2> QED
    BY <1>0, <1>5, <2>1, TypedFromParts DEF DeleteDevice
<1>6. CASE Restart
  <2>1. IsHistory(hist')
    BY <1>0, <1>6 DEF Restart, IsHistory, NoPass
  <2>2. IsPass(pass') /\ AreAnswers(ssh') /\ sshAt' = Never
    BY <1>6, IdleIsAPass, NothingAnswered DEF Restart
  <2>3. seen' \subseteq Sensor /\ entities' = seen'
    BY <1>0, <1>6, AskedAreSensors DEF Restart
  <2> QED
    BY <1>0, <1>6, <2>1, <2>2, <2>3, TypedFromParts DEF Restart
<1>7. CASE Tick
  <2>1. now' \in Nat /\ now <= now' /\ store' = store
    BY <1>0, <1>7, EndpointAssumption DEF Tick
  <2>2. Kept(store')
    BY <1>0, <2>1
  <2> QED
    BY <1>0, <1>7, <2>1, <2>2, TypedFromParts DEF Tick
<1>8. CASE UNCHANGED vars
  BY <1>0, <1>8, TypedFromParts DEF vars
<1> QED
  BY <1>1, <1>2, <1>4, <1>5, <1>6, <1>7, <1>8 DEF Next

-----------------------------------------------------------------------------
(* What SSH access is read from                                            *)

\* A record says of its ports what the last look at that device found since it was
\* recorded; the answers published are of devices the last finished pass tried.
LookedAt(d) ==
  IF d \in DOMAIN hosts
  THEN /\ hosts[d].portsAt # Never <=> hist.look[d].looked
       /\ hist.look[d].looked => ServicesOf(hosts[d]) = hist.look[d].found
  ELSE ~hist.look[d].looked

Looked == \A d \in Device : LookedAt(d)

Tried ==
  /\ DOMAIN ssh \subseteq hist.last
  /\ Walking => DOMAIN pass.results \subseteq hist.pass.tried

LEMMA LookedAtFirst == Init => Looked /\ Tried
<1>1. Init => hosts = Nothing /\ ssh = Nothing /\ pass = Idle /\ \A d \in Device : hist.look[d] = Unlooked
  BY DEF Init, EmptyStore, hosts
<1> QED
  BY <1>1, NothingAnswered DEF Looked, LookedAt, Tried, Unlooked, Walking, Idle

\* A step that leaves the hosts and what is known of them alone.
LEMMA LookedByTheRest ==
  ASSUME Looked, UNCHANGED store, hist'.look = hist.look
  PROVE  Looked'
BY DEF Looked, LookedAt, hosts, ServicesOf

\* A scan leaves of a device it looked at what it found, of another what there was.
LEMMA LandedIsLooked ==
  ASSUME Typed, Looked, NEW found \in SUBSET Device, NEW shown, NEW looks \in BOOLEAN,
         NEW open \in IF looks THEN SUBSET Port ELSE {{}}, NEW whole \in BOOLEAN,
         ScanLands(found, shown, looks, open, whole)
  PROVE  Looked'
<1> DEFINE scan == Reported(found, shown, looks, open)
           m == MergeHosts(hosts, scan, now)
<1>1. IsScan(scan) /\ Kept(store) /\ now \in Nat /\ Notes(hist)
  BY ReportedIsAScan, PartsFromTyped
<1>2. hosts' = ApplyScan(store, scan, whole, whole, now).hosts
  BY LandedIsKept DEF hosts
<1>3. \A d \in Device : hist'.look[d] = Look(scan, hosts', d)
  <2>1. hist'.look = [d \in Device |-> Look(scan, hosts', d)]
    BY <1>1 DEF ScanLands, Reported, hosts, Notes
  <2> QED
    BY <2>1
<1> HIDE DEF scan
<1>4. SUFFICES ASSUME NEW d \in Device PROVE LookedAt(d)'
  BY DEF Looked
<1>5. d \notin Legacy(m, scan)
  BY <1>1, InventoryAssumption DEF Legacy, IsScan, Sighting
<1>6. d \in DOMAIN scan => d \in DOMAIN hosts'
  BY <1>1, <1>2, <1>5, FoldIsKept DEF hosts
<1>7. d \in DOMAIN hosts' =>
        /\ d \in DOMAIN hosts \cup DOMAIN scan
        /\ hosts'[d].ports = m[d].ports /\ hosts'[d].portsAt = m[d].portsAt
        /\ m[d] = IF d \in DOMAIN scan THEN Merged(hosts, d, scan[d], now) ELSE hosts[d]
  <2>1. d \in DOMAIN hosts' =>
          d \in DOMAIN m /\ hosts'[d].ports = m[d].ports /\ hosts'[d].portsAt = m[d].portsAt
    BY <1>1, <1>2, FoldIsKept DEF hosts
  <2> QED
    BY <2>1 DEF MergeHosts
<1> HIDE DEF m
<1>8. CASE d \in DOMAIN scan /\ scan[d].portsScanned
  <2>1. m[d].ports = scan[d].ports /\ m[d].portsAt = now
    BY <1>6, <1>7, <1>8 DEF Merged, Ports
  <2>2. Look(scan, hosts', d) = [looked |-> TRUE, found |-> {ServiceOf[p] : p \in scan[d].ports}]
    BY <1>8 DEF Look
  <2> QED
    BY <1>1, <1>3, <1>6, <1>7, <1>8, <2>1, <2>2 DEF LookedAt, ServicesOf, Never
<1>9. CASE d \in DOMAIN hosts' /\ ~(d \in DOMAIN scan /\ scan[d].portsScanned)
  <2>1. Look(scan, hosts', d) = hist.look[d]
    BY <1>9 DEF Look
  <2>2. LookedAt(d)
    BY DEF Looked
  <2>3. CASE d \in DOMAIN hosts
    <3>1. m[d].ports = hosts[d].ports /\ m[d].portsAt = hosts[d].portsAt
      BY <1>7, <1>9, <2>3 DEF Merged, Ports
    <3> QED
      BY <1>3, <1>7, <1>9, <2>1, <2>2, <2>3, <3>1 DEF LookedAt, ServicesOf
  <2>4. CASE d \notin DOMAIN hosts
    <3>1. m[d].portsAt = Never
      BY <1>7, <1>9, <2>4 DEF Merged, Ports
    <3> QED
      BY <1>3, <1>7, <1>9, <2>1, <2>2, <2>4, <3>1 DEF LookedAt
  <2> QED
    BY <2>3, <2>4
<1>10. CASE d \notin DOMAIN hosts'
  <2>1. Look(scan, hosts', d) = Unlooked
    BY <1>6, <1>10 DEF Look
  <2> QED
    BY <1>3, <1>10, <2>1 DEF LookedAt, Unlooked
<1> QED
  BY <1>8, <1>9, <1>10

\* Every step keeps the ports those of the last look, and what was tried accounted for.
LEMMA StaysLooked ==
  ASSUME Typed, Looked, [Next]_vars
  PROVE  Looked'
<1>1. Notes(hist)
  BY PartsFromTyped
<1>2. CASE \E found \in SUBSET Device, looks, whole \in BOOLEAN :
             \E hidden \in SUBSET (found \cap Hidden), open \in IF looks THEN SUBSET Port ELSE {{}} :
               ScanLands(found, found \ hidden, looks, open, whole)
  BY <1>2, LandedIsLooked
<1>3. CASE Refresh
  BY <1>1, <1>3, LookedByTheRest DEF Refresh, Notes
<1>4. ASSUME NEW results, ProbeEnds(results) PROVE Looked'
  BY <1>1, <1>4, LookedByTheRest DEF ProbeEnds, Notes
<1>5. CASE ProbeComesBack
  BY <1>4, <1>5 DEF ProbeComesBack, ProbeRaises, ProbeAnswers
<1>6. ASSUME NEW d \in Device, DeleteDevice(d) PROVE Looked'
  BY <1>1, <1>6, LookedByTheRest DEF DeleteDevice, Notes
<1>7. CASE Restart
  BY <1>1, <1>7, LookedByTheRest DEF Restart, Notes
<1>8. CASE Tick \/ UNCHANGED vars
  BY <1>8, LookedByTheRest DEF Tick, vars
<1> QED
  BY <1>2, <1>3, <1>5, <1>6, <1>7, <1>8 DEF Next

\* An answer is of a device the pass has tried, and is published with it.
LEMMA StaysTried ==
  ASSUME Typed, Tried, [Next]_vars
  PROVE  Tried'
<1>0. IsPass(pass) /\ IsHistory(hist) /\ Notes(hist) /\ AreHosts(hosts) /\ Keyed(hosts)
      /\ DOMAIN hosts \subseteq Key
  BY PartsFromTyped
<1>1. ASSUME NEW found \in SUBSET Device, NEW looks \in BOOLEAN, NEW whole \in BOOLEAN,
             NEW shown, NEW open \in IF looks THEN SUBSET Port ELSE {{}},
             ScanLands(found, shown, looks, open, whole)
      PROVE  Tried'
  <2>1. pass'.at = pass.at /\ pass'.results = pass.results
    <3>1. pass' = Disturbed(DOMAIN hosts')
      BY <1>1 DEF ScanLands, hosts
    <3>2. DOMAIN hosts' \subseteq Key
      BY <1>1, LandedIsKept
    <3> QED
      BY <1>0, <3>1, <3>2, DisturbedIsAPass
  <2>2. hist'.pass.tried = hist.pass.tried /\ hist'.last = hist.last /\ ssh' = ssh
    BY <1>0, <1>1 DEF ScanLands, IsHistory
  <2> QED
    BY <2>1, <2>2 DEF Tried, Walking
<1>2. CASE Refresh
  <2>1. ssh' = ssh /\ hist'.last = hist.last
    BY <1>0, <1>2 DEF Refresh, Notes
  <2>2. CASE UNCHANGED <<pass, hist>>
    BY <2>1, <2>2 DEF Tried, Walking
  <2>3. ASSUME NEW k \in Candidates(hosts),
               WalkTo([Idle EXCEPT !.size = Cardinality(DOMAIN hosts)], k, DOMAIN hosts)
        PROVE  DOMAIN pass'.results = {}
    BY <2>3, NothingAnswered DEF WalkTo, Idle
  <2> QED
    BY <1>2, <2>1, <2>2, <2>3 DEF Refresh, Tried
<1>3. ASSUME NEW results, AreAnswers(results), ProbeEnds(results),
             DOMAIN results \subseteq DOMAIN pass.results \cup {pass.mac}
      PROVE  Tried'
  <2>1. DOMAIN results \subseteq hist.pass.tried \cup {pass.mac}
    BY <1>3 DEF ProbeEnds, Tried
  <2>2. CASE pass' = Idle /\ hist' = [hist EXCEPT !.pass = NoPass] /\ UNCHANGED ssh
    BY <1>0, <2>2 DEF Tried, Notes, Walking, Idle
  <2>3. CASE /\ pass' = Idle /\ ssh' = Replaced(results)
             /\ hist' = [hist EXCEPT !.pass = NoPass, !.last = hist.pass.tried \cup {pass.mac}]
    BY <1>0, <2>1, <2>3 DEF Replaced, Tried, Notes, Walking, Idle
  <2>4. ASSUME NEW keys \in SUBSET pass.left, NEW k \in Candidates(hosts),
               WalkTo([pass EXCEPT !.results = results], k, keys),
               hist' = [hist EXCEPT !.pass.tried = @ \cup {pass.mac}], UNCHANGED ssh
        PROVE  Tried'
    <3>1. pass'.results = results
      BY <1>0, <2>4 DEF WalkTo, IsPass
    <3>2. hist'.pass.tried = hist.pass.tried \cup {pass.mac} /\ hist'.last = hist.last
      BY <1>0, <2>4 DEF IsHistory
    <3> QED
      BY <2>1, <2>4, <3>1, <3>2 DEF Tried
  <2> QED
    BY <1>3, <2>2, <2>3, <2>4 DEF ProbeEnds
<1>4. CASE ProbeComesBack
  <2>1. CASE ProbeRaises
    BY <1>0, <1>3, <2>1 DEF ProbeRaises, IsPass
  <2>2. ASSUME NEW answer \in Answer, ProbeAnswers(answer) PROVE Tried'
    <3>1. pass.mac \in Device /\ AreAnswers(pass.results)
      BY <1>0, <2>2 DEF IsPass, ProbeAnswers, ProbeEnds, Walking
    <3> QED
      BY <1>3, <2>2, <3>1, ResultsType DEF ProbeAnswers
  <2> QED
    BY <1>4, <2>1, <2>2 DEF ProbeComesBack
<1>5. ASSUME NEW d \in Device, DeleteDevice(d) PROVE Tried'
  BY <1>0, <1>5 DEF DeleteDevice, Tried, Walking, Notes
<1>6. CASE Restart
  BY <1>6, NothingAnswered DEF Restart, Tried, Walking, Idle
<1>7. CASE Tick \/ UNCHANGED vars
  BY <1>7 DEF Tick, vars, Tried, Walking
<1> QED
  BY <1>1, <1>2, <1>4, <1>5, <1>6, <1>7 DEF Next

\* So access is what the record says, and an answer of it is the last pass's.
LEMMA LookedIsBacked ==
  ASSUME Typed, Looked, Tried
  PROVE  AccessIsBacked
<1> SUFFICES ASSUME NEW d \in Device \cap DOMAIN hosts
             PROVE  /\ SshAccess(hosts[d], d) = "never_scanned" <=> ~hist.look[d].looked
                    /\ SshAccess(hosts[d], d) = "no_ssh" <=> hist.look[d].looked /\ Ssh \notin hist.look[d].found
                    /\ SshAccess(hosts[d], d) \in Answer => d \in hist.last
  BY DEF AccessIsBacked
<1>1. d \in DOMAIN ssh => ssh[d] \in Verdict
  BY AnswerIsAVerdict DEF Typed, TypeOK, AreAnswers
<1>2. \A v \in Answer : v \in Verdict
  BY AnswerIsAVerdict
<1>3. LookedAt(d) /\ (d \in DOMAIN ssh => d \in hist.last)
  BY DEF Looked, Tried
<1>4. "never_scanned" \notin Verdict /\ "no_ssh" \notin Verdict /\ "unknown" \notin Verdict
  BY DEF Verdict
<1>5. CASE ~hist.look[d].looked
  <2>1. SshAccess(hosts[d], d) = "never_scanned"
    BY <1>3, <1>5 DEF LookedAt, SshAccess, Reading, WasPortScanned
  <2> QED
    BY <1>2, <1>4, <1>5, <2>1
<1>6. CASE hist.look[d].looked /\ Ssh \notin hist.look[d].found
  <2>1. SshAccess(hosts[d], d) = "no_ssh"
    BY <1>3, <1>6 DEF LookedAt, SshAccess, Reading, WasPortScanned
  <2> QED
    BY <1>2, <1>4, <1>6, <2>1
<1>7. CASE hist.look[d].looked /\ Ssh \in hist.look[d].found
  <2>1. SshAccess(hosts[d], d) = IF d \in DOMAIN ssh THEN ssh[d] ELSE "unknown"
    BY <1>3, <1>7 DEF LookedAt, SshAccess, Reading, WasPortScanned
  <2> QED
    BY <1>1, <1>2, <1>3, <1>4, <1>7, <2>1
<1> QED
  BY <1>5, <1>6, <1>7

-----------------------------------------------------------------------------
(* The walk                                                                *)

\* What has offered ssh since the pass began still does, and, unless the keys have
\* changed, was tried, is being tried or is still to be reached.
Walked ==
  /\ hist.pass.offered \subseteq Candidates(hosts)
  /\ Walking /\ ~pass.changed => hist.pass.offered \subseteq hist.pass.tried \cup {pass.mac} \cup pass.left

OnlyByAFullPass ==
  sshAt' \notin {sshAt, Never} =>
    \/ hist.pass.offered \subseteq hist.pass.tried \cup {pass.mac}
    \/ pass.changed /\ Cardinality(DOMAIN hosts) = pass.size

LEMMA WalkedAtFirst == Init => Walked
BY DEF Init, Walked, NoPass, Walking, Idle

\* The candidates by their MAC are the candidates.
LEMMA CandidatesByMac ==
  ASSUME NEW inv, AreHosts(inv), Keyed(inv)
  PROVE  {inv[k].mac : k \in Candidates(inv)} = Candidates(inv)
BY CandidateIsADevice

\* Every step keeps what has offered ssh tried, being tried, or ahead of the walk.
LEMMA StaysWalked ==
  ASSUME Typed, Walked, [Next]_vars
  PROVE  Walked' /\ OnlyByAFullPass
<1>0. IsPass(pass) /\ IsHistory(hist) /\ Notes(hist) /\ AreHosts(hosts) /\ Keyed(hosts)
      /\ DOMAIN hosts \subseteq Key
  BY PartsFromTyped
<1>1. ASSUME NEW found \in SUBSET Device, NEW looks \in BOOLEAN, NEW whole \in BOOLEAN,
             NEW shown, NEW open \in IF looks THEN SUBSET Port ELSE {{}},
             ScanLands(found, shown, looks, open, whole)
      PROVE  Walked' /\ OnlyByAFullPass
  <2>1. AreHosts(hosts') /\ Keyed(hosts') /\ DOMAIN hosts' \subseteq Key
    BY <1>1, LandedIsKept
  <2>2. pass' = Disturbed(DOMAIN hosts') /\ sshAt' = sshAt
    BY <1>1 DEF ScanLands, hosts
  <2>3. /\ pass'.at = pass.at /\ pass'.mac = pass.mac
        /\ Walking => pass'.left = (pass.left \cap DOMAIN hosts') \cup (DOMAIN hosts' \ DOMAIN hosts)
        /\ Walking => (pass'.changed <=> pass.changed \/ DOMAIN hosts' # DOMAIN hosts)
    BY <1>0, <2>1, <2>2, DisturbedIsAPass
  <2>4. /\ hist'.pass.offered = hist.pass.offered \cap Candidates(hosts')
        /\ hist'.pass.tried = hist.pass.tried
    <3>1. {hosts'[k].mac : k \in Candidates(hosts')} = Candidates(hosts')
      BY <2>1, CandidatesByMac
    <3>2. hist'.pass.offered = hist.pass.offered \cap {hosts'[k].mac : k \in Candidates(hosts')}
          /\ hist'.pass.tried = hist.pass.tried
      BY <1>0, <1>1 DEF ScanLands, hosts, IsHistory
    <3> QED
      BY <3>1, <3>2
  <2>5. Candidates(hosts)' = Candidates(hosts') /\ Candidates(hosts') \subseteq DOMAIN hosts'
    BY DEF Candidates, Reading, WasPortScanned, ServicesOf
  <2>6. Walked'
    BY <2>3, <2>4, <2>5 DEF Walked, Walking
  <2> QED
    BY <2>2, <2>6 DEF OnlyByAFullPass
<1>2. ASSUME UNCHANGED store PROVE Candidates(hosts)' = Candidates(hosts)
  BY <1>2 DEF Candidates, hosts, Reading, WasPortScanned, ServicesOf
<1>3. ASSUME UNCHANGED <<store, pass, sshAt>>, hist'.pass = hist.pass PROVE Walked' /\ OnlyByAFullPass
  BY <1>2, <1>3 DEF Walked, Walking, OnlyByAFullPass
<1>4. CASE Refresh
  <2>1. CASE UNCHANGED <<pass, sshAt, hist>> \/ (sshAt' = ClockOfEmptyPass /\ UNCHANGED <<pass, hist>>)
    BY <1>3, <1>4, <2>1 DEF Refresh, ClockOfEmptyPass
  <2>2. ASSUME NEW k \in Candidates(hosts),
               WalkTo([Idle EXCEPT !.size = Cardinality(DOMAIN hosts)], k, DOMAIN hosts),
               hist' = [hist EXCEPT !.pass =
                          [offered |-> {hosts[j].mac : j \in Candidates(hosts)}, tried |-> {}]],
               UNCHANGED sshAt
        PROVE  Walked' /\ OnlyByAFullPass
    <3>1. IsPass([Idle EXCEPT !.size = Cardinality(DOMAIN hosts)])
      <4>1. Cardinality(DOMAIN hosts) \in Nat
        BY <1>0, HostsAreFinite
      <4> QED
        BY <4>1, NothingAnswered DEF IsPass, Idle
    <3>2. pass'.mac = k /\ \A j \in DOMAIN hosts \cap Candidates(hosts) : j = k \/ j \in pass'.left
      BY <1>0, <2>2, <3>1, WalkToADevice
    <3>3. hist'.pass.offered = Candidates(hosts) /\ hist'.pass.tried = {}
      BY <1>0, <2>2, CandidatesByMac DEF IsHistory
    <3>4. Candidates(hosts)' = Candidates(hosts) /\ Candidates(hosts) \subseteq DOMAIN hosts
      BY <1>2, <1>4 DEF Refresh, Candidates
    <3> QED
      BY <2>2, <3>2, <3>3, <3>4 DEF Walked, OnlyByAFullPass
  <2> QED
    BY <1>4, <2>1, <2>2 DEF Refresh
<1>5. ASSUME NEW results, AreAnswers(results), ProbeEnds(results)
      PROVE  Walked' /\ OnlyByAFullPass
  <2>1. Candidates(hosts)' = Candidates(hosts) /\ Walking
    BY <1>2, <1>5 DEF ProbeEnds
  <2>2. CASE pass' = Idle /\ sshAt' = ClockOnError /\ hist' = [hist EXCEPT !.pass = NoPass]
    BY <1>0, <2>1, <2>2 DEF Walked, NoPass, Walking, Idle, OnlyByAFullPass, ClockOnError, IsHistory
  <2>3. ASSUME Cardinality(DOMAIN hosts) = pass.size,
               NEW keys \in IF pass.changed THEN SUBSET pass.left ELSE {pass.left},
               keys \cap Candidates(hosts) = {}, pass' = Idle,
               hist' = [hist EXCEPT !.pass = NoPass, !.last = hist.pass.tried \cup {pass.mac}]
        PROVE  Walked' /\ OnlyByAFullPass
    <3>1. Walked'
      BY <1>0, <2>1, <2>3 DEF Walked, NoPass, Walking, Idle, IsHistory
    <3>2. CASE pass.changed
      BY <2>3, <3>1, <3>2 DEF OnlyByAFullPass
    <3>3. CASE ~pass.changed
      BY <2>1, <2>3, <3>1, <3>3 DEF OnlyByAFullPass, Walked
    <3> QED
      BY <3>2, <3>3
  <2>4. ASSUME NEW keys \in IF pass.changed THEN SUBSET pass.left ELSE {pass.left},
               NEW k \in keys \cap Candidates(hosts),
               WalkTo([pass EXCEPT !.results = results], k, keys),
               hist' = [hist EXCEPT !.pass.tried = @ \cup {pass.mac}], UNCHANGED sshAt
        PROVE  Walked' /\ OnlyByAFullPass
    <3>1. IsPass([pass EXCEPT !.results = results]) /\ [pass EXCEPT !.results = results].changed = pass.changed
      BY <1>0, <1>5, <2>1 DEF IsPass
    <3>2. keys \in SUBSET Key
      BY <1>0 DEF IsPass
    <3>3. /\ pass'.mac = k /\ pass'.changed = pass.changed
          /\ \A j \in keys \cap Candidates(hosts) : j = k \/ j \in pass'.left
      BY <1>0, <2>4, <3>1, <3>2, WalkToADevice
    <3>4. hist'.pass.offered = hist.pass.offered /\ hist'.pass.tried = hist.pass.tried \cup {pass.mac}
      BY <1>0, <2>4 DEF IsHistory
    <3> QED
      BY <2>1, <2>4, <3>3, <3>4 DEF Walked, OnlyByAFullPass
  <2> QED
    BY <1>5, <2>2, <2>3, <2>4 DEF ProbeEnds
<1>6. CASE ProbeComesBack
  <2>1. CASE ProbeRaises
    BY <1>0, <1>5, <2>1 DEF ProbeRaises, IsPass
  <2>2. ASSUME NEW answer \in Answer, ProbeAnswers(answer) PROVE Walked' /\ OnlyByAFullPass
    <3>1. pass.mac \in Device /\ AreAnswers(pass.results)
      BY <1>0, <2>2 DEF IsPass, ProbeAnswers, ProbeEnds, Walking
    <3> QED
      BY <1>5, <2>2, <3>1, ResultsType DEF ProbeAnswers
  <2> QED
    BY <1>6, <2>1, <2>2 DEF ProbeComesBack
<1>7. ASSUME NEW d \in Device, DeleteDevice(d) PROVE Walked' /\ OnlyByAFullPass
  BY <1>0, <1>3, <1>7 DEF DeleteDevice, Notes
<1>8. CASE Restart
  <2>1. hist'.pass = NoPass /\ pass' = Idle /\ sshAt' = Never /\ store' = store
    BY <1>0, <1>8 DEF Restart, Notes
  <2> QED
    BY <2>1 DEF Walked, NoPass, Walking, Idle, OnlyByAFullPass
<1>9. CASE Tick \/ UNCHANGED vars
  BY <1>3, <1>9 DEF Tick, vars
<1> QED
  BY <1>1, <1>4, <1>6, <1>7, <1>8, <1>9 DEF Next

-----------------------------------------------------------------------------
(* The theorems                                                            *)

\* The three invariants together, in every state.
LEMMA EndpointInvariant == Spec => [](Typed /\ Shown /\ Looked /\ Tried /\ Walked)
<1>1. Init => Typed /\ Shown /\ Looked /\ Tried /\ Walked
  BY TypedAtFirst, ShownAtFirst, LookedAtFirst, WalkedAtFirst
<1>2. Typed /\ Shown /\ Looked /\ Tried /\ Walked /\ [Next]_vars => (Typed /\ Shown /\ Looked /\ Tried /\ Walked)'
  <2>1. Typed => Notes(hist)
    BY PartsFromTyped
  <2> QED
    BY <2>1, StaysTyped, StaysShown, StaysLooked, StaysTried, StaysWalked
<1> QED
  BY <1>1, <1>2, PTL DEF Spec

\* Every variable keeps its type: in particular each host a pass probes has a MAC.
THEOREM TypeCorrect == Spec => []TypeOK
<1>1. Typed => TypeOK
  BY DEF Typed
<1> QED
  BY <1>1, EndpointInvariant, PTL

\* SshAccessSensor tells never looked at, no ssh and an answer apart by what the last
\* port scan of that host found, and shows no answer the last finished pass did not get.
THEOREM AccessIsBackedHolds == Spec => []AccessIsBacked
<1>1. Typed /\ Looked /\ Tried => AccessIsBacked
  BY LookedIsBacked
<1> QED
  BY <1>1, EndpointInvariant, PTL

\* setup_scan_sensors: whatever is published has its sensors, or an operator deleted them.
THEOREM FoundIsShownHolds == Spec => []FoundIsShown
<1>1. Shown => FoundIsShown
  BY DEF Shown, FoundIsShown
<1> QED
  BY <1>1, EndpointInvariant, PTL

\* setup_scan_sensors: no sensor is added while one of its kind is there.
THEOREM NothingAddedTwiceHolds == Spec => NothingAddedTwice
<1>1. Typed /\ Shown /\ [Next]_vars => [(seen' \ seen) \cap entities = {}]_vars
  <2>1. Typed => Notes(hist)
    BY PartsFromTyped
  <2> QED
    BY <2>1, StaysShown
<1> QED
  BY <1>1, EndpointInvariant, PTL DEF Spec, NothingAddedTwice

\* _run_ssh_probe: only a pass that tried every host which offered ssh throughout
\* spends the interval, unless the keys it walked changed and their number did not.
THEOREM SpentIntervalTriedAllHolds == Spec => SpentIntervalTriedAll
<1>1. Typed /\ Walked /\ [Next]_vars => [OnlyByAFullPass]_vars
  BY StaysWalked
<1> QED
  BY <1>1, EndpointInvariant, PTL DEF Spec, SpentIntervalTriedAll, OnlyByAFullPass
=============================================================================
