-------------------------- MODULE EndpointDevices --------------------------
(***************************************************************************)
(* What one entry shows of each host: scan/services_view.py (services),    *)
(* scan/ssh_probe.py and LocalCoordinator._run_ssh_probe (SSH access),     *)
(* scan/entities.py (the sensors, added as hosts and services are found)   *)
(* and scan/__init__.py (devices an operator deletes).                     *)
(*                                                                         *)
(* The SSH pass walks the store's own dict and waits at each host it       *)
(* probes; a scan that lands meanwhile changes that dict in place.         *)
(* Everything else runs between two waits, and every change of the store   *)
(* or of the answers is published in the same step, so the entities always *)
(* show the store as it is.  A host is walked in any order, as a dict may  *)
(* hold its keys in any.  Files are LocalCoordinator's concern: here a     *)
(* restart is an orderly one.  An operator named for a change to the one   *)
(* below it is a mutation of it.                                           *)
(***************************************************************************)
EXTENDS Inventory

CONSTANTS
  Service,     \* names nmap gives to what listens on a port
  ServiceOf,   \* the service on each port
  Ssh,         \* the one that is ssh
  Phrase,      \* what the error text of an ssh client may hold
  Users,       \* how many users are configured, tried in order
  SshInterval, \* between two passes
  NoHost,      \* no host is being probed
  Hidden,      \* devices whose MAC a scan may fail to learn
  Home,        \* the address of each device: what moving does is InventoryStore's concern
  Stride,      \* how far the clock moves at a time
  MaxTime,     \* bound on the clock
  MaxScans,    \* bound on scans
  MaxRestarts  \* bound on restarts

ASSUME EndpointAssumption ==
  /\ ServiceOf \in [Port -> Service] /\ Ssh \in Service
  /\ Users \in Nat \ {0} /\ SshInterval \in Nat \ {0} /\ Stride \in Nat \ {0}
  /\ NoHost \notin Key /\ Hidden \subseteq Device
  /\ Home \in [Device -> Addr] /\ \A d, e \in Device : Home[d] = Home[e] => d = e
  /\ {MaxTime, MaxScans, MaxRestarts} \subseteq Nat

VARIABLES
  now,      \* wall clock
  store,    \* the InventoryStore, the dict the published view refers to
  scans,    \* scans folded in so far
  restarts, \* restarts so far
  pass,     \* the SSH pass under way
  ssh,      \* _ssh: the answers published, by MAC
  sshAt,    \* _last_ssh_probe
  seen,     \* seen and seen_services: what was given a sensor since the setup
  entities, \* the sensors that exist
  hist      \* history, see below

hosts == store.hosts
vars  == <<now, store, scans, restarts, pass, ssh, sshAt, seen, entities, hist>>

-----------------------------------------------------------------------------
(* services_view.py: what a host record says of its services               *)

WasPortScanned(h) == h.portsAt # Never

ServicesOf(h) == {ServiceOf[p] : p \in h.ports}

\* reading_for: a host nobody looked at is neither open nor closed.
Reading(h, s) ==
  IF ~WasPortScanned(h) THEN "never_scanned" ELSE IF s \in ServicesOf(h) THEN "open" ELSE "closed"

\* The hosts a pass would probe.
Candidates(inv) == {k \in DOMAIN inv : inv[k].mac # NoMac /\ Reading(inv[k], Ssh) = "open"}

-----------------------------------------------------------------------------
(* ssh_probe.py: the probe of one host                                     *)

\* classify: the text of a changed host key may say denied as well.
Classify(ok, text) ==
  IF ok THEN "authorized"
  ELSE IF "host_key" \in text THEN "host_key_changed"
  ELSE IF "denied" \in text /\ "no_connection" \notin text THEN "refused"
  ELSE "unreachable"

\* _probe_one: the client answers, cannot be started, or is killed at the timeout.
ProbeOne == {Classify(ok, text) : ok \in BOOLEAN, text \in SUBSET Phrase} \cup {"unreachable"}

\* async_probe: users in order until one gets in, or the host's key is not the one
\* on record, which is no user's doing; otherwise what the last one met.
AsyncProbe(met) ==
  LET decides == {u \in DOMAIN met : met[u] \in {"authorized", "host_key_changed"}}
  IN  IF decides = {} THEN met[Users] ELSE met[CHOOSE u \in decides : \A v \in decides : u <= v]

Answer == {AsyncProbe(met) : met \in [1 .. Users -> ProbeOne]}

AreAnswers(answers) == DOMAIN answers \subseteq Device /\ answers \in [DOMAIN answers -> Answer]

-----------------------------------------------------------------------------
(* entities.py: the sensors and what they show                             *)

AnswerFirst(h, d) ==
  IF d \in DOMAIN ssh THEN ssh[d]
  ELSE CASE Reading(h, Ssh) = "never_scanned" -> "never_scanned"
         [] Reading(h, Ssh) = "closed" -> "no_ssh"
         [] OTHER -> "unknown"

\* SshAccessSensor: the record first, so that no answer outlives the service.
SshAccess(h, d) ==
  CASE Reading(h, Ssh) = "never_scanned" -> "never_scanned"
    [] Reading(h, Ssh) = "closed" -> "no_ssh"
    [] OTHER -> IF d \in DOMAIN ssh THEN ssh[d] ELSE "unknown"

\* The sensors there could be: d stands for the five readings and the SSH access of
\* an endpoint, <<d, s>> for its sensor of one service.
Sensor == Device \cup (Device \X Service)

\* Those a view asks for: of each endpoint, and of each service open on one.
OpenServices(inv, on) ==
  {ds \in Device \X Service : \E k \in DOMAIN inv :
     inv[k].mac = ds[1] /\ ds[1] \in on /\ ds[2] \in ServicesOf(inv[k])}

ServicesWithTheirHost(inv) ==
  (Endpoints(inv) \ seen) \cup OpenServices(inv, Endpoints(inv) \ seen)

Fresh(inv) == (Endpoints(inv) \cup OpenServices(inv, Device)) \ seen

SeenPruned(inv) == (seen \cap (Endpoints(inv) \cup OpenServices(inv, Device))) \cup Fresh(inv)

Seen(inv) == seen \cup Fresh(inv)

\* _add_new_endpoints, which every publish calls.
AddNewEndpoints(inv) ==
  /\ seen' = Seen(inv)
  /\ entities' = entities \cup Fresh(inv)

-----------------------------------------------------------------------------
(* The SSH pass                                                            *)

\* A pass: the host being probed and its MAC, the keys the walk has yet to reach,
\* the size of the dict when it began, whether its keys changed since, and the
\* answers so far.
Idle == [at |-> NoHost, mac |-> NoMac, left |-> {}, size |-> 0, changed |-> FALSE, results |-> Nothing]

Walking == pass.at # NoHost

\* History: the MACs that have offered ssh since the pass under way began and those it
\* tried; those the last pass to finish tried; what the last port scan of each device
\* since it was recorded found; the sensors an operator deleted.
NoPass == [offered |-> {}, tried |-> {}]
Unlooked == [looked |-> FALSE, found |-> {}]

TypeOK ==
  /\ now \in Nat /\ scans \in Nat /\ restarts \in Nat
  /\ IsStore(store)
  /\ pass \in [at : Key \cup {NoHost}, mac : Device \cup {NoMac}, left : SUBSET Key, size : Nat,
               changed : BOOLEAN, results : {pass.results}]
  /\ AreAnswers(ssh) /\ AreAnswers(pass.results)
  /\ sshAt \in Nat \cup {Never}
  /\ seen \subseteq Sensor /\ entities \subseteq seen
  /\ hist \in [pass : [offered : SUBSET Device, tried : SUBSET Device], last : SUBSET Device,
               look : [Device -> [looked : BOOLEAN, found : SUBSET Service]], deleted : SUBSET Sensor]

Init ==
  /\ now = 0 /\ scans = 0 /\ restarts = 0
  /\ store = EmptyStore
  /\ pass = Idle /\ ssh = Nothing /\ sshAt = Never
  /\ seen = {} /\ entities = {}
  /\ hist = [pass |-> NoPass, last |-> {}, look |-> [d \in Device |-> Unlooked], deleted |-> {}]

\* The walk passes by hosts that are no candidates until it comes to one that is.
WalkTo(from, k, keys) ==
  \E passed \in SUBSET (keys \ Candidates(hosts)) :
    pass' = [from EXCEPT !.at = k, !.mac = hosts[k].mac, !.left = keys \ (passed \cup {k})]

Due == sshAt = Never \/ now - sshAt >= SshInterval

StampedWithNothing == now

\* A pass with no candidate ends without having waited, and leaves its clock be.
ClockOfEmptyPass == sshAt

\* A refresh, at each tick and after each saved option: it starts a pass that is due,
\* unless one is under way.
Refresh ==
  /\ \/ /\ ~Due \/ Walking
        /\ UNCHANGED <<pass, sshAt, hist>>
     \/ /\ Due /\ ~Walking /\ Candidates(hosts) = {}
        /\ sshAt' = ClockOfEmptyPass
        /\ UNCHANGED <<pass, hist>>
     \/ /\ Due /\ ~Walking
        /\ \E k \in Candidates(hosts) :
             WalkTo([Idle EXCEPT !.size = Cardinality(DOMAIN hosts)], k, DOMAIN hosts)
        /\ hist' = [hist EXCEPT !.pass =
                      [offered |-> {hosts[k].mac : k \in Candidates(hosts)}, tried |-> {}]]
        /\ UNCHANGED sshAt
  /\ UNCHANGED <<now, store, scans, restarts, ssh, seen, entities>>

Replaced(answers) == answers

StampedOnError == now

ClockOnError == sshAt

\* The probe of one host ends, and the walk goes on.  A dict that changed size ends
\* it with an error: nothing is stamped, and what it found is lost.  One that has
\* other keys and the same size is walked on, though keys may have moved to where
\* the walk has already been.
ProbeEnds(results) ==
  /\ Walking
  /\ \/ /\ Cardinality(DOMAIN hosts) # pass.size
        /\ pass' = Idle
        /\ sshAt' = ClockOnError
        /\ hist' = [hist EXCEPT !.pass = NoPass]
        /\ UNCHANGED ssh
     \/ /\ Cardinality(DOMAIN hosts) = pass.size
        /\ \E keys \in IF pass.changed THEN SUBSET pass.left ELSE {pass.left} :
             \/ /\ keys \cap Candidates(hosts) = {}
                /\ pass' = Idle
                /\ sshAt' = now
                /\ ssh' = Replaced(results)
                /\ hist' = [hist EXCEPT !.pass = NoPass, !.last = hist.pass.tried \cup {pass.mac}]
             \/ /\ \E k \in keys \cap Candidates(hosts) : WalkTo([pass EXCEPT !.results = results], k, keys)
                /\ hist' = [hist EXCEPT !.pass.tried = @ \cup {pass.mac}]
                /\ UNCHANGED <<ssh, sshAt>>
  /\ UNCHANGED <<now, store, scans, restarts, seen, entities>>

ProbeAnswers(answer) ==
  ProbeEnds([d \in DOMAIN pass.results \cup {pass.mac} |->
               IF d = pass.mac THEN answer ELSE pass.results[d]])

ProbeRaises == ProbeEnds(pass.results)

-----------------------------------------------------------------------------
(* Scans, operators, restarts                                              *)

\* What a pass under way sees of a scan that lands.
Disturbed(keys) ==
  IF Walking
  THEN [pass EXCEPT !.left = (@ \cap keys) \cup (keys \ DOMAIN hosts), !.changed = @ \/ keys # DOMAIN hosts]
  ELSE pass

Look(scan, inv, d) ==
  IF d \in DOMAIN scan /\ scan[d].portsScanned
  THEN [looked |-> TRUE, found |-> {ServiceOf[p] : p \in scan[d].ports}]
  ELSE IF d \in DOMAIN inv THEN hist.look[d] ELSE Unlooked

\* A scan finds some devices, shows the MACs of some, and may look at their ports; a
\* complete scheduled sweep also forgets who is stale.
ScanLands(found, shown, looks, open, whole) ==
  LET scan == ParseScan({[mac |-> IF d \in shown THEN d ELSE NoMac, ip |-> Home[d],
                          portsScanned |-> looks, ports |-> open] : d \in found})
  IN  /\ scans < MaxScans
      /\ scans' = scans + 1
      /\ store' = ApplyScan(store, scan, whole, whole, now)
      /\ pass' = Disturbed(DOMAIN store'.hosts)
      /\ AddNewEndpoints(store'.hosts)
      /\ hist' = [hist EXCEPT !.pass.offered = @ \cap {store'.hosts[k].mac : k \in Candidates(store'.hosts)},
                              !.look = [d \in Device |-> Look(scan, store'.hosts, d)]]
      /\ UNCHANGED <<now, restarts, ssh, sshAt>>

SensorsOf(d) == {d} \cup ({d} \X Service)

\* async_remove_scan_device: refused while the newest scan saw the host.
Deletable(d) == d \notin LiveEndpoints(hosts)

DeleteDevice(d) ==
  /\ entities \cap SensorsOf(d) # {}
  /\ Deletable(d)
  /\ entities' = entities \ SensorsOf(d)
  /\ hist' = [hist EXCEPT !.deleted = @ \cup (entities \cap SensorsOf(d))]
  /\ UNCHANGED <<now, store, scans, restarts, pass, ssh, sshAt, seen>>

\* A stop and a start: the inventory is on file, all else begins anew.
Restart ==
  /\ restarts < MaxRestarts
  /\ restarts' = restarts + 1
  /\ pass' = Idle /\ ssh' = Nothing /\ sshAt' = Never
  /\ seen' = Endpoints(hosts) \cup OpenServices(hosts, Device)
  /\ entities' = seen'
  /\ hist' = [hist EXCEPT !.pass = NoPass, !.last = {}, !.deleted = {}]
  /\ UNCHANGED <<now, store, scans>>

Tick ==
  /\ now < MaxTime
  /\ now' = now + Stride
  /\ UNCHANGED <<store, scans, restarts, pass, ssh, sshAt, seen, entities, hist>>

ProbeComesBack == ProbeRaises \/ \E answer \in Answer : ProbeAnswers(answer)

Next ==
  \/ \E found \in SUBSET Device, looks, whole \in BOOLEAN :
       \E hidden \in SUBSET (found \cap Hidden), open \in IF looks THEN SUBSET Port ELSE {{}} :
         ScanLands(found, found \ hidden, looks, open, whole)
  \/ Refresh
  \/ ProbeComesBack
  \/ \E d \in Device : DeleteDevice(d)
  \/ Restart
  \/ Tick

Spec == Init /\ [][Next]_vars

\* The coordinator refreshes on its tick, and a probe is killed at its timeout.
FairSpec == Spec /\ WF_vars(Refresh) /\ WF_vars(ProbeComesBack)

-----------------------------------------------------------------------------
(* Properties                                                              *)

\* _run_ssh_probe: the interval is only spent by a pass that tried every host which
\* offered ssh from its beginning to its end, whatever scans came in between; the
\* exception is a dict that lost as many keys as it gained, which the walk goes on in.
SpentIntervalTriedAll ==
  [][sshAt' \notin {sshAt, Never} =>
       \/ hist.pass.offered \subseteq hist.pass.tried \cup {pass.mac}
       \/ pass.changed /\ Cardinality(DOMAIN hosts) = pass.size]_vars

\* SshAccessSensor: never scanned, no ssh and an answer are told apart by what the
\* last port scan of that very host found since it was recorded; an answer is one
\* the last finished pass got, none is carried over from an earlier one.
AccessIsBacked ==
  \A d \in Device \cap DOMAIN hosts :
    LET shown == SshAccess(hosts[d], d)
        look  == hist.look[d]
    IN  /\ shown = "never_scanned" <=> ~look.looked
        /\ shown = "no_ssh" <=> look.looked /\ Ssh \notin look.found
        /\ shown \in Answer => d \in hist.last

\* setup_scan_sensors: an endpoint, and each service found on it however late, has
\* its sensor as soon as it is published, unless the operator deleted it.
FoundIsShown ==
  Endpoints(hosts) \cup OpenServices(hosts, Device) \subseteq entities \cup hist.deleted

\* setup_scan_sensors: a host or a service that goes, even from the inventory, and
\* comes back gets no second copy of a sensor that is still there.
NothingAddedTwice == [][(seen' \ seen) \cap entities = {}]_vars

\* _run_ssh_probe: the ticks before any host is known to offer ssh do not spend the
\* interval, so once one does a pass is finished with no interval to wait for; scans
\* that make the walk fail only put it off to the next tick.
FirstPassComes ==
  (hist.last = {} /\ Candidates(hosts) # {}) ~> (hist.last # {} \/ Candidates(hosts) = {})
=============================================================================
