-------------------------- MODULE MCCveCoordinator --------------------------
EXTENDS CveCoordinator

CONSTANTS chrome, kernel, ios, c1, c2, kiosk, unifi, mobile

Products == {chrome, kernel, ios}
Cves == {c1, c2}
Domains == {kiosk, unifi, mobile}

\* 1, 1.0 and 1.1: two ways to write one version, and a later one.
Versions == {<<1>>, <<1, 0>>, <<1, 1>>}

KioskRule == [accepted |-> FALSE, owner |-> kiosk, products |-> {chrome, kernel}]
TabletRule == [accepted |-> TRUE, owner |-> AnyOwner, products |-> {chrome}]
PhoneRule == [accepted |-> FALSE, owner |-> mobile, products |-> {ios}]
TheRules == <<TabletRule, KioskRule, PhoneRule>>

Kiosk(id, owner, browser, os) ==
  [id |-> id, matches |-> {2}, owner |-> owner,
   versions |-> [p \in Products |-> IF p = chrome THEN browser ELSE IF p = kernel THEN os ELSE Absent]]
Tablet(id) == [Kiosk(id, unifi, <<1>>, Absent) EXCEPT !.matches = {1}]
Phone(id) ==
  [id |-> id, matches |-> {3}, owner |-> mobile, versions |-> [p \in Products |-> IF p = ios THEN <<1>> ELSE Absent]]

\* No device, a kiosk that is updated, one whose record is split, a tablet, and a
\* phone alone, which has neither of the kiosk's products.
TheRegistries ==
  {{}, {Kiosk(1, kiosk, <<1>>, Junk)}, {Kiosk(1, kiosk, <<1, 1>>, Absent)},
   {Kiosk(1, AnyOwner, <<1, 0>>, Absent), Kiosk(2, unifi, <<1>>, <<1>>)},
   {Tablet(3), Kiosk(1, kiosk, Absent, <<1>>)}, {Phone(4)}}

Hit(product, vulnerable, exact, node) ==
  [product |-> product, vulnerable |-> vulnerable, exact |-> exact, node |-> node]

Before(end) == [Unbounded EXCEPT !["endExcluding"] = end]

\* Ranges with at most a start and an end, each of either kind, read or not.
Ends(incl, excl) == {Unbounded} \cup {[Unbounded EXCEPT ![b] = t] : b \in {incl, excl}, t \in {<<1>>, <<1, 1>>, Junk}}

Ranges ==
  {[b \in BoundName |-> IF s[b] # Absent THEN s[b] ELSE e[b]] :
     s \in Ends("startIncluding", "startExcluding"), e \in Ends("endIncluding", "endExcluding")}

\* Each of them against one CVE that names its version instead of a range.
RangeTables ==
  {[c \in Cves |-> IF c = c1 THEN {Hit(chrome, TRUE, Absent, node)}
                   ELSE {Hit(chrome, TRUE, <<1, 0>>, Unbounded)}] : node \in Ranges}

\* A flaw of the browser that names the kernel and the phone's system as its
\* platforms; two ranges, one of which does not parse.
MixedTable ==
  [c \in Cves |-> IF c = c1 THEN {Hit(chrome, TRUE, Absent, Before(<<1, 1>>)),
                                  Hit(kernel, FALSE, Absent, Unbounded),
                                  Hit(ios, FALSE, Absent, Unbounded)}
                  ELSE {Hit(chrome, TRUE, Absent, Before(Junk)),
                        Hit(kernel, TRUE, <<1, 0>>, Unbounded)}]
TheTables == RangeTables \cup {MixedTable}
MixedTables == {MixedTable}
=============================================================================
