----------------------------- MODULE CveProofs -----------------------------
(***************************************************************************)
(* What holds of cve/cpe.py's versions, ranges and verdicts for every      *)
(* version and range; then what a published report says, for any           *)
(* registries, any CVEs and any order of answers, failures, registry       *)
(* changes and reloads.                                                    *)
(*                                                                         *)
(* The invariant follows a report from its first fetch to its publication: *)
(* its findings are those of the lookups made so far (Joined), its counts  *)
(* are taken when the last of them is in (Tallied), and its window is the  *)
(* queries of the registry it began in (Asked).                            *)
(***************************************************************************)
EXTENDS CveCoordinator, FiniteSetTheorems, FunctionTheorems, WellFoundedInduction, TLAPS

-----------------------------------------------------------------------------
(* Versions, ranges, verdicts and assets                                   *)

\* A set of numbers that is not empty has a least one.
LEMMA LeastNumber ==
  ASSUME NEW S \in SUBSET Nat, S # {}
  PROVE  \E x \in S : \A y \in S : x <= y
<1> DEFINE less == {p \in Nat \X Nat : p[1] < p[2]}
<1>1. IsWellFoundedOn(less, Nat)
  BY NatLessThanWellFounded DEF OpToRel
<1>2. \E x \in S : \A y \in S : <<y, x>> \notin less
  <2> HIDE DEF less
  <2> QED
    BY <1>1, WFMin
<1>3. PICK x \in S : \A y \in S : <<y, x>> \notin less
  BY <1>2
<1>4. ASSUME NEW y \in S PROVE x <= y
  <2>1. <<y, x>> \in Nat \X Nat /\ <<y, x>> \notin less
    BY <1>3
  <2>2. ~(y < x)
    BY <2>1
  <2> QED
    BY <2>2
<1> QED
  BY <1>4

\* What a map makes of a finite set is finite.
LEMMA FiniteImage ==
  ASSUME NEW S, IsFiniteSet(S), NEW T, NEW f \in [S -> T], \A t \in T : \E x \in S : f[x] = t
  PROVE  IsFiniteSet(T)
<1>1. f \in Surjection(S, T)
  BY DEF Surjection
<1> QED
  BY <1>1, FS_Surjection

-----------------------------------------------------------------------------
(* Versions                                                                *)

\* A part a version does not have is zero.
LEMMA PartIsANumber ==
  ASSUME NEW v \in Seq(Nat), NEW i \in Nat
  PROVE  Part(v, i) \in Nat
BY DEF Part

\* Versions are compared where they first differ, as far as either goes or further.
LEMMA NewerAtAnyDepth ==
  ASSUME NEW a \in Seq(Nat), NEW b \in Seq(Nat)
  PROVE  Newer(a, b) <=> \E i \in Nat \ {0} :
                           /\ \A j \in 1 .. i - 1 : Part(a, j) = Part(b, j)
                           /\ Part(a, i) > Part(b, i)
<1>1. DOMAIN a \cup DOMAIN b \subseteq Nat \ {0}
  OBVIOUS
<1>2. ASSUME NEW i \in Nat \ {0}, Part(a, i) > Part(b, i)
      PROVE  i \in DOMAIN a \cup DOMAIN b
  BY <1>2 DEF Part
<1> QED
  BY <1>1, <1>2 DEF Newer

\* Of two versions neither is newer, or exactly one is; and neither is newer only
\* when they agree at every depth, so that 5.1 and 5.1.0 are one version.
THEOREM VersionsCompare ==
  ASSUME NEW a \in Seq(Nat), NEW b \in Seq(Nat)
  PROVE  /\ ~(Newer(a, b) /\ Newer(b, a))
         /\ Newer(a, b) \/ Newer(b, a) \/ \A i \in Nat \ {0} : Part(a, i) = Part(b, i)
<1> DEFINE differ == {i \in Nat \ {0} : Part(a, i) # Part(b, i)}
<1>1. ASSUME Newer(a, b), Newer(b, a) PROVE FALSE
  <2>1. PICK i \in Nat \ {0} : /\ \A j \in 1 .. i - 1 : Part(a, j) = Part(b, j)
                              /\ Part(a, i) > Part(b, i)
    BY <1>1, NewerAtAnyDepth
  <2>2. PICK k \in Nat \ {0} : /\ \A j \in 1 .. k - 1 : Part(b, j) = Part(a, j)
                              /\ Part(b, k) > Part(a, k)
    BY <1>1, NewerAtAnyDepth
  <2>3. Part(a, i) \in Nat /\ Part(b, i) \in Nat /\ Part(a, k) \in Nat /\ Part(b, k) \in Nat
    BY PartIsANumber
  <2>4. CASE i < k
    BY <2>1, <2>2, <2>3, <2>4
  <2>5. CASE k < i
    BY <2>1, <2>2, <2>3, <2>5
  <2>6. CASE i = k
    BY <2>1, <2>2, <2>3, <2>6
  <2> QED
    BY <2>4, <2>5, <2>6
<1>2. CASE differ = {}
  BY <1>1, <1>2
<1>3. CASE differ # {}
  <2>1. PICK i \in differ : \A j \in differ : i <= j
    BY <1>3, LeastNumber
  <2>2. \A j \in 1 .. i - 1 : Part(a, j) = Part(b, j)
    BY <2>1
  <2>3. Part(a, i) \in Nat /\ Part(b, i) \in Nat /\ Part(a, i) # Part(b, i) /\ i \in Nat \ {0}
    BY <2>1, PartIsANumber
  <2>4. Part(a, i) > Part(b, i) \/ Part(b, i) > Part(a, i)
    BY <2>3
  <2>5. Newer(a, b) \/ Newer(b, a)
    BY <2>2, <2>3, <2>4, NewerAtAnyDepth
  <2> QED
    BY <1>1, <2>5
<1> QED
  BY <1>2, <1>3

\* Newer is transitive: with VersionsCompare, versions are ordered.
THEOREM NewerIsTransitive ==
  ASSUME NEW a \in Seq(Nat), NEW b \in Seq(Nat), NEW c \in Seq(Nat), Newer(a, b), Newer(b, c)
  PROVE  Newer(a, c)
<1>1. PICK i \in Nat \ {0} : /\ \A j \in 1 .. i - 1 : Part(a, j) = Part(b, j)
                            /\ Part(a, i) > Part(b, i)
  BY NewerAtAnyDepth
<1>2. PICK k \in Nat \ {0} : /\ \A j \in 1 .. k - 1 : Part(b, j) = Part(c, j)
                            /\ Part(b, k) > Part(c, k)
  BY NewerAtAnyDepth
<1> DEFINE m == IF i < k THEN i ELSE k
<1>3. m \in Nat \ {0} /\ m <= i /\ m <= k
  OBVIOUS
<1>4. \A j \in 1 .. m - 1 : Part(a, j) = Part(c, j)
  <2> SUFFICES ASSUME NEW j \in 1 .. m - 1 PROVE Part(a, j) = Part(c, j)
    OBVIOUS
  <2>1. j \in 1 .. i - 1 /\ j \in 1 .. k - 1
    BY <1>3
  <2> QED
    BY <1>1, <1>2, <2>1
<1>5. Part(a, m) > Part(c, m)
  <2>1. Part(a, m) \in Nat /\ Part(b, m) \in Nat /\ Part(c, m) \in Nat
    BY PartIsANumber
  <2>2. CASE i < k
    BY <1>1, <1>2, <2>1, <2>2
  <2>3. CASE k < i
    BY <1>1, <1>2, <2>1, <2>3
  <2>4. CASE i = k
    BY <1>1, <1>2, <2>1, <2>4
  <2> QED
    BY <2>2, <2>3, <2>4
<1> HIDE DEF m
<1> QED
  BY <1>3, <1>4, <1>5, NewerAtAnyDepth

-----------------------------------------------------------------------------
(* Ranges and verdicts                                                     *)

\* The four bounds of a range.
LEMMA Bounds ==
  /\ DOMAIN Bound = 1 .. 4
  /\ \A i \in 1 .. 4 : Bound[i] \in BoundName
  /\ \A b \in BoundName : \E i \in 1 .. 4 : b = Bound[i]
  /\ {"startIncluding", "endIncluding"} \subseteq BoundName
<1>1. DOMAIN Bound = 1 .. 4
  BY DEF Bound
<1>2. Bound[1] = "startIncluding" /\ Bound[3] = "endIncluding"
  BY DEF Bound
<1> QED
  BY <1>1, <1>2 DEF BoundName

\* The ranges a CVE gives for a product are ranges.
LEMMA RangesAreNodes ==
  ASSUME NEW cve \in SUBSET Match, NEW product
  PROVE  NodesFor(cve, product) \subseteq Node
<1>1. ASSUME NEW m \in Match PROVE RangeOf(m) \in Node
  BY <1>1, Bounds DEF Match, RangeOf, Node, Unbounded, Text
<1> QED
  BY <1>1 DEF NodesFor

\* A version is in a range when every bound is read and met.
LEMMA InAsRead ==
  ASSUME NEW v, NEW node \in Node
  PROVE  InRange(v, node) = "in" <=>
           \A b \in BoundName :
             node[b] # Junk /\ (node[b] # Absent => Meets(v, b, node[b]))
<1>1. InRange(v, node) = "in" <=> Settling(v, node) = {}
  BY DEF InRange
<1>2. \A b \in BoundName : node[b] \in Text
  BY DEF Node
<1> QED
  BY <1>1, <1>2, Bounds, CpeAssumption DEF Settling, Text

\* It is out of one when some bound is read and missed, whatever the others say.
LEMMA OutAsRead ==
  ASSUME NEW v, NEW node \in Node, InRange(v, node) = "out"
  PROVE  \E b \in BoundName : node[b] \in Version /\ ~Meets(v, b, node[b])
<1> DEFINE S == Settling(v, node)
           i == CHOOSE k \in S : \A j \in S : k <= j
<1>1. S \in SUBSET Nat /\ S # {}
  BY Bounds DEF Settling, InRange
<1>2. i \in S
  BY <1>1, LeastNumber
<1>3. node[Bound[i]] # Junk
  BY <1>1 DEF InRange
<1>4. i \in DOMAIN Bound /\ node[Bound[i]] \in Version /\ ~Meets(v, Bound[i], node[Bound[i]])
  BY <1>2, <1>3 DEF Settling
<1> QED
  BY <1>4, Bounds

\* What each verdict rests on.
LEMMA VerdictsRest ==
  ASSUME NEW v, NEW nodes \in SUBSET Node
  PROVE  /\ Disposition(v, nodes) \in Dispositions \ {"accepted"}
         /\ Disposition(v, nodes) = "affected" <=>
              v # Absent /\ \E node \in nodes : InRange(v, node) = "in"
         /\ Disposition(v, nodes) = "patched" =>
              v # Absent /\ \A node \in nodes : InRange(v, node) = "out"
<1>1. Dispositions = {"affected", "unknown_version", "unmonitored", "accepted", "patched"}
  BY DEF Dispositions, Severity
<1>2. \A node \in nodes : InRange(v, node) \in {"in", "out", "undecided"}
  BY DEF InRange
<1> QED
  BY <1>1, <1>2 DEF Disposition

\* The rollup is the worst verdict found; it is patched only if all are.
THEOREM RollupIsTheWorst ==
  ASSUME NEW found \in SUBSET Dispositions
  PROVE  /\ Rollup(found) \in Dispositions
         /\ Rollup(found) = "patched" => \A d \in found : d = "patched"
         /\ "affected" \in found => Rollup(found) = "affected"
<1> DEFINE S == {i \in DOMAIN Severity : Severity[i] \in found}
           worst == CHOOSE i \in DOMAIN Severity :
                      Severity[i] \in found /\ \A j \in 1 .. i - 1 : Severity[j] \notin found
<1>1. DOMAIN Severity = 1 .. 5 /\ Severity[1] = "affected" /\ Severity[2] = "unknown_version"
      /\ Severity[3] = "unmonitored" /\ Severity[4] = "accepted" /\ Severity[5] = "patched"
  BY DEF Severity
<1>2. CASE found = {}
  BY <1>1, <1>2 DEF Rollup, Dispositions
<1>3. CASE found # {}
  <2>1. S \in SUBSET Nat /\ S # {}
    BY <1>1, <1>3 DEF Dispositions
  <2>2. PICK k \in S : \A j \in S : k <= j
    BY <2>1, LeastNumber
  <2>3. \A j \in 1 .. k - 1 : Severity[j] \notin found
    BY <1>1, <2>2
  <2>4. /\ worst \in DOMAIN Severity /\ Severity[worst] \in found
        /\ \A j \in 1 .. worst - 1 : Severity[j] \notin found
    BY <2>2, <2>3
  <2>5. Rollup(found) = Severity[worst]
    BY <1>3 DEF Rollup
  <2> HIDE DEF worst
  <2>6. Severity[worst] = "patched" => worst = 5
    BY <1>1, <2>4
  <2>7. worst # 1 => "affected" \notin found
    BY <1>1, <2>4
  <2> QED
    BY <1>1, <2>4, <2>5, <2>6, <2>7 DEF Dispositions
<1> QED
  BY <1>2, <1>3

-----------------------------------------------------------------------------
(* Devices                                                                 *)

Asset == [device : Nat, product : Product, text : Text, accepted : BOOLEAN]

\* A device that some rule matches has a first one, and it owns the device.
LEMMA FirstRule ==
  ASSUME NEW d \in DeviceEntry, Entitled(d) # {}
  PROVE  \E i \in Entitled(d) : /\ RuleOf(d) = Rules[i] /\ Rules[i] \in Rule
                               /\ \A j \in Entitled(d) : i <= j
<1> DEFINE i == CHOOSE k \in Entitled(d) : \A j \in Entitled(d) : k <= j
<1>1. DOMAIN Rules \subseteq Nat /\ \A j \in DOMAIN Rules : Rules[j] \in Rule
  BY CpeAssumption
<1>2. Entitled(d) \subseteq DOMAIN Rules
  BY DEF Entitled, DeviceEntry
<1>3. i \in Entitled(d) /\ \A j \in Entitled(d) : i <= j
  BY <1>1, <1>2, LeastNumber
<1>4. RuleOf(d) = Rules[i]
  BY DEF RuleOf
<1> QED
  BY <1>1, <1>2, <1>3, <1>4

\* A device some accepted-risk rule is entitled to is an accepted risk, whatever
\* asset rules match it too.
THEOREM AcceptedRiskWins ==
  ASSUME NEW d \in DeviceEntry, NEW k \in Entitled(d), Rules[k].accepted
  PROVE  RuleOf(d).accepted
<1>1. PICK i \in Entitled(d) : /\ RuleOf(d) = Rules[i] /\ Rules[i] \in Rule
                             /\ \A j \in Entitled(d) : i <= j
  BY FirstRule
<1>2. i \in DOMAIN Rules /\ k \in DOMAIN Rules /\ DOMAIN Rules \subseteq Nat
  BY CpeAssumption DEF Entitled, DeviceEntry
<1>3. CASE i = k
  BY <1>1, <1>3
<1>4. CASE i < k
  BY <1>1, <1>2, <1>4, CpeAssumption
<1> QED
  BY <1>1, <1>2, <1>3, <1>4

\* A registry yields finitely many assets.
LEMMA AssetsAreAssets ==
  ASSUME NEW devices \in SUBSET DeviceEntry, IsFiniteSet(devices)
  PROVE  Assets(devices) \subseteq Asset /\ IsFiniteSet(Assets(devices))
<1> DEFINE S == devices \X Product
           f == [x \in S |-> [device |-> x[1].id, product |-> x[2], text |-> x[1].versions[x[2]],
                             accepted |-> RuleOf(x[1]).accepted]]
           T == {f[x] : x \in S}
<1>1. ASSUME NEW d \in devices, Entitled(d) # {}
      PROVE  RuleOf(d).products \subseteq Product /\ RuleOf(d).accepted \in BOOLEAN
  BY <1>1, FirstRule DEF Rule
<1>2. Assets(devices) \subseteq Asset
  BY <1>1 DEF Assets, Asset, DeviceEntry
<1>3. Assets(devices) \subseteq T
  <2> SUFFICES ASSUME NEW a \in Assets(devices) PROVE a \in T
    OBVIOUS
  <2>1. PICK d \in devices :
          /\ Entitled(d) # {}
          /\ \E p \in RuleOf(d).products :
               a = [device |-> d.id, product |-> p, text |-> d.versions[p],
                    accepted |-> RuleOf(d).accepted]
    BY DEF Assets
  <2>2. PICK p \in RuleOf(d).products :
          a = [device |-> d.id, product |-> p, text |-> d.versions[p],
               accepted |-> RuleOf(d).accepted]
    BY <2>1
  <2>3. <<d, p>> \in S
    BY <1>1, <2>1
  <2>4. a = f[<<d, p>>]
    BY <2>2, <2>3
  <2> QED
    BY <2>3, <2>4
<1>4. IsFiniteSet(S)
  BY FS_Product, CpeAssumption
<1>5. f \in [S -> T] /\ \A t \in T : \E x \in S : f[x] = t
  OBVIOUS
<1>6. IsFiniteSet(T)
  <2> HIDE DEF f, S, T
  <2> QED
    BY <1>4, <1>5, FiniteImage
<1> QED
  BY <1>2, <1>3, <1>6, FS_Subset

-----------------------------------------------------------------------------
(* The invariant of a refresh                                              *)

\* The findings of the CVEs looked up so far.
FindingsSoFar(r) ==
  (UNION {FindingsOf(c, r) : c \in r.listed \ (r.todo \cup r.failed)})
    \cup (UNION {Unresolved(c) : c \in r.failed})

Joined(r) ==
  /\ r.todo \subseteq r.listed /\ r.failed \subseteq r.listed \ r.todo
  /\ r.findings = FindingsSoFar(r)

Unread(r) == r.listed = {} /\ r.todo = {} /\ r.failed = {} /\ r.findings = {} /\ r.kev = "ok"

Uncounted(r) ==
  /\ r.window = "ok" /\ r.queries = {} /\ r.swept = {}
  /\ r.actionable = NoCount /\ r.targetsAffected = NoCount /\ r.rollup = Absent

Tallied(r) ==
  /\ Joined(r) /\ r.todo = {} /\ r.nvd = "ok"
  /\ r.actionable = Actionable(r)
  /\ r.rollup = Rollup({f.disposition : f \in r.findings})

Asked(r) ==
  /\ IsFiniteSet(r.swept) /\ r.queries \subseteq Queries(r)
  /\ r.window = "ok" => Queries(r) \subseteq r.queries \cup {s[1] : s \in r.swept}

UnderWay(j) ==
  LET r == j.report
  IN  /\ j \in [phase : Phase, report : Report]
      /\ j.phase # "idle" => r.registry \in Registries
      /\ j.phase = "kev" => Unread(r) /\ r.nvd = "ok" /\ Uncounted(r)
      /\ j.phase = "lookups" => Joined(r) /\ r.nvd = "ok" /\ Uncounted(r)
      /\ j.phase = "window" => Tallied(r) /\ Asked(r) /\ r.targetsAffected = NoCount

\* A report with nothing in it, one cut short, and a finished one.
Finished(r) ==
  \/ r.registry \in Registries \cup {{}} /\ Unread(r) /\ Uncounted(r)
       /\ (r.nvd = "ok" => r.registry = {})
  \/ r.registry \in Registries /\ Joined(r) /\ Uncounted(r) /\ r.nvd = "unauthorized"
  \/ /\ r.registry \in Registries /\ Tallied(r) /\ Asked(r) /\ r.queries = {}
     /\ r.targetsAffected = TargetsAffected(r)

Inv ==
  /\ nvd \in NvdTables /\ registry \in Registries
  /\ refreshes \in 0 .. MaxRefreshes /\ reloads \in 0 .. MaxReloads /\ prompted \in BOOLEAN
  /\ UnderWay(job)
  /\ data \in Report /\ Finished(data)

-----------------------------------------------------------------------------
(* Reports                                                                 *)

\* The findings of one CVE are findings, with the verdict of its ranges.
LEMMA FindingsAreFindings ==
  ASSUME NEW c \in Cve, NEW r \in Report, r.registry \in Registries, nvd \in NvdTables
  PROVE  FindingsOf(c, r) \subseteq Finding /\ Unresolved(c) \subseteq Finding
<1>1. AssetsOf(r) \subseteq Asset
  BY AssetsAreAssets, CveAssumption DEF AssetsOf
<1>2. nvd[c] \in SUBSET Match
  BY CveAssumption
<1>3. {"unmonitored", "unknown_version", "accepted"} \subseteq Dispositions
  BY DEF Dispositions, Severity
<1>4. Unmatched(c, "unmonitored") \in Finding /\ Unmatched(c, "unknown_version") \in Finding
  BY <1>3 DEF Unmatched, Finding, Text
<1>5. ASSUME NEW a \in AssetsOf(r)
      PROVE  [cve |-> c, device |-> a.device, product |-> a.product,
              text |-> IF a.accepted THEN Absent ELSE a.text,
              disposition |-> IF a.accepted THEN "accepted"
                              ELSE Disposition(Parsed(a.text), NodesFor(nvd[c], a.product))]
               \in Finding
  <2>1. a \in Asset
    BY <1>1
  <2>2. Disposition(Parsed(a.text), NodesFor(nvd[c], a.product)) \in Dispositions
    BY <1>2, RangesAreNodes, VerdictsRest
  <2> HIDE <1>2
  <2> QED
    BY <1>3, <2>1, <2>2 DEF Asset, Finding, Text
<1> QED
  BY <1>4, <1>5 DEF FindingsOf, Unresolved

\* The pairs a finished join counts are those of exposed devices, one finding each.
LEMMA AffectedAreExposed ==
  ASSUME NEW r \in Report, r.registry \in Registries, nvd \in NvdTables, Joined(r), r.todo = {}
  PROVE  /\ Cardinality(Affected(r.findings)) = Cardinality(Exposed(r))
         /\ Cardinality(Affected(r.findings)) \in Nat
<1> DEFINE S == Exposed(r)
           T == Affected(r.findings)
           verdict(h) == [cve |-> h[1], device |-> h[2].device, product |-> h[2].product,
                          text |-> h[2].text, disposition |-> "affected"]
           g == [h \in S |-> verdict(h)]
<1>1. /\ AssetsOf(r) = Assets(r.registry)
      /\ AssetsOf(r) \subseteq Asset /\ IsFiniteSet(AssetsOf(r))
      /\ r.listed \ r.failed \subseteq Cve
  BY AssetsAreAssets, CveAssumption DEF AssetsOf, Report
<1>2. ASSUME NEW c \in Cve, NEW a \in Asset
      PROVE  /\ NodesFor(nvd[c], a.product) \subseteq Node
             /\ Disposition(Parsed(a.text), NodesFor(nvd[c], a.product)) = "affected" <=>
                  /\ a.text \in Version
                  /\ \E m \in nvd[c] : /\ m.vulnerable /\ m.product = a.product
                                       /\ \A b \in BoundName : RangeOf(m)[b] # Junk
                                       /\ Holds(a.text, RangeOf(m))
  <2> DEFINE nodes == NodesFor(nvd[c], a.product)
  <2>1. nodes \subseteq Node
    BY CveAssumption, RangesAreNodes
  <2>2. Disposition(Parsed(a.text), nodes) = "affected" <=>
          Parsed(a.text) # Absent /\ \E node \in nodes : InRange(Parsed(a.text), node) = "in"
    BY <2>1, VerdictsRest
  <2>3. Parsed(a.text) # Absent <=> a.text \in Version
    BY CpeAssumption DEF Parsed
  <2>4. a.text \in Version => Parsed(a.text) = a.text
    BY DEF Parsed
  <2>5. \A node \in nodes :
          InRange(a.text, node) = "in" <=>
            (\A b \in BoundName : node[b] # Junk) /\ Holds(a.text, node)
    BY <2>1, InAsRead DEF Holds
  <2>6. (\E node \in nodes : (\A b \in BoundName : node[b] # Junk) /\ Holds(a.text, node)) <=>
          \E m \in nvd[c] : /\ m.vulnerable /\ m.product = a.product
                            /\ \A b \in BoundName : RangeOf(m)[b] # Junk
                            /\ Holds(a.text, RangeOf(m))
    BY DEF NodesFor
  <2> HIDE DEF nodes
  <2> QED
    BY <2>1, <2>2, <2>3, <2>4, <2>5, <2>6 DEF nodes
<1>3. ASSUME NEW c \in r.listed \ r.failed, NEW f \in FindingsOf(c, r), f.disposition = "affected"
      PROVE  \E a \in AssetsOf(r) : <<c, a>> \in S /\ f = verdict(<<c, a>>)
  <2>1. f # Unmatched(c, "unmonitored")
    BY <1>3 DEF Unmatched
  <2>2. PICK a \in AssetsOf(r) :
          f = [cve |-> c, device |-> a.device, product |-> a.product,
               text |-> IF a.accepted THEN Absent ELSE a.text,
               disposition |-> IF a.accepted THEN "accepted"
                               ELSE Disposition(Parsed(a.text), NodesFor(nvd[c], a.product))]
    BY <1>3, <2>1 DEF FindingsOf
  <2>3. ~a.accepted /\ Disposition(Parsed(a.text), NodesFor(nvd[c], a.product)) = "affected"
    BY <1>3, <2>2
  <2>4. <<c, a>> \in S
    BY <1>1, <1>2, <2>3 DEF Exposed
  <2>5. f = verdict(<<c, a>>)
    BY <2>2, <2>3
  <2> QED
    BY <2>4, <2>5
<1>4. ASSUME NEW h \in S
      PROVE  /\ h[1] \in r.listed \ r.failed /\ h[2] \in AssetsOf(r) /\ h = <<h[1], h[2]>>
             /\ ~h[2].accepted
             /\ verdict(h) \in FindingsOf(h[1], r)
  <2>1. /\ h[1] \in r.listed \ r.failed /\ h[2] \in AssetsOf(r) /\ h = <<h[1], h[2]>>
        /\ ~h[2].accepted
    BY <1>1 DEF Exposed
  <2>2. Disposition(Parsed(h[2].text), NodesFor(nvd[h[1]], h[2].product)) = "affected"
    BY <1>1, <1>2, <2>1 DEF Exposed
  <2>3. NodesFor(nvd[h[1]], h[2].product) # {}
    BY <2>2 DEF Disposition
  <2> QED
    BY <2>1, <2>2, <2>3 DEF FindingsOf
<1>5. \A t \in T : \E h \in S : g[h] = t
  <2> SUFFICES ASSUME NEW t \in T PROVE \E h \in S : g[h] = t
    OBVIOUS
  <2>1. t \in FindingsSoFar(r) /\ t.disposition = "affected"
    BY DEF Affected, Joined
  <2>2. PICK c \in r.listed \ r.failed : t \in FindingsOf(c, r)
    BY <2>1 DEF FindingsSoFar, Unresolved, Unmatched
  <2>3. PICK a \in AssetsOf(r) : <<c, a>> \in S /\ t = verdict(<<c, a>>)
    BY <1>3, <2>1, <2>2
  <2> QED
    BY <2>3
<1>6. \A h \in S : verdict(h) \in T
  BY <1>4 DEF Affected, Joined, FindingsSoFar
<1>7. \A h, k \in S : verdict(h) = verdict(k) => h = k
  <2> SUFFICES ASSUME NEW h \in S, NEW k \in S, verdict(h) = verdict(k) PROVE h = k
    OBVIOUS
  <2>1. /\ h[1] = k[1] /\ h[2].device = k[2].device /\ h[2].product = k[2].product
        /\ h[2].text = k[2].text
    OBVIOUS
  <2>2. h[2].accepted = FALSE /\ k[2].accepted = FALSE /\ h[2] \in Asset /\ k[2] \in Asset
    BY <1>1, <1>4 DEF Asset
  <2>3. h[2] = k[2]
    BY <2>1, <2>2 DEF Asset
  <2> QED
    BY <1>4, <2>1, <2>3
<1>8. IsFiniteSet(S)
  <2>1. IsFiniteSet(r.listed \ r.failed)
    BY <1>1, CveAssumption, FS_Subset
  <2>2. IsFiniteSet((r.listed \ r.failed) \X Assets(r.registry))
    BY <1>1, <2>1, FS_Product
  <2> QED
    BY <2>2, FS_Subset DEF Exposed
<1>9. g \in Surjection(S, T) /\ g \in Injection(S, T)
  <2>1. g \in [S -> T] /\ \A h \in S : g[h] = verdict(h)
    BY <1>6
  <2> HIDE DEF S, T, g
  <2> QED
    BY <1>5, <1>7, <2>1 DEF Surjection, Injection, IsInjective
<1>10. IsFiniteSet(T) /\ Cardinality(T) = Cardinality(S)
  <2> HIDE DEF S, T, g
  <2> QED
    BY <1>8, <1>9, FS_Surjection
<1> QED
  BY <1>10, FS_CardinalityType

\* What NVD publishes does not change, so a report means the same after a step.
LEMMA NvdIsFixed ==
  ASSUME nvd' = nvd
  PROVE  /\ UnderWay(job)' <=> UnderWay(job')
         /\ Finished(data)' <=> Finished(data')
BY DEF UnderWay, Finished, Tallied, Joined, FindingsSoFar, FindingsOf

\* The findings depend on the registry the refresh began in and on the lookups alone.
LEMMA SameFindings ==
  ASSUME NEW r, NEW s, s.registry = r.registry
  PROVE  /\ \A c : FindingsOf(c, s) = FindingsOf(c, r)
         /\ s.listed = r.listed /\ s.todo = r.todo /\ s.failed = r.failed
              => FindingsSoFar(s) = FindingsSoFar(r)
<1>1. AssetsOf(s) = AssetsOf(r)
  BY DEF AssetsOf
<1>2. \A c : FindingsOf(c, s) = FindingsOf(c, r)
  BY <1>1 DEF FindingsOf
<1> QED
  BY <1>2 DEF FindingsSoFar

Good(r) == r \in Report /\ r.registry \in Registries /\ r.nvd = "ok"

\* What Join, Sweep and Publish leave.
Lands == UnderWay(job') /\ data' \in Report /\ Finished(data')

LEMMA NoReportIsAReport == NoReport \in Report /\ UnderWay(Idle)
<1>1. NoReport \in Report
  BY DEF NoReport, Report, Source, Error, NoCount
<1> QED
  BY <1>1 DEF UnderWay, Idle, Phase

\* The last query is in: the targets are counted.
LEMMA PublishLands ==
  ASSUME NEW q \in Report, q.registry \in Registries, Tallied(q), Asked(q), q.queries = {},
         Publish([q EXCEPT !.targetsAffected = TargetsAffected(q)])
  PROVE  Lands
<1> DEFINE p == [q EXCEPT !.targetsAffected = TargetsAffected(q)]
<1>1. TargetsAffected(q) \in Int
  <2>1. IsFiniteSet({s \in q.swept : s[2] # {}})
    BY FS_Subset DEF Asked
  <2> QED
    BY <2>1, FS_CardinalityType DEF TargetsAffected, NoCount
<1>2. p \in Report
  BY <1>1 DEF Report
<1>3. /\ p.registry = q.registry /\ p.listed = q.listed /\ p.todo = q.todo /\ p.failed = q.failed
      /\ p.findings = q.findings /\ p.kev = q.kev /\ p.nvd = q.nvd /\ p.window = q.window
      /\ p.swept = q.swept /\ p.queries = q.queries
      /\ p.actionable = q.actionable /\ p.rollup = q.rollup
      /\ p.targetsAffected = TargetsAffected(q)
  BY DEF Report
<1>4. job' = Idle /\ data' = p
  BY DEF Publish
<1> HIDE DEF p
<1>5. Actionable(p) = Actionable(q) /\ Queries(p) = Queries(q) /\ TargetsAffected(p) = TargetsAffected(q)
  BY <1>3 DEF Actionable, Queries, AssetsOf, TargetsAffected
<1>6. Tallied(p)
  BY <1>3, <1>5, SameFindings DEF Tallied, Joined
<1>7. Asked(p)
  BY <1>3, <1>5 DEF Asked
<1> QED
  BY <1>2, <1>3, <1>4, <1>5, <1>6, <1>7, NoReportIsAReport DEF Lands, Finished

\* The lookups are in: the counts are taken, and the window asked for.
LEMMA SweepLands ==
  ASSUME NEW r, Good(r), nvd \in NvdTables, Joined(r), r.todo = {}, Uncounted(r), Sweep(r),
         data \in Report, Finished(data)
  PROVE  Lands
<1> DEFINE rollup == Rollup({f.disposition : f \in r.findings})
           q == [r EXCEPT !.actionable = Actionable(r), !.queries = Queries(r), !.rollup = rollup]
<1>1. Actionable(r) \in Int /\ NoCount \in Int
  BY AffectedAreExposed DEF Good, Actionable, NoCount
<1>2. rollup \in Dispositions
  <2>1. {f.disposition : f \in r.findings} \in SUBSET Dispositions
    BY DEF Good, Report, Finding
  <2> QED
    BY <2>1, RollupIsTheWorst
<1>3. Queries(r) \subseteq Target
  BY AssetsAreAssets, CveAssumption DEF Good, Queries, AssetsOf, Asset, Target
<1>4. q \in Report
  <2> HIDE DEF rollup
  <2> QED
    BY <1>1, <1>2, <1>3 DEF Good, Report
<1>5. /\ q.registry = r.registry /\ q.listed = r.listed /\ q.todo = r.todo /\ q.failed = r.failed
      /\ q.findings = r.findings /\ q.kev = r.kev /\ q.nvd = r.nvd /\ q.window = r.window
      /\ q.swept = r.swept /\ q.targetsAffected = r.targetsAffected
      /\ q.actionable = Actionable(r) /\ q.queries = Queries(r) /\ q.rollup = rollup
  <2> HIDE DEF rollup
  <2> QED
    BY DEF Good, Report
<1> HIDE DEF q
<1>6. Actionable(q) = Actionable(r) /\ Queries(q) = Queries(r)
  BY <1>5 DEF Actionable, Queries, AssetsOf
<1>7. Tallied(q)
  BY <1>5, <1>6, SameFindings DEF Good, Tallied, Joined
<1>8. Asked(q) /\ q.targetsAffected = NoCount /\ q.registry \in Registries
  BY <1>5, <1>6, FS_EmptySet DEF Good, Asked, Uncounted
<1>9. CASE q.queries # {} /\ Waiting("window", q)
  BY <1>4, <1>7, <1>8, <1>9 DEF Waiting, Lands, UnderWay, Phase
<1>10. CASE q.queries = {} /\ Publish([q EXCEPT !.targetsAffected = TargetsAffected(q)])
  BY <1>4, <1>7, <1>8, <1>10, PublishLands
<1> QED
  BY <1>9, <1>10 DEF Sweep, q

\* A lookup or the catalog is in: the next lookup waits, or they all are.
LEMMA JoinLands ==
  ASSUME NEW r, Good(r), nvd \in NvdTables, Joined(r), Uncounted(r), Join(r),
         data \in Report, Finished(data)
  PROVE  Lands
<1>1. CASE r.todo # {} /\ Waiting("lookups", r)
  BY <1>1 DEF Good, Waiting, Lands, UnderWay, Phase
<1>2. CASE r.todo = {} /\ Sweep(r)
  BY <1>2, SweepLands
<1> QED
  BY <1>1, <1>2 DEF Join

\* A query is in: the next one waits, or the report is published.
LEMMA SweptLands ==
  ASSUME NEW r \in Report, r.registry \in Registries, Tallied(r), Asked(r),
         r.targetsAffected = NoCount, Swept(r), data \in Report, Finished(data)
  PROVE  Lands
<1>1. CASE r.queries # {} /\ Waiting("window", r)
  BY <1>1 DEF Waiting, Lands, UnderWay, Phase
<1>2. CASE r.queries = {} /\ Publish([r EXCEPT !.targetsAffected = TargetsAffected(r)])
  BY <1>2, PublishLands
<1> QED
  BY <1>1, <1>2 DEF Swept

\* A refresh begins with an empty report, which is published at once if there is nothing to ask of.
LEMMA BeginLands ==
  ASSUME Inv, Begin
  PROVE  Lands
<1> DEFINE r == [NoReport EXCEPT !.stamp = refreshes', !.registry = registry]
<1>1. /\ r.registry = registry /\ r.stamp = refreshes' /\ r.nvd = "ok" /\ Unread(r) /\ Uncounted(r)
      /\ r \in Report
  <2>1. refreshes' \in Nat /\ registry \in SUBSET DeviceEntry
    BY CveAssumption DEF Inv, Begin
  <2>2. NoReport.nvd = "ok" /\ Unread(NoReport) /\ Uncounted(NoReport)
    BY DEF NoReport, Unread, Uncounted
  <2> QED
    BY <2>1, <2>2, NoReportIsAReport DEF Report, Unread, Uncounted, NoReport
<1>2. CASE AssetsOf(r) = {} /\ Publish([r EXCEPT !.nvd = "no_assets"])
  <2> DEFINE q == [r EXCEPT !.nvd = "no_assets"]
  <2> HIDE DEF r
  <2>1. q \in Report /\ q.registry = registry /\ q.nvd # "ok" /\ Unread(q) /\ Uncounted(q)
    BY <1>1 DEF Report, Source, Unread, Uncounted
  <2>2. job' = Idle /\ data' = q
    BY <1>2 DEF Publish
  <2> HIDE DEF q
  <2> QED
    BY <2>1, <2>2, NoReportIsAReport DEF Lands, Finished, Inv
<1>3. CASE AssetsOf(r) # {} /\ Waiting("kev", r)
  <2> HIDE DEF r
  <2> QED
    BY <1>1, <1>3 DEF Waiting, Lands, UnderWay, Phase, Inv
<1> QED
  BY <1>2, <1>3 DEF Begin

\* The catalog, read or not, leaves the report with the lookups to make.
LEMMA CatalogLands ==
  ASSUME Inv, (\E S \in SUBSET Cve : CatalogAnswers(S)) \/ (\E e \in Error : CatalogFails(e))
  PROVE  Lands
<1> DEFINE r == job.report
<1>1. r \in Report /\ r.registry \in Registries /\ Unread(r) /\ r.nvd = "ok" /\ Uncounted(r)
  BY DEF CatalogAnswers, CatalogFails, Inv, UnderWay
<1>2. ASSUME NEW S \in SUBSET Cve, CatalogAnswers(S) PROVE Lands
  <2> DEFINE q == [r EXCEPT !.listed = S, !.todo = S]
  <2> HIDE DEF r
  <2>1. /\ q \in Report /\ q.registry = r.registry /\ q.nvd = "ok" /\ q.listed = S /\ q.todo = S
        /\ q.failed = {} /\ q.findings = {} /\ Uncounted(q)
    BY <1>1 DEF Report, Unread, Uncounted
  <2>2. Join(q)
    BY <1>2 DEF CatalogAnswers, r
  <2> HIDE DEF q
  <2>3. Good(q) /\ Joined(q)
    BY <1>1, <2>1 DEF Good, Joined, FindingsSoFar
  <2> QED
    BY <2>1, <2>2, <2>3, JoinLands DEF Inv
<1>3. ASSUME NEW e \in Error, CatalogFails(e) PROVE Lands
  <2> DEFINE q == [r EXCEPT !.kev = e]
  <2> HIDE DEF r
  <2>1. /\ q \in Report /\ q.registry = r.registry /\ q.nvd = "ok" /\ q.listed = {} /\ q.todo = {}
        /\ q.failed = {} /\ q.findings = {} /\ Uncounted(q)
    BY <1>1 DEF Report, Unread, Uncounted, Source
  <2>2. Join(q)
    BY <1>3 DEF CatalogFails, r
  <2> HIDE DEF q
  <2>3. Good(q) /\ Joined(q)
    BY <1>1, <2>1 DEF Good, Joined, FindingsSoFar
  <2> QED
    BY <2>1, <2>2, <2>3, JoinLands DEF Inv
<1> QED
  BY <1>2, <1>3

\* A lookup that ends, however it ends, keeps the findings those of the lookups made.
LEMMA LookupLands ==
  ASSUME Inv, NEW c \in Cve, LookupAnswers(c) \/ LookupFails(c) \/ LookupRefused(c)
  PROVE  Lands
<1> DEFINE r == job.report
<1>1. /\ r \in Report /\ r.registry \in Registries /\ Joined(r) /\ r.nvd = "ok" /\ Uncounted(r)
      /\ c \in r.todo /\ nvd \in NvdTables
  BY DEF LookupAnswers, LookupFails, LookupRefused, Inv, UnderWay
<1>2. c \in r.listed /\ c \notin r.failed /\ r.todo \subseteq r.listed /\ r.failed \subseteq r.listed \ r.todo
  BY <1>1 DEF Joined
<1>3. FindingsOf(c, r) \subseteq Finding /\ Unresolved(c) \subseteq Finding
  BY <1>1, FindingsAreFindings
<1>4. CASE LookupAnswers(c)
  <2> DEFINE q == [r EXCEPT !.todo = @ \ {c}, !.findings = @ \cup FindingsOf(c, r)]
  <2>1. Join(q)
    BY <1>4 DEF LookupAnswers
  <2> HIDE DEF r
  <2>2. /\ q \in Report /\ q.registry = r.registry /\ q.nvd = "ok" /\ q.listed = r.listed
        /\ q.todo = r.todo \ {c} /\ q.failed = r.failed
        /\ q.findings = r.findings \cup FindingsOf(c, r) /\ Uncounted(q)
    BY <1>1, <1>3 DEF Report, Uncounted
  <2> HIDE DEF q
  <2>3. Joined(q)
    <3>1. \A d : FindingsOf(d, q) = FindingsOf(d, r)
      BY <2>2, SameFindings
    <3>2. q.listed \ (q.todo \cup q.failed) = (r.listed \ (r.todo \cup r.failed)) \cup {c}
      BY <1>1, <1>2, <2>2
    <3>3. q.findings = FindingsSoFar(q)
      BY <1>1, <2>2, <3>1, <3>2 DEF Joined, FindingsSoFar
    <3> QED
      BY <1>2, <2>2, <3>3 DEF Joined
  <2> QED
    BY <1>1, <2>1, <2>2, <2>3, JoinLands DEF Inv, Good
<1>5. CASE LookupFails(c)
  <2> DEFINE q == [r EXCEPT !.todo = @ \ {c}, !.failed = @ \cup {c},
                            !.findings = @ \cup Unresolved(c)]
  <2>1. Join(q)
    BY <1>5 DEF LookupFails
  <2> HIDE DEF r
  <2>2. /\ q \in Report /\ q.registry = r.registry /\ q.nvd = "ok" /\ q.listed = r.listed
        /\ q.todo = r.todo \ {c} /\ q.failed = r.failed \cup {c}
        /\ q.findings = r.findings \cup Unresolved(c) /\ Uncounted(q)
    BY <1>1, <1>3 DEF Report, Uncounted
  <2> HIDE DEF q
  <2>3. Joined(q)
    <3>1. \A d : FindingsOf(d, q) = FindingsOf(d, r)
      BY <2>2, SameFindings
    <3>2. q.listed \ (q.todo \cup q.failed) = r.listed \ (r.todo \cup r.failed)
      BY <1>1, <1>2, <2>2
    <3>3. q.findings = FindingsSoFar(q)
      BY <1>1, <2>2, <3>1, <3>2 DEF Joined, FindingsSoFar
    <3> QED
      BY <1>2, <2>2, <3>3 DEF Joined
  <2> QED
    BY <1>1, <2>1, <2>2, <2>3, JoinLands DEF Inv, Good
<1>6. CASE LookupRefused(c)
  <2> DEFINE q == [r EXCEPT !.nvd = "unauthorized"]
  <2>1. job' = Idle /\ data' = q
    BY <1>6 DEF LookupRefused, Publish
  <2> HIDE DEF r
  <2>2. /\ q \in Report /\ q.registry = r.registry /\ q.nvd = "unauthorized" /\ q.listed = r.listed
        /\ q.todo = r.todo /\ q.failed = r.failed /\ q.findings = r.findings /\ Uncounted(q)
    BY <1>1 DEF Report, Uncounted, Source, Error
  <2> HIDE DEF q
  <2>3. Joined(q)
    BY <1>1, <2>2, SameFindings DEF Joined
  <2> QED
    BY <1>1, <2>1, <2>2, <2>3, NoReportIsAReport DEF Lands, Finished
<1> QED
  BY <1>4, <1>5, <1>6

\* A query of the window sweep leaves the count of findings as it was taken; the last one ends the report.
LEMMA QueryLands ==
  ASSUME Inv, NEW t \in job.report.queries,
         (\E S \in SUBSET Cve : QueryAnswers(t, S)) \/ (\E e \in Error : QueryFails(t, e))
  PROVE  Lands
<1> DEFINE r == job.report
<1>1. /\ r \in Report /\ r.registry \in Registries /\ Tallied(r) /\ Asked(r)
      /\ r.targetsAffected = NoCount /\ t \in r.queries
  BY DEF QueryAnswers, QueryFails, Inv, UnderWay
<1>2. t \in Target
  BY <1>1 DEF Report
<1>3. ASSUME NEW S \in SUBSET Cve, QueryAnswers(t, S) PROVE Lands
  <2> DEFINE answer == <<t, S>>
             q == [r EXCEPT !.queries = @ \ {t}, !.swept = @ \cup {answer}]
  <2>1. Swept(q) /\ answer \in Target \X SUBSET Cve /\ answer[1] = t
    BY <1>2, <1>3 DEF QueryAnswers
  <2> HIDE DEF answer
  <2> HIDE DEF r
  <2>2. /\ q \in Report /\ q.registry = r.registry /\ q.nvd = r.nvd /\ q.kev = r.kev
        /\ q.listed = r.listed /\ q.todo = r.todo /\ q.failed = r.failed /\ q.findings = r.findings
        /\ q.actionable = r.actionable /\ q.rollup = r.rollup /\ q.window = r.window
        /\ q.targetsAffected = NoCount
        /\ q.queries = r.queries \ {t} /\ q.swept = r.swept \cup {answer}
    BY <1>1, <2>1 DEF Report
  <2> HIDE DEF q
  <2>3. Tallied(q)
    BY <1>1, <2>2, SameFindings DEF Tallied, Joined, Actionable
  <2>4. Asked(q)
    <3>1. IsFiniteSet(q.swept)
      BY <1>1, <2>2, FS_AddElement DEF Asked
    <3>2. Queries(q) = Queries(r)
      BY <2>2 DEF Queries, AssetsOf
    <3>3. {s[1] : s \in q.swept} = {s[1] : s \in r.swept} \cup {t}
      BY <2>1, <2>2
    <3> QED
      BY <1>1, <2>2, <3>1, <3>2, <3>3 DEF Asked
  <2> QED
    BY <1>1, <2>1, <2>2, <2>3, <2>4, SweptLands DEF Inv
<1>4. ASSUME NEW e \in Error, QueryFails(t, e) PROVE Lands
  <2> DEFINE q == [r EXCEPT !.queries = @ \ {t}, !.window = e]
  <2>1. Swept(q)
    BY <1>4 DEF QueryFails
  <2> HIDE DEF r
  <2>2. /\ q \in Report /\ q.registry = r.registry /\ q.nvd = r.nvd /\ q.kev = r.kev
        /\ q.listed = r.listed /\ q.todo = r.todo /\ q.failed = r.failed /\ q.findings = r.findings
        /\ q.actionable = r.actionable /\ q.rollup = r.rollup /\ q.window # "ok"
        /\ q.targetsAffected = NoCount
        /\ q.queries = r.queries \ {t} /\ q.swept = r.swept
    BY <1>1 DEF Report, Source, Error
  <2> HIDE DEF q
  <2>3. Tallied(q)
    BY <1>1, <2>2, SameFindings DEF Tallied, Joined, Actionable
  <2>4. Asked(q)
    BY <1>1, <2>2 DEF Asked, Queries, AssetsOf
  <2> QED
    BY <1>1, <2>1, <2>2, <2>3, <2>4, SweptLands DEF Inv
<1> QED
  BY <1>3, <1>4

LEMMA NoReportIsFinished == Finished(NoReport)
BY DEF NoReport, Finished, Unread, Uncounted

\* A report follows its lookups and queries from its first fetch to its end, and
\* what is published is a report that did.
THEOREM CveInvariant == Spec => []Inv
<1>1. Init => Inv
  <2> SUFFICES ASSUME Init PROVE Inv
    OBVIOUS
  <2>1. 0 \in 0 .. MaxRefreshes /\ 0 \in 0 .. MaxReloads
    BY CveAssumption
  <2> QED
    BY <2>1, NoReportIsAReport, NoReportIsFinished DEF Init, Inv
<1>2. Inv /\ [Next]_vars => Inv'
  <2> SUFFICES ASSUME Inv, [Next]_vars PROVE Inv'
    OBVIOUS
  <2>1. ASSUME nvd' = nvd, registry' \in Registries, refreshes' \in 0 .. MaxRefreshes,
               reloads' \in 0 .. MaxReloads, prompted' \in BOOLEAN, Lands
        PROVE  Inv'
    <3>1. UnderWay(job)' /\ Finished(data)'
      BY <2>1, NvdIsFixed DEF Lands
    <3> QED
      BY <2>1, <3>1 DEF Inv, Lands
  <2>2. CASE Begin
    <3>1. refreshes' \in 0 .. MaxRefreshes
      BY <2>2, CveAssumption DEF Begin, Inv
    <3> QED
      BY <2>1, <2>2, <3>1, BeginLands DEF Begin, Inv
  <2>3. ASSUME NEW S \in SUBSET Cve, CatalogAnswers(S) PROVE Inv'
    BY <2>1, <2>3, CatalogLands DEF CatalogAnswers, Inv
  <2>4. ASSUME NEW e \in Error, CatalogFails(e) PROVE Inv'
    BY <2>1, <2>4, CatalogLands DEF CatalogFails, Inv
  <2>5. ASSUME NEW c \in Cve, LookupAnswers(c) \/ LookupFails(c) \/ LookupRefused(c) PROVE Inv'
    <3>1. Lands
      BY <2>5, LookupLands
    <3> QED
      BY <2>1, <2>5, <3>1 DEF LookupAnswers, LookupFails, LookupRefused, Inv
  <2>6. ASSUME NEW t \in job.report.queries,
               (\E S \in SUBSET Cve : QueryAnswers(t, S)) \/ (\E e \in Error : QueryFails(t, e))
        PROVE  Inv'
    <3>1. Lands
      BY <2>6, QueryLands
    <3> QED
      BY <2>1, <2>6, <3>1 DEF QueryAnswers, QueryFails, Inv
  <2>7. CASE Reload
    <3>1. Lands
      BY <2>7, NoReportIsAReport, NoReportIsFinished DEF Reload, Lands
    <3>2. reloads' \in 0 .. MaxReloads
      BY <2>7, CveAssumption DEF Reload, Inv
    <3> QED
      BY <2>1, <2>7, <3>1, <3>2 DEF Reload, Inv
  <2>8. ASSUME NEW r \in Registries, EditRegistry(r) PROVE Inv'
    BY <2>1, <2>8 DEF EditRegistry, Inv, Lands
  <2>9. CASE UNCHANGED vars
    BY <2>1, <2>9 DEF vars, Inv, Lands
  <2>10. CASE AnswerRaises
    BY <2>1, <2>10, NoReportIsAReport DEF AnswerRaises, Inv, Lands
  <2> QED
    BY <2>2, <2>3, <2>4, <2>5, <2>6, <2>7, <2>8, <2>9, <2>10 DEF Next
<1> QED
  BY <1>1, <1>2, PTL DEF Spec

-----------------------------------------------------------------------------
(* What a published report says                                            *)

\* Reports keep their type.
THEOREM CveTyped == Spec => []TypeOK
<1>1. Inv => TypeOK
  BY DEF Inv, UnderWay, TypeOK
<1> QED
  BY <1>1, CveInvariant, PTL

\* The actionable count is the number of exposed devices in the registry the
\* refresh began in, and is given only by a run that read both sources.
THEOREM CountIsOfOneMomentHolds == Spec => []CountIsOfOneMoment
<1>1. Inv => CountIsOfOneMoment
  <2> SUFFICES ASSUME Inv, data.actionable # NoCount
               PROVE  /\ data.actionable = Cardinality(Exposed(data))
                      /\ data.kev = "ok" /\ data.nvd = "ok"
    BY DEF CountIsOfOneMoment
  <2>1. data \in Report /\ data.registry \in Registries /\ Tallied(data) /\ nvd \in NvdTables
    BY DEF Inv, Finished, Uncounted
  <2>2. Cardinality(Affected(data.findings)) = Cardinality(Exposed(data))
    BY <2>1, AffectedAreExposed DEF Tallied
  <2> QED
    BY <2>1, <2>2 DEF Tallied, Actionable
<1> QED
  BY <1>1, CveInvariant, PTL

\* A number of affected targets rests on an answer for every version in use.
THEOREM WindowCountIsWholeHolds == Spec => []WindowCountIsWhole
<1>1. Inv => WindowCountIsWhole
  <2> SUFFICES ASSUME Inv, data.targetsAffected # NoCount,
                      NEW a \in Assets(data.registry), ~a.accepted, a.text # Absent
               PROVE  \E s \in data.swept : s[1] = <<a.product, a.text>>
    BY DEF WindowCountIsWhole
  <2>1. Asked(data) /\ data.queries = {} /\ data.window = "ok"
    BY DEF Inv, Finished, Uncounted, TargetsAffected
  <2>2. <<a.product, a.text>> \in Queries(data)
    BY DEF Queries, AssetsOf
  <2> QED
    BY <2>1, <2>2 DEF Asked
<1> QED
  BY <1>1, CveInvariant, PTL

\* The findings of a CVE are about it: the one that says it names nothing
\* installed, or one for each asset it names as vulnerable.
LEMMA FindingsName ==
  ASSUME NEW c, NEW r,
         NEW named, named = {a \in AssetsOf(r) : \E m \in nvd[c] : m.vulnerable /\ m.product = a.product}
  PROVE  /\ \A f \in FindingsOf(c, r) : f.cve = c
         /\ named = {} => FindingsOf(c, r) = {Unmatched(c, "unmonitored")}
         /\ named # {} => {<<f.device, f.product>> : f \in FindingsOf(c, r)}
                            = {<<a.device, a.product>> : a \in named}
<1> DEFINE finding(a) ==
             [cve |-> c, device |-> a.device, product |-> a.product,
              text |-> IF a.accepted THEN Absent ELSE a.text,
              disposition |-> IF a.accepted THEN "accepted"
                              ELSE Disposition(Parsed(a.text), NodesFor(nvd[c], a.product))]
<1>1. named = {a \in AssetsOf(r) : NodesFor(nvd[c], a.product) # {}}
  BY DEF NodesFor
<1>2. FindingsOf(c, r) = IF named = {} THEN {Unmatched(c, "unmonitored")}
                         ELSE {finding(a) : a \in named}
  BY <1>1 DEF FindingsOf
<1>3. \A a : /\ finding(a).cve = c /\ finding(a).device = a.device
              /\ finding(a).product = a.product
  OBVIOUS
<1>4. Unmatched(c, "unmonitored").cve = c
  BY DEF Unmatched
<1> HIDE DEF finding
<1> QED
  BY <1>2, <1>3, <1>4

\* Every listed CVE is in the findings of a run NVD did not refuse: as unresolved if
\* its lookup failed, as unmonitored if it names nothing installed as vulnerable,
\* and otherwise with exactly the installed products it names.
THEOREM EveryCveIsAccountedForHolds == Spec => []EveryCveIsAccountedFor
<1> DEFINE found(c) == {f \in data.findings : f.cve = c}
           named(c) == {a \in Assets(data.registry) :
                          \E m \in nvd[c] : m.vulnerable /\ m.product = a.product}
<1>1. ASSUME Inv, data.nvd = "ok", NEW c \in data.listed
      PROVE  /\ c \in data.failed => found(c) = {Unmatched(c, "unknown_version")}
             /\ c \notin data.failed /\ named(c) = {} => found(c) = {Unmatched(c, "unmonitored")}
             /\ c \notin data.failed /\ named(c) # {} =>
                  {<<f.device, f.product>> : f \in found(c)}
                    = {<<a.device, a.product>> : a \in named(c)}
  <2>1. Tallied(data)
    BY <1>1 DEF Inv, Finished, Unread
  <2>2. data.todo = {} /\ data.findings = FindingsSoFar(data)
    BY <2>1 DEF Tallied, Joined
  <2>3. named(c) = {a \in AssetsOf(data) : \E m \in nvd[c] : m.vulnerable /\ m.product = a.product}
    BY DEF AssetsOf
  <2>4. \A d : \A f \in FindingsOf(d, data) : f.cve = d
    BY FindingsName
  <2>5. \A d : \A f \in Unresolved(d) : f.cve = d
    BY DEF Unresolved, Unmatched
  <2>6. /\ c \in data.failed => found(c) = Unresolved(c)
        /\ c \notin data.failed => found(c) = FindingsOf(c, data)
    BY <1>1, <2>2, <2>4, <2>5 DEF FindingsSoFar
  <2> HIDE DEF found, named
  <2>7. /\ named(c) = {} => FindingsOf(c, data) = {Unmatched(c, "unmonitored")}
        /\ named(c) # {} => {<<f.device, f.product>> : f \in FindingsOf(c, data)}
                              = {<<a.device, a.product>> : a \in named(c)}
    BY <2>3, FindingsName, Zenon
  <2> QED
    BY <2>6, <2>7 DEF Unresolved
<1>2. Inv => EveryCveIsAccountedFor
  BY <1>1, Zenon DEF EveryCveIsAccountedFor
<1> QED
  BY <1>2, CveInvariant, PTL

\* A range all of whose bounds are read has one reading; one that is missed by a
\* bound that is read is missed in every reading.
LEMMA ReadingsAgree ==
  ASSUME NEW v, NEW node \in Node, NEW m \in Readings(node)
  PROVE  /\ InRange(v, node) = "in" => Holds(v, m)
         /\ InRange(v, node) = "out" => ~Holds(v, m)
<1>1. /\ m \in Node
      /\ \A b \in BoundName : node[b] # Junk => m[b] = node[b]
  BY DEF Readings
<1>2. ASSUME InRange(v, node) = "in" PROVE Holds(v, m)
  BY <1>1, <1>2, InAsRead DEF Holds
<1>3. ASSUME InRange(v, node) = "out" PROVE ~Holds(v, m)
  <2>1. PICK b \in BoundName : node[b] \in Version /\ ~Meets(v, b, node[b])
    BY <1>3, OutAsRead
  <2>2. m[b] = node[b] /\ node[b] # Absent
    BY <1>1, <2>1, CpeAssumption
  <2> QED
    BY <2>1, <2>2 DEF Holds
<1> QED
  BY <1>2, <1>3

\* The verdict of one finding is what its ranges say, whatever unread bounds mean.
LEMMA FindingIsSound ==
  ASSUME NEW r \in Report, r.registry \in Registries, nvd \in NvdTables, NEW c \in Cve,
         NEW f \in FindingsOf(c, r)
  PROVE  LET nodes == NodesFor(nvd[f.cve], f.product)
         IN  /\ f.disposition = "affected" =>
                  \E node \in nodes : \A m \in Readings(node) : Holds(f.text, m)
             /\ f.disposition = "patched" =>
                  \A node \in nodes : \A m \in Readings(node) : ~Holds(f.text, m)
<1> SUFFICES ASSUME f.disposition \in {"affected", "patched"}
             PROVE  LET nodes == NodesFor(nvd[f.cve], f.product)
                    IN  /\ f.disposition = "affected" =>
                             \E node \in nodes : \A m \in Readings(node) : Holds(f.text, m)
                        /\ f.disposition = "patched" =>
                             \A node \in nodes : \A m \in Readings(node) : ~Holds(f.text, m)
  OBVIOUS
<1>1. f # Unmatched(c, "unmonitored")
  BY DEF Unmatched
<1>2. PICK a \in AssetsOf(r) :
        f = [cve |-> c, device |-> a.device, product |-> a.product,
             text |-> IF a.accepted THEN Absent ELSE a.text,
             disposition |-> IF a.accepted THEN "accepted"
                             ELSE Disposition(Parsed(a.text), NodesFor(nvd[c], a.product))]
  BY <1>1 DEF FindingsOf
<1> DEFINE nodes == NodesFor(nvd[c], a.product)
<1>3. ~a.accepted
  BY <1>2
<1>4. /\ f.cve = c /\ f.product = a.product /\ f.text = a.text
      /\ f.disposition = Disposition(Parsed(a.text), nodes)
  BY <1>2, <1>3
<1>5. nodes \subseteq Node
  BY CveAssumption, RangesAreNodes
<1> HIDE DEF nodes
<1>6. Parsed(a.text) # Absent
  BY <1>4, <1>5, VerdictsRest
<1>7. Parsed(a.text) = f.text
  BY <1>4, <1>6 DEF Parsed
<1>8. CASE f.disposition = "affected"
  <2>1. PICK node \in nodes : InRange(f.text, node) = "in"
    BY <1>4, <1>5, <1>7, <1>8, VerdictsRest
  <2>2. \A m \in Readings(node) : Holds(f.text, m)
    BY <1>5, <2>1, ReadingsAgree
  <2> QED
    BY <1>4, <1>8, <2>2 DEF nodes
<1>9. CASE f.disposition = "patched"
  <2>1. \A node \in nodes : InRange(f.text, node) = "out"
    BY <1>4, <1>5, <1>7, <1>9, VerdictsRest
  <2>2. \A node \in nodes : \A m \in Readings(node) : ~Holds(f.text, m)
    BY <1>5, <2>1, ReadingsAgree
  <2> QED
    BY <1>4, <1>9, <2>2 DEF nodes
<1> QED
  BY <1>8, <1>9

\* No verdict that licenses action or inaction leans on a bound that was not read,
\* and the estate is called patched only if every finding is.
THEOREM VerdictsAreSoundHolds == Spec => []VerdictsAreSound
<1>1. Inv => VerdictsAreSound
  <2> SUFFICES ASSUME Inv PROVE VerdictsAreSound
    OBVIOUS
  <2>1. ASSUME data.rollup = "patched", NEW f \in data.findings PROVE f.disposition = "patched"
    <3>1. "patched" \in Dispositions
      BY DEF Dispositions, Severity
    <3>2. Tallied(data)
      BY <2>1, <3>1, CveAssumption DEF Inv, Finished, Uncounted
    <3>3. {g.disposition : g \in data.findings} \in SUBSET Dispositions
      BY DEF Inv, Report, Finding
    <3> QED
      BY <2>1, <3>2, <3>3, RollupIsTheWorst DEF Tallied
  <2>2. ASSUME NEW f \in data.findings
        PROVE  LET nodes == NodesFor(nvd[f.cve], f.product)
               IN  /\ f.disposition = "affected" =>
                        \E node \in nodes : \A m \in Readings(node) : Holds(f.text, m)
                   /\ f.disposition = "patched" =>
                        \A node \in nodes : \A m \in Readings(node) : ~Holds(f.text, m)
    <3>1. data \in Report /\ data.registry \in Registries /\ Joined(data) /\ nvd \in NvdTables
      BY <2>2 DEF Inv, Finished, Unread, Tallied
    <3>2. CASE \E c \in data.failed : f \in Unresolved(c)
      <4>1. f.disposition = "unknown_version"
        BY <3>2 DEF Unresolved, Unmatched
      <4> QED
        BY <4>1
    <3>3. CASE \E c \in data.listed : f \in FindingsOf(c, data)
      <4>1. PICK c \in Cve : f \in FindingsOf(c, data)
        BY <3>1, <3>3 DEF Report
      <4> QED
        BY <3>1, <4>1, FindingIsSound
    <3> QED
      BY <3>1, <3>2, <3>3 DEF Joined, FindingsSoFar
  <2> QED
    BY <2>1, <2>2 DEF VerdictsAreSound
<1> QED
  BY <1>1, CveInvariant, PTL
=============================================================================
