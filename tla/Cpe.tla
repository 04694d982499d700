-------------------------------- MODULE Cpe --------------------------------
(***************************************************************************)
(* cve/cpe.py: versions, the ranges NVD publishes them in, and what an     *)
(* installed version is said to be with respect to them.                   *)
(*                                                                         *)
(* A parsed version is its sequence of numbers.  A text field is either    *)
(* such a version, Junk (it does not parse) or Absent.  Product names,     *)
(* severities and free text are left out.  An operator named for a change  *)
(* to the one below it is a mutation of it.                                *)
(***************************************************************************)
EXTENDS Integers, Sequences, FiniteSets

CONSTANTS
  Product,      \* vendor:product pairs
  Version,      \* the parsed versions that occur
  Absent, Junk, \* a field that is missing, one that does not parse
  Rules,        \* ACCEPTED_RULES followed by ASSET_RULES
  Domain,       \* integrations that may own a device
  AnyOwner      \* of a rule: it names none; of a device: none could be told

Text == Version \cup {Absent, Junk}

Rule == [accepted : BOOLEAN, owner : {AnyOwner} \cup Domain, products : SUBSET Product]

ASSUME CpeAssumption ==
  /\ IsFiniteSet(Product)
  /\ Version \subseteq Seq(Nat) \ {<<>>}
  /\ Absent \notin Version /\ Junk \notin Version /\ Absent # Junk
  /\ Rules \in Seq(Rule) /\ AnyOwner \notin Domain
  /\ \A i, j \in DOMAIN Rules : i < j /\ Rules[j].accepted => Rules[i].accepted

\* parse_version: None for what is missing and for what does not parse alike.
Parsed(text) == IF text \in Version THEN text ELSE Absent

-----------------------------------------------------------------------------
(* _cmp                                                                    *)

\* A version read to any depth: it goes on with zeros.
Part(v, i) == IF i \in DOMAIN v THEN v[i] ELSE 0

Newer(a, b) ==
  \E i \in DOMAIN a \cup DOMAIN b :
    /\ \A j \in 1 .. i - 1 : Part(a, j) = Part(b, j)
    /\ Part(a, i) > Part(b, i)

-----------------------------------------------------------------------------
(* in_range, nodes_for, disposition, rollup                                *)

\* The bounds of a cpeMatch node, in the order the code tests them.
Bound == <<"startIncluding", "startExcluding", "endIncluding", "endExcluding">>
BoundName == {Bound[i] : i \in DOMAIN Bound}

Node == [BoundName -> Text]
Unbounded == [b \in BoundName |-> Absent]

Meets(v, b, limit) ==
  \/ b = "startIncluding" /\ ~Newer(limit, v)
  \/ b = "startExcluding" /\ Newer(v, limit)
  \/ b = "endIncluding"   /\ ~Newer(v, limit)
  \/ b = "endExcluding"   /\ Newer(limit, v)

\* The bounds that settle the question before the loop over them is done.
Settling(v, node) ==
  {i \in DOMAIN Bound :
     \/ node[Bound[i]] = Junk
     \/ node[Bound[i]] \in Version /\ ~Meets(v, Bound[i], node[Bound[i]])}

InRangeSkippingJunk(v, node) ==
  IF \A i \in Settling(v, node) : node[Bound[i]] = Junk THEN "in" ELSE "out"

InRange(v, node) ==
  IF Settling(v, node) = {} THEN "in"
  ELSE IF node[Bound[CHOOSE i \in Settling(v, node) :
                       \A j \in Settling(v, node) : i <= j]] = Junk
       THEN "undecided" ELSE "out"

\* A CVE is a set of matches.  `vulnerable` is false for the platforms a product
\* runs on; `exact` is a version named in the CPE itself, which makes the bounds.
Match == [product : Product, vulnerable : BOOLEAN, exact : Text, node : Node]

RangeOf(match) ==
  IF match.exact = Absent THEN match.node
  ELSE [Unbounded EXCEPT !["startIncluding"] = match.exact, !["endIncluding"] = match.exact]

NodesFor(cve, product) ==
  {RangeOf(m) : m \in {n \in cve : n.vulnerable /\ n.product = product}}

Disposition(v, nodes) ==
  IF nodes = {} THEN "unmonitored"
  ELSE IF v = Absent THEN "unknown_version"
  ELSE IF \E node \in nodes : InRange(v, node) = "in" THEN "affected"
  ELSE IF \E node \in nodes : InRange(v, node) = "undecided" THEN "unknown_version"
  ELSE "patched"

Severity == <<"affected", "unknown_version", "unmonitored", "accepted", "patched">>

Dispositions == {Severity[i] : i \in DOMAIN Severity}

Rollup(found) ==
  IF found = {} THEN "unmonitored"
  ELSE Severity[CHOOSE i \in DOMAIN Severity :
                  Severity[i] \in found /\ \A j \in 1 .. i - 1 : Severity[j] \notin found]

-----------------------------------------------------------------------------
(* classify_device and NvdEstateCoordinator._discover                      *)

\* A device: the rules its manufacturer and model match, the integration that
\* owns it, and the version text each product's extraction yields.
DeviceEntry == [id : Nat, matches : SUBSET (DOMAIN Rules),
                owner : {AnyOwner} \cup Domain, versions : [Product -> Text]]

\* _owner_ok: a rule without an owner and a device without one are unconstrained.
OwnerOk(rule, device) ==
  \/ rule.owner = AnyOwner
  \/ device.owner = AnyOwner
  \/ rule.owner = device.owner

Entitled(device) == {i \in device.matches : OwnerOk(Rules[i], device)}

\* The first rule that matches and whose integration owns the device.
RuleOf(device) == Rules[CHOOSE i \in Entitled(device) : \A j \in Entitled(device) : i <= j]

Assets(registry) ==
  UNION {{[device |-> d.id, product |-> p, text |-> d.versions[p],
           accepted |-> RuleOf(d).accepted] : p \in RuleOf(d).products}
         : d \in {e \in registry : Entitled(e) # {}}}
=============================================================================
