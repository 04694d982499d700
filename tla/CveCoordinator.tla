--------------------------- MODULE CveCoordinator ---------------------------
(***************************************************************************)
(* cve/coordinator.py: one refresh of the CVE join at a time, from the     *)
(* device registry it reads once, through a catalog fetch, a lookup per    *)
(* listed CVE and a query per installed version, to the report it          *)
(* publishes when the last of them is in.                                  *)
(*                                                                         *)
(* Every fetch is a wait: between two of them devices may come, go, change *)
(* owner or be updated, and the entry may be reloaded, which cancels the   *)
(* refresh.  The catalog and NVD are outside: what they answer is chosen   *)
(* anew each time.  Lookups run in the order of their ids and queries in   *)
(* that of their targets; here any order.  The catalog's keyword filter    *)
(* and its 90-day cutoff decide which CVEs are listed, and are part of     *)
(* that choice.                                                            *)
(***************************************************************************)
EXTENDS Cpe

CONSTANTS
  Cve,          \* the CVEs that can be listed or turn up in a query
  NvdTables,    \* what NVD may say of them: the matches of each
  Registries,   \* the states of the device registry
  MaxRefreshes, \* bound on refreshes
  MaxReloads    \* bound on reloads

ASSUME CveAssumption ==
  /\ IsFiniteSet(Cve)
  /\ NvdTables \subseteq [Cve -> SUBSET Match]
  /\ \A r \in Registries : /\ IsFiniteSet(r) /\ r \subseteq DeviceEntry
                           /\ \A d, e \in r : d.id = e.id => d = e
  /\ Absent \notin Dispositions
  /\ {MaxRefreshes, MaxReloads} \subseteq Nat

VARIABLES
  nvd,       \* what NVD publishes about each CVE
  registry,  \* the device registry
  refreshes, \* refreshes begun
  reloads,   \* reloads of the entry
  job,       \* the refresh under way
  data,      \* what the coordinator last published
  prompted   \* _reauth_started

vars == <<nvd, registry, refreshes, reloads, job, data, prompted>>

Error  == {"unauthorized", "failed"}
Source == {"ok", "no_assets"} \cup Error
Target == Product \X (Text \ {Absent})
NoCount == -1 \* a count of None

Finding ==
  [cve : Cve, device : Nat \cup {Absent}, product : Product \cup {Absent}, text : Text,
   disposition : Dispositions]

\* A report, finished or under way; `stamp` is its `generated`.  Of a query only
\* the CVEs are kept.  `failed`, the lookups that did not answer, stands for the
\* entries they leave in `errors`.
Report ==
  [stamp : Nat, registry : SUBSET DeviceEntry, kev : Source, nvd : Source, window : Source,
   listed : SUBSET Cve, todo : SUBSET Cve, failed : SUBSET Cve, findings : SUBSET Finding,
   queries : SUBSET Target, swept : SUBSET (Target \X SUBSET Cve), actionable : Int,
   targetsAffected : Int, rollup : Dispositions \cup {Absent}]

NoReport ==
  [stamp |-> 0, registry |-> {}, kev |-> "ok", nvd |-> "ok", window |-> "ok", listed |-> {},
   todo |-> {}, failed |-> {}, findings |-> {}, queries |-> {}, swept |-> {},
   actionable |-> NoCount, targetsAffected |-> NoCount, rollup |-> Absent]

Phase == {"idle", "kev", "lookups", "window"}

TypeOK ==
  /\ nvd \in NvdTables /\ registry \in Registries
  /\ refreshes \in 0 .. MaxRefreshes /\ reloads \in 0 .. MaxReloads
  /\ job.phase \in Phase /\ job.report \in Report
  /\ data \in Report
  /\ prompted \in BOOLEAN

-----------------------------------------------------------------------------
(* What a refresh makes of its answers                                     *)

AssetsNow(r) == Assets(registry)

\* Read at the start and kept for the whole refresh.
AssetsOf(r) == Assets(r.registry)

Unmatched(c, disposition) ==
  [cve |-> c, device |-> Absent, product |-> Absent, text |-> Absent,
   disposition |-> disposition]

FindingsOfForgetting(c, r) ==
  {[cve |-> c, device |-> a.device, product |-> a.product,
    text |-> IF a.accepted THEN Absent ELSE a.text,
    disposition |-> IF a.accepted THEN "accepted"
                    ELSE Disposition(Parsed(a.text), NodesFor(nvd[c], a.product))]
   : a \in {b \in AssetsOf(r) : NodesFor(nvd[c], b.product) # {}}}

\* A CVE that names nothing installed is UNMONITORED, and is not passed over.
FindingsOf(c, r) ==
  LET named == {a \in AssetsOf(r) : NodesFor(nvd[c], a.product) # {}}
  IN  IF named = {} THEN {Unmatched(c, "unmonitored")}
      ELSE {[cve |-> c, device |-> a.device, product |-> a.product,
             text |-> IF a.accepted THEN Absent ELSE a.text,
             disposition |-> IF a.accepted THEN "accepted"
                             ELSE Disposition(Parsed(a.text), NodesFor(nvd[c], a.product))]
            : a \in named}

\* A lookup that failed leaves the CVE unresolved, not clean and not gone.
Unresolved(c) == {Unmatched(c, "unknown_version")}

Affected(findings) == {f \in findings : f.disposition = "affected"}

Actionable(r) ==
  IF r.kev = "ok" /\ r.nvd = "ok" THEN Cardinality(Affected(r.findings)) ELSE NoCount

\* One query per distinct version text in use.
Queries(r) ==
  {<<a.product, a.text>> : a \in {b \in AssetsOf(r) : ~b.accepted /\ b.text # Absent}}

TargetsAffectedRegardless(r) == Cardinality({s \in r.swept : s[2] # {}})

TargetsAffected(r) ==
  IF r.window = "ok" THEN Cardinality({s \in r.swept : s[2] # {}}) ELSE NoCount

-----------------------------------------------------------------------------
(* The refresh                                                             *)

Idle == [phase |-> "idle", report |-> NoReport]

Waiting(phase, r) == job' = [phase |-> phase, report |-> r] /\ UNCHANGED data

Publish(r) == job' = Idle /\ data' = r

\* The counts are in; the queries of the window follow, if there are any.
Sweep(r) ==
  LET counted == [r EXCEPT !.actionable = Actionable(r), !.queries = Queries(r),
                           !.rollup = Rollup({f.disposition : f \in r.findings})]
  IN  \/ counted.queries # {} /\ Waiting("window", counted)
      \/ counted.queries = {} /\ Publish([counted EXCEPT !.targetsAffected = TargetsAffected(counted)])

Join(r) ==
  \/ r.todo # {} /\ Waiting("lookups", r)
  \/ r.todo = {} /\ Sweep(r)

Begin ==
  /\ job.phase = "idle" /\ refreshes < MaxRefreshes
  /\ refreshes' = refreshes + 1
  /\ LET r == [NoReport EXCEPT !.stamp = refreshes', !.registry = registry]
     IN  \/ AssetsOf(r) = {} /\ Publish([r EXCEPT !.nvd = "no_assets"])
         \/ AssetsOf(r) # {} /\ Waiting("kev", r)
  /\ UNCHANGED <<nvd, registry, reloads, prompted>>

\* The catalog answers with the CVEs that are ours to look up, or does not.
CatalogAnswers(listed) ==
  /\ job.phase = "kev"
  /\ Join([job.report EXCEPT !.listed = listed, !.todo = listed])
  /\ UNCHANGED <<nvd, registry, refreshes, reloads, prompted>>

CatalogFails(error) ==
  /\ job.phase = "kev"
  /\ Join([job.report EXCEPT !.kev = error])
  /\ UNCHANGED <<nvd, registry, refreshes, reloads, prompted>>

LookupAnswers(c) ==
  /\ job.phase = "lookups" /\ c \in job.report.todo
  /\ Join([job.report EXCEPT !.todo = @ \ {c}, !.findings = @ \cup FindingsOf(c, job.report)])
  /\ UNCHANGED <<nvd, registry, refreshes, reloads, prompted>>

\* Not found, an error, a timeout, or an answer without the CVE in it.
LookupFails(c) ==
  /\ job.phase = "lookups" /\ c \in job.report.todo
  /\ Join([job.report EXCEPT !.todo = @ \ {c}, !.failed = @ \cup {c},
                             !.findings = @ \cup Unresolved(c)])
  /\ UNCHANGED <<nvd, registry, refreshes, reloads, prompted>>

\* NVD refuses the key: the run ends here and a new key is asked for, once.
LookupRefused(c) ==
  /\ job.phase = "lookups" /\ c \in job.report.todo
  /\ prompted' = TRUE
  /\ Publish([job.report EXCEPT !.nvd = "unauthorized"])
  /\ UNCHANGED <<nvd, registry, refreshes, reloads>>

Swept(r) ==
  \/ r.queries # {} /\ Waiting("window", r)
  \/ r.queries = {} /\ Publish([r EXCEPT !.targetsAffected = TargetsAffected(r)])

QueryAnswers(t, cves) ==
  /\ job.phase = "window" /\ t \in job.report.queries
  /\ Swept([job.report EXCEPT !.queries = @ \ {t}, !.swept = @ \cup {<<t, cves>>}])
  /\ UNCHANGED <<nvd, registry, refreshes, reloads, prompted>>

QueryFails(t, error) ==
  /\ job.phase = "window" /\ t \in job.report.queries
  /\ Swept([job.report EXCEPT !.queries = @ \ {t}, !.window = error])
  /\ UNCHANGED <<nvd, registry, refreshes, reloads, prompted>>

\* An answer that is not the object the code expects: reading it raises out of the
\* refresh, at any of its fetches, and what was published last stays.
AnswerRaises ==
  /\ job.phase # "idle"
  /\ job' = Idle
  /\ UNCHANGED <<nvd, registry, refreshes, reloads, data, prompted>>

\* A reload, as after a key was replaced: the refresh is cancelled and the
\* coordinator is a new one.
Reload ==
  /\ reloads < MaxReloads
  /\ reloads' = reloads + 1
  /\ job' = Idle /\ data' = NoReport /\ prompted' = FALSE
  /\ UNCHANGED <<nvd, registry, refreshes>>

EditRegistry(r) ==
  /\ registry' = r
  /\ UNCHANGED <<nvd, refreshes, reloads, job, data, prompted>>

-----------------------------------------------------------------------------
Init ==
  /\ nvd \in NvdTables /\ registry \in Registries
  /\ refreshes = 0 /\ reloads = 0
  /\ job = Idle /\ data = NoReport
  /\ prompted = FALSE

Next ==
  \/ Begin
  \/ \E S \in SUBSET Cve : CatalogAnswers(S)
  \/ \E e \in Error : CatalogFails(e)
  \/ \E c \in Cve : LookupAnswers(c) \/ LookupFails(c) \/ LookupRefused(c)
  \/ \E t \in job.report.queries : \/ \E S \in SUBSET Cve : QueryAnswers(t, S)
                                   \/ \E e \in Error : QueryFails(t, e)
  \/ AnswerRaises
  \/ Reload
  \/ \E r \in Registries : EditRegistry(r)

Spec == Init /\ [][Next]_vars

-----------------------------------------------------------------------------
(* Properties                                                              *)

\* What an unparsed bound may have meant: any version, or none.
Readings(node) ==
  {m \in Node : \A b \in BoundName : IF node[b] = Junk THEN m[b] # Junk ELSE m[b] = node[b]}

Holds(v, node) == \A b \in BoundName : node[b] # Absent => Meets(v, b, node[b])

\* A verdict that licenses action or inaction rests on what was read alone: a
\* version said to be affected is in a range whatever the bounds that did not
\* parse may mean, and one said to be patched is in none whatever they mean.  The
\* rollup says patched only of findings that all are.
VerdictsAreSound ==
  /\ data.rollup = "patched" => \A f \in data.findings : f.disposition = "patched"
  /\ \A f \in data.findings :
       LET nodes == NodesFor(nvd[f.cve], f.product)
       IN  /\ f.disposition = "affected" =>
                \E node \in nodes : \A m \in Readings(node) : Holds(f.text, m)
           /\ f.disposition = "patched" =>
                \A node \in nodes : \A m \in Readings(node) : ~Holds(f.text, m)

\* A listed CVE is never lost on the way, and no more is said of it than was read:
\* a run NVD did not refuse has a finding for each.  It is unresolved alone if its
\* lookup failed, unmonitored alone if it names nothing installed as vulnerable
\* (a product named only as a platform is not), and else has a finding for every
\* installed product it names and for no other.
EveryCveIsAccountedFor ==
  data.nvd = "ok" =>
    \A c \in data.listed :
      LET found == {f \in data.findings : f.cve = c}
          named == {a \in Assets(data.registry) :
                      \E m \in nvd[c] : m.vulnerable /\ m.product = a.product}
      IN  /\ c \in data.failed => found = {Unmatched(c, "unknown_version")}
          /\ c \notin data.failed /\ named = {} => found = {Unmatched(c, "unmonitored")}
          /\ c \notin data.failed /\ named # {} =>
               {<<f.device, f.product>> : f \in found} = {<<a.device, a.product>> : a \in named}

\* The pairs of a looked-up CVE and an installed product that is surely hit by it.
Exposed(r) ==
  {hit \in (r.listed \ r.failed) \X Assets(r.registry) :
     LET c == hit[1]
         a == hit[2]
     IN  /\ ~a.accepted /\ a.text \in Version
         /\ \E m \in nvd[c] : /\ m.vulnerable /\ m.product = a.product
                              /\ \A b \in BoundName : RangeOf(m)[b] # Junk
                              /\ Holds(a.text, RangeOf(m))}

\* The count is that of one state of the registry, the one the refresh began in,
\* however devices change while it waits, and is given only by a run in which the
\* catalog answered and NVD did not refuse the key: a run cut short counts nothing.
CountIsOfOneMoment ==
  data.actionable # NoCount =>
    /\ data.actionable = Cardinality(Exposed(data))
    /\ data.kev = "ok" /\ data.nvd = "ok"

\* A number of affected targets is given only if every version in use was asked
\* about and answered for.
WindowCountIsWhole ==
  data.targetsAffected # NoCount =>
    \A a \in Assets(data.registry) :
      ~a.accepted /\ a.text # Absent => \E s \in data.swept : s[1] = <<a.product, a.text>>

-----------------------------------------------------------------------------
(* What the comments say and the code does not do                          *)

\* cve/coordinator.py: the count is None and not a number if NVD could not be read.
CountMeansRead == data.actionable # NoCount => data.failed = {}
=============================================================================
