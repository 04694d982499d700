-------------------------- MODULE AgentCoordinator --------------------------
(***************************************************************************)
(* scan/api.py and scan/coordinator.py in agent mode: the client that      *)
(* reads a remote scanner over HTTP and keeps the last inventory it        *)
(* validated, the refresh that joins it, and the switch that asks the      *)
(* scanner to change its schedule.                                         *)
(*                                                                         *)
(* A refresh waits twice, for the inventory and for the status, and each   *)
(* wait ends long after the agent answered.  Home Assistant runs one       *)
(* refresh at a time of those it polls for, an entity asks for or a        *)
(* control follows up with (Poll), but a saved option refreshes at once,   *)
(* beside them (Editor).                                                   *)
(*                                                                         *)
(* The agent is outside the repository: it serves the result of its latest *)
(* scan with a tag of its content, and starts and stops its timer when it  *)
(* gets to the request.  Results and timer changes are numbered.  An       *)
(* unload drops what is under way: it touches only the client and the      *)
(* coordinator that nobody reads any more.  An operator named for a change *)
(* to the one below it is a mutation of it.                                *)
(***************************************************************************)
EXTENDS Integers

CONSTANTS
  Poll,        \* the refresh that is polled for, asked for or a follow-up
  Editor,      \* refreshes of saved options that may overlap it
  Decision,    \* what Home Assistant can know and acknowledge
  MaxResults,  \* bound on the scans of the agent
  MaxTurns,    \* bound on the timer changes asked for
  MaxFaults,   \* bound on requests that fail
  MaxSetups    \* bound on setups

ASSUME AgentAssumption ==
  /\ Poll \notin Editor
  /\ Decision # {}
  /\ MaxResults \in Nat \ {0}
  /\ {MaxTurns, MaxFaults, MaxSetups} \subseteq Nat

Refresh == {Poll} \cup Editor
None == 0 \* no inventory, no tag
Result == Nat \ {0}
NoReading == -1 \* a status that said nothing of the timer

\* What the agent has to serve: an inventory the client accepts, a payload it does
\* not (schema, hosts, generated_at), or no scan yet (503, or no hosts).
Form == {"readable", "unreadable", "nothing"}
Answer == {"inventory", "not_modified", "unreadable", "refused"}

VARIABLES
  agent,    \* what the agent serves and the timer request it has yet to act on
  client,   \* _etag and _cached
  task,     \* per refresh, how far it has come
  setup,    \* whether the entry is loaded
  view,     \* coordinator.data and last_update_success
  decided,  \* the device registry and the acknowledged MACs
  spent,    \* requests failed and setups so far
  hist      \* history, see below

vars == <<agent, client, task, setup, view, decided, spent, hist>>

Agent == [result : Result, form : Form, turn : Nat, asked : Nat]
Client == [etag : Nat, cached : Nat]
Phase == {"idle", "asked", "answered", "status", "status_answered"}

\* floor: the result the agent had when the client was last idle (history).
Task ==
  [phase : Phase, match : Nat, answer : Answer, result : Nat, tagged : BOOLEAN,
   turn : Nat \cup {NoReading}, authorized : BOOLEAN, floor : Nat]

Idle ==
  [phase |-> "idle", match |-> None, answer |-> "refused", result |-> None, tagged |-> FALSE,
   turn |-> NoReading, authorized |-> FALSE, floor |-> None]

FreshClient == [etag |-> None, cached |-> None]
Unpublished(d) == [available |-> FALSE, result |-> None, turn |-> NoReading, decided |-> d]

\* The results the client could accept; the agent's result when no request for one
\* was under way; whether two refreshes of this setup overlapped; whether one has
\* ended well since Home Assistant last learned something.
History == [readable : SUBSET Result, floor : Nat, overlap : BOOLEAN, joined : BOOLEAN]

TypeOK ==
  /\ agent \in Agent
  /\ client \in Client
  /\ task \in [Refresh -> Task]
  /\ setup \in {"unloaded", "starting", "loaded"}
  /\ view \in [available : BOOLEAN, result : Nat, turn : Nat \cup {NoReading}, decided : Decision]
  /\ decided \in Decision
  /\ spent \in [faults : Nat, setups : Nat]
  /\ hist \in History
  \* A refresh that goes on to the status, and a view, have an inventory.
  /\ \A r \in Refresh : task[r].phase \in {"status", "status_answered"} => task[r].result # None
  /\ view.available => view.result # None

-----------------------------------------------------------------------------
(* A refresh, up to its answer                                             *)

InInventory(t) == t.phase \in {"asked", "answered"}
Quiet(tasks) == \A r \in Refresh : ~InInventory(tasks[r])

\* The header is sent only with a cached inventory to fall back on.
IfNoneMatch == IF client.cached # None THEN client.etag ELSE None

Floor == IF Quiet(task) THEN agent.result ELSE hist.floor

\* async_get_inventory sends its request.
Asked(r) ==
  /\ task[r].phase = "idle"
  /\ task' = [task EXCEPT ![r] = [Idle EXCEPT !.phase = "asked", !.match = IfNoneMatch, !.floor = Floor]]

Start(r) ==
  /\ setup = "loaded"
  /\ Asked(r)
  /\ hist' = [hist EXCEPT !.floor = Floor, !.overlap = @ \/ \E q \in Refresh : task[q].phase # "idle"]

PollStarts ==
  /\ Start(Poll)
  /\ UNCHANGED <<agent, client, setup, view, decided, spent>>

Fault == spent' = [spent EXCEPT !.faults = @ + 1]
MayFail == spent.faults < MaxFaults

Answered(r, answer, tagged) ==
  /\ task[r].phase = "asked"
  /\ task' = [task EXCEPT ![r] = [@ EXCEPT !.phase = "answered", !.match = None, !.answer = answer,
                                         !.result = agent.result, !.tagged = tagged]]
  /\ UNCHANGED <<agent, client, setup, view, decided, hist>>

\* What the agent says of its latest scan; a proxy may strip the tag.
AgentAnswers(r) ==
  \/ /\ agent.form = "readable" /\ task[r].match = agent.result
     /\ Answered(r, "not_modified", TRUE)
     /\ UNCHANGED spent
  \/ /\ agent.form = "readable" /\ task[r].match # agent.result
     /\ \E tagged \in BOOLEAN : Answered(r, "inventory", tagged)
     /\ UNCHANGED spent
  \/ /\ agent.form = "unreadable"
     /\ Answered(r, "unreadable", TRUE)
     /\ UNCHANGED spent
  \/ /\ agent.form = "nothing"
     /\ Answered(r, "refused", FALSE)
     /\ UNCHANGED spent

\* A timeout, a lost connection, another status, a rejected token; or a 200 that is
\* not the agent's JSON.
RequestFails(r) ==
  /\ MayFail
  /\ \E answer \in {"refused", "unreadable"} : Answered(r, answer, FALSE)
  /\ Fault

-----------------------------------------------------------------------------
(* A refresh, from its answer on                                           *)

Tag(t) == IF t.tagged THEN t.result ELSE None

\* The client after an answer.
ReadTaggingFirst(t) ==
  CASE t.answer = "inventory"  -> [etag |-> Tag(t), cached |-> t.result]
    [] t.answer = "unreadable" -> [client EXCEPT !.etag = Tag(t)]
    [] OTHER                   -> client

Read(t) ==
  CASE t.answer = "inventory"  -> [etag |-> Tag(t), cached |-> t.result]
    [] t.answer = "unreadable" -> [client EXCEPT !.etag = None]
    [] OTHER                   -> client

\* The inventory async_get_inventory returns, or None where it raises.
ReturnedOnFailure(t) ==
  CASE t.answer = "inventory" -> t.result
    [] t.answer = "unreadable" -> None
    [] OTHER -> client.cached

Returned(t) ==
  CASE t.answer = "inventory"    -> t.result
    [] t.answer = "not_modified" -> client.cached
    [] OTHER                     -> None

\* UpdateFailed, or any other exception: the data stay, and nobody sees them.
Failed(r) ==
  /\ task' = [task EXCEPT ![r] = Idle]
  /\ view' = [view EXCEPT !.available = FALSE]
  /\ setup' = IF setup = "starting" THEN "unloaded" ELSE setup
  /\ UNCHANGED hist

Receive(r) ==
  /\ task[r].phase = "answered"
  /\ client' = IF Returned(task[r]) = None /\ setup = "starting" THEN FreshClient ELSE Read(task[r])
  /\ \/ /\ Returned(task[r]) # None
        /\ task' = [task EXCEPT ![r] = [Idle EXCEPT !.phase = "status", !.result = Returned(task[r]),
                                                   !.floor = task[r].floor]]
        /\ UNCHANGED <<setup, view, hist>>
     \/ /\ Returned(task[r]) = None
        /\ Failed(r)
  /\ UNCHANGED <<agent, decided, spent>>

StatusAnswered(r, turn, authorized) ==
  /\ task[r].phase = "status"
  /\ task' = [task EXCEPT ![r] = [@ EXCEPT !.phase = "status_answered", !.turn = turn,
                                         !.authorized = authorized]]
  /\ UNCHANGED <<agent, client, setup, view, decided, hist>>

AgentReports(r) ==
  /\ StatusAnswered(r, agent.turn, TRUE)
  /\ UNCHANGED spent

\* async_get_status makes {} of everything but a rejected token, which it lets through.
StatusFails(r) ==
  /\ MayFail
  /\ \E authorized \in BOOLEAN : StatusAnswered(r, NoReading, authorized)
  /\ Fault

\* What the published view is made of, read after the last wait.
JoinedUnlessUnchanged(r) == IF task[r].result = view.result THEN view.decided ELSE decided
Joined(r) == decided

ReportedUnlessUnchanged(r) == IF task[r].result = view.result THEN view.turn ELSE task[r].turn
Reported(r) == task[r].turn

Finish(r) ==
  /\ task[r].phase = "status_answered"
  /\ \/ /\ task[r].authorized
        /\ task' = [task EXCEPT ![r] = Idle]
        /\ view' = [available |-> TRUE, result |-> task[r].result, turn |-> Reported(r),
                    decided |-> Joined(r)]
        /\ setup' = "loaded"
        /\ hist' = [hist EXCEPT !.joined = TRUE]
        /\ UNCHANGED client
     \/ /\ ~task[r].authorized
        /\ Failed(r)
        /\ client' = IF setup = "starting" THEN FreshClient ELSE client
  /\ UNCHANGED <<agent, decided, spent>>

-----------------------------------------------------------------------------
(* Home Assistant and its operator                                         *)

Learned == [hist EXCEPT !.joined = FALSE]

\* Acknowledging a host saves an option, and a saved option refreshes.
EditOptions(r, d) ==
  /\ setup = "loaded"
  /\ decided' = d
  /\ Asked(r)
  /\ hist' = [Learned EXCEPT !.floor = Floor,
                             !.overlap = @ \/ \E q \in Refresh : task[q].phase # "idle"]
  /\ UNCHANGED <<agent, client, setup, view, spent>>

\* Another integration registers a device or removes it: nothing is refreshed.
DeviceRegistered(d) ==
  /\ decided' = d
  /\ hist' = Learned
  /\ UNCHANGED <<agent, client, task, setup, view, spent>>

\* The switch leaves the view to the next refresh, and so does a lost answer.
SwitchedOptimistic == [view EXCEPT !.turn = agent.asked + 1]
Switched == view

\* ScheduleSwitch._set: the agent gets the request, whether or not its answer
\* arrives.  One that never arrives leaves nothing behind.
SetSchedule ==
  /\ setup = "loaded" /\ view.available /\ view.turn # NoReading
  /\ agent.asked < MaxTurns
  /\ agent' = [agent EXCEPT !.asked = @ + 1]
  /\ view' = Switched
  /\ UNCHANGED <<client, task, setup, decided, spent, hist>>

SetUp ==
  /\ setup = "unloaded" /\ spent.setups < MaxSetups
  /\ setup' = "starting"
  /\ client' = FreshClient
  /\ view' = Unpublished(decided)
  /\ task' = [r \in Refresh |-> IF r = Poll THEN [Idle EXCEPT !.phase = "asked", !.floor = agent.result]
                                ELSE Idle]
  /\ hist' = [hist EXCEPT !.floor = agent.result, !.overlap = FALSE, !.joined = FALSE]
  /\ spent' = [spent EXCEPT !.setups = @ + 1]
  /\ UNCHANGED <<agent, decided>>

\* An unload, a reload's first half, a shutdown or a crash: all of it is in memory.
Unload ==
  /\ setup = "loaded"
  /\ setup' = "unloaded"
  /\ client' = FreshClient
  /\ view' = Unpublished(decided)
  /\ task' = [r \in Refresh |-> Idle]
  /\ hist' = [hist EXCEPT !.joined = FALSE]
  /\ UNCHANGED <<agent, decided, spent>>

-----------------------------------------------------------------------------
(* The agent                                                               *)

AgentScans(form) ==
  /\ agent.result < MaxResults
  /\ agent' = [agent EXCEPT !.result = @ + 1, !.form = form]
  /\ hist' = [hist EXCEPT !.readable = IF form = "readable" THEN @ \cup {agent.result + 1} ELSE @]
  /\ UNCHANGED <<client, task, setup, view, decided, spent>>

\* The privileged unit gets to what was asked last.
AgentTurns ==
  /\ agent.turn # agent.asked
  /\ agent' = [agent EXCEPT !.turn = agent.asked]
  /\ UNCHANGED <<client, task, setup, view, decided, spent, hist>>

-----------------------------------------------------------------------------
Init ==
  /\ agent \in {[result |-> 1, form |-> f, turn |-> 0, asked |-> 0] : f \in Form}
  /\ client = FreshClient
  /\ task = [r \in Refresh |-> Idle]
  /\ setup = "unloaded"
  /\ decided \in Decision
  /\ view = Unpublished(decided)
  /\ spent = [faults |-> 0, setups |-> 0]
  /\ hist = [readable |-> IF agent.form = "readable" THEN {1} ELSE {}, floor |-> 1,
             overlap |-> FALSE, joined |-> FALSE]

Answers(r) == AgentAnswers(r) \/ AgentReports(r)

Next ==
  \/ PollStarts
  \/ \E r \in Refresh :
       Answers(r) \/ RequestFails(r) \/ Receive(r) \/ StatusFails(r) \/ Finish(r)
  \/ \E r \in Editor, d \in Decision : EditOptions(r, d)
  \/ \E d \in Decision : DeviceRegistered(d)
  \/ SetSchedule
  \/ SetUp
  \/ Unload
  \/ \E form \in Form : AgentScans(form)
  \/ AgentTurns

Spec == Init /\ [][Next]_vars

\* Home Assistant polls on, every request ends by its timeout, and the unit that
\* consumes the agent's markers runs.
FairSpec ==
  /\ Spec
  /\ WF_vars(PollStarts)
  /\ WF_vars(AgentTurns)
  /\ \A r \in Refresh : WF_vars(Answers(r) \/ Receive(r) \/ Finish(r))

-----------------------------------------------------------------------------
(* Properties                                                              *)

\* The tag the client sends is that of the inventory it holds, and that inventory
\* was validated: whatever the order of good, bad and untagged answers, no "not
\* modified" confirms a payload the client refused.
TagNamesTheCache ==
  client.etag # None => client.etag = client.cached /\ client.cached \in hist.readable

\* The inventory a refresh goes on with is no older than what the agent had when
\* the client was last idle, however its answer and those of overlapping refreshes
\* cross.
NoOlderThanAsked ==
  \A r \in Refresh :
    task[r].phase \in {"status", "status_answered"} => task[r].result \in task[r].floor .. agent.result

\* Neither the inventory nor the switch goes back to what it showed before, unless
\* two refreshes overlapped: a switch that is asked to change shows it only once
\* the agent has done it.
NeverGoesBack ==
  [][/\ setup = "loaded" /\ setup' = "loaded" /\ ~hist'.overlap
     => /\ view.result <= view'.result
        /\ view'.turn # NoReading => view.turn <= view'.turn]_vars

\* Once a refresh ended well after Home Assistant learned of a device or an
\* operator acknowledged it, the view is joined with that, and no refresh that
\* began before it puts an earlier state back.
DecisionsAreJoined == hist.joined => view.decided = decided

\* While the entry is loaded and the agent has a readable inventory, the view comes
\* to show it with the position of the timer, after every failure, lost answer and
\* overlap; an agent that scans again starts it over.
Current ==
  setup = "loaded" /\ agent.form = "readable" =>
    view.available /\ view.result = agent.result /\ view.turn = agent.turn

ViewCatchesUp == ~Current ~> Current
=============================================================================
