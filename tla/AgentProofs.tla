---------------------------- MODULE AgentProofs -----------------------------
(***************************************************************************)
(* What AgentCoordinator.tla promises, for any number of refreshes that    *)
(* overlap, of scans, failures and setups.                                 *)
(***************************************************************************)
EXTENDS AgentCoordinator, TLAPS

\* The type invariant: a refresh that goes on, and a view that is shown, have an
\* inventory, so an agent that cannot be read never shows as an empty network.
THEOREM TypeCorrect == Spec => []TypeOK
<1>1. Init => TypeOK
  BY AgentAssumption
     DEF Init, TypeOK, Agent, Form, Result, Client, FreshClient, Task, Idle, Phase, Answer, History,
         Unpublished, NoReading, None, Refresh
<1>2. TypeOK /\ [Next]_vars => TypeOK'
  <2> SUFFICES ASSUME TypeOK, [Next]_vars
               PROVE  TypeOK'
    OBVIOUS
  <2> USE DEF TypeOK, Refresh
  <2>0. Idle \in Task /\ Idle.phase = "idle"
    BY DEF Idle, Task, Phase, Answer, NoReading, None
  <2>1. ASSUME NEW r \in Refresh, Asked(r), UNCHANGED <<agent, client, setup, view, spent>>,
               decided' \in Decision, hist' \in History
        PROVE  TypeOK'
    <3>1. IfNoneMatch \in Nat /\ Floor \in Nat
      BY DEF IfNoneMatch, Client, Floor, Agent, Result, History, None
    <3>2. [Idle EXCEPT !.phase = "asked", !.match = IfNoneMatch, !.floor = Floor] \in Task
      BY <3>1, <2>0 DEF Task, Phase
    <3> QED BY <2>1, <3>2 DEF Asked, Task
  <2>2. ASSUME NEW r \in Refresh, NEW answer \in Answer, NEW tagged \in BOOLEAN,
               Answered(r, answer, tagged), spent' \in [faults : Nat, setups : Nat]
        PROVE  TypeOK'
    <3>0. task[r] \in Task /\ agent.result \in Nat
      BY DEF Agent, Result
    <3>1. [task[r] EXCEPT !.phase = "answered", !.match = None, !.answer = answer,
                          !.result = agent.result, !.tagged = tagged] \in Task
      BY <3>0 DEF Task, Phase, None
    <3> QED BY <2>2, <3>1 DEF Answered, Task
  <2>3. ASSUME NEW r \in Refresh, NEW turn \in Nat \cup {NoReading}, NEW authorized \in BOOLEAN,
               StatusAnswered(r, turn, authorized), spent' \in [faults : Nat, setups : Nat]
        PROVE  TypeOK'
    <3>0. task[r] \in Task
      OBVIOUS
    <3>1. [task[r] EXCEPT !.phase = "status_answered", !.turn = turn, !.authorized = authorized] \in Task
      BY <3>0 DEF Task, Phase
    <3> QED BY <2>3, <3>1 DEF StatusAnswered, Task
  <2>4. ASSUME NEW r \in Refresh, Failed(r), client' \in Client, UNCHANGED <<agent, decided, spent>>
        PROVE  TypeOK'
    BY <2>4, <2>0 DEF Failed
  <2>5. Fault => spent' \in [faults : Nat, setups : Nat]
    BY DEF Fault
  <2>6. CASE PollStarts
    <3>1. hist' \in History
      BY <2>6 DEF PollStarts, Start, History, Floor, Agent, Result
    <3> QED BY <2>1, <2>6, <3>1 DEF PollStarts, Start
  <2>7. ASSUME NEW r \in Refresh, AgentAnswers(r)
        PROVE  TypeOK'
    BY <2>2, <2>7 DEF AgentAnswers, Answer
  <2>8. ASSUME NEW r \in Refresh, RequestFails(r)
        PROVE  TypeOK'
    BY <2>2, <2>5, <2>8 DEF RequestFails, Answer
  <2>9. ASSUME NEW r \in Refresh, Receive(r)
        PROVE  TypeOK'
    <3>1. task[r] \in Task
      OBVIOUS
    <3>2. Read(task[r]) \in Client /\ FreshClient \in Client /\ Returned(task[r]) \in Nat
      <4>1. task[r].result \in Nat /\ Tag(task[r]) \in Nat /\ client \in Client /\ client.cached \in Nat
        BY <3>1 DEF Task, Client, Tag, None
      <4> QED BY <4>1 DEF Read, Returned, Client, FreshClient, None
    <3>3. client' \in Client
      BY <2>9, <3>2 DEF Receive
    <3>4. CASE Returned(task[r]) = None
      <4>1. Failed(r) /\ UNCHANGED <<agent, decided, spent>>
        BY <2>9, <3>4 DEF Receive
      <4> QED BY <2>4, <3>3, <4>1
    <3>5. CASE Returned(task[r]) # None
      <4>1. [Idle EXCEPT !.phase = "status", !.result = Returned(task[r]), !.floor = task[r].floor] \in Task
        BY <2>0, <3>1, <3>2 DEF Task, Phase
      <4>2. /\ task' = [task EXCEPT ![r] = [Idle EXCEPT !.phase = "status", !.result = Returned(task[r]),
                                                       !.floor = task[r].floor]]
            /\ UNCHANGED <<agent, setup, view, decided, spent, hist>>
        BY <2>9, <3>5 DEF Receive
      <4>3. task'[r].result # None
        BY <2>0, <3>5, <4>2 DEF Task
      <4> QED BY <3>3, <4>1, <4>2, <4>3
    <3> QED BY <3>4, <3>5
  <2>10. ASSUME NEW r \in Refresh, AgentReports(r)
         PROVE  TypeOK'
    <3>1. agent.turn \in Nat
      BY DEF Agent
    <3> QED BY <2>3, <2>10, <3>1 DEF AgentReports
  <2>11. ASSUME NEW r \in Refresh, StatusFails(r)
         PROVE  TypeOK'
    BY <2>3, <2>5, <2>11 DEF StatusFails
  <2>12. ASSUME NEW r \in Refresh, Finish(r)
         PROVE  TypeOK'
    <3>0. /\ task[r] \in Task /\ task[r].phase = "status_answered"
          /\ task[r].result \in Nat /\ task[r].result # None /\ task[r].turn \in Nat \cup {NoReading}
      BY <2>12 DEF Finish, Task
    <3>1. CASE task[r].authorized
      <4>1. task' = [task EXCEPT ![r] = Idle] /\ hist' \in History /\ setup' = "loaded"
        BY <2>12, <3>1 DEF Finish, History
      <4>2. /\ view' \in [available : BOOLEAN, result : Nat, turn : Nat \cup {NoReading}, decided : Decision]
            /\ view'.result # None
        <5>1. view' = [available |-> TRUE, result |-> task[r].result, turn |-> task[r].turn,
                       decided |-> decided]
          BY <2>12, <3>1 DEF Finish, Reported, Joined
        <5> QED BY <3>0, <5>1
      <4>3. UNCHANGED <<agent, client, decided, spent>>
        BY <2>12, <3>1 DEF Finish
      <4> QED BY <2>0, <4>1, <4>2, <4>3
    <3>2. CASE ~task[r].authorized
      BY <2>4, <2>12, <3>2 DEF Finish, FreshClient, Client, None
    <3> QED BY <3>1, <3>2
  <2>13. ASSUME NEW r \in Editor, NEW d \in Decision, EditOptions(r, d)
         PROVE  TypeOK'
    <3>1. hist' \in History
      BY <2>13 DEF EditOptions, Learned, History, Floor, Agent, Result
    <3> QED BY <2>1, <2>13, <3>1 DEF EditOptions
  <2>14. ASSUME NEW d \in Decision, DeviceRegistered(d)
         PROVE  TypeOK'
    BY <2>14 DEF DeviceRegistered, Learned, History
  <2>15. CASE SetSchedule
    BY <2>15 DEF SetSchedule, Switched, Agent
  <2>16. CASE SetUp
    <3>1. [Idle EXCEPT !.phase = "asked", !.floor = agent.result] \in Task
      BY <2>0 DEF Task, Phase, Agent, Result
    <3>2. task' \in [Refresh -> Task]
      BY <2>0, <2>16, <3>1 DEF SetUp
    <3>3. \A r \in Refresh : task'[r].phase \in {"asked", "idle"}
      BY <2>0, <2>16, <3>1 DEF SetUp, Task
    <3>4. client' \in Client /\ spent' \in [faults : Nat, setups : Nat]
      BY <2>16 DEF SetUp, FreshClient, Client, None
    <3>5. hist' \in History
      BY <2>16 DEF SetUp, History, Agent, Result
    <3>6. /\ view' \in [available : BOOLEAN, result : Nat, turn : Nat \cup {NoReading}, decided : Decision]
          /\ ~view'.available
      BY <2>16 DEF SetUp, Unpublished, None
    <3> QED BY <2>16, <3>2, <3>3, <3>4, <3>5, <3>6 DEF SetUp
  <2>17. CASE Unload
    BY <2>0, <2>17 DEF Unload, FreshClient, Client, Unpublished, History, None, NoReading
  <2>18. ASSUME NEW form \in Form, AgentScans(form)
         PROVE  TypeOK'
    <3>1. agent.result + 1 \in Result
      BY DEF Agent, Result
    <3>2. agent' \in Agent
      <4>1. agent' = [agent EXCEPT !.result = agent.result + 1, !.form = form] /\ agent \in Agent
        BY <2>18 DEF AgentScans
      <4> QED BY <3>1, <4>1 DEF Agent
    <3>3. hist' \in History
      BY <2>18, <3>1 DEF AgentScans, History
    <3> QED BY <2>18, <3>2, <3>3 DEF AgentScans
  <2>19. CASE AgentTurns
    BY <2>19 DEF AgentTurns, Agent
  <2>20. CASE UNCHANGED vars
    BY <2>20 DEF vars
  <2> QED BY <2>6, <2>7, <2>8, <2>9, <2>10, <2>11, <2>12, <2>13, <2>14, <2>15, <2>16, <2>17, <2>18,
             <2>19, <2>20 DEF Next, Answers
<1> QED BY <1>1, <1>2, PTL DEF Spec

-----------------------------------------------------------------------------
(* The cache and the answers that cross                                    *)

\* What the agent has had to serve.
Served ==
  /\ 1 <= hist.floor /\ hist.floor <= agent.result
  /\ \A n \in hist.readable : n <= agent.result
  /\ agent.form = "readable" => agent.result \in hist.readable

\* What the client holds.
Held ==
  /\ client.cached <= agent.result
  /\ client.cached # None => client.cached \in hist.readable
  /\ TagNamesTheCache

\* How far a refresh may have come: none without a setup and only the first while
\* one starts; a conditional request can always fall back on the cache.
Progress(r) ==
  LET t == task[r]
  IN  /\ setup = "unloaded" => t.phase = "idle"
      /\ setup = "starting" /\ r # Poll => t.phase = "idle"
      /\ InInventory(t) => t.floor = hist.floor
      /\ t.phase = "asked" /\ t.match # None =>
           client.cached = t.match \/ hist.floor <= client.cached
      /\ t.phase = "answered" /\ t.answer = "inventory" =>
           t.result \in hist.readable /\ hist.floor <= t.result
      /\ t.phase = "answered" /\ t.answer = "not_modified" => hist.floor <= client.cached
      /\ t.phase \in {"status", "status_answered"} => t.result \in t.floor .. agent.result

Crossing == Served /\ Held /\ \A r \in Refresh : Progress(r)

\* What sending a request does to it.
LEMMA AskedCrosses ==
  ASSUME TypeOK, Crossing, NEW r \in Refresh, Asked(r),
         setup \in {"starting", "loaded"}, setup = "starting" => r = Poll,
         UNCHANGED <<agent, client, setup>>,
         hist'.floor = Floor, hist'.readable = hist.readable
  PROVE  Crossing'
<1> USE DEF Crossing
<1>1. agent.result \in Nat /\ 1 <= agent.result /\ hist.floor \in Nat /\ client \in Client
  BY DEF TypeOK, Agent, Result, History
<1>2. 1 <= Floor /\ Floor <= agent.result
  BY <1>1 DEF Floor, Served
<1>3. Served'
  BY <1>2 DEF Served
<1>4. Held'
  BY DEF Held, TagNamesTheCache
<1>5. ASSUME NEW q \in Refresh
      PROVE  Progress(q)'
  <2>1. CASE q = r
    <3>1. task'[r] = [Idle EXCEPT !.phase = "asked", !.match = IfNoneMatch, !.floor = Floor]
      BY DEF Asked, TypeOK
    <3>2. /\ task'[r].phase = "asked" /\ task'[r].match = IfNoneMatch /\ task'[r].floor = Floor
      BY <3>1 DEF Idle
    <3>3. IfNoneMatch # None => client.cached = IfNoneMatch
      BY DEF IfNoneMatch, Held, TagNamesTheCache
    <3> QED BY <2>1, <3>2, <3>3 DEF Progress, InInventory
  <2>2. CASE q # r
    <3>1. task'[q] = task[q]
      BY <2>2 DEF Asked, TypeOK
    <3>2. InInventory(task[q]) => Floor = hist.floor
      BY DEF Floor, Quiet
    <3> QED BY <3>1, <3>2 DEF Progress, InInventory
  <2> QED BY <2>1, <2>2
<1> QED BY <1>3, <1>4, <1>5

\* What an answer from the agent, or instead of it, does.
LEMMA AnswerCrosses ==
  ASSUME TypeOK, Crossing, NEW r \in Refresh, AgentAnswers(r) \/ RequestFails(r)
  PROVE  Crossing'
<1> USE DEF Crossing
<1>1. PICK answer \in Answer, tagged \in BOOLEAN :
        /\ Answered(r, answer, tagged)
        /\ answer = "inventory" => agent.form = "readable"
        /\ answer = "not_modified" => task[r].match = agent.result
  BY DEF AgentAnswers, RequestFails, Answer
<1>2. /\ UNCHANGED <<agent, client, setup, hist>>
      /\ task[r].phase = "asked"
      /\ task' = [task EXCEPT ![r] = [@ EXCEPT !.phase = "answered", !.match = None, !.answer = answer,
                                              !.result = agent.result, !.tagged = tagged]]
  BY <1>1 DEF Answered
<1>3. Served' /\ Held'
  BY <1>2 DEF Served, Held, TagNamesTheCache
<1>4. ASSUME NEW q \in Refresh
      PROVE  Progress(q)'
  <2>1. CASE q # r
    <3>1. task'[q] = task[q]
      BY <1>2, <2>1 DEF TypeOK
    <3> QED BY <1>2, <3>1 DEF Progress, InInventory
  <2>2. CASE q = r
    <3>1. task[r] \in Task /\ agent.result \in Nat /\ agent.result # None
      BY DEF TypeOK, Agent, Result, None
    <3>2. task'[r] = [task[r] EXCEPT !.phase = "answered", !.match = None, !.answer = answer,
                                     !.result = agent.result, !.tagged = tagged]
      BY <1>2 DEF TypeOK
    <3>3. /\ task'[r].phase = "answered" /\ task'[r].answer = answer
          /\ task'[r].result = agent.result /\ task'[r].floor = task[r].floor
      BY <3>1, <3>2 DEF Task
    <3>4. answer = "inventory" => agent.result \in hist.readable /\ hist.floor <= agent.result
      BY <1>1 DEF Served
    <3>5. answer = "not_modified" => hist.floor <= client.cached
      BY <1>1, <1>2, <3>1 DEF Progress, Served
    <3> QED BY <1>2, <2>2, <3>3, <3>4, <3>5 DEF Progress, InInventory
  <2> QED BY <2>1, <2>2
<1> QED BY <1>3, <1>4

\* A refresh that failed leaves the others as they were.
LEMMA FailureCrosses ==
  ASSUME TypeOK, Crossing, NEW r \in Refresh, Failed(r), agent' = agent, task[r].phase # "idle",
         \/ client' \in {client, [client EXCEPT !.etag = None]}
         \/ setup = "starting" /\ client' = FreshClient
  PROVE  Crossing'
<1> USE DEF Crossing
<1>1. /\ hist' = hist /\ task' = [task EXCEPT ![r] = Idle]
      /\ setup' = IF setup = "starting" THEN "unloaded" ELSE setup
  BY DEF Failed
<1>2. Served'
  BY <1>1 DEF Served
<1>3. client \in Client /\ agent.result \in Nat
  BY DEF TypeOK, Agent, Result
<1>4. Held'
  BY <1>1, <1>3 DEF Held, TagNamesTheCache, Client, FreshClient, None
<1>5. task'[r].phase = "idle" /\ \A q \in Refresh : q # r => task'[q] = task[q]
  BY <1>1 DEF TypeOK, Idle
<1>6. setup = "starting" => r = Poll
  BY DEF Progress
<1>7. ASSUME NEW q \in Refresh
      PROVE  Progress(q)'
  <2>1. CASE q = r
    BY <1>5, <2>1 DEF Progress, InInventory
  <2>2. CASE q # r /\ setup = "starting"
    <3>1. task'[q].phase = "idle"
      BY <1>5, <1>6, <2>2 DEF Progress
    <3> QED BY <3>1 DEF Progress, InInventory
  <2>3. CASE q # r /\ setup # "starting"
    <3>1. client'.cached = client.cached /\ setup' = setup /\ task'[q] = task[q]
      BY <1>1, <1>3, <1>5, <2>3 DEF Client
    <3> QED BY <1>1, <3>1 DEF Progress, InInventory
  <2> QED BY <2>1, <2>2, <2>3
<1> QED BY <1>2, <1>4, <1>7

\* An answer taken in: what it brings is no older than the client's last rest, so
\* neither is what any other answer can fall back on.
LEMMA ReceiveCrosses ==
  ASSUME TypeOK, Crossing, NEW r \in Refresh, Receive(r)
  PROVE  Crossing'
<1> USE DEF Crossing
<1> DEFINE t == task[r]
<1>1. /\ t \in Task /\ t.phase = "answered" /\ client \in Client /\ client.cached \in Nat
      /\ agent.result \in Nat /\ hist.floor \in Nat
  BY DEF Receive, TypeOK, Client, Agent, Result, History
<1>2. agent' = agent /\ t.floor = hist.floor
  BY <1>1 DEF Receive, Progress, InInventory
<1>3. CASE Returned(t) = None
  <2>1. t.answer # "inventory"
    <3>1. t.answer = "inventory" => t.result \in hist.readable /\ hist.floor <= t.result
      BY <1>1 DEF Progress
    <3> QED BY <1>1, <1>3, <3>1 DEF Returned, Served, None, Task
  <2>2. Failed(r)
    BY <1>3 DEF Receive
  <2>3. \/ client' \in {client, [client EXCEPT !.etag = None]}
        \/ setup = "starting" /\ client' = FreshClient
    <3>1. Read(t) = client \/ Read(t) = [client EXCEPT !.etag = None]
      BY <2>1 DEF Read
    <3>2. client' = IF setup = "starting" THEN FreshClient ELSE Read(t)
      BY <1>3 DEF Receive
    <3> QED BY <3>1, <3>2
  <2> QED BY <1>1, <1>2, <2>2, <2>3, FailureCrosses
<1>4. CASE Returned(t) # None
  <2>1. /\ client' = Read(t) /\ UNCHANGED <<setup, view, hist>>
        /\ task' = [task EXCEPT ![r] = [Idle EXCEPT !.phase = "status", !.result = Returned(t),
                                                   !.floor = t.floor]]
    BY <1>4 DEF Receive
  <2>2. /\ client'.cached = Returned(t) /\ Held'
        /\ hist.floor <= Returned(t) /\ Returned(t) <= agent.result /\ Returned(t) \in Nat
    <3>1. CASE t.answer = "inventory"
      <4>1. Returned(t) = t.result /\ client' = [etag |-> Tag(t), cached |-> t.result]
        BY <2>1, <3>1 DEF Returned, Read
      <4>2. t.result \in hist.readable /\ hist.floor <= t.result /\ t.result \in Nat
        BY <1>1, <3>1 DEF Progress, Task
      <4>3. t.result <= agent.result
        BY <4>2 DEF Served
      <4> QED BY <1>2, <2>1, <4>1, <4>2, <4>3 DEF Held, TagNamesTheCache, Tag, None
    <3>2. CASE t.answer # "inventory"
      <4>1. t.answer = "not_modified" /\ Returned(t) = client.cached /\ client' = client
        BY <1>4, <2>1, <3>2 DEF Returned, Read
      <4> QED BY <1>1, <1>2, <2>1, <4>1 DEF Progress, Held, TagNamesTheCache
    <3> QED BY <3>1, <3>2
  <2> HIDE DEF t
  <2>3. Served'
    BY <1>2, <2>1 DEF Served
  <2>4. ASSUME NEW q \in Refresh
        PROVE  Progress(q)'
    <3>1. CASE q = r
      <4>1. task'[r] = [Idle EXCEPT !.phase = "status", !.result = Returned(t), !.floor = t.floor]
        BY <2>1 DEF TypeOK
      <4>2. /\ task'[r].phase = "status" /\ task'[r].result = Returned(t)
            /\ task'[r].floor = hist.floor
        BY <1>2, <4>1 DEF Idle
      <4>3. setup # "unloaded" /\ (setup = "starting" => r = Poll)
        BY <1>1 DEF Progress, t
      <4> QED BY <1>1, <1>2, <2>1, <2>2, <3>1, <4>2, <4>3 DEF Progress, InInventory
    <3>2. CASE q # r
      <4>1. task'[q] = task[q]
        BY <2>1, <3>2 DEF TypeOK
      <4> QED BY <1>2, <2>1, <2>2, <4>1 DEF Progress, InInventory
    <3> QED BY <3>1, <3>2
  <2> QED BY <2>2, <2>3, <2>4
<1> QED BY <1>3, <1>4

\* A refresh that waits for the status, or ends.
LEMMA StatusCrosses ==
  ASSUME TypeOK, Crossing, NEW r \in Refresh, AgentReports(r) \/ StatusFails(r) \/ Finish(r)
  PROVE  Crossing'
<1> USE DEF Crossing
<1>1. CASE AgentReports(r) \/ StatusFails(r)
  <2>1. PICK turn, authorized : StatusAnswered(r, turn, authorized)
    BY <1>1 DEF AgentReports, StatusFails
  <2>2. /\ UNCHANGED <<agent, client, setup, hist>> /\ task[r].phase = "status"
        /\ task' = [task EXCEPT ![r] = [@ EXCEPT !.phase = "status_answered", !.turn = turn,
                                                !.authorized = authorized]]
    BY <2>1 DEF StatusAnswered
  <2>3. Served' /\ Held'
    BY <2>2 DEF Served, Held, TagNamesTheCache
  <2>4. ASSUME NEW q \in Refresh
        PROVE  Progress(q)'
    <3>1. CASE q # r
      <4>1. task'[q] = task[q]
        BY <2>2, <3>1 DEF TypeOK
      <4> QED BY <2>2, <4>1 DEF Progress, InInventory
    <3>2. CASE q = r
      <4>1. task'[r] = [task[r] EXCEPT !.phase = "status_answered", !.turn = turn,
                                       !.authorized = authorized]
        BY <2>2 DEF TypeOK
      <4>2. /\ task'[r].phase = "status_answered" /\ task'[r].result = task[r].result
            /\ task'[r].floor = task[r].floor
        BY <4>1 DEF TypeOK, Task
      <4> QED BY <2>2, <3>2, <4>2 DEF Progress, InInventory
    <3> QED BY <3>1, <3>2
  <2> QED BY <2>3, <2>4
<1>2. CASE Finish(r) /\ ~task[r].authorized
  <2>1. /\ Failed(r) /\ agent' = agent /\ task[r].phase = "status_answered"
        /\ client' = IF setup = "starting" THEN FreshClient ELSE client
    BY <1>2 DEF Finish
  <2> QED BY <2>1, FailureCrosses
<1>3. CASE Finish(r) /\ task[r].authorized
  <2>1. /\ task' = [task EXCEPT ![r] = Idle] /\ setup' = "loaded" /\ UNCHANGED <<agent, client>>
        /\ hist' = [hist EXCEPT !.joined = TRUE] /\ task[r].phase = "status_answered"
    BY <1>3 DEF Finish
  <2>2. hist'.floor = hist.floor /\ hist'.readable = hist.readable
    BY <2>1 DEF TypeOK, History
  <2>3. Served' /\ Held'
    BY <2>1, <2>2 DEF Served, Held, TagNamesTheCache
  <2>4. ASSUME NEW q \in Refresh
        PROVE  Progress(q)'
    <3>1. CASE q = r
      <4>1. task'[r].phase = "idle"
        BY <2>1 DEF TypeOK, Idle
      <4> QED BY <3>1, <4>1 DEF Progress, InInventory
    <3>2. CASE q # r
      <4>1. task'[q] = task[q]
        BY <2>1, <3>2 DEF TypeOK
      <4> QED BY <2>1, <2>2, <4>1 DEF Progress, InInventory
    <3> QED BY <3>1, <3>2
  <2> QED BY <2>3, <2>4
<1> QED BY <1>1, <1>2, <1>3

\* Every step keeps it: each of a refresh, and what the agent and the operator do meanwhile.
LEMMA CrossingHolds == TypeOK /\ Crossing /\ [Next]_vars => Crossing'
<1> SUFFICES ASSUME TypeOK, Crossing, [Next]_vars
             PROVE  Crossing'
  OBVIOUS
<1>0. /\ agent.result \in Nat /\ 1 <= agent.result
      /\ hist.floor \in Nat /\ hist \in History
  BY DEF TypeOK, Agent, Result, History
<1>1. ASSUME UNCHANGED <<agent, client, task, setup>>,
             hist'.floor = hist.floor, hist'.readable = hist.readable
      PROVE  Crossing'
  BY <1>1 DEF Crossing, Served, Held, TagNamesTheCache, Progress, InInventory
<1>2. CASE PollStarts
  <2>1. hist'.floor = Floor /\ hist'.readable = hist.readable
    BY <1>0, <1>2 DEF PollStarts, Start, History
  <2> QED BY <1>2, <2>1, AskedCrosses DEF PollStarts, Start, Refresh
<1>3. ASSUME NEW r \in Refresh, Answers(r) \/ RequestFails(r) \/ Receive(r) \/ StatusFails(r) \/ Finish(r)
      PROVE  Crossing'
  BY <1>3, AnswerCrosses, ReceiveCrosses, StatusCrosses DEF Answers
<1>4. ASSUME NEW r \in Editor, NEW d \in Decision, EditOptions(r, d)
      PROVE  Crossing'
  <2>1. hist'.floor = Floor /\ hist'.readable = hist.readable
    BY <1>0, <1>4 DEF EditOptions, Learned, History
  <2> QED BY <1>4, <2>1, AskedCrosses DEF EditOptions, Refresh
<1>5. ASSUME NEW d \in Decision, DeviceRegistered(d)
      PROVE  Crossing'
  BY <1>0, <1>1, <1>5 DEF DeviceRegistered, Learned, History
<1>6. CASE SetSchedule
  <2>1. /\ agent'.result = agent.result /\ agent'.form = agent.form
        /\ UNCHANGED <<client, task, setup, hist>>
    BY <1>6 DEF SetSchedule, TypeOK, Agent
  <2> QED BY <2>1 DEF Crossing, Served, Held, TagNamesTheCache, Progress, InInventory
<1>7. CASE SetUp
  <2>1. /\ agent' = agent /\ client' = FreshClient /\ setup' = "starting"
        /\ hist'.floor = agent.result /\ hist'.readable = hist.readable
        /\ task' = [r \in Refresh |-> IF r = Poll
                                      THEN [Idle EXCEPT !.phase = "asked", !.floor = agent.result]
                                      ELSE Idle]
    BY <1>0, <1>7 DEF SetUp, History
  <2>2. Served' /\ Held'
    BY <1>0, <2>1 DEF Crossing, Served, Held, TagNamesTheCache, FreshClient, None
  <2>3. ASSUME NEW q \in Refresh
        PROVE  Progress(q)'
    <3>1. /\ q = Poll => task'[q].phase = "asked" /\ task'[q].match = None
                          /\ task'[q].floor = agent.result
          /\ q # Poll => task'[q].phase = "idle"
      BY <2>1 DEF Idle
    <3> QED BY <2>1, <3>1 DEF Progress, InInventory
  <2> QED BY <2>2, <2>3 DEF Crossing
<1>8. CASE Unload
  <2>1. /\ agent' = agent /\ client' = FreshClient
        /\ hist'.floor = hist.floor /\ hist'.readable = hist.readable
        /\ task' = [r \in Refresh |-> Idle]
    BY <1>0, <1>8 DEF Unload, History
  <2>2. Served' /\ Held'
    BY <1>0, <2>1 DEF Crossing, Served, Held, TagNamesTheCache, FreshClient, None
  <2>3. \A q \in Refresh : Progress(q)'
    BY <2>1 DEF Progress, InInventory, Idle
  <2> QED BY <2>2, <2>3 DEF Crossing
<1>9. ASSUME NEW form \in Form, AgentScans(form)
      PROVE  Crossing'
  <2>1. /\ agent'.result = agent.result + 1 /\ agent'.form = form
        /\ UNCHANGED <<client, task, setup>> /\ hist'.floor = hist.floor
        /\ hist'.readable = IF form = "readable" THEN hist.readable \cup {agent.result + 1}
                            ELSE hist.readable
    BY <1>0, <1>9 DEF AgentScans, TypeOK, Agent, History
  <2>2. /\ hist.readable \subseteq hist'.readable
        /\ \A n \in hist.readable : n \in Nat
    BY <1>0, <2>1 DEF History, Result
  <2>3. Served'
    BY <1>0, <2>1, <2>2 DEF Crossing, Served
  <2>4. Held'
    BY <1>0, <2>1, <2>2 DEF Crossing, Held, TagNamesTheCache, TypeOK, Client
  <2>5. ASSUME NEW q \in Refresh
        PROVE  Progress(q)'
    <3>1. task[q] \in Task /\ task[q].floor \in Nat /\ Progress(q)
      BY DEF TypeOK, Task, Crossing
    <3> QED BY <1>0, <2>1, <2>2, <3>1 DEF Progress, InInventory
  <2> QED BY <2>3, <2>4, <2>5 DEF Crossing
<1>10. CASE AgentTurns
  <2>1. /\ agent'.result = agent.result /\ agent'.form = agent.form
        /\ UNCHANGED <<client, task, setup, hist>>
    BY <1>10 DEF AgentTurns, TypeOK, Agent
  <2> QED BY <2>1 DEF Crossing, Served, Held, TagNamesTheCache, Progress, InInventory
<1>11. CASE UNCHANGED vars
  BY <1>1, <1>11 DEF vars
<1> QED BY <1>2, <1>3, <1>4, <1>5, <1>6, <1>7, <1>8, <1>9, <1>10, <1>11 DEF Next

\* So every state has it.
LEMMA CrossingAlways == Spec => []Crossing
<1>1. Init => Crossing
  BY DEF Init, Crossing, Served, Held, TagNamesTheCache, Progress, InInventory, FreshClient, Idle,
         None, Form
<1>2. Crossing /\ TypeOK /\ [Next]_vars => Crossing'
  BY CrossingHolds
<1> QED BY <1>1, <1>2, TypeCorrect, PTL DEF Spec

\* For any number of overlapping refreshes: the tag the client sends is that of an
\* inventory it validated and still holds.
THEOREM TagNamesTheCacheHolds == Spec => []TagNamesTheCache
<1>1. Crossing => TagNamesTheCache
  BY DEF Crossing, Held
<1> QED BY <1>1, CrossingAlways, PTL

\* For any number of overlapping refreshes: none goes on with an inventory older than
\* the agent's when the client was last idle.
THEOREM NoOlderThanAskedHolds == Spec => []NoOlderThanAsked
<1>1. Crossing => NoOlderThanAsked
  BY DEF Crossing, Progress, NoOlderThanAsked
<1> QED BY <1>1, CrossingAlways, PTL

-----------------------------------------------------------------------------
(* Decisions, and refreshes that do not overlap                            *)

\* For any number of overlapping refreshes: a view published since Home Assistant
\* last learned something is joined with what it knows.
THEOREM DecisionsAreJoinedHolds == Spec => []DecisionsAreJoined
<1>1. Init => DecisionsAreJoined
  BY DEF Init, DecisionsAreJoined
<1>2. TypeOK /\ DecisionsAreJoined /\ [Next]_vars => DecisionsAreJoined'
  <2> SUFFICES ASSUME TypeOK, DecisionsAreJoined, [Next]_vars
               PROVE  DecisionsAreJoined'
    OBVIOUS
  <2> USE DEF DecisionsAreJoined
  <2>0. hist \in History /\ view.decided = [view EXCEPT !.available = FALSE].decided
    BY DEF TypeOK
  <2>1. ASSUME NEW r \in Refresh, Failed(r), UNCHANGED decided
        PROVE  DecisionsAreJoined'
    BY <2>0, <2>1 DEF Failed
  <2>2. CASE PollStarts
    <3>1. hist'.joined = hist.joined
      BY <2>0, <2>2 DEF PollStarts, Start, History
    <3> QED BY <2>2, <3>1 DEF PollStarts
  <2>3. ASSUME NEW r \in Refresh, Answers(r) \/ RequestFails(r) \/ StatusFails(r)
        PROVE  DecisionsAreJoined'
    BY <2>3 DEF Answers, AgentAnswers, AgentReports, RequestFails, StatusFails, Answered, StatusAnswered
  <2>4. ASSUME NEW r \in Refresh, Receive(r)
        PROVE  DecisionsAreJoined'
    BY <2>1, <2>4 DEF Receive
  <2>5. ASSUME NEW r \in Refresh, Finish(r)
        PROVE  DecisionsAreJoined'
    BY <2>1, <2>5 DEF Finish, Joined
  <2>6. ASSUME NEW r \in Editor, NEW d \in Decision, EditOptions(r, d)
        PROVE  DecisionsAreJoined'
    <3>1. ~hist'.joined
      BY <2>0, <2>6 DEF EditOptions, Learned, History
    <3> QED BY <3>1
  <2>7. ASSUME NEW d \in Decision, DeviceRegistered(d)
        PROVE  DecisionsAreJoined'
    <3>1. ~hist'.joined
      BY <2>0, <2>7 DEF DeviceRegistered, Learned, History
    <3> QED BY <3>1
  <2>8. CASE SetSchedule
    BY <2>8 DEF SetSchedule, Switched
  <2>9. CASE SetUp \/ Unload
    <3>1. ~hist'.joined
      BY <2>0, <2>9 DEF SetUp, Unload, History
    <3> QED BY <3>1
  <2>10. ASSUME NEW form \in Form, AgentScans(form)
         PROVE  DecisionsAreJoined'
    <3>1. hist'.joined = hist.joined
      BY <2>0, <2>10 DEF AgentScans, History
    <3> QED BY <2>10, <3>1 DEF AgentScans
  <2>11. CASE AgentTurns \/ UNCHANGED vars
    BY <2>11 DEF AgentTurns, vars
  <2> QED BY <2>2, <2>3, <2>4, <2>5, <2>6, <2>7, <2>8, <2>9, <2>10, <2>11 DEF Next
<1> QED BY <1>1, <1>2, TypeCorrect, PTL DEF Spec

\* A setup whose refreshes have not overlapped: at most one is under way, and what it
\* has so far is no older than the view.
Abreast(r) ==
  LET t == task[r]
  IN  /\ t.phase # "idle" => \A q \in Refresh \ {r} : task[q].phase = "idle"
      /\ InInventory(t) => view.result <= t.floor
      /\ t.phase \in {"status", "status_answered"} => view.result <= t.result
      /\ t.phase = "status_answered" /\ t.turn # NoReading =>
           view.turn <= t.turn /\ t.turn <= agent.turn

InTurn ==
  /\ agent.turn <= agent.asked
  /\ ~hist.overlap =>
       /\ view.result <= agent.result /\ view.turn <= agent.turn
       /\ \A r \in Refresh : Abreast(r)

\* A refresh that starts keeps the view in turn: it starts alone, or the history notes an overlap.
LEMMA AskedInTurn ==
  ASSUME TypeOK, Crossing, InTurn, NEW r \in Refresh, Asked(r), UNCHANGED <<agent, view>>,
         hist'.overlap = (hist.overlap \/ \E q \in Refresh : task[q].phase # "idle")
  PROVE  InTurn'
<1>1. agent.turn <= agent.asked
  BY DEF InTurn
<1>2. ASSUME ~hist'.overlap
      PROVE  /\ view.result <= agent.result /\ view.turn <= agent.turn
             /\ \A q \in Refresh : Abreast(q)'
  <2>1. ~hist.overlap /\ \A q \in Refresh : task[q].phase = "idle"
    BY <1>2
  <2>2. Floor = agent.result
    BY <2>1 DEF Floor, Quiet, InInventory
  <2>3. task'[r] = [Idle EXCEPT !.phase = "asked", !.match = IfNoneMatch, !.floor = Floor]
    BY DEF Asked, TypeOK
  <2>4. task'[r].phase = "asked" /\ task'[r].floor = agent.result
    BY <2>2, <2>3 DEF Idle
  <2>5. \A q \in Refresh \ {r} : task'[q].phase = "idle"
    BY <2>1 DEF Asked, TypeOK
  <2>6. view.result <= agent.result /\ view.turn <= agent.turn
    BY <2>1 DEF InTurn
  <2> QED BY <2>4, <2>5, <2>6 DEF Abreast, InInventory
<1> QED BY <1>1, <1>2 DEF InTurn

\* A step of one refresh that leaves the view to later.
LEMMA WaitingInTurn ==
  ASSUME TypeOK, InTurn, NoOlderThanAsked', NEW r \in Refresh, NEW t,
         task' = [task EXCEPT ![r] = t], task[r].phase # "idle", UNCHANGED <<agent, view, hist>>,
         t.floor = task[r].floor, t.floor \in Nat, t.result \in Nat,
         \/ t.phase = "answered" /\ task[r].phase = "asked"
         \/ t.phase = "status" /\ task[r].phase = "answered"
         \/ /\ t.phase = "status_answered" /\ task[r].phase = "status"
            /\ t.result = task[r].result /\ t.turn \in {agent.turn, NoReading}
  PROVE  InTurn'
<1>1. task'[r] = t /\ \A q \in Refresh \ {r} : task'[q] = task[q]
  BY DEF TypeOK
<1>2. ASSUME ~hist.overlap
      PROVE  \A q \in Refresh : Abreast(q)'
  <2>1. /\ \A q \in Refresh \ {r} : task'[q].phase = "idle"
        /\ InInventory(task[r]) => view.result <= t.floor
        /\ task[r].phase = "status" => view.result <= task[r].result
        /\ view.turn <= agent.turn
    BY <1>1, <1>2 DEF InTurn, Abreast
  <2>2. t.phase = "status" => t.floor <= t.result
    BY <1>1 DEF NoOlderThanAsked, TypeOK, Agent, Result
  <2>3. view.result \in Nat /\ agent.turn \in Nat
    BY DEF TypeOK, Agent
  <2>4. Abreast(r)'
    BY <1>1, <2>1, <2>2, <2>3 DEF Abreast, InInventory
  <2>5. \A q \in Refresh \ {r} : Abreast(q)'
    BY <2>1 DEF Abreast, InInventory
  <2> QED BY <2>4, <2>5
<1> QED BY <1>2 DEF InTurn

\* A refresh that fails, or ends with a view.
LEMMA EndedInTurn ==
  ASSUME TypeOK, InTurn, NEW r \in Refresh, task' = [task EXCEPT ![r] = Idle], agent' = agent,
         task[r].phase # "idle", hist'.overlap = hist.overlap,
         \/ view'.result = view.result /\ view'.turn = view.turn
         \/ ~hist.overlap => view'.result <= agent.result /\ view'.turn <= agent.turn
  PROVE  InTurn'
<1>1. ASSUME ~hist.overlap
      PROVE  \A q \in Refresh : task'[q].phase = "idle"
  BY <1>1 DEF InTurn, Abreast, TypeOK, Idle
<1> QED BY <1>1 DEF InTurn, Abreast, InInventory

\* A refresh that ends publishes what it got, which is no older than the view it replaces.
LEMMA FinishInTurn ==
  ASSUME TypeOK, Crossing, InTurn, NEW r \in Refresh, Finish(r)
  PROVE  InTurn'
<1>1. task[r].phase = "status_answered" /\ agent' = agent /\ task' = [task EXCEPT ![r] = Idle]
  BY DEF Finish, Failed
<1>2. CASE task[r].authorized
  <2>1. view'.result = task[r].result /\ view'.turn = task[r].turn /\ hist'.overlap = hist.overlap
    BY <1>2 DEF Finish, Reported, TypeOK, History
  <2>2. task[r].result <= agent.result
    BY <1>1 DEF Crossing, Progress
  <2>3. ~hist.overlap => task[r].turn <= agent.turn
    BY <1>1 DEF InTurn, Abreast, NoReading, TypeOK, Agent
  <2> QED BY <1>1, <2>1, <2>2, <2>3, EndedInTurn
<1>3. CASE ~task[r].authorized
  <2>1. view'.result = view.result /\ view'.turn = view.turn /\ hist' = hist
    BY <1>3 DEF Finish, Failed, TypeOK
  <2> QED BY <1>1, <2>1, EndedInTurn
<1> QED BY <1>2, <1>3

\* And so does every other step.
LEMMA InTurnStep ==
  ASSUME TypeOK, Crossing, Crossing', InTurn, [Next]_vars
  PROVE  InTurn'
<1>0. /\ hist \in History /\ agent \in Agent /\ NoOlderThanAsked'
      /\ \A r \in Refresh : task[r] \in Task
  BY DEF TypeOK, Crossing, Progress, NoOlderThanAsked
<1>1. CASE PollStarts
  <2>1. hist'.overlap = (hist.overlap \/ \E q \in Refresh : task[q].phase # "idle")
    BY <1>0, <1>1 DEF PollStarts, Start, History
  <2> QED BY <1>1, <2>1, AskedInTurn DEF PollStarts, Start, Refresh
<1>2. ASSUME NEW r \in Refresh, AgentAnswers(r) \/ RequestFails(r)
      PROVE  InTurn'
  <2>1. PICK answer, tagged : Answered(r, answer, tagged)
    BY <1>2 DEF AgentAnswers, RequestFails
  <2> DEFINE t == [task[r] EXCEPT !.phase = "answered", !.match = None, !.answer = answer,
                                  !.result = agent.result, !.tagged = tagged]
  <2>2. task' = [task EXCEPT ![r] = t] /\ UNCHANGED <<agent, view, hist>> /\ task[r].phase = "asked"
    BY <2>1, <1>0 DEF Answered, TypeOK
  <2>3. /\ t.phase = "answered" /\ t.floor = task[r].floor /\ t.result = agent.result
        /\ task[r].floor \in Nat /\ agent.result \in Nat
    BY <1>0 DEF Task, Agent, Result
  <2> HIDE DEF t
  <2> QED BY <1>0, <2>2, <2>3, WaitingInTurn
<1>3. ASSUME NEW r \in Refresh, Receive(r)
      PROVE  InTurn'
  <2>1. task[r].phase = "answered" /\ agent' = agent
    BY <1>3 DEF Receive
  <2>2. CASE Returned(task[r]) # None
    <3> DEFINE t == [Idle EXCEPT !.phase = "status", !.result = Returned(task[r]), !.floor = task[r].floor]
    <3>1. task' = [task EXCEPT ![r] = t] /\ UNCHANGED <<agent, view, hist>>
      BY <1>3, <2>2 DEF Receive
    <3>2. t.phase = "status" /\ t.floor = task[r].floor /\ t.result = Returned(task[r])
      BY DEF Idle
    <3>3. task[r].floor \in Nat /\ Returned(task[r]) \in Nat
      BY <1>0 DEF Task, Returned, TypeOK, Client, None
    <3> HIDE DEF t
    <3> QED BY <1>0, <2>1, <3>1, <3>2, <3>3, WaitingInTurn
  <2>3. CASE Returned(task[r]) = None
    <3>1. Failed(r)
      BY <1>3, <2>3 DEF Receive
    <3>2. view'.result = view.result /\ view'.turn = view.turn /\ hist' = hist
      BY <3>1 DEF Failed, TypeOK
    <3> QED BY <2>1, <3>1, <3>2, EndedInTurn DEF Failed
  <2> QED BY <2>2, <2>3
<1>4. ASSUME NEW r \in Refresh, AgentReports(r) \/ StatusFails(r)
      PROVE  InTurn'
  <2>1. PICK turn \in {agent.turn, NoReading}, authorized \in BOOLEAN :
          StatusAnswered(r, turn, authorized)
    BY <1>4 DEF AgentReports, StatusFails
  <2> DEFINE t == [task[r] EXCEPT !.phase = "status_answered", !.turn = turn, !.authorized = authorized]
  <2>2. task' = [task EXCEPT ![r] = t] /\ UNCHANGED <<agent, view, hist>> /\ task[r].phase = "status"
    BY <2>1 DEF StatusAnswered, TypeOK
  <2>3. /\ t.phase = "status_answered" /\ t.floor = task[r].floor /\ t.result = task[r].result
        /\ t.turn = turn /\ task[r].floor \in Nat /\ task[r].result \in Nat
    BY <1>0 DEF Task
  <2> HIDE DEF t
  <2> QED BY <1>0, <2>1, <2>2, <2>3, WaitingInTurn
<1>5. ASSUME NEW r \in Refresh, Finish(r)
      PROVE  InTurn'
  BY <1>5, FinishInTurn
<1>6. ASSUME NEW r \in Editor, NEW d \in Decision, EditOptions(r, d)
      PROVE  InTurn'
  <2>1. hist'.overlap = (hist.overlap \/ \E q \in Refresh : task[q].phase # "idle")
    BY <1>0, <1>6 DEF EditOptions, Learned, History
  <2> QED BY <1>6, <2>1, AskedInTurn DEF EditOptions, Refresh
<1>7. ASSUME NEW d \in Decision, DeviceRegistered(d)
      PROVE  InTurn'
  <2>1. hist'.overlap = hist.overlap /\ UNCHANGED <<agent, task, view>>
    BY <1>0, <1>7 DEF DeviceRegistered, Learned, History
  <2> QED BY <2>1 DEF InTurn, Abreast, InInventory
<1>8. CASE SetSchedule
  <2>1. /\ agent'.turn = agent.turn /\ agent'.result = agent.result /\ agent'.asked = agent.asked + 1
        /\ UNCHANGED <<task, view, hist>>
    BY <1>0, <1>8 DEF SetSchedule, Switched, Agent
  <2>2. agent.turn \in Nat /\ agent.asked \in Nat
    BY <1>0 DEF Agent
  <2> QED BY <2>1, <2>2 DEF InTurn, Abreast, InInventory
<1>9. CASE SetUp \/ Unload
  <2>1. agent' = agent /\ view'.result = None /\ view'.turn = NoReading
    BY <1>9 DEF SetUp, Unload, Unpublished
  <2>2. agent.result \in Nat /\ agent.turn \in Nat
    BY <1>0 DEF Agent, Result
  <2>3. CASE SetUp
    <3>1. \A q \in Refresh : task'[q] = IF q = Poll THEN [Idle EXCEPT !.phase = "asked", !.floor = agent.result]
                                     ELSE Idle
      BY <2>3 DEF SetUp
    <3>2. \A q \in Refresh :
            /\ q = Poll => task'[q].phase = "asked" /\ task'[q].floor = agent.result
            /\ q # Poll => task'[q].phase = "idle"
      <4> DEFINE first == [Idle EXCEPT !.phase = "asked", !.floor = agent.result]
      <4>1. first.phase = "asked" /\ first.floor = agent.result /\ Idle.phase = "idle"
        BY DEF Idle
      <4> HIDE DEF first
      <4>2. \A q \in Refresh : task'[q] = IF q = Poll THEN first ELSE Idle
        BY <3>1 DEF first
      <4> QED BY <4>1, <4>2
    <3> QED BY <2>1, <2>2, <3>2 DEF InTurn, Abreast, InInventory, None, NoReading
  <2>4. CASE Unload
    <3>1. \A q \in Refresh : task'[q].phase = "idle"
      BY <2>4 DEF Unload, Idle
    <3> QED BY <2>1, <2>2, <3>1 DEF InTurn, Abreast, InInventory, None, NoReading
  <2> QED BY <1>9, <2>3, <2>4
<1>10. ASSUME NEW form \in Form, AgentScans(form)
       PROVE  InTurn'
  <2>1. /\ agent'.turn = agent.turn /\ agent'.result = agent.result + 1 /\ agent'.asked = agent.asked
        /\ UNCHANGED <<task, view>> /\ hist'.overlap = hist.overlap
    BY <1>0, <1>10 DEF AgentScans, Agent, History
  <2>2. agent.result \in Nat /\ view.result \in Nat
    BY <1>0 DEF Agent, Result, TypeOK
  <2> QED BY <2>1, <2>2 DEF InTurn, Abreast, InInventory
<1>11. CASE AgentTurns
  <2>1. /\ agent'.turn = agent.asked /\ agent'.result = agent.result /\ agent'.asked = agent.asked
        /\ UNCHANGED <<task, view, hist>>
    BY <1>0, <1>11 DEF AgentTurns, Agent
  <2>2. agent.turn \in Nat /\ agent.asked \in Nat /\ view.turn \in Int
    BY <1>0 DEF Agent, TypeOK, NoReading
  <2>3. \A q \in Refresh : task[q].turn \in Int
    BY <1>0 DEF Task, NoReading
  <2> QED BY <2>1, <2>2, <2>3 DEF InTurn, Abreast, InInventory
<1>12. CASE UNCHANGED vars
  BY <1>12 DEF vars, InTurn, Abreast, InInventory
<1> QED BY <1>1, <1>2, <1>3, <1>4, <1>5, <1>6, <1>7, <1>8, <1>9, <1>10, <1>11, <1>12 DEF Next, Answers

\* For any number of refreshes, scans and failures: as long as no two refreshes of a
\* setup overlapped, neither the inventory nor the switch goes back.
THEOREM NeverGoesBackHolds == Spec => NeverGoesBack
<1>1. Init => InTurn
  BY DEF Init, InTurn, Abreast, InInventory, Idle, Unpublished, None, NoReading
<1>2. TypeOK /\ Crossing /\ Crossing' /\ InTurn /\ [Next]_vars => InTurn'
  BY InTurnStep
<1>3. TypeOK /\ TypeOK' /\ InTurn /\ [Next]_vars =>
        [/\ setup = "loaded" /\ setup' = "loaded" /\ ~hist'.overlap
         => /\ view.result <= view'.result
            /\ view'.turn # NoReading => view.turn <= view'.turn]_vars
  <2> SUFFICES ASSUME TypeOK, TypeOK', InTurn, [Next]_vars,
                      setup = "loaded", setup' = "loaded", ~hist'.overlap
               PROVE  /\ view.result <= view'.result
                      /\ view'.turn # NoReading => view.turn <= view'.turn
    OBVIOUS
  <2>0. view.result \in Nat /\ view.turn \in Int
    BY DEF TypeOK, NoReading
  <2>1. ASSUME view'.result = view.result, view'.turn = view.turn
        PROVE  /\ view.result <= view'.result
               /\ view'.turn # NoReading => view.turn <= view'.turn
    BY <2>0, <2>1
  <2>2. ASSUME NEW r \in Refresh, Finish(r), task[r].authorized
        PROVE  /\ view.result <= view'.result
               /\ view'.turn # NoReading => view.turn <= view'.turn
    <3>1. /\ view'.result = task[r].result /\ view'.turn = task[r].turn /\ hist'.overlap = hist.overlap
          /\ task[r].phase = "status_answered"
      BY <2>2 DEF Finish, Reported, TypeOK, History
    <3> QED BY <3>1 DEF InTurn, Abreast
  <2>3. ASSUME NEW r \in Refresh, Failed(r)
        PROVE  view'.result = view.result /\ view'.turn = view.turn
    BY <2>3 DEF Failed, TypeOK
  <2>4. ASSUME NEW r \in Refresh, Receive(r)
        PROVE  view'.result = view.result /\ view'.turn = view.turn
    BY <2>3, <2>4 DEF Receive
  <2>5. ASSUME NEW r \in Refresh, Finish(r), ~task[r].authorized
        PROVE  view'.result = view.result /\ view'.turn = view.turn
    BY <2>3, <2>5 DEF Finish
  <2>6. ASSUME NEW r \in Refresh, Answers(r) \/ RequestFails(r) \/ StatusFails(r)
        PROVE  view' = view
    BY <2>6 DEF Answers, AgentAnswers, AgentReports, RequestFails, StatusFails, Answered, StatusAnswered
  <2>7. \/ \E r \in Refresh : Answers(r) \/ RequestFails(r) \/ Receive(r) \/ StatusFails(r) \/ Finish(r)
        \/ view' = view
    BY DEF Next, PollStarts, EditOptions, DeviceRegistered, SetSchedule, Switched, SetUp, Unload,
           AgentScans, AgentTurns, vars
  <2> QED BY <2>1, <2>2, <2>4, <2>5, <2>6, <2>7
<1> QED BY <1>1, <1>2, <1>3, TypeCorrect, CrossingAlways, PTL DEF Spec, NeverGoesBack
=============================================================================
