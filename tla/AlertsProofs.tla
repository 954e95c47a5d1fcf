----------------------------- MODULE AlertsProofs -----------------------------
(***************************************************************************)
(* Proofs about Alerts: that an engine runs whole or is stopped and quiet, *)
(* whatever fails while it starts and stops, that only races duplicate an  *)
(* alert, and the type invariant, for any number of tenants, slots,        *)
(* handlers and faults.                                                    *)
(***************************************************************************)
EXTENDS Alerts, FiniteSetTheorems, TLAPS

-----------------------------------------------------------------------------
(* The engine.  AllOrNothing speaks of the ends of start() and stop(); on  *)
(* the way, the agents before the one awaited have been started, those     *)
(* behind it stopped.                                                      *)

\* The state tells the call in progress.
CallTold ==
    /\ state = "starting" <=> call.op = "start"
    /\ state = "stopping" <=> call.op = "stop"
    /\ call.op = "start" => call.at # 0

\* Connection and statistics are given up together.
OneLife == redis <=> stats

\* What start() has done so far, and what stop() has.
UnderWay ==
    /\ call.op = "start" =>
         \A i \in 1 .. call.at - 1 : /\ agent[Order[i]] = "running"
                                     /\ Order[i] \in Subscribers => Order[i] \in listening
    /\ call.op = "stop" => \A i \in call.at + 1 .. 4 : agent[Order[i]] = "null"

\* As long as no agent's stop() threw, no agent is in a field that start() has yet
\* to write.
FieldsFree ==
    ~threw =>
      /\ call.op = "none" /\ state # "running" => \A a \in Agents : agent[a] = "null"
      /\ call.op = "start" => \A i \in call.at + 1 .. 4 : agent[Order[i]] = "null"

EngineInv == EngineTypeOK /\ CallTold /\ OneLife /\ UnderWay /\ FieldsFree /\ AllOrNothing

LEMMA OrderFacts ==
    /\ Order[1] = "watcher" /\ Order[2] = "sync" /\ Order[3] = "guardian" /\ Order[4] = "alert"
    /\ \A i \in 1 .. 4 : Order[i] \in Agents
    /\ \A i, j \in 1 .. 4 : Order[i] = Order[j] => i = j
    /\ \A a \in Agents : \E i \in 1 .. 4 : Order[i] = a
BY DEF Order, Agents

LEMMA EngineInitInv ==
    ASSUME EngineInit
    PROVE  EngineInv
<1>1. /\ call.op = "none" /\ call \in [op : {"none", "start", "stop"}, at : 0 .. 4]
      /\ state = "stopped" /\ \A a \in Agents : agent[a] = "null"
      /\ redis /\ stats /\ listening = {} /\ orphans = {}
  BY DEF EngineInit, NoCall
<1>2. EngineTypeOK
  <2>1. /\ agent \in [Agents -> {"null", "starting", "running", "stopping", "error"}]
        /\ threw = FALSE /\ agentFaults \in 0 .. MaxAgentFaults /\ calls \in 0 .. MaxCalls
    BY LifecycleAssumption DEF EngineInit
  <2>2. QED
    BY <1>1, <2>1 DEF EngineTypeOK
<1>3. FieldsFree /\ AllOrNothing
  BY <1>1 DEF FieldsFree, AllOrNothing
<1>4. QED
  BY <1>1, <1>2, <1>3 DEF EngineInv, CallTold, OneLife, UnderWay

LEMMA StartInv ==
    ASSUME EngineInv, Start
    PROVE  EngineInv'
<1>1. /\ state' = "starting" /\ call' = [op |-> "start", at |-> 1]
      /\ agent' = [agent EXCEPT !["watcher"] = "starting"]
      /\ orphans' = Overwritten("watcher") /\ UNCHANGED <<redis, stats, listening, threw, agentFaults>>
      /\ calls' = calls + 1 /\ calls < MaxCalls /\ call.op = "none" /\ state # "running"
  BY DEF Start, Called
<1>2. EngineTypeOK'
  <2>1. call' \in [op : {"none", "start", "stop"}, at : 0 .. 4] /\ calls' \in 0 .. MaxCalls
    BY <1>1, LifecycleAssumption DEF EngineInv, EngineTypeOK
  <2>2. agent' \in [Agents -> {"null", "starting", "running", "stopping", "error"}]
    BY <1>1 DEF EngineInv, EngineTypeOK
  <2>3. orphans' \subseteq Agents
    BY <1>1 DEF Overwritten, Agents, EngineInv, EngineTypeOK
  <2>4. QED
    BY <1>1, <2>1, <2>2, <2>3 DEF EngineInv, EngineTypeOK
\* Before the call every field was null, unless an agent's stop() threw.
<1>3. ASSUME ~threw
      PROVE  orphans' = {} /\ \A i \in 2 .. 4 : agent'[Order[i]] = "null"
  <2>1. orphans = {} /\ \A a \in Agents : agent[a] = "null"
    BY <1>1, <1>3 DEF EngineInv, FieldsFree, AllOrNothing
  <2>2. orphans' = {}
    BY <1>1, <2>1 DEF Overwritten, Agents
  <2>3. \A i \in 2 .. 4 : Order[i] \in Agents /\ Order[i] # "watcher"
    BY OrderFacts
  <2>4. QED
    BY <1>1, <2>1, <2>2, <2>3 DEF EngineInv, EngineTypeOK
<1>4. call'.op = "start" /\ call'.at = 1 /\ state' = "starting" /\ threw' = threw
  BY <1>1
<1>5. FieldsFree' /\ AllOrNothing'
  BY <1>3, <1>4 DEF FieldsFree, AllOrNothing
<1>6. QED
  BY <1>1, <1>2, <1>4, <1>5 DEF EngineInv, CallTold, OneLife, UnderWay

LEMMA AgentStartedInv ==
    ASSUME EngineInv, NEW a \in Agents, AgentStarted(a)
    PROVE  EngineInv'
<1>1. /\ call.op = "start" /\ call.at \in 1 .. 4 /\ Order[call.at] = a
      /\ state = "starting"
      /\ a \in Schedulers => redis
      /\ listening' = listening \cup ({a} \cap Subscribers)
      /\ UNCHANGED <<redis, stats, threw, agentFaults, calls>>
  BY DEF AgentStarted, Awaits, Subscribed, EngineInv, EngineTypeOK, CallTold
<1>2. /\ OneLife' /\ listening' \subseteq Subscribers
  BY <1>1 DEF EngineInv, OneLife, EngineTypeOK
<1>3. CASE call.at = 4
  <2>1. /\ state' = "running" /\ call' = NoCall /\ agent' = [agent EXCEPT ![a] = "running"]
        /\ orphans' = orphans
    BY <1>3 DEF AgentStarted
  <2>2. EngineTypeOK'
    BY <1>1, <1>2, <2>1 DEF EngineInv, EngineTypeOK, NoCall
  <2>3. \A b \in Agents : agent'[b] = "running"
    BY <1>1, <1>3, <2>1, OrderFacts DEF EngineInv, EngineTypeOK, UnderWay
  <2>4. listening' = Subscribers
    <3>1. "sync" \in listening
      BY <1>1, <1>3, OrderFacts DEF EngineInv, UnderWay, Subscribers
    <3>2. QED
      BY <1>1, <1>2, <1>3, <3>1, OrderFacts DEF Subscribers
  <2>5. redis /\ stats
    <3>1. a \in Schedulers
      BY <1>1, <1>3, OrderFacts DEF Schedulers
    <3>2. QED
      BY <1>1, <3>1 DEF EngineInv, OneLife
  <2>6. QED
    BY <1>1, <1>2, <2>1, <2>2, <2>3, <2>4, <2>5
    DEF EngineInv, CallTold, UnderWay, FieldsFree, AllOrNothing, NoCall
<1>4. CASE call.at # 4
  <2>1. /\ call' = [call EXCEPT !.at = @ + 1] /\ state' = state
        /\ agent' = [agent EXCEPT ![a] = "running", ![Order[call.at + 1]] = "starting"]
        /\ orphans' = Overwritten(Order[call.at + 1])
    BY <1>4 DEF AgentStarted
  <2>2. call.at + 1 \in 2 .. 4
    BY <1>1, <1>4
  <2>3. /\ call' \in [op : {"none", "start", "stop"}, at : 0 .. 4]
        /\ call'.op = "start" /\ call'.at = call.at + 1
    BY <1>1, <2>1, <2>2 DEF EngineInv, EngineTypeOK
  <2>4. EngineTypeOK'
    <3>1. orphans' \subseteq Agents
      BY <2>1, <2>2, OrderFacts DEF Overwritten, EngineInv, EngineTypeOK
    <3>2. QED
      BY <1>1, <1>2, <2>1, <2>3, <3>1, OrderFacts DEF EngineInv, EngineTypeOK
  <2>5. UnderWay'
    <3>1. SUFFICES ASSUME NEW i \in 1 .. call.at
                   PROVE  /\ agent'[Order[i]] = "running"
                          /\ Order[i] \in Subscribers => Order[i] \in listening'
      <4>1. call'.at - 1 = call.at /\ call'.op # "stop"
        BY <1>1, <2>3
      <4>2. QED
        BY <2>3, <4>1 DEF UnderWay
    <3>2. i \in 1 .. 4 /\ i # call.at + 1 /\ Order[i] # Order[call.at + 1] /\ Order[i] \in Agents
      BY <1>1, <2>2, OrderFacts
    <3>3. CASE i = call.at
      BY <1>1, <2>1, <3>2, <3>3 DEF EngineInv, EngineTypeOK
    <3>4. CASE i # call.at
      <4>1. i \in 1 .. call.at - 1
        BY <1>1, <3>4
      <4>2. agent[Order[i]] = "running" /\ (Order[i] \in Subscribers => Order[i] \in listening)
        BY <1>1, <4>1 DEF EngineInv, UnderWay
      <4>3. QED
        BY <1>1, <2>1, <3>2, <4>2 DEF EngineInv, EngineTypeOK
    <3>5. QED
      BY <3>3, <3>4
  <2>6. ASSUME ~threw
        PROVE  orphans' = {} /\ \A i \in call.at + 2 .. 4 : agent'[Order[i]] = "null"
    <3>1. orphans = {} /\ \A i \in call.at + 1 .. 4 : agent[Order[i]] = "null"
      BY <1>1, <2>6 DEF EngineInv, FieldsFree, AllOrNothing
    <3>2. orphans' = {}
      BY <2>1, <2>2, <3>1 DEF Overwritten
    <3>3. \A i \in call.at + 2 .. 4 : /\ i \in 1 .. 4 /\ i # call.at /\ i # call.at + 1
                                        /\ i \in call.at + 1 .. 4
      BY <1>1, <2>2
    <3>4. \A i \in call.at + 2 .. 4 : Order[i] # a /\ Order[i] # Order[call.at + 1]
      BY <1>1, <2>2, <3>3, OrderFacts
    <3>5. \A i \in call.at + 2 .. 4 : agent'[Order[i]] = agent[Order[i]]
      BY <2>1, <3>3, <3>4, OrderFacts DEF EngineInv, EngineTypeOK
    <3>6. QED
      BY <3>1, <3>2, <3>3, <3>5
  <2>7. call'.at + 1 = call.at + 2 /\ threw' = threw /\ state' = "starting"
    BY <1>1, <2>1, <2>2, <2>3
  <2>8. FieldsFree' /\ AllOrNothing'
    BY <2>3, <2>6, <2>7 DEF FieldsFree, AllOrNothing
  <2>9. QED
    BY <1>1, <1>2, <2>1, <2>3, <2>4, <2>5, <2>8 DEF EngineInv, CallTold
<1>5. QED
  BY <1>3, <1>4

LEMMA AgentStartFailsInv ==
    ASSUME EngineInv, NEW a \in Agents, AgentStartFails(a)
    PROVE  EngineInv'
<1>1. /\ state' = "stopping" /\ call' = [op |-> "stop", at |-> 4]
      /\ agent' = [agent EXCEPT ![a] = "error"]
      /\ listening' = listening \cup ({a} \cap Subscribers)
      /\ UNCHANGED <<redis, stats, orphans, threw, calls>>
      /\ agentFaults' = agentFaults \/ (agentFaults < MaxAgentFaults /\ agentFaults' = agentFaults + 1)
  BY DEF AgentStartFails, Faulty, Subscribed
<1>2. EngineTypeOK'
  BY <1>1, LifecycleAssumption DEF EngineInv, EngineTypeOK
<1>3. QED
  BY <1>1, <1>2 DEF EngineInv, CallTold, OneLife, UnderWay, FieldsFree, AllOrNothing

LEMMA StopInv ==
    ASSUME EngineInv, Stop
    PROVE  EngineInv'
<1>1. /\ state' = "stopping" /\ call' = [op |-> "stop", at |-> 4]
      /\ UNCHANGED <<agent, redis, stats, listening, orphans, threw, agentFaults>>
      /\ calls' = calls + 1 /\ calls < MaxCalls
  BY DEF Stop, Called
<1>2. EngineTypeOK'
  BY <1>1, LifecycleAssumption DEF EngineInv, EngineTypeOK
<1>3. QED
  BY <1>1, <1>2 DEF EngineInv, CallTold, OneLife, UnderWay, FieldsFree, AllOrNothing

LEMMA AgentStoppedInv ==
    ASSUME EngineInv, NEW a \in Agents, AgentStopped(a)
    PROVE  EngineInv'
<1>1. /\ call.op = "stop" /\ call.at \in 1 .. 4 /\ Order[call.at] = a /\ state = "stopping"
      /\ agent' = [agent EXCEPT ![a] = "null"] /\ call' = [call EXCEPT !.at = @ - 1]
      /\ UNCHANGED <<state, redis, stats, listening, orphans, threw, agentFaults, calls>>
  BY DEF AgentStopped, Awaits, EngineInv, EngineTypeOK, CallTold
<1>2. /\ call' \in [op : {"none", "start", "stop"}, at : 0 .. 4]
      /\ call'.op = "stop" /\ call'.at = call.at - 1
  BY <1>1 DEF EngineInv, EngineTypeOK
<1>3. EngineTypeOK'
  BY <1>1, <1>2 DEF EngineInv, EngineTypeOK
<1>4. UnderWay'
  <2>1. SUFFICES ASSUME NEW i \in call.at .. 4
                 PROVE  agent'[Order[i]] = "null"
    BY <1>1, <1>2 DEF UnderWay
  <2>2. CASE i = call.at
    BY <1>1, <2>2 DEF EngineInv, EngineTypeOK
  <2>3. CASE i # call.at
    <3>1. i \in call.at + 1 .. 4 /\ i \in 1 .. 4
      BY <1>1, <2>3
    <3>2. agent[Order[i]] = "null" /\ Order[i] \in Agents
      BY <1>1, <3>1, OrderFacts DEF EngineInv, UnderWay
    <3>3. QED
      BY <1>1, <3>2 DEF EngineInv, EngineTypeOK
  <2>4. QED
    BY <2>2, <2>3
<1>5. QED
  BY <1>1, <1>2, <1>3, <1>4 DEF EngineInv, CallTold, OneLife, FieldsFree, AllOrNothing

LEMMA AgentStopFailsInv ==
    ASSUME EngineInv, NEW a \in Agents, AgentStopFails(a)
    PROVE  EngineInv'
<1>1. /\ state' = "error" /\ call' = NoCall /\ agent' = [agent EXCEPT ![a] = "error"]
      /\ threw' = TRUE /\ UNCHANGED <<redis, stats, listening, orphans, calls>>
      /\ agentFaults' = agentFaults \/ (agentFaults < MaxAgentFaults /\ agentFaults' = agentFaults + 1)
  BY DEF AgentStopFails, Faulty
<1>2. EngineTypeOK'
  BY <1>1, LifecycleAssumption DEF EngineInv, EngineTypeOK, NoCall
<1>3. QED
  BY <1>1, <1>2 DEF EngineInv, CallTold, OneLife, UnderWay, FieldsFree, AllOrNothing, NoCall

LEMMA QuitRedisInv ==
    ASSUME EngineInv, QuitRedis
    PROVE  EngineInv'
<1>1. /\ call = [op |-> "stop", at |-> 0] /\ call' = NoCall
      /\ UNCHANGED <<agent, orphans, threw, agentFaults, calls>>
  BY DEF QuitRedis
<1>2. CASE redis
  <2>1. redis' = FALSE /\ stats' = FALSE /\ listening' = {} /\ state' = "stopped"
    BY <1>2 DEF QuitRedis
  <2>2. \A a \in Agents : agent[a] = "null"
    BY <1>1, OrderFacts DEF EngineInv, UnderWay
  <2>3. EngineTypeOK'
    BY <1>1, <2>1 DEF EngineInv, EngineTypeOK, NoCall
  <2>4. QED
    BY <1>1, <2>1, <2>2, <2>3 DEF EngineInv, CallTold, OneLife, UnderWay, FieldsFree, AllOrNothing, NoCall
<1>3. CASE ~redis
  <2>1. state' = "error" /\ UNCHANGED <<redis, stats, listening>>
    BY <1>3 DEF QuitRedis
  <2>2. EngineTypeOK'
    BY <1>1, <2>1 DEF EngineInv, EngineTypeOK, NoCall
  <2>3. \A a \in Agents : agent[a] = "null"
    BY <1>1, OrderFacts DEF EngineInv, UnderWay
  <2>4. QED
    BY <1>1, <2>1, <2>2, <2>3 DEF EngineInv, CallTold, OneLife, UnderWay, FieldsFree, AllOrNothing, NoCall
<1>4. QED
  BY <1>2, <1>3

\* A new process: the engine is made anew.
LEMMA RestartEngineInv ==
    ASSUME EngineInv, Restart
    PROVE  EngineInv'
<1>1. /\ call'.op = "none" /\ call' \in [op : {"none", "start", "stop"}, at : 0 .. 4]
      /\ state' = "stopped" /\ \A a \in Agents : agent'[a] = "null"
      /\ redis' /\ stats' /\ listening' = {} /\ orphans' = {}
  BY DEF Restart, NoCall
<1>2. EngineTypeOK'
  BY <1>1 DEF Restart, EngineInv, EngineTypeOK
<1>3. FieldsFree' /\ AllOrNothing'
  BY <1>1 DEF FieldsFree, AllOrNothing
<1>4. QED
  BY <1>1, <1>2, <1>3 DEF EngineInv, CallTold, OneLife, UnderWay

LEMMA EngineNextInv ==
    ASSUME EngineInv, EngineNext
    PROVE  EngineInv'
<1>1. CASE Start
  BY <1>1, StartInv
<1>2. CASE Stop
  BY <1>2, StopInv
<1>3. CASE QuitRedis
  BY <1>3, QuitRedisInv
<1>4. ASSUME NEW a \in Agents,
             AgentStarted(a) \/ AgentStartFails(a) \/ AgentStopped(a) \/ AgentStopFails(a)
      PROVE  EngineInv'
  BY <1>4, AgentStartedInv, AgentStartFailsInv, AgentStoppedInv, AgentStopFailsInv
<1>5. QED
  BY <1>1, <1>2, <1>3, <1>4 DEF EngineNext

LEMMA EngineUnchanged ==
    ASSUME EngineInv, UNCHANGED engineVars
    PROVE  EngineInv'
BY DEF engineVars, EngineInv, EngineTypeOK, CallTold, OneLife, UnderWay, FieldsFree, AllOrNothing

-----------------------------------------------------------------------------
(* The alerts.  A runner that found no alert is counted as one from then   *)
(* on, so that inserting it changes nothing.                               *)

\* What the steps of a runner rely on: the fields of its record, and that what
\* it looks for or inserts has a place in the table.
Shaped(k) ==
    /\ DOMAIN k = {"pc", "phase", "tenants", "tenant", "todo", "subject", "job"}
    /\ k.todo \subseteq Subjects
    /\ k.pc \in {"exists", "create"} => k.subject \in Subjects

RaceInv ==
    /\ unread \in [Subjects -> Nat] /\ read \in [Subjects -> Nat] /\ byHand \in Nat
    /\ DOMAIN task = Runners /\ \A r \in Runners : Shaped(task[r])
    /\ DuplicatesAreRaces

LEMMA RunnersFinite ==
    IsFiniteSet(Runners) /\ Cardinality(Runners) \in Nat
<1>1. IsFiniteSet(AgentSlots \cup BackendSlots)
  BY FS_Union, RunnersAssumption
<1>2. IsFiniteSet(Runners)
  BY <1>1, FS_Union, RunnersAssumption DEF Runners
<1>3. QED
  BY <1>2, FS_CardinalityType

LEMMA FewerThanRunners ==
    ASSUME NEW S \in SUBSET Runners
    PROVE  IsFiniteSet(S) /\ Cardinality(S) \in Nat /\ Cardinality(S) <= Cardinality(Runners)
BY RunnersFinite, FS_Subset, FS_CardinalityType

\* A step that leaves no subject with more alerts, written or about to be, but
\* by hand.
LEMMA NoMoreAlerts ==
    ASSUME RaceInv, unread' \in [Subjects -> Nat], byHand' \in Nat,
           \A s \in Subjects : Creating(s)' \subseteq Creating(s),
           \A s \in Subjects : unread'[s] + byHand <= unread[s] + byHand'
    PROVE  DuplicatesAreRaces'
<1>1. SUFFICES ASSUME NEW s \in Subjects
               PROVE  unread'[s] + Cardinality(Creating(s)') <= Cardinality(Runners) + byHand'
  BY DEF DuplicatesAreRaces
<1>2. Creating(s) \subseteq Runners
  BY DEF Creating
<1>3. IsFiniteSet(Creating(s)) /\ Cardinality(Creating(s)) \in Nat
  BY <1>2, FewerThanRunners
<1>4. Cardinality(Creating(s)') <= Cardinality(Creating(s)) /\ Cardinality(Creating(s)') \in Nat
  BY <1>3, FS_Subset, FS_CardinalityType
<1>5. unread[s] + Cardinality(Creating(s)) <= Cardinality(Runners) + byHand
  BY DEF RaceInv, DuplicatesAreRaces
<1>6. /\ unread[s] \in Nat /\ unread'[s] \in Nat /\ byHand \in Nat
      /\ unread'[s] + byHand <= unread[s] + byHand'
  BY DEF RaceInv
<1>7. QED
  BY <1>3, <1>4, <1>5, <1>6, RunnersFinite

\* A runner goes on and is not about to insert.
LEMMA BecomesKeeps ==
    ASSUME RaceInv, NEW r \in Runners, NEW k, Shaped(k), k.pc # "create", Become(r, k),
           UNCHANGED <<unread, read, byHand>>
    PROVE  RaceInv'
<1>1. \A q \in Runners : task'[q] = IF q = r THEN k ELSE task[q]
  BY DEF Become, RaceInv
<1>2. DOMAIN task' = Runners /\ \A q \in Runners : Shaped(task'[q])
  BY <1>1 DEF Become, RaceInv
<1>3. \A s \in Subjects : Creating(s)' \subseteq Creating(s)
  BY <1>1 DEF Creating
<1>4. unread \in [Subjects -> Nat] /\ read \in [Subjects -> Nat] /\ byHand \in Nat
  BY DEF RaceInv
<1>5. DuplicatesAreRaces'
  BY <1>3, <1>4, NoMoreAlerts
<1>6. QED
  BY <1>2, <1>4, <1>5 DEF RaceInv

\* Nobody is about to insert.
LEMMA AllIdle ==
    ASSUME RaceInv, task' = [r \in Runners |-> Idle], UNCHANGED <<unread, read, byHand>>
    PROVE  RaceInv'
<1>1. DOMAIN task' = Runners /\ \A q \in Runners : task'[q] = Idle
  OBVIOUS
<1>2. Shaped(Idle) /\ Idle.pc = "idle"
  BY DEF Shaped, Idle
<1>3. \A s \in Subjects : Creating(s)' \subseteq Creating(s)
  BY <1>1, <1>2 DEF Creating
<1>4. unread \in [Subjects -> Nat] /\ read \in [Subjects -> Nat] /\ byHand \in Nat
  BY DEF RaceInv
<1>5. DuplicatesAreRaces'
  BY <1>3, <1>4, NoMoreAlerts
<1>6. QED
  BY <1>1, <1>2, <1>4, <1>5 DEF RaceInv

\* The tasks stay, and the alerts of a subject grow by hand only.
LEMMA TableKeeps ==
    ASSUME RaceInv, UNCHANGED task, unread' \in [Subjects -> Nat], read' \in [Subjects -> Nat],
           byHand' \in Nat, \A s \in Subjects : unread'[s] + byHand <= unread[s] + byHand'
    PROVE  RaceInv'
<1>1. \A s \in Subjects : Creating(s)' \subseteq Creating(s)
  BY DEF Creating
<1>2. DuplicatesAreRaces'
  BY <1>1, NoMoreAlerts
<1>3. QED
  BY <1>2 DEF RaceInv

-----------------------------------------------------------------------------
(* What becomes of a runner *)

LEMMA ChannelsHavePlace ==
    ASSUME NEW t
    PROVE  ChannelsOf(t) \subseteq Subjects /\ \A r : LowProducts(r, t) \subseteq Subjects
BY DEF ChannelsOf, LowProducts, Subjects

LEMMA SettledShaped ==
    ASSUME NEW k, Shaped(k), k.pc # "create"
    PROVE  Shaped(Settled(k)) /\ Settled(k).pc # "create"
<1> DEFINE channels == ChannelsOf(k.tenant)
<1>1. channels \subseteq Subjects
  BY ChannelsHavePlace
<1>2. \/ Settled(k) = k \/ Settled(k) = [k EXCEPT !.phase = "channels", !.todo = channels]
      \/ Settled(k) = Idle
      \/ Settled(k) = [k EXCEPT !.pc = "tenant", !.tenant = NoTenant, !.phase = "low"]
  BY DEF Settled
<1> HIDE DEF channels
<1>3. CASE Settled(k) = [k EXCEPT !.phase = "channels", !.todo = channels]
  BY <1>1, <1>3 DEF Shaped
<1>4. CASE Settled(k) = Idle
  BY <1>4 DEF Shaped, Idle
<1>5. CASE Settled(k) = [k EXCEPT !.pc = "tenant", !.tenant = NoTenant, !.phase = "low"]
  BY <1>5 DEF Shaped
<1>6. QED
  BY <1>2, <1>3, <1>4, <1>5

LEMMA DoneShaped ==
    ASSUME NEW r, NEW k, Shaped(k)
    PROVE  Shaped(Done(r, k)) /\ Done(r, k).pc # "create"
<1> DEFINE next == [k EXCEPT !.pc = "pick", !.subject = NoSubject]
<1>1. Shaped(next) /\ next.pc = "pick"
  BY DEF Shaped
<1>2. Done(r, k) = Idle \/ Done(r, k) = Settled(next)
  BY DEF Done
<1>3. Shaped(Idle) /\ Idle.pc = "idle"
  BY DEF Shaped, Idle
<1> HIDE DEF next
<1>4. Shaped(Settled(next)) /\ Settled(next).pc # "create"
  BY <1>1, SettledShaped
<1>5. QED
  BY <1>2, <1>3, <1>4

-----------------------------------------------------------------------------
(* The steps of a runner *)

LEMMA TakePeriodicInv ==
    ASSUME RaceInv, NEW r \in Runners, TakePeriodic(r)
    PROVE  RaceInv'
<1> DEFINE k == [Idle EXCEPT !.pc = "tenant", !.tenants = Tenants]
<1>1. Shaped(k) /\ k.pc = "tenant"
  BY DEF Shaped, Idle
<1>2. Become(r, k) /\ UNCHANGED <<unread, read, byHand>>
  BY DEF TakePeriodic
<1> HIDE DEF k
<1>3. QED
  BY <1>1, <1>2, BecomesKeeps

LEMMA TakeJobInv ==
    ASSUME RaceInv, NEW r \in Runners, TakeJob(r)
    PROVE  RaceInv'
<1> DEFINE k == [Idle EXCEPT !.pc = "tenant", !.tenants = {Head(jobs).tenant},
                             !.job = Head(jobs)]
<1>1. Shaped(k) /\ k.pc = "tenant"
  BY DEF Shaped, Idle
<1>2. Become(r, k) /\ UNCHANGED <<unread, read, byHand>>
  BY DEF TakeJob
<1> HIDE DEF k
<1>3. QED
  BY <1>1, <1>2, BecomesKeeps

LEMMA CheckTenantInv ==
    ASSUME RaceInv, NEW r \in Runners, CheckTenant(r)
    PROVE  RaceInv'
<1> DEFINE channelsOnly == task[r].job.check = "channel_status"
           todo(t) == IF channelsOnly THEN ChannelsOf(t) ELSE LowProducts(r, t)
           phase == IF channelsOnly THEN "channels" ELSE "low"
           k(t) == [task[r] EXCEPT !.pc = "pick", !.tenant = t, !.tenants = @ \ {t},
                                   !.phase = phase, !.todo = todo(t)]
<1>1. PICK t \in task[r].tenants : Become(r, Settled(k(t)))
  BY DEF CheckTenant
<1>2. UNCHANGED <<unread, read, byHand>>
  BY DEF CheckTenant, Silent
<1>3. todo(t) \subseteq Subjects
  BY ChannelsHavePlace
<1>4. Shaped(task[r])
  BY DEF RaceInv
<1> HIDE DEF todo, phase
<1>5. Shaped(k(t)) /\ k(t).pc = "pick"
  BY <1>3, <1>4 DEF Shaped
<1> HIDE DEF k
<1>6. Shaped(Settled(k(t))) /\ Settled(k(t)).pc # "create"
  BY <1>5, SettledShaped
<1>7. QED
  BY <1>1, <1>2, <1>6, BecomesKeeps

LEMMA CheckHealthInv ==
    ASSUME RaceInv, NEW r \in Runners, CheckHealth(r)
    PROVE  RaceInv'
<1> DEFINE rest(s) == [task[r] EXCEPT !.todo = @ \ {s}]
           look(s) == [rest(s) EXCEPT !.pc = "exists", !.subject = s]
<1>1. PICK s \in task[r].todo :
        Become(r, IF up[s.of] THEN Done(r, rest(s)) ELSE look(s))
  BY DEF CheckHealth
<1>2. UNCHANGED <<unread, read, byHand>>
  BY DEF CheckHealth, Silent
<1>3. Shaped(task[r])
  BY DEF RaceInv
<1>4. Shaped(rest(s))
  <2>1. rest(s).todo = task[r].todo \ {s} /\ rest(s).pc = task[r].pc
        /\ rest(s).subject = task[r].subject /\ DOMAIN rest(s) = DOMAIN task[r]
    BY <1>3 DEF Shaped
  <2>2. QED
    BY <1>3, <2>1 DEF Shaped
<1>5. Shaped(look(s)) /\ look(s).pc = "exists"
  BY <1>1, <1>3, <1>4 DEF Shaped
<1> HIDE DEF rest, look
<1>6. Shaped(Done(r, rest(s))) /\ Done(r, rest(s)).pc # "create"
  BY <1>4, DoneShaped
<1>7. QED
  BY <1>1, <1>2, <1>5, <1>6, BecomesKeeps

LEMMA LookForAlertInv ==
    ASSUME RaceInv, NEW r \in Runners, LookForAlert(r)
    PROVE  RaceInv'
<1> DEFINE rest(s) == [task[r] EXCEPT !.todo = @ \ {s}]
           make(s) == [rest(s) EXCEPT !.pc = "create", !.subject = s]
<1>1. PICK s \in Sought(r) :
        Become(r, IF AlertExists(s) THEN Done(r, rest(s)) ELSE make(s))
  BY DEF LookForAlert
<1>2. UNCHANGED <<unread, read, byHand>>
  BY DEF LookForAlert, Silent
<1>3. Shaped(task[r])
  BY DEF RaceInv
<1>4. s \in Subjects
  BY <1>1, <1>3 DEF Sought, Shaped
<1>5. Shaped(rest(s))
  <2>1. rest(s).todo = task[r].todo \ {s} /\ rest(s).pc = task[r].pc
        /\ rest(s).subject = task[r].subject /\ DOMAIN rest(s) = DOMAIN task[r]
    BY <1>3 DEF Shaped
  <2>2. QED
    BY <1>3, <2>1 DEF Shaped
<1>6. Shaped(make(s)) /\ make(s).pc = "create" /\ make(s).subject = s
  BY <1>3, <1>4, <1>5 DEF Shaped
<1> HIDE DEF rest, make
<1>7. CASE AlertExists(s)
  <2>1. Shaped(Done(r, rest(s))) /\ Done(r, rest(s)).pc # "create"
    BY <1>5, DoneShaped
  <2>2. QED
    BY <1>1, <1>2, <1>7, <2>1, BecomesKeeps
<1>8. CASE ~AlertExists(s)
  <2>1. \A q \in Runners : task'[q] = IF q = r THEN make(s) ELSE task[q]
    BY <1>1, <1>8 DEF Become, RaceInv
  <2>2. DOMAIN task' = Runners /\ \A q \in Runners : Shaped(task'[q])
    BY <1>1, <1>6, <1>8, <2>1 DEF Become, RaceInv
  <2>3. unread \in [Subjects -> Nat] /\ read \in [Subjects -> Nat] /\ byHand \in Nat
    BY DEF RaceInv
  <2>4. ASSUME NEW x \in Subjects
        PROVE  unread[x] + Cardinality(Creating(x)') <= Cardinality(Runners) + byHand
    <3>1. Creating(x)' \subseteq Runners
      BY DEF Creating
    <3>2. /\ IsFiniteSet(Creating(x)') /\ Cardinality(Creating(x)') \in Nat
          /\ Cardinality(Creating(x)') <= Cardinality(Runners)
      BY <3>1, FewerThanRunners
    <3>3. CASE x = s
      <4>1. unread[x] = 0
        BY <1>8, <2>3, <3>3 DEF AlertExists
      <4>2. QED
        BY <2>3, <3>2, <4>1, RunnersFinite
    <3>4. CASE x # s
      <4>1. Creating(x)' \subseteq Creating(x)
        BY <1>6, <2>1, <3>4 DEF Creating
      <4>2. IsFiniteSet(Creating(x)) /\ Cardinality(Creating(x)) \in Nat
        <5>1. Creating(x) \subseteq Runners
          BY DEF Creating
        <5>2. QED
          BY <5>1, FewerThanRunners
      <4>3. Cardinality(Creating(x)') <= Cardinality(Creating(x))
        BY <4>1, <4>2, FS_Subset
      <4>4. unread[x] + Cardinality(Creating(x)) <= Cardinality(Runners) + byHand
        BY DEF RaceInv, DuplicatesAreRaces
      <4>5. unread[x] \in Nat
        BY <2>3
      <4>6. QED
        BY <2>3, <3>2, <4>2, <4>3, <4>4, <4>5, RunnersFinite
    <3>5. QED
      BY <3>3, <3>4
  <2>5. DuplicatesAreRaces'
    BY <1>2, <2>4 DEF DuplicatesAreRaces
  <2>6. QED
    BY <1>2, <2>2, <2>3, <2>5 DEF RaceInv
<1>9. QED
  BY <1>7, <1>8

LEMMA InsertAlertInv ==
    ASSUME RaceInv, NEW r \in Runners, InsertAlert(r)
    PROVE  RaceInv'
<1> DEFINE s == task[r].subject
           k == Done(r, task[r])
<1>1. /\ task[r].pc = "create" /\ unread' = [unread EXCEPT ![s] = @ + 1] /\ Become(r, k)
      /\ UNCHANGED <<read, byHand>>
  BY DEF InsertAlert, CreateAlert
<1>2. Shaped(task[r]) /\ s \in Subjects
  BY <1>1 DEF RaceInv, Shaped
<1>3. Shaped(k) /\ k.pc # "create"
  BY <1>2, DoneShaped
<1>4. s = task[r].subject
  OBVIOUS
<1> HIDE DEF s, k
<1>5. \A q \in Runners : task'[q] = IF q = r THEN k ELSE task[q]
  BY <1>1 DEF Become, RaceInv
<1>6. DOMAIN task' = Runners /\ \A q \in Runners : Shaped(task'[q])
  BY <1>1, <1>3, <1>5 DEF Become, RaceInv
<1>7. unread \in [Subjects -> Nat] /\ read \in [Subjects -> Nat] /\ byHand \in Nat
  BY DEF RaceInv
<1>8. unread' \in [Subjects -> Nat]
  BY <1>1, <1>2, <1>7
<1>9. ASSUME NEW x \in Subjects
      PROVE  unread'[x] + Cardinality(Creating(x)') <= Cardinality(Runners) + byHand
  <2>1. Creating(x) \subseteq Runners
    BY DEF Creating
  <2>2. IsFiniteSet(Creating(x)) /\ Cardinality(Creating(x)) \in Nat
    BY <2>1, FewerThanRunners
  <2>3. unread[x] + Cardinality(Creating(x)) <= Cardinality(Runners) + byHand
    BY DEF RaceInv, DuplicatesAreRaces
  <2>4. unread[x] \in Nat
    BY <1>7
  <2>5. CASE x = s
    <3>1. r \in Creating(x)
      BY <1>1, <1>4, <2>5 DEF Creating
    <3>2. Creating(x)' = Creating(x) \ {r}
      BY <1>3, <1>5 DEF Creating
    <3>3. Cardinality(Creating(x)') = Cardinality(Creating(x)) - 1
      BY <2>2, <3>1, <3>2, FS_RemoveElement
    <3>4. unread'[x] = unread[x] + 1
      BY <1>1, <1>7, <2>5
    <3>5. QED
      BY <1>7, <2>2, <2>3, <2>4, <3>3, <3>4, RunnersFinite
  <2>6. CASE x # s
    <3>1. Creating(x)' \subseteq Creating(x)
      BY <1>3, <1>5 DEF Creating
    <3>2. Cardinality(Creating(x)') <= Cardinality(Creating(x)) /\ Cardinality(Creating(x)') \in Nat
      BY <2>2, <3>1, FS_Subset, FS_CardinalityType
    <3>3. unread'[x] = unread[x]
      BY <1>1, <1>7, <2>6
    <3>4. QED
      BY <1>7, <2>2, <2>3, <2>4, <3>2, <3>3, RunnersFinite
  <2>7. QED
    BY <2>5, <2>6
<1>10. DuplicatesAreRaces'
  BY <1>1, <1>9 DEF DuplicatesAreRaces
<1>11. QED
  BY <1>1, <1>6, <1>7, <1>8, <1>10 DEF RaceInv

LEMMA AgentQueryFailsInv ==
    ASSUME RaceInv, NEW r \in Runners, AgentQueryFails(r)
    PROVE  RaceInv'
<1> DEFINE k(left) == [task[r] EXCEPT !.todo = left, !.phase = "channels"]
<1>1. Shaped(task[r]) /\ UNCHANGED <<unread, read, byHand>>
  BY DEF RaceInv, AgentQueryFails, Silent
<1>2. PICK left \in SUBSET Subjects : Become(r, Done(r, k(left)))
  BY <1>1 DEF AgentQueryFails, Shaped
<1>3. Shaped(k(left))
  BY <1>1 DEF Shaped
<1> HIDE DEF k
<1>4. Shaped(Done(r, k(left))) /\ Done(r, k(left)).pc # "create"
  BY <1>3, DoneShaped
<1>5. QED
  BY <1>1, <1>2, <1>4, BecomesKeeps

LEMMA BackendQueryFailsInv ==
    ASSUME RaceInv, NEW r \in Runners, BackendQueryFails(r)
    PROVE  RaceInv'
<1>1. Become(r, Idle) /\ UNCHANGED <<unread, read, byHand>>
  BY DEF BackendQueryFails
<1>2. Shaped(Idle) /\ Idle.pc = "idle"
  BY DEF Shaped, Idle
<1>3. QED
  BY <1>1, <1>2, BecomesKeeps

LEMMA HandleInv ==
    ASSUME RaceInv, NEW h \in Handlers, NEW s \in Subjects, Handle(h, s)
    PROVE  RaceInv'
<1> DEFINE k == [Idle EXCEPT !.pc = "exists", !.subject = s, !.tenant = TenantOf(s)]
<1>1. Shaped(k) /\ k.pc = "exists"
  BY DEF Shaped, Idle
<1>2. h \in Runners /\ Become(h, k) /\ UNCHANGED <<unread, read, byHand>>
  BY DEF Handle, Silent, Runners
<1> HIDE DEF k
<1>3. QED
  BY <1>1, <1>2, BecomesKeeps

-----------------------------------------------------------------------------
(* The steps of the rest *)

LEMMA RestartInv ==
    ASSUME RaceInv, Restart
    PROVE  RaceInv'
BY AllIdle DEF Restart

LEMMA RequestInv ==
    ASSUME RaceInv, Request
    PROVE  RaceInv'
<1> USE DEF Touch, TouchRules, RaceInv
<1>1. ASSUME NEW s \in Subjects, MarkRead(s)
      PROVE  RaceInv'
  BY <1>1, TableKeeps DEF MarkRead
<1>2. ASSUME NEW s \in Subjects, MarkUnread(s)
      PROVE  RaceInv'
  BY <1>2, TableKeeps DEF MarkUnread
<1>3. ASSUME NEW s \in Subjects, DeleteAlert(s)
      PROVE  RaceInv'
  BY <1>3, TableKeeps DEF DeleteAlert
<1>4. ASSUME NEW s \in Subjects, PostAlert(s)
      PROVE  RaceInv'
  BY <1>4, TableKeeps DEF PostAlert, CreateAlert
<1>5. ASSUME NEW t \in Tenants, MarkAllRead(t)
      PROVE  RaceInv'
  BY <1>5, TableKeeps DEF MarkAllRead
<1>6. ASSUME NEW t, NEW check, CheckNow(t, check)
      PROVE  RaceInv'
  BY <1>6, TableKeeps DEF CheckNow
<1>7. ASSUME NEW t, NEW ru, CreateRule(t, ru) \/ DeleteRule(t, ru) \/ TestRule(t, ru)
      PROVE  RaceInv'
  BY <1>7, TableKeeps DEF CreateRule, DeleteRule, TestRule
<1>8. ASSUME NEW t, NEW ru, NEW new, UpdateRule(t, ru, new)
      PROVE  RaceInv'
  BY <1>8, TableKeeps DEF UpdateRule
<1>9. QED
  BY <1>1, <1>2, <1>3, <1>4, <1>5, <1>6, <1>7, <1>8 DEF Request

LEMMA AlertsInit ==
    ASSUME Init
    PROVE  EngineInv /\ RaceInv
<1>1. EngineInv
  BY EngineInitInv DEF Init
<1>2. Shaped(Idle) /\ Idle.pc = "idle"
  BY DEF Shaped, Idle
<1>3. /\ unread = [s \in Subjects |-> 0] /\ read = [s \in Subjects |-> 0]
      /\ task = [r \in Runners |-> Idle] /\ byHand = 0
  BY DEF Init
<1>4. \A s \in Subjects : Creating(s) = {}
  BY <1>2, <1>3 DEF Creating
<1>5. DuplicatesAreRaces
  <2>1. \A s \in Subjects : unread[s] + Cardinality(Creating(s)) = 0
    BY <1>3, <1>4, FS_EmptySet
  <2>2. QED
    BY <1>3, <2>1, RunnersFinite DEF DuplicatesAreRaces
<1>6. QED
  BY <1>1, <1>2, <1>3, <1>5 DEF RaceInv

LEMMA AlertsNext ==
    ASSUME EngineInv, RaceInv, [Next]_vars
    PROVE  EngineInv' /\ RaceInv'
<1>1. CASE Engine
  <2>1. RaceInv'
    BY <1>1, TableKeeps DEF Engine, alertVars, RaceInv
  <2>2. QED
    BY <1>1, <2>1, EngineNextInv DEF Engine
<1>2. CASE PeriodicDue
  <2>1. RaceInv'
    BY <1>2, TableKeeps DEF PeriodicDue, RaceInv
  <2>2. QED
    BY <1>2, <2>1, EngineUnchanged DEF PeriodicDue
<1>3. CASE Request
  <2>1. UNCHANGED engineVars
    BY <1>3 DEF Request, MarkRead, MarkUnread, MarkAllRead, DeleteAlert, PostAlert, Touch,
                CheckNow, CreateRule, UpdateRule, DeleteRule, TestRule, TouchRules
  <2>2. QED
    BY <1>3, <2>1, RequestInv, EngineUnchanged
<1>4. CASE Crash
  BY <1>4, RestartInv, RestartEngineInv DEF Crash
<1>5. ASSUME NEW r \in Runners, HandlerQueryFails(r)
      PROVE  EngineInv' /\ RaceInv'
  BY <1>5, RestartInv, RestartEngineInv DEF HandlerQueryFails
<1>6. ASSUME NEW r \in Runners, Step(r) \/ AgentQueryFails(r) \/ BackendQueryFails(r)
      PROVE  EngineInv' /\ RaceInv'
  <2>1. UNCHANGED engineVars
    BY <1>6 DEF Step, TakePeriodic, TakeJob, CheckTenant, CheckHealth, LookForAlert, InsertAlert,
                AgentQueryFails, BackendQueryFails, Silent
  <2>2. RaceInv'
    BY <1>6, TakePeriodicInv, TakeJobInv, CheckTenantInv, CheckHealthInv, LookForAlertInv,
       InsertAlertInv, AgentQueryFailsInv, BackendQueryFailsInv DEF Step
  <2>3. QED
    BY <2>1, <2>2, EngineUnchanged
<1>7. ASSUME NEW h \in Handlers, NEW s \in Subjects, Handle(h, s)
      PROVE  EngineInv' /\ RaceInv'
  BY <1>7, HandleInv, EngineUnchanged DEF Handle, Silent
<1>8. CASE \/ \E h \in Handlers, p \in Products : StockReported(h, p)
           \/ \E h \in Handlers, c \in Channels : ChannelLost(h, c)
  BY <1>7, <1>8 DEF StockReported, ChannelLost, Subjects
<1>9. CASE \/ \E p \in Products : SetStock(p)
           \/ \E c \in Channels : ToggleChannel(c)
  <2>1. UNCHANGED <<engineVars, unread, read, task, byHand>>
    BY <1>9 DEF SetStock, ToggleChannel
  <2>2. RaceInv'
    BY <2>1, TableKeeps DEF RaceInv
  <2>3. QED
    BY <2>1, <2>2, EngineUnchanged
<1>10. CASE UNCHANGED vars
  <2>1. UNCHANGED <<engineVars, unread, read, task, byHand>>
    BY <1>10 DEF vars, alertVars
  <2>2. RaceInv'
    BY <2>1, TableKeeps DEF RaceInv
  <2>3. QED
    BY <2>1, <2>2, EngineUnchanged
<1>11. QED
  BY <1>1, <1>2, <1>3, <1>4, <1>5, <1>6, <1>8, <1>9, <1>10 DEF Next

-----------------------------------------------------------------------------
(* Types.  A job of the agent that runs counts as one that waits: it is     *)
(* that again when the process dies, and the queue is full until it is done.*)

Busy == {r \in AgentSlots : task[r].pc # "idle"}

QueueFits == periodic + Cardinality(Busy) <= MaxPeriodic + Cardinality(AgentSlots)

TypeInv == EngineInv /\ RaceInv /\ TypeOK /\ QueueFits

LEMMA IdleTyped == Idle \in Task /\ Idle.pc = "idle" /\ AnyJob \in Job
<1>1. AnyJob \in Job
  BY JobsAssumption DEF AnyJob, Job
<1>2. QED
  BY <1>1 DEF Idle, Task

LEMMA SettledTyped ==
    ASSUME NEW k \in Task
    PROVE  Settled(k) \in Task
<1> DEFINE channels == ChannelsOf(k.tenant)
<1>1. channels \subseteq Subjects
  BY ChannelsHavePlace
<1>2. \/ Settled(k) = k \/ Settled(k) = [k EXCEPT !.phase = "channels", !.todo = channels]
      \/ Settled(k) = Idle
      \/ Settled(k) = [k EXCEPT !.pc = "tenant", !.tenant = NoTenant, !.phase = "low"]
  BY DEF Settled
<1> HIDE DEF channels
<1>3. CASE Settled(k) = [k EXCEPT !.phase = "channels", !.todo = channels]
  BY <1>1, <1>3 DEF Task
<1>4. CASE Settled(k) = [k EXCEPT !.pc = "tenant", !.tenant = NoTenant, !.phase = "low"]
  BY <1>4 DEF Task
<1>5. QED
  BY <1>2, <1>3, <1>4, IdleTyped

LEMMA DoneTyped ==
    ASSUME NEW r, NEW k \in Task
    PROVE  Done(r, k) \in Task
<1> DEFINE next == [k EXCEPT !.pc = "pick", !.subject = NoSubject]
<1>1. next \in Task
  BY DEF Task
<1>2. Done(r, k) = Idle \/ Done(r, k) = Settled(next)
  BY DEF Done
<1> HIDE DEF next
<1>3. QED
  BY <1>1, <1>2, SettledTyped, IdleTyped

LEMMA BusyFinite ==
    ASSUME NEW S \in SUBSET AgentSlots
    PROVE  /\ IsFiniteSet(S) /\ Cardinality(S) \in Nat /\ Cardinality(AgentSlots) \in Nat
           /\ Cardinality(S) <= Cardinality(AgentSlots)
BY RunnersAssumption, FS_Subset, FS_CardinalityType

\* Who stays idle and who stays busy decide about the queue.
LEMMA QueueKeeps ==
    ASSUME TypeInv, Busy' \subseteq Busy, periodic' = periodic
    PROVE  QueueFits'
<1>1. Busy \subseteq AgentSlots
  BY DEF Busy
<1>2. /\ IsFiniteSet(Busy) /\ Cardinality(Busy) \in Nat /\ Cardinality(AgentSlots) \in Nat
  BY <1>1, BusyFinite
<1>3. Cardinality(Busy') \in Nat /\ Cardinality(Busy') <= Cardinality(Busy)
  BY <1>2, FS_Subset, FS_CardinalityType
<1>4. QED
  BY <1>2, <1>3, BoundsAssumption DEF TypeInv, TypeOK, QueueFits

\* A runner goes on: another slot is not busy for it.
LEMMA RunnerTyped ==
    ASSUME TypeInv, NEW r \in Runners, NEW k \in Task, Become(r, k),
           r \in AgentSlots => task[r].pc # "idle" \/ k.pc = "idle"
    PROVE  task' \in [Runners -> Task] /\ Busy' \subseteq Busy
<1>1. task \in [Runners -> Task]
  BY DEF TypeInv, TypeOK
<1>2. \A q \in Runners : task'[q] = IF q = r THEN k ELSE task[q]
  BY <1>1 DEF Become
<1>3. AgentSlots \subseteq Runners
  BY DEF Runners
<1>4. QED
  BY <1>1, <1>2, <1>3 DEF Become, Busy

\* What Silent steps of a runner leave alone.
LEMMA SilentTyped ==
    ASSUME TypeInv, NEW r \in Runners, NEW k \in Task, Become(r, k), Silent,
           r \in AgentSlots => task[r].pc # "idle" \/ k.pc = "idle", EngineTypeOK'
    PROVE  TypeOK' /\ QueueFits'
<1>1. task' \in [Runners -> Task] /\ Busy' \subseteq Busy
  BY RunnerTyped
<1>2. QueueFits'
  BY <1>1, QueueKeeps DEF Silent
<1>3. QED
  BY <1>1, <1>2 DEF TypeInv, TypeOK, Silent

LEMMA TakePeriodicTyped ==
    ASSUME TypeInv, NEW r \in Runners, TakePeriodic(r), EngineTypeOK'
    PROVE  TypeOK' /\ QueueFits'
<1> DEFINE k == [Idle EXCEPT !.pc = "tenant", !.tenants = Tenants]
<1>1. k \in Task /\ k.pc = "tenant"
  BY IdleTyped DEF Task
<1>2. /\ Become(r, k) /\ r \in AgentSlots /\ task[r] = Idle /\ periodic > 0
      /\ periodic' = periodic - 1
      /\ UNCHANGED <<stock, up, unread, read, rules, jobs, byHand, events>>
  BY DEF TakePeriodic
<1> HIDE DEF k
<1>3. task \in [Runners -> Task] /\ periodic \in 0..MaxPeriodic + Cardinality(AgentSlots)
  BY DEF TypeInv, TypeOK
<1>4. \A q \in Runners : task'[q] = IF q = r THEN k ELSE task[q]
  BY <1>2, <1>3 DEF Become
<1>5. task' \in [Runners -> Task]
  BY <1>1, <1>2, <1>3 DEF Become
<1>6. Busy' = Busy \cup {r} /\ r \notin Busy
  BY <1>1, <1>2, <1>4, IdleTyped DEF Busy, Runners
<1>7. Busy \subseteq AgentSlots
  BY DEF Busy
<1>8. IsFiniteSet(Busy) /\ Cardinality(Busy) \in Nat /\ Cardinality(AgentSlots) \in Nat
  BY <1>7, BusyFinite
<1>9. Cardinality(Busy') = Cardinality(Busy) + 1
  BY <1>6, <1>8, FS_AddElement
<1>10. periodic' \in 0..MaxPeriodic + Cardinality(AgentSlots)
  BY <1>2, <1>3, <1>8, BoundsAssumption
<1>11. QueueFits'
  BY <1>2, <1>3, <1>8, <1>9, BoundsAssumption DEF TypeInv, QueueFits
<1>12. QED
  BY <1>2, <1>5, <1>10, <1>11 DEF TypeInv, TypeOK

LEMMA TakeJobTyped ==
    ASSUME TypeInv, NEW r \in Runners, TakeJob(r), EngineTypeOK'
    PROVE  TypeOK' /\ QueueFits'
<1> DEFINE k == [Idle EXCEPT !.pc = "tenant", !.tenants = {Head(jobs).tenant},
                             !.job = Head(jobs)]
<1>1. jobs \in Seq(Job) /\ jobs # <<>>
  BY DEF TakeJob, TypeInv, TypeOK
<1>2. Head(jobs) \in Job /\ Tail(jobs) \in Seq(Job)
  BY <1>1
<1>3. Head(jobs).tenant \in Tenants
  BY <1>2 DEF Job
<1>4. k \in Task
  BY <1>2, <1>3, IdleTyped DEF Task
<1>5. /\ Become(r, k) /\ jobs' = Tail(jobs) /\ r \notin AgentSlots
      /\ UNCHANGED <<stock, up, unread, read, rules, periodic, byHand, events>>
  BY RunnersAssumption DEF TakeJob
<1> HIDE DEF k
<1>6. task' \in [Runners -> Task] /\ Busy' \subseteq Busy
  BY <1>4, <1>5, RunnerTyped
<1>7. QueueFits'
  BY <1>5, <1>6, QueueKeeps
<1>8. QED
  BY <1>2, <1>5, <1>6, <1>7 DEF TypeInv, TypeOK

LEMMA CheckTenantTyped ==
    ASSUME TypeInv, NEW r \in Runners, CheckTenant(r), EngineTypeOK'
    PROVE  TypeOK' /\ QueueFits'
<1> DEFINE channelsOnly == task[r].job.check = "channel_status"
           todo(t) == IF channelsOnly THEN ChannelsOf(t) ELSE LowProducts(r, t)
           phase == IF channelsOnly THEN "channels" ELSE "low"
           k(t) == [task[r] EXCEPT !.pc = "pick", !.tenant = t, !.tenants = @ \ {t},
                                   !.phase = phase, !.todo = todo(t)]
<1>1. PICK t \in task[r].tenants : Become(r, Settled(k(t)))
  BY DEF CheckTenant
<1>2. task[r] \in Task /\ task[r].pc = "tenant" /\ Silent
  BY DEF CheckTenant, TypeInv, TypeOK
<1>3. todo(t) \subseteq Subjects /\ phase \in {"low", "channels"}
  BY ChannelsHavePlace
<1>4. t \in Tenants
  BY <1>1, <1>2 DEF Task
<1> HIDE DEF todo, phase
<1>5. k(t) \in Task
  BY <1>2, <1>3, <1>4 DEF Task
<1> HIDE DEF k
<1>6. Settled(k(t)) \in Task
  BY <1>5, SettledTyped
<1>7. QED
  BY <1>1, <1>2, <1>6, SilentTyped

LEMMA CheckHealthTyped ==
    ASSUME TypeInv, NEW r \in Runners, CheckHealth(r), EngineTypeOK'
    PROVE  TypeOK' /\ QueueFits'
<1> DEFINE rest(s) == [task[r] EXCEPT !.todo = @ \ {s}]
           look(s) == [rest(s) EXCEPT !.pc = "exists", !.subject = s]
<1>1. PICK s \in task[r].todo :
        Become(r, IF up[s.of] THEN Done(r, rest(s)) ELSE look(s))
  BY DEF CheckHealth
<1>2. task[r] \in Task /\ task[r].pc = "pick" /\ Silent
  BY DEF CheckHealth, TypeInv, TypeOK
<1>3. rest(s) \in Task /\ s \in Subjects
  BY <1>1, <1>2 DEF Task
<1>4. look(s) \in Task
  BY <1>3 DEF Task
<1> HIDE DEF rest, look
<1>5. Done(r, rest(s)) \in Task
  BY <1>3, DoneTyped
<1>6. CASE up[s.of]
  BY <1>1, <1>2, <1>5, <1>6, SilentTyped
<1>7. CASE ~up[s.of]
  BY <1>1, <1>2, <1>4, <1>7, SilentTyped
<1>8. QED
  BY <1>6, <1>7

LEMMA LookForAlertTyped ==
    ASSUME TypeInv, NEW r \in Runners, LookForAlert(r), EngineTypeOK'
    PROVE  TypeOK' /\ QueueFits'
<1> DEFINE rest(s) == [task[r] EXCEPT !.todo = @ \ {s}]
           make(s) == [rest(s) EXCEPT !.pc = "create", !.subject = s]
<1>1. PICK s \in Sought(r) :
        Become(r, IF AlertExists(s) THEN Done(r, rest(s)) ELSE make(s))
  BY DEF LookForAlert
<1>2. task[r] \in Task /\ Silent /\ Shaped(task[r])
  BY DEF LookForAlert, TypeInv, TypeOK, RaceInv
<1>3. task[r].pc \in {"exists", "pick"} /\ s \in Subjects
  BY <1>1, <1>2 DEF Sought, Shaped
<1>4. rest(s) \in Task
  BY <1>2 DEF Task
<1>5. make(s) \in Task
  BY <1>3, <1>4 DEF Task
<1> HIDE DEF rest, make
<1>6. Done(r, rest(s)) \in Task
  BY <1>4, DoneTyped
<1>7. CASE AlertExists(s)
  BY <1>1, <1>2, <1>3, <1>6, <1>7, SilentTyped
<1>8. CASE ~AlertExists(s)
  BY <1>1, <1>2, <1>3, <1>5, <1>8, SilentTyped
<1>9. QED
  BY <1>7, <1>8

LEMMA InsertAlertTyped ==
    ASSUME TypeInv, NEW r \in Runners, InsertAlert(r), EngineTypeOK', RaceInv'
    PROVE  TypeOK' /\ QueueFits'
<1> DEFINE k == Done(r, task[r])
<1>1. /\ task[r] \in Task /\ task[r].pc = "create" /\ Become(r, k)
      /\ UNCHANGED <<stock, up, read, rules, periodic, jobs, byHand, events>>
  BY DEF InsertAlert, TypeInv, TypeOK
<1>2. k \in Task
  BY <1>1, DoneTyped
<1> HIDE DEF k
<1>3. task' \in [Runners -> Task] /\ Busy' \subseteq Busy
  BY <1>1, <1>2, RunnerTyped
<1>4. QueueFits'
  BY <1>1, <1>3, QueueKeeps
<1>5. unread' \in [Subjects -> Nat]
  BY DEF RaceInv
<1>6. QED
  BY <1>1, <1>3, <1>4, <1>5 DEF TypeInv, TypeOK

LEMMA AgentQueryFailsTyped ==
    ASSUME TypeInv, NEW r \in Runners, AgentQueryFails(r), EngineTypeOK'
    PROVE  TypeOK' /\ QueueFits'
<1> DEFINE k(left) == [task[r] EXCEPT !.todo = left, !.phase = "channels"]
<1>1. task[r] \in Task /\ Silent /\ task[r].pc # "idle"
  BY DEF AgentQueryFails, TypeInv, TypeOK
<1>2. PICK left \in SUBSET Subjects : Become(r, Done(r, k(left)))
  BY <1>1 DEF AgentQueryFails, Task
<1>3. k(left) \in Task
  BY <1>1 DEF Task
<1> HIDE DEF k
<1>4. Done(r, k(left)) \in Task
  BY <1>3, DoneTyped
<1>5. QED
  BY <1>1, <1>2, <1>4, SilentTyped

\* An event that is counted: it fits.
LEMMA EventTyped ==
    ASSUME TypeInv, Event
    PROVE  events' \in 0..MaxEvents
BY BoundsAssumption DEF TypeInv, TypeOK, EngineTypeOK, Event

LEMMA BackendQueryFailsTyped ==
    ASSUME TypeInv, NEW r \in Runners, BackendQueryFails(r), EngineTypeOK'
    PROVE  TypeOK' /\ QueueFits'
<1> DEFINE job == task[r].job
           again == [job EXCEPT !.tries = @ + 1]
<1>1. task[r] \in Task /\ jobs \in Seq(Job)
  BY DEF TypeInv, TypeOK
<1>2. job \in Job
  BY <1>1 DEF Task
<1>3. /\ Become(r, Idle) /\ Event
      /\ jobs' = IF job.tries + 1 < Attempts THEN Append(jobs, again) ELSE jobs
      /\ UNCHANGED <<stock, up, unread, read, rules, periodic, byHand>>
  BY DEF BackendQueryFails
<1>4. job.tries + 1 < Attempts => again \in Job
  BY <1>2, JobsAssumption DEF Job
<1> HIDE DEF job, again
<1>5. jobs' \in Seq(Job)
  BY <1>1, <1>3, <1>4
<1>6. task' \in [Runners -> Task] /\ Busy' \subseteq Busy
  BY <1>3, IdleTyped, RunnerTyped
<1>7. QueueFits'
  BY <1>3, <1>6, QueueKeeps
<1>8. QED
  BY <1>3, <1>5, <1>6, <1>7, EventTyped DEF TypeInv, TypeOK

LEMMA HandleTyped ==
    ASSUME TypeInv, NEW h \in Handlers, NEW s \in Subjects, Handle(h, s), EngineTypeOK'
    PROVE  TypeOK' /\ QueueFits'
<1> DEFINE k == [Idle EXCEPT !.pc = "exists", !.subject = s, !.tenant = TenantOf(s)]
<1>1. TenantOf(s) \in Tenants
  BY OwnerAssumption DEF TenantOf, Subjects, Low, Disconnected
<1>2. k \in Task
  BY <1>1, IdleTyped DEF Task
<1>3. h \in Runners /\ h \notin AgentSlots /\ Become(h, k) /\ Silent
  BY RunnersAssumption DEF Handle, Runners
<1> HIDE DEF k
<1>4. QED
  BY <1>2, <1>3, SilentTyped

\* The jobs that ran wait again, each once.
LEMMA RestartTyped ==
    ASSUME TypeInv, Event, Restart, EngineTypeOK'
    PROVE  TypeOK' /\ QueueFits'
<1> DEFINE running == {r \in BackendSlots : task[r].pc # "idle"}
           n == Cardinality(running)
<1>1. task \in [Runners -> Task] /\ jobs \in Seq(Job)
      /\ periodic \in 0..MaxPeriodic + Cardinality(AgentSlots)
  BY DEF TypeInv, TypeOK
<1>2. running \subseteq BackendSlots /\ n \in Nat
  <2>1. running \subseteq BackendSlots
    OBVIOUS
  <2>2. IsFiniteSet(running)
    BY <2>1, RunnersAssumption, FS_Subset
  <2>3. QED
    BY <2>1, <2>2, FS_CardinalityType
<1>3. PICK order \in [1..n -> running] :
        jobs' = [i \in DOMAIN order |-> task[order[i]].job] \o jobs
  BY DEF Restart
<1>4. jobs' \in Seq(Job)
  <2> HIDE DEF n
  <2>1. \A i \in 1..n : order[i] \in Runners
    BY <1>2, <1>3 DEF Runners
  <2>2. \A i \in 1..n : task[order[i]].job \in Job
    BY <1>1, <2>1 DEF Task
  <2> DEFINE again == [i \in DOMAIN order |-> task[order[i]].job]
  <2>3. again \in Seq(Job) /\ jobs' = again \o jobs
    BY <1>2, <1>3, <2>2
  <2> HIDE DEF again
  <2>4. QED
    BY <1>1, <2>3
<1>5. Busy \subseteq AgentSlots
  BY DEF Busy
<1>6. /\ IsFiniteSet(Busy) /\ Cardinality(Busy) \in Nat /\ Cardinality(AgentSlots) \in Nat
  BY <1>5, BusyFinite
<1>7. task' = [r \in Runners |-> Idle] /\ periodic' = periodic + Cardinality(Busy)
      /\ rules' = [t \in Tenants |-> {}] /\ UNCHANGED <<stock, up, unread, read, byHand>>
  BY DEF Restart, Busy
<1>8. task' \in [Runners -> Task] /\ Busy' = {}
  BY <1>7, IdleTyped DEF Busy, Runners
<1>9. Cardinality(Busy') = 0
  BY <1>8, FS_EmptySet
<1>10. /\ periodic' \in 0..MaxPeriodic + Cardinality(AgentSlots) /\ QueueFits'
  BY <1>1, <1>6, <1>7, <1>9, BoundsAssumption DEF TypeInv, QueueFits
<1>11. QED
  BY <1>4, <1>7, <1>8, <1>10, EventTyped DEF TypeInv, TypeOK

LEMMA RequestTyped ==
    ASSUME TypeInv, Request, EngineTypeOK', RaceInv'
    PROVE  TypeOK' /\ QueueFits'
<1>1. /\ Event /\ UNCHANGED <<stock, up, periodic, task>>
  BY DEF Request, MarkRead, MarkUnread, MarkAllRead, DeleteAlert, PostAlert, Touch,
         CheckNow, CreateRule, UpdateRule, DeleteRule, TestRule, TouchRules
<1>2. jobs \in Seq(Job) /\ rules \in [Tenants -> SUBSET Rule]
  BY DEF TypeInv, TypeOK
<1>3. QueueFits'
  BY <1>1, QueueKeeps DEF Busy
<1>4. ASSUME NEW t \in Tenants, NEW check \in {"low_stock", "channel_status", "all"},
             NEW th \in RuleThresholds \cup {NoThreshold}, AddAlertJob(t, check, th)
      PROVE  jobs' \in Seq(Job)
  <2>1. [tenant |-> t, check |-> check, threshold |-> th, tries |-> 0] \in Job
    BY JobsAssumption DEF Job
  <2>2. QED
    BY <1>2, <1>4, <2>1 DEF AddAlertJob
<1>5. jobs' \in Seq(Job) /\ rules' \in [Tenants -> SUBSET Rule]
  <2>1. ASSUME NEW s \in Subjects, MarkRead(s) \/ MarkUnread(s) \/ DeleteAlert(s) \/ PostAlert(s)
        PROVE  UNCHANGED <<jobs, rules>>
    BY <2>1 DEF MarkRead, MarkUnread, DeleteAlert, PostAlert, Touch
  <2>2. ASSUME NEW t \in Tenants, MarkAllRead(t)
        PROVE  UNCHANGED <<jobs, rules>>
    BY <2>2 DEF MarkAllRead, Touch
  <2>3. ASSUME NEW t \in Tenants, NEW check \in {"low_stock", "channel_status", "all"},
               CheckNow(t, check)
        PROVE  jobs' \in Seq(Job) /\ UNCHANGED rules
    BY <1>4, <2>3 DEF CheckNow
  <2>4. ASSUME NEW t \in Tenants, NEW ru \in Rule, CreateRule(t, ru)
        PROVE  jobs' \in Seq(Job) /\ rules' \in [Tenants -> SUBSET Rule]
    <3>1. ru.threshold \in RuleThresholds
      BY DEF Rule
    <3>2. QED
      BY <1>2, <1>4, <2>4, <3>1 DEF CreateRule
  <2>5. ASSUME NEW t \in Tenants, NEW ru \in Rule, DeleteRule(t, ru)
        PROVE  UNCHANGED jobs /\ rules' \in [Tenants -> SUBSET Rule]
    BY <1>2, <2>5 DEF DeleteRule
  <2>6. ASSUME NEW t \in Tenants, NEW ru \in Rule, TestRule(t, ru)
        PROVE  jobs' \in Seq(Job) /\ UNCHANGED rules
    <3>1. ru.threshold \in RuleThresholds
      BY DEF Rule
    <3>2. QED
      BY <1>4, <2>6, <3>1 DEF TestRule
  <2>7. ASSUME NEW t \in Tenants, NEW ru \in Rule, NEW new \in Rule, UpdateRule(t, ru, new)
        PROVE  UNCHANGED jobs /\ rules' \in [Tenants -> SUBSET Rule]
    BY <1>2, <2>7 DEF UpdateRule
  <2>8. \A t \in {Owner[p] : p \in Products} : t \in Tenants
    BY OwnerAssumption
  <2>9. QED
    BY <1>2, <2>1, <2>2, <2>3, <2>4, <2>5, <2>6, <2>7, <2>8 DEF Request
<1>6. QED
  BY <1>1, <1>3, <1>5, EventTyped DEF TypeInv, TypeOK, RaceInv

LEMMA TypesInit ==
    ASSUME Init
    PROVE  TypeInv
<1>1. EngineInv /\ RaceInv
  BY AlertsInit
<1>2. TypeOK
  <2>1. task \in [Runners -> Task]
    BY IdleTyped DEF Init
  <2>2. Cardinality(AgentSlots) \in Nat
    BY BusyFinite
  <2>3. up \in [Channels -> BOOLEAN] /\ rules \in [Tenants -> SUBSET Rule] /\ jobs \in Seq(Job)
    BY DEF Init
  <2>4. EngineTypeOK /\ unread \in [Subjects -> Nat] /\ read \in [Subjects -> Nat]
    BY <1>1 DEF EngineInv, RaceInv
  <2>5. QED
    BY <2>1, <2>2, <2>3, <2>4, BoundsAssumption DEF Init, TypeOK
<1>3. QueueFits
  <2>1. Busy = {} /\ periodic = 0
    BY IdleTyped DEF Init, Busy, Runners
  <2>2. Cardinality(AgentSlots) \in Nat /\ Cardinality(Busy) = 0
    BY <2>1, BusyFinite, FS_EmptySet
  <2>3. QED
    BY <2>1, <2>2, BoundsAssumption DEF QueueFits
<1>4. QED
  BY <1>1, <1>2, <1>3 DEF TypeInv

LEMMA TypesNext ==
    ASSUME TypeInv, [Next]_vars
    PROVE  TypeInv'
<1>0. EngineInv' /\ RaceInv'
  BY AlertsNext DEF TypeInv
<1>1. EngineTypeOK'
  BY <1>0 DEF EngineInv
<1> SUFFICES TypeOK' /\ QueueFits'
  BY <1>0 DEF TypeInv
<1>2. ASSUME UNCHANGED alertVars
      PROVE  TypeOK' /\ QueueFits'
  <2>1. QueueFits'
    BY <1>2, QueueKeeps DEF alertVars, Busy
  <2>2. QED
    BY <1>1, <1>2, <2>1 DEF alertVars, TypeInv, TypeOK
<1>3. CASE PeriodicDue
  <2>1. Busy' = Busy /\ Busy \subseteq AgentSlots
    BY <1>3 DEF PeriodicDue, Busy
  <2>2. /\ Cardinality(Busy) \in Nat /\ Cardinality(AgentSlots) \in Nat
        /\ Cardinality(Busy) <= Cardinality(AgentSlots)
    BY <2>1, BusyFinite
  <2>3. QueueFits' /\ periodic' \in 0..MaxPeriodic + Cardinality(AgentSlots)
    BY <1>3, <2>1, <2>2, BoundsAssumption DEF PeriodicDue, TypeInv, TypeOK, QueueFits
  <2>4. QED
    BY <1>1, <1>3, <2>3 DEF PeriodicDue, TypeInv, TypeOK
<1>4. CASE Request
  BY <1>0, <1>1, <1>4, RequestTyped
<1>5. CASE Crash
  BY <1>1, <1>5, RestartTyped DEF Crash
<1>6. ASSUME NEW r \in Runners, Step(r) \/ AgentQueryFails(r) \/ BackendQueryFails(r)
      PROVE  TypeOK' /\ QueueFits'
  BY <1>0, <1>1, <1>6, TakePeriodicTyped, TakeJobTyped, CheckTenantTyped, CheckHealthTyped,
     LookForAlertTyped, InsertAlertTyped, AgentQueryFailsTyped, BackendQueryFailsTyped DEF Step
<1>7. ASSUME NEW r \in Runners, HandlerQueryFails(r)
      PROVE  TypeOK' /\ QueueFits'
  BY <1>1, <1>7, RestartTyped DEF HandlerQueryFails
<1>8. CASE \/ \E h \in Handlers, p \in Products : StockReported(h, p)
           \/ \E h \in Handlers, c \in Channels : ChannelLost(h, c)
  BY <1>1, <1>8, HandleTyped DEF StockReported, ChannelLost, Subjects
<1>9. CASE \/ \E p \in Products : SetStock(p)
           \/ \E c \in Channels : ToggleChannel(c)
  <2>1. UNCHANGED <<unread, read, rules, periodic, jobs, task, byHand>> /\ Event
    BY <1>9 DEF SetStock, ToggleChannel
  <2>2. stock' \in [Products -> Levels] /\ up' \in [Channels -> BOOLEAN]
    BY <1>9 DEF SetStock, ToggleChannel, TypeInv, TypeOK
  <2>3. QueueFits'
    BY <2>1, QueueKeeps DEF Busy
  <2>4. QED
    BY <1>1, <2>1, <2>2, <2>3, EventTyped DEF TypeInv, TypeOK
<1>10. QED
  BY <1>2, <1>3, <1>4, <1>5, <1>6, <1>7, <1>8, <1>9 DEF Next, Engine, vars

-----------------------------------------------------------------------------
(* Theorems *)

\* An engine that says it runs has its connection, its statistics and its four
\* agents, one that says it is stopped has no agent in its fields and no handler on
\* its bus, and unless an agent's stop() threw no agent works beside the fields,
\* however start() and stop() (engine.ts:157, :249) fail on the way and crashes cut
\* in.  (After such a throw the next start() overwrites agents that work on.)
THEOREM EngineIsWhole == Spec => []AllOrNothing
<1>1. Init => EngineInv /\ RaceInv
  BY AlertsInit
<1>2. EngineInv /\ RaceInv /\ [Next]_vars => (EngineInv /\ RaceInv)'
  BY AlertsNext
<1>3. EngineInv => AllOrNothing
  BY DEF EngineInv
<1>4. QED
  BY <1>1, <1>2, <1>3, PTL DEF Spec

\* The unread alerts of a subject are never more than the runners that can be
\* between looking (alertExists) and inserting (createAlert), but for those users
\* posted or marked unread: for any number of slots, handlers, retries, users and
\* crashes.
THEOREM OnlyRacesDuplicate == Spec => []DuplicatesAreRaces
<1>1. Init => EngineInv /\ RaceInv
  BY AlertsInit
<1>2. EngineInv /\ RaceInv /\ [Next]_vars => (EngineInv /\ RaceInv)'
  BY AlertsNext
<1>3. RaceInv => DuplicatesAreRaces
  BY DEF RaceInv
<1>4. QED
  BY <1>1, <1>2, <1>3, PTL DEF Spec

\* Every state is well typed: no runner works on a subject that has no place in
\* the table, no job is tried more often than the queue allows, and however often
\* the process dies with jobs in hand, no more of the agent's jobs wait than were
\* due and running.
THEOREM AlertsTypeOK == Spec => []TypeOK
<1>1. Init => TypeInv
  BY TypesInit
<1>2. TypeInv /\ [Next]_vars => TypeInv'
  BY TypesNext
<1>3. TypeInv => TypeOK
  BY DEF TypeInv
<1>4. QED
  BY <1>1, <1>2, <1>3, PTL DEF Spec
=============================================================================
