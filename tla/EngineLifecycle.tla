--------------------------- MODULE EngineLifecycle ---------------------------
(***************************************************************************)
(* Starting and stopping the sync engine (sync-engine/src/engine.ts) with  *)
(* its four agents and its event bus.  start() and stop() await the agents *)
(* one by one; the program that embeds the engine makes one call at a      *)
(* time, an agent's own start or stop may fail, and a failed start() stops *)
(* what it had started.                                                    *)
(*                                                                         *)
(* The engine may be started again after it was stopped, or after a stop() *)
(* that threw; its Redis connection and the listeners of its statistics    *)
(* are made only once, in the constructor.  start() makes four new agents  *)
(* whatever the fields hold: an agent that was not stopped is overwritten  *)
(* and works on, beyond the reach of any later stop().                     *)
(***************************************************************************)
EXTENDS Naturals

CONSTANTS MaxAgentFaults, MaxCalls      \* failing agents, calls of start and stop

ASSUME LifecycleAssumption == MaxAgentFaults \in Nat /\ MaxCalls \in Nat

Order == <<"watcher", "sync", "guardian", "alert">>
Agents == {"watcher", "sync", "guardian", "alert"}

\* The agents that subscribe to the bus, and those whose start and stop await a
\* Redis command: the repeatable job they add and remove.
Subscribers == {"sync", "alert"}
Schedulers == {"guardian", "alert"}

VARIABLES
    state,          \* SyncEngine.state
    agent,          \* the fields watcherAgent .. alertAgent and their states
    call,           \* the call in progress and the agent it awaits, 0 past the last
    redis,          \* whether the connection is open
    stats,          \* whether setupStatsTracking's listeners are attached
    listening,      \* the kinds of agents with handlers attached
    orphans,        \* the kinds of agents that were overwritten while not stopped
    threw,          \* history: an agent's stop() threw
    agentFaults, calls

engineVars == <<state, agent, call, redis, stats, listening, orphans, threw, agentFaults, calls>>

NoCall == [op |-> "none", at |-> 0]

EngineTypeOK ==
    /\ state \in {"stopped", "starting", "running", "stopping", "error"}
    /\ agent \in [Agents -> {"null", "starting", "running", "stopping", "error"}]
    /\ call \in [op : {"none", "start", "stop"}, at : 0..4]
    /\ redis \in BOOLEAN /\ stats \in BOOLEAN
    /\ listening \subseteq Subscribers /\ orphans \subseteq Agents /\ threw \in BOOLEAN
    /\ agentFaults \in 0..MaxAgentFaults /\ calls \in 0..MaxCalls

\* The constructor.
EngineInit ==
    /\ state = "stopped"
    /\ agent = [a \in Agents |-> "null"]
    /\ call = NoCall
    /\ redis = TRUE /\ stats = TRUE
    /\ listening = {} /\ orphans = {} /\ threw = FALSE
    /\ agentFaults = 0 /\ calls = 0

Called == call.op = "none" /\ calls < MaxCalls /\ calls' = calls + 1

\* The agent awaited by the call in progress.
Awaits(op, a) == call.op = op /\ call.at > 0 /\ Order[call.at] = a

-----------------------------------------------------------------------------
(* start() *)

\* A new agent takes the field of a, whatever was in it.
Overwritten(a) == orphans \cup (IF agent[a] = "null" THEN {} ELSE {a})

\* A running engine is left alone.
Start ==
    /\ Called /\ state # "running"
    /\ state' = "starting"
    /\ call' = [op |-> "start", at |-> 1]
    /\ agent' = [agent EXCEPT !["watcher"] = "starting"]
    /\ orphans' = Overwritten("watcher")
    /\ UNCHANGED <<redis, stats, listening, threw, agentFaults>>

Subscribed(a) == listening \cup ({a} \cap Subscribers)

AgentStarted(a) ==
    /\ Awaits("start", a)
    /\ a \in Schedulers => redis
    /\ listening' = Subscribed(a)
    /\ IF call.at = 4
       THEN /\ state' = "running" /\ call' = NoCall
            /\ agent' = [agent EXCEPT ![a] = "running"]
            /\ UNCHANGED orphans
       ELSE /\ call' = [call EXCEPT !.at = @ + 1]
            /\ agent' = [agent EXCEPT ![a] = "running", ![Order[call.at + 1]] = "starting"]
            /\ orphans' = Overwritten(Order[call.at + 1])
            /\ UNCHANGED state
    /\ UNCHANGED <<redis, stats, threw, agentFaults, calls>>

\* A fault, or a repeatable job added on a closed connection.
Faulty(a) ==
    \/ a \in Schedulers /\ ~redis /\ UNCHANGED agentFaults
    \/ agentFaults < MaxAgentFaults /\ agentFaults' = agentFaults + 1

\* Mutant of AgentStartFails: the engine is left as it is.
MutNoCleanup(a) ==
    /\ Awaits("start", a) /\ Faulty(a)
    /\ agent' = [agent EXCEPT ![a] = "error"]
    /\ listening' = Subscribed(a)
    /\ state' = "stopped" /\ call' = NoCall
    /\ UNCHANGED <<redis, stats, orphans, threw, calls>>

\* The agent is in its field and its handlers are attached; start() calls stop().
AgentStartFails(a) ==
    /\ Awaits("start", a) /\ Faulty(a)
    /\ agent' = [agent EXCEPT ![a] = "error"]
    /\ listening' = Subscribed(a)
    /\ state' = "stopping"
    /\ call' = [op |-> "stop", at |-> 4]
    /\ UNCHANGED <<redis, stats, orphans, threw, calls>>

-----------------------------------------------------------------------------
(* stop() *)

Stop ==
    /\ Called /\ state # "stopped"
    /\ state' = "stopping"
    /\ call' = [op |-> "stop", at |-> 4]
    /\ UNCHANGED <<agent, redis, stats, listening, orphans, threw, agentFaults>>

\* The agent's stop() is over, or there is no agent to stop.
AgentStopped(a) ==
    /\ Awaits("stop", a)
    /\ agent[a] # "null" /\ a \in Schedulers => redis
    /\ agent' = [agent EXCEPT ![a] = "null"]
    /\ call' = [call EXCEPT !.at = @ - 1]
    /\ UNCHANGED <<state, redis, stats, listening, orphans, threw, agentFaults, calls>>

\* stop() throws and leaves the rest of the agents running.
AgentStopFails(a) ==
    /\ Awaits("stop", a) /\ agent[a] # "null" /\ Faulty(a)
    /\ agent' = [agent EXCEPT ![a] = "error"]
    /\ state' = "error" /\ call' = NoCall
    /\ threw' = TRUE
    /\ UNCHANGED <<redis, stats, listening, orphans, calls>>

\* redis.quit() and removeAllListenersFor(), which removes the statistics'
\* listeners too.  A second quit() is rejected.
QuitRedis ==
    /\ call = [op |-> "stop", at |-> 0]
    /\ call' = NoCall
    /\ IF redis
       THEN redis' = FALSE /\ stats' = FALSE /\ listening' = {} /\ state' = "stopped"
       ELSE state' = "error" /\ UNCHANGED <<redis, stats, listening>>
    /\ UNCHANGED <<agent, orphans, threw, agentFaults, calls>>

EngineNext ==
    \/ Start \/ Stop \/ QuitRedis
    \/ \E a \in Agents : \/ AgentStarted(a) \/ AgentStartFails(a)
                         \/ AgentStopped(a) \/ AgentStopFails(a)

-----------------------------------------------------------------------------
(* Properties *)

\* All or nothing.  An engine that says it runs has its connection, its four
\* agents with their handlers and its statistics (start, engine.ts:157): one that
\* was stopped, and so lost connection and listeners, never runs again.  One that
\* says it is stopped has nothing in its fields or on its bus (stop, engine.ts:249),
\* also when it was a failed start() that stopped it.  And unless an agent's stop()
\* threw, that is all there is: no agent works on that no field knows.
AllOrNothing ==
    /\ state = "running" => /\ redis /\ stats
                            /\ \A a \in Agents : agent[a] = "running"
                            /\ listening = Subscribers
    /\ state = "stopped" => listening = {} /\ \A a \in Agents : agent[a] = "null"
    /\ ~threw => orphans = {}
=============================================================================
