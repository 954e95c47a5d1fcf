-------------------------- MODULE TenantOrchestrator --------------------------
(***************************************************************************)
(* Per-tenant process isolation                                            *)
(* (sync-engine/src/orchestrator/TenantOrchestrator.ts, tenant-worker.ts): *)
(* the orchestrator forks one child process per active tenant, respawns    *)
(* the ones that die, pings them, and polls the database for tenants that  *)
(* came or went.  Children talk to it over IPC; every handler looks its    *)
(* worker up by tenant, never by process, which is what makes late events  *)
(* interesting.                                                            *)
(*                                                                         *)
(* Time is a number of ticks (ten seconds each with the code's             *)
(* configuration) and only the health check reads it; backoff, polling and *)
(* shutdown timeouts fire at any moment.  Behaviours in which no check is  *)
(* due (clocked = FALSE) may have more faults.  The length of a backoff    *)
(* and the counter it is computed from are left out.                       *)
(***************************************************************************)
EXTENDS Naturals, Functions

CONSTANTS
    Tenants,
    Procs,          \* process slots; a slot is reused once its exit was seen
    Polls,          \* discovery runs that may overlap (setInterval does not wait)
    MaxRestarts,    \* config.maxRestartsPerTenant
    CheckEvery,     \* config.healthCheckIntervalMs, in ticks
    PongWindow,     \* 2 * config.healthTimeoutMs, in ticks
    Clocks,         \* the values of clocked to consider
    MaxFaults,      \* faults and requests together while the clock runs
    MaxCrashes, MaxHangs, MaxTimeouts, MaxToggles, MaxStops, MaxPollErrors,
    NoProc, NoTenant, NoWorker

ASSUME SlotsAssumption == NoProc \notin Procs /\ NoTenant \notin Tenants
ASSUME TimesAssumption ==
    /\ CheckEvery \in Nat \ {0} /\ PongWindow \in Nat /\ Clocks \subseteq BOOLEAN
    /\ MaxRestarts \in Nat
ASSUME FaultsAssumption ==
    {MaxFaults, MaxCrashes, MaxHangs, MaxTimeouts, MaxToggles, MaxStops, MaxPollErrors} \subseteq Nat

VARIABLES
    state,          \* TenantOrchestrator.state
    wanted,         \* the active tenants, as the database has them
    worker,         \* the workers Map: tenant -> its entry, or NoWorker
    proc,           \* slot -> the child process in it
    backoff,        \* tenant -> restarts waiting for their backoff
    poll,           \* discovery run -> where it is
    drain,          \* the processes stop() waits for
    sinceCheck,     \* ticks since the last health check
    clocked,        \* whether ticks are counted (or checks seem never due); it never changes
    crashes, hangs, timeouts, toggles, stops, pollErrors

faultVars == <<clocked, crashes, hangs, timeouts, toggles, stops, pollErrors>>
vars == <<state, wanted, worker, proc, backoff, poll, drain, sinceCheck, faultVars>>

\* TenantWorkerInfo and its process.  age is the time since lastPongAt.
Info == [proc: Procs, st: {"spawning", "running", "stopping"}, restarts: Nat,
         pinged: BOOLEAN, ponged: BOOLEAN, age: 0..PongWindow + 1]

ASSUME WorkerAssumption == NoWorker \notin Info

\* A child process.  "crashed" and "left" processes are dead, their exit event
\* is still to come.  ready and ping are messages under way, asked is shutdown.
Process == [st: {"free", "booting", "up", "hung", "crashed", "left"},
            tenant: Tenants \cup {NoTenant},
            ready: BOOLEAN, ping: BOOLEAN, asked: BOOLEAN]

Living == {"booting", "up", "hung"}
Alive(p) == proc[p].st \in Living

\* ids is tenantIds, wait the exit the second loop awaits.
Poll == [pc: {"idle", "reading", "stopping"}, ids: SUBSET Tenants, wait: Procs \cup {NoProc}]

FreeSlot == [st |-> "free", tenant |-> NoTenant, ready |-> FALSE, ping |-> FALSE,
             asked |-> FALSE]
IdlePoll == [pc |-> "idle", ids |-> {}, wait |-> NoProc]

TypeOK ==
    /\ state \in {"stopped", "running", "shutting_down"}
    /\ wanted \subseteq Tenants
    /\ worker \in [Tenants -> Info \cup {NoWorker}]
    /\ proc \in [Procs -> Process]
    /\ backoff \in [Tenants -> Nat]
    /\ poll \in [Polls -> Poll]
    /\ drain \subseteq Procs
    /\ sinceCheck \in 0..CheckEvery
    /\ clocked \in BOOLEAN
    /\ crashes \in Nat /\ hangs \in Nat /\ timeouts \in Nat
    /\ toggles \in Nat /\ stops \in Nat /\ pollErrors \in Nat

Init ==
    /\ state = "stopped"
    /\ wanted \in SUBSET Tenants
    /\ worker = [t \in Tenants |-> NoWorker]
    /\ proc = [p \in Procs |-> FreeSlot]
    /\ backoff = [t \in Tenants |-> 0]
    /\ poll = [k \in Polls |-> IdlePoll]
    /\ drain = {}
    /\ sinceCheck = 0
    /\ clocked \in Clocks
    /\ crashes = 0 /\ hangs = 0 /\ timeouts = 0 /\ toggles = 0 /\ stops = 0 /\ pollErrors = 0

HasWorker(t) == worker[t] # NoWorker

\* One more fault or request, if the bounds allow it.
MayHappen(count, max) ==
    /\ count < max
    /\ clocked => crashes + hangs + timeouts + toggles + stops + pollErrors < MaxFaults

-----------------------------------------------------------------------------
(* Spawning and stopping one worker *)

NewInfo(p) == [proc |-> p, st |-> "spawning", restarts |-> 0,
               pinged |-> FALSE, ponged |-> FALSE, age |-> 0]

\* Mutant of Spawnable: no check for a worker that already exists.
MutSpawnAgain(ts) == IF state = "running" THEN ts ELSE {}

\* spawnTenantWorker does nothing for a tenant that has a worker, or while the
\* orchestrator is not running.
Spawnable(ts) == IF state = "running" THEN {t \in ts : ~HasWorker(t)} ELSE {}

FreeSlots == {p \in Procs : proc[p].st = "free"}

\* The entries and the processes after each tenant t in the domain of slot was
\* given the process slot[t].
SpawnedWorkers(slot) ==
    [t \in Tenants |-> IF t \in DOMAIN slot THEN NewInfo(slot[t]) ELSE worker[t]]
SpawnedProcs(slot) ==
    [p \in Procs |-> IF \E t \in DOMAIN slot : slot[t] = p
                     THEN [FreeSlot EXCEPT !.st = "booting",
                                           !.tenant = CHOOSE t \in DOMAIN slot : slot[t] = p]
                     ELSE proc[p]]

\* stopTenantWorker up to its await, on each tenant of ts: ask for a shutdown.
\* w and c are the entries and the processes it finds.
AskToStop(ts, w, c) ==
    /\ worker' = [t \in Tenants |-> IF t \in ts THEN [w[t] EXCEPT !.st = "stopping"] ELSE w[t]]
    /\ proc' = [p \in Procs |-> IF \E t \in ts : w[t].proc = p /\ c[p].st \in Living
                                THEN [c[p] EXCEPT !.asked = TRUE] ELSE c[p]]

\* Mutant of SecondLoop: workers of tenants that left are not looked for.
MutNoSecondLoop(ks, ids, w, c) ==
    /\ poll' = [k \in Polls |-> IF k \in ks THEN IdlePoll ELSE poll[k]]
    /\ worker' = w /\ proc' = c

\* The discovery runs ks go on with their second loop up to its next await:
\* each asks the worker of a tenant that is not in its list to stop and waits
\* for it, or ends.
SecondLoop(ks, ids, w, c) ==
    \E next \in [ks -> Tenants \cup {NoTenant}] :
        /\ \A k \in ks :
             LET gone == {t \in Tenants \ ids[k] : w[t] # NoWorker} IN
             next[k] \in (IF gone = {} THEN {NoTenant} ELSE gone)
        /\ poll' = [k \in Polls |->
                      IF k \notin ks THEN poll[k]
                      ELSE IF next[k] = NoTenant THEN IdlePoll
                      ELSE [pc |-> "stopping", ids |-> ids[k], wait |-> w[next[k]].proc]]
        /\ AskToStop({next[k] : k \in ks} \ {NoTenant}, w, c)

Ids == [k \in Polls |-> poll[k].ids]

\* ... and its timeout, which a hung child certainly meets: SIGKILL, and whatever
\* entry the tenant has is deleted.
WorkersWithout(p) == [worker EXCEPT ![proc[p].tenant] = NoWorker]
ProcsKilled(p) == [proc EXCEPT ![p].st = IF Alive(p) THEN "crashed" ELSE @]
GiveUp(p) ==
    /\ proc[p].st = "hung" \/ MayHappen(timeouts, MaxTimeouts)
    /\ timeouts' = timeouts + 1
    /\ UNCHANGED <<clocked, crashes, hangs, toggles, stops, pollErrors>>

\* restartTenantWorker after its backoff.
BackoffOver(t) ==
    /\ backoff[t] > 0
    /\ backoff' = [backoff EXCEPT ![t] = @ - 1]
    /\ \E slot \in Injection(Spawnable({t}), FreeSlots) :
          worker' = SpawnedWorkers(slot) /\ proc' = SpawnedProcs(slot)
    /\ UNCHANGED <<state, wanted, poll, drain, sinceCheck, faultVars>>

-----------------------------------------------------------------------------
(* Start, stop *)

\* start() begins with a discovery run, one of PollStart.
Start ==
    /\ state = "stopped"
    /\ state' = "running" /\ sinceCheck' = 0
    /\ UNCHANGED <<wanted, worker, proc, backoff, poll, drain, faultVars>>

Stop ==
    /\ state = "running" /\ MayHappen(stops, MaxStops)
    /\ stops' = stops + 1
    /\ state' = "shutting_down"
    /\ LET ts == {t \in Tenants : HasWorker(t)} IN
         /\ AskToStop(ts, worker, proc)
         /\ drain' = {worker[t].proc : t \in ts}
    /\ UNCHANGED <<wanted, backoff, poll, sinceCheck, clocked, crashes, hangs,
                   timeouts, toggles, pollErrors>>

StopTimeout(p) ==
    /\ p \in drain
    /\ GiveUp(p)
    /\ drain' = drain \ {p}
    /\ worker' = WorkersWithout(p) /\ proc' = ProcsKilled(p)
    /\ UNCHANGED <<state, wanted, backoff, poll, sinceCheck>>

Stopped ==
    /\ state = "shutting_down" /\ drain = {}
    /\ state' = "stopped"
    /\ UNCHANGED <<wanted, worker, proc, backoff, poll, drain, sinceCheck, faultVars>>

-----------------------------------------------------------------------------
(* discoverAndSpawnTenants, one action per event its awaits wait for *)

\* The poll timer.  A backoff (5s) is over long before the next poll (60s), so a
\* run begins with at most one restart pending.  Runs overlap where no clock runs.
PollStart(k) ==
    /\ state = "running" /\ poll[k].pc = "idle"
    /\ clocked => \A j \in Polls : poll[j].pc = "idle"
    /\ \A t \in Tenants : backoff[t] <= 1
    /\ poll' = [poll EXCEPT ![k].pc = "reading"]
    /\ UNCHANGED <<state, wanted, worker, proc, backoff, drain, sinceCheck, faultVars>>

\* getTenantIds answers: the first loop spawns, the second one begins.
PollRead(k) ==
    /\ poll[k].pc = "reading"
    /\ \E slot \in Injection(Spawnable(wanted), FreeSlots) :
          SecondLoop({k}, [x \in {k} |-> wanted], SpawnedWorkers(slot), SpawnedProcs(slot))
    /\ UNCHANGED <<state, wanted, backoff, drain, sinceCheck, faultVars>>

\* getTenantIds throws: the run is over.
PollFails(k) ==
    /\ poll[k].pc = "reading" /\ MayHappen(pollErrors, MaxPollErrors)
    /\ pollErrors' = pollErrors + 1
    /\ poll' = [poll EXCEPT ![k] = IdlePoll]
    /\ UNCHANGED <<state, wanted, worker, proc, backoff, drain, sinceCheck,
                   clocked, crashes, hangs, timeouts, toggles, stops>>

\* The worker the second loop waits for took too long.
PollTimeout(k) ==
    /\ poll[k].wait # NoProc
    /\ GiveUp(poll[k].wait)
    /\ SecondLoop({k}, Ids, WorkersWithout(poll[k].wait), ProcsKilled(poll[k].wait))
    /\ UNCHANGED <<state, wanted, backoff, drain, sinceCheck>>

-----------------------------------------------------------------------------
(* The children *)

\* initialize(): the worker is up and says so.
Boot(p) ==
    /\ proc[p].st = "booting"
    /\ proc' = [proc EXCEPT ![p].st = "up", ![p].ready = TRUE]
    /\ UNCHANGED <<state, wanted, worker, backoff, poll, drain, sinceCheck, faultVars>>

\* A failed initialisation, an uncaught exception, the memory limit.
CrashChild(p) ==
    /\ Alive(p) /\ MayHappen(crashes, MaxCrashes)
    /\ crashes' = crashes + 1
    /\ proc' = [proc EXCEPT ![p].st = "crashed"]
    /\ UNCHANGED <<state, wanted, worker, backoff, poll, drain, sinceCheck,
                   clocked, hangs, timeouts, toggles, stops, pollErrors>>

\* The child's event loop is blocked for good, where there is a clock to tell.
Hang(p) ==
    /\ clocked /\ proc[p].st = "up" /\ MayHappen(hangs, MaxHangs)
    /\ hangs' = hangs + 1
    /\ proc' = [proc EXCEPT ![p].st = "hung"]
    /\ UNCHANGED <<state, wanted, worker, backoff, poll, drain, sinceCheck,
                   clocked, crashes, timeouts, toggles, stops, pollErrors>>

\* shutdown() ends with process.exit(0).
ShutDown(p) ==
    /\ proc[p].st = "up" /\ proc[p].asked
    /\ proc' = [proc EXCEPT ![p].st = "left"]
    /\ UNCHANGED <<state, wanted, worker, backoff, poll, drain, sinceCheck, faultVars>>

-----------------------------------------------------------------------------
(* The orchestrator's handlers of child events *)

\* Mutant of HandleReady: the message is handled for a tenant without a worker too.
MutReadyUnchecked(p) ==
    LET t == proc[p].tenant IN
    /\ proc[p].ready
    /\ proc' = [proc EXCEPT ![p].ready = FALSE]
    /\ worker' = [worker EXCEPT ![t] = [NewInfo(p) EXCEPT !.st = "ready"]]
    /\ UNCHANGED <<state, wanted, backoff, poll, drain, sinceCheck, faultVars>>

\* handleChildMessage, "ready".
HandleReady(p) ==
    LET t == proc[p].tenant IN
    /\ proc[p].ready
    /\ proc' = [proc EXCEPT ![p].ready = FALSE]
    /\ worker' = IF HasWorker(t) THEN [worker EXCEPT ![t].st = "running"] ELSE worker
    /\ UNCHANGED <<state, wanted, backoff, poll, drain, sinceCheck, faultVars>>

\* The child answers a ping; handleChildMessage, "pong".
HandlePong(p) ==
    LET t == proc[p].tenant IN
    /\ proc[p].ping /\ proc[p].st = "up"
    /\ proc' = [proc EXCEPT ![p].ping = FALSE]
    /\ worker' = IF HasWorker(t) THEN [worker EXCEPT ![t].ponged = TRUE, ![t].age = 0]
                 ELSE worker
    /\ UNCHANGED <<state, wanted, backoff, poll, drain, sinceCheck, faultVars>>

\* handleChildExit and restartTenantWorker up to its backoff, then whoever
\* waited for this exit deletes the entry once more and goes on.
HandleChildExit(p) ==
    LET t == proc[p].tenant
        expected == worker[t].st = "stopping" \/ state = "shutting_down"
        restart == HasWorker(t) /\ ~expected /\ worker[t].restarts + 1 <= MaxRestarts
    IN
    /\ proc[p].st \in {"crashed", "left"}
    /\ SecondLoop({k \in Polls : poll[k].wait = p}, Ids,
                  WorkersWithout(p),
                  [proc EXCEPT ![p] = FreeSlot])
    /\ backoff' = IF restart THEN [backoff EXCEPT ![t] = @ + 1] ELSE backoff
    /\ drain' = drain \ {p}
    /\ UNCHANGED <<state, wanted, sinceCheck, faultVars>>

-----------------------------------------------------------------------------
(* Health checks *)

Running == {t \in Tenants : HasWorker(t) /\ worker[t].st = "running"}

\* Mutant of Unresponsive: only a worker that never answered counts.
MutNeverAnswered(t) == worker[t].pinged /\ ~worker[t].ponged /\ worker[t].age > PongWindow

\* No pong for too long, as far as the entry can tell.
Unresponsive(t) == worker[t].pinged /\ worker[t].ponged /\ worker[t].age > PongWindow

RunHealthChecks ==
    LET kill == {t \in Running : Unresponsive(t)}
        ping == Running \ kill
        procsOf(ts) == {worker[t].proc : t \in ts}
    IN
    /\ state = "running" /\ sinceCheck = CheckEvery
    /\ sinceCheck' = 0
    /\ proc' = [p \in Procs |->
                  IF ~Alive(p) THEN proc[p]
                  ELSE IF p \in procsOf(kill) THEN [proc[p] EXCEPT !.st = "crashed"]
                  ELSE IF p \in procsOf(ping) THEN [proc[p] EXCEPT !.ping = TRUE]
                  ELSE proc[p]]
    /\ worker' = [t \in Tenants |-> IF t \in ping THEN [worker[t] EXCEPT !.pinged = TRUE]
                                    ELSE worker[t]]
    /\ UNCHANGED <<state, wanted, backoff, poll, drain, faultVars>>

\* A tick passes: checks run when they are due, messages and exits of children
\* arrive within the tick and a child that can answers a ping within it.
Tick ==
    /\ clocked /\ state = "running" /\ sinceCheck < CheckEvery
    /\ \A p \in Procs : /\ ~(proc[p].ping /\ proc[p].st = "up")
                       /\ ~proc[p].ready /\ proc[p].st \notin {"crashed", "left"}
    /\ sinceCheck' = sinceCheck + 1
    /\ worker' = [t \in Tenants |->
                    IF HasWorker(t) /\ worker[t].ponged /\ worker[t].age <= PongWindow
                    THEN [worker[t] EXCEPT !.age = @ + 1] ELSE worker[t]]
    /\ UNCHANGED <<state, wanted, proc, backoff, poll, drain, faultVars>>

-----------------------------------------------------------------------------

\* A tenant signs up, or is suspended.
ToggleTenant(t) ==
    /\ MayHappen(toggles, MaxToggles)
    /\ toggles' = toggles + 1
    /\ wanted' = IF t \in wanted THEN wanted \ {t} ELSE wanted \cup {t}
    /\ UNCHANGED <<state, worker, proc, backoff, poll, drain, sinceCheck,
                   clocked, crashes, hangs, timeouts, stops, pollErrors>>

Next ==
    \/ Start \/ Stop \/ Stopped \/ RunHealthChecks \/ Tick
    \/ \E t \in Tenants : BackoffOver(t) \/ ToggleTenant(t)
    \/ \E k \in Polls : PollStart(k) \/ PollRead(k) \/ PollFails(k) \/ PollTimeout(k)
    \/ \E p \in Procs : \/ Boot(p) \/ CrashChild(p) \/ Hang(p) \/ ShutDown(p)
                        \/ HandleReady(p) \/ HandlePong(p) \/ HandleChildExit(p)
                        \/ StopTimeout(p)

Spec == Init /\ [][Next]_vars

\* Timers fire, database reads return, children boot, answer and shut down, and
\* Node delivers their messages and exits.  A run that waits ends by its timeout
\* if by nothing else.
Fairness ==
    /\ WF_vars(Start) /\ WF_vars(Stopped) /\ WF_vars(RunHealthChecks) /\ WF_vars(Tick)
    /\ \A t \in Tenants : WF_vars(BackoffOver(t))
    /\ \A k \in Polls : WF_vars(PollStart(k)) /\ WF_vars(PollRead(k)) /\ WF_vars(PollTimeout(k))
    /\ \A p \in Procs : /\ WF_vars(Boot(p)) /\ WF_vars(ShutDown(p)) /\ WF_vars(StopTimeout(p))
                        /\ WF_vars(HandleReady(p)) /\ WF_vars(HandlePong(p))
                        /\ WF_vars(HandleChildExit(p))

FairSpec == Spec /\ Fairness

-----------------------------------------------------------------------------
(* Properties *)

\* As long as no graceful stop had to be given up, a tenant has at most one
\* living process and it is the one the orchestrator knows: a respawn after a
\* backoff, the discovery that found the tenant without a worker meanwhile, and
\* a stop never add up to two.  And when stop() is done nothing is left running
\* and nothing starts: neither a backoff nor a discovery spawns behind its back.
NoStrayProcess ==
    timeouts = 0 => \A p \in Procs : Alive(p) =>
        /\ HasWorker(proc[p].tenant) /\ worker[proc[p].tenant].proc = p
        /\ state # "stopped"

\* runHealthChecks asks "if worker is responding" and kills the one that is not: a
\* step that ends a living process other than by a crash or by a stop's timeout ends
\* a hung one.  (Refuted: with a check every 30 s and a pong that may be 20 s old the
\* child that answered the last ping is killed at the next check.)
ResponsiveNotKilled ==
    [][\A p \in Procs : proc[p].st \in {"booting", "up"} /\ proc'[p].st = "crashed"
           => crashes' # crashes \/ timeouts' # timeouts]_vars

\* A child that answered once and then hangs is noticed and killed.
HungIsKilled ==
    \A p \in Procs, t \in Tenants :
        proc[p].st = "hung" /\ HasWorker(t) /\ worker[t].proc = p /\ worker[t].ponged
            ~> proc[p].st # "hung"

Served(t) == HasWorker(t) /\ worker[t].st = "running" /\ proc[worker[t].proc].st = "up"

\* A child that hung before its first pong: no check looks at it.
Silent(t) == HasWorker(t) /\ ~worker[t].ponged /\ proc[worker[t].proc].st = "hung"

\* An active tenant is served again and again, whatever crashed, hung up or was
\* being stopped when it came back - except by a child that is Silent for good.
ActiveServed ==
    \A t \in Tenants :
        <>[](state = "running" /\ t \in wanted /\ ~Silent(t)) => []<>Served(t)

\* The worker of a tenant that left does not stay.  (It may come back: a 'ready'
\* that is late makes its exit look like a crash; the next discovery stops it
\* again.)
InactiveStopped ==
    \A t \in Tenants : <>[](state = "running" /\ t \notin wanted) => []<>~HasWorker(t)
=============================================================================
