-------------------------------- MODULE Alerts --------------------------------
(***************************************************************************)
(* Who raises alerts and who reads them: the Alert Agent of the sync       *)
(* engine (sync-engine/src/agents/alert.ts), the alert jobs of the backend *)
(* (processAlertJob in backend/src/sync-integration.ts) and the routes of  *)
(* backend/src/routes/alerts.ts, over one alerts table.                    *)
(*                                                                         *)
(* Every creator looks for an unread alert of the same subject and inserts *)
(* one some awaits later.  A runner is whoever can be between the two: a   *)
(* slot of the agent's worker, a slot of the backend's, a call of one of   *)
(* the agent's event handlers.  The table is counted by subject: the rows  *)
(* of a subject differ only in their wording.                              *)
(***************************************************************************)
EXTENDS EngineLifecycle, Sequences, FiniteSets

CONSTANTS
    Tenants, Products, Channels,
    Owner,              \* the tenant of each product and channel
    Levels,             \* stock quantities
    LowStockThreshold,  \* config.lowStockThreshold
    BackendThreshold,   \* bufferStock + 5
    RuleThresholds,     \* thresholds users choose
    AgentSlots, BackendSlots, Handlers,
    Flaky,              \* tenants whose queries may fail again and again
    Attempts,           \* of a backend alert job
    NoTenant, NoSubject, NoThreshold,
    MaxPeriodic, MaxJobs,
    MaxEvents           \* events in all: calls of start and stop, requests, changes, faults,
                        \* crashes; calls and agents' faults may be more while nothing else was

ASSUME OwnerAssumption == Owner \in [Products \cup Channels -> Tenants]
ASSUME RunnersAssumption ==
    /\ AgentSlots \cap BackendSlots = {} /\ Handlers \cap (AgentSlots \cup BackendSlots) = {}
    /\ IsFiniteSet(AgentSlots) /\ IsFiniteSet(BackendSlots) /\ IsFiniteSet(Handlers)
ASSUME BoundsAssumption ==
    {MaxPeriodic, MaxJobs, MaxEvents, LowStockThreshold, BackendThreshold} \subseteq Nat
ASSUME JobsAssumption == Attempts \in Nat \ {0} /\ Tenants # {}

VARIABLES
    stock, up,          \* products.current_stock; what a health check would say
    unread, read,       \* the alerts table: rows by subject
    rules,              \* alertRulesStore, a Map in memory
    periodic,           \* waiting jobs of the agent's queue
    jobs,               \* the waiting jobs of the backend's alert queue
    task,               \* what each runner does
    byHand,             \* alerts that users posted or marked unread again
    events

alertVars == <<stock, up, unread, read, rules, periodic, jobs, task, byHand, events>>
vars == <<engineVars, alertVars>>

Runners == AgentSlots \cup BackendSlots \cup Handlers

Low(p) == [type |-> "low_stock", of |-> p]
Disconnected(c) == [type |-> "channel_disconnected", of |-> c]

Subjects == {Low(p) : p \in Products} \cup {Disconnected(c) : c \in Channels}

TenantOf(s) == Owner[s.of]

Rule == [threshold : RuleThresholds, isActive : BOOLEAN]
Job == [tenant : Tenants, check : {"low_stock", "channel_status", "all"},
        threshold : RuleThresholds \cup {NoThreshold}, tries : 0..Attempts - 1]

\* tenants is what is left of tenantIds, todo of the loop over products or
\* channels, subject what the runner is about to look for or to insert.
Task == [pc : {"idle", "tenant", "pick", "exists", "create"}, phase : {"low", "channels"},
         tenants : SUBSET Tenants, tenant : Tenants \cup {NoTenant},
         todo : SUBSET Subjects, subject : Subjects \cup {NoSubject}, job : Job]

AnyJob == [tenant |-> CHOOSE t \in Tenants : TRUE, check |-> "all",
           threshold |-> NoThreshold, tries |-> 0]
Idle == [pc |-> "idle", phase |-> "low", tenants |-> {}, tenant |-> NoTenant,
         todo |-> {}, subject |-> NoSubject, job |-> AnyJob]

TypeOK ==
    /\ EngineTypeOK
    /\ stock \in [Products -> Levels] /\ up \in [Channels -> BOOLEAN]
    /\ unread \in [Subjects -> Nat] /\ read \in [Subjects -> Nat]
    /\ rules \in [Tenants -> SUBSET Rule]
    /\ periodic \in 0..MaxPeriodic + Cardinality(AgentSlots)
    /\ jobs \in Seq(Job)
    /\ task \in [Runners -> Task]
    /\ byHand \in Nat /\ events \in 0..MaxEvents

Init ==
    /\ EngineInit
    /\ stock \in [Products -> Levels] /\ up = [c \in Channels |-> TRUE]
    /\ unread = [s \in Subjects |-> 0] /\ read = [s \in Subjects |-> 0]
    /\ rules = [t \in Tenants |-> {}]
    /\ periodic = 0 /\ jobs = <<>>
    /\ task = [r \in Runners |-> Idle]
    /\ byHand = 0 /\ events = 0

Event == events + agentFaults + calls < MaxEvents /\ events' = events + 1

\* A runner goes on, and only that.
Silent == UNCHANGED <<engineVars, stock, up, unread, read, rules, periodic, jobs, byHand, events>>

Become(r, k) == task' = [task EXCEPT ![r] = k]

-----------------------------------------------------------------------------
(* The table *)

\* Mutant of AlertExists: read alerts count too.
MutExistsRead(s) == unread[s] + read[s] > 0

\* Mutant of AlertExists: the read ones are looked at instead.
MutLooksAtRead(s) == read[s] > 0

\* alertExists: an unread alert of the tenant and type whose metadata name the
\* same product or channel.
AlertExists(s) == unread[s] > 0

\* createAlert inserts; nothing in the table forbids a second row.
CreateAlert(s) == unread' = [unread EXCEPT ![s] = @ + 1]

-----------------------------------------------------------------------------
(* The jobs: what the agent and the backend have in common *)

\* The repeatable job falls due every five minutes.
PeriodicDue ==
    /\ agent["alert"] = "running" /\ redis /\ periodic < MaxPeriodic
    /\ periodic' = periodic + 1
    /\ UNCHANGED <<engineVars, stock, up, unread, read, rules, jobs, task, byHand, events>>

\* The slots are those of the agent's worker, which takes jobs from its start()
\* until its stop() closes it, and of the workers of orphans.
TakePeriodic(r) ==
    /\ r \in AgentSlots /\ task[r] = Idle /\ periodic > 0
    /\ redis
    /\ \/ agent["alert"] # "null" /\ ~Awaits("stop", "alert")
       \/ "alert" \in orphans
    /\ periodic' = periodic - 1
    /\ Become(r, [Idle EXCEPT !.pc = "tenant", !.tenants = Tenants])
    /\ UNCHANGED <<engineVars, stock, up, unread, read, rules, jobs, byHand, events>>

TakeJob(r) ==
    /\ r \in BackendSlots /\ task[r] = Idle /\ jobs # <<>>
    /\ jobs' = Tail(jobs)
    /\ Become(r, [Idle EXCEPT !.pc = "tenant", !.tenants = {Head(jobs).tenant},
                              !.job = Head(jobs)])
    /\ UNCHANGED <<engineVars, stock, up, unread, read, rules, periodic, byHand, events>>

\* getAlertRules hands the agent the routes' rules as they are; checkLowStock
\* keeps those that are "enabled" and have the product's productId, fields that
\* no rule of the routes has.
CustomThreshold(t) ==
    {ru.threshold : ru \in {x \in rules[t] : {"enabled", "productId"} \subseteq DOMAIN x}}

ThresholdOf(r, t) ==
    IF r \in AgentSlots
    THEN IF CustomThreshold(t) = {} THEN LowStockThreshold
         ELSE CHOOSE th \in CustomThreshold(t) : TRUE
    ELSE IF task[r].job.threshold = NoThreshold THEN BackendThreshold ELSE task[r].job.threshold

\* getProducts: from here on the runner works on this reading of the stocks.
LowProducts(r, t) ==
    {Low(p) : p \in {q \in Products : Owner[q] = t /\ stock[q] <= ThresholdOf(r, t)}}
ChannelsOf(t) == {Disconnected(c) : c \in {d \in Channels : Owner[d] = t}}

\* Where a job goes from k without an await: on with the loop, to the channels
\* after the products, to the next tenant, or to its end.
Settled(k) ==
    LET channels == ChannelsOf(k.tenant) IN
    IF k.todo # {} THEN k
    ELSE IF k.phase = "low" /\ k.job.check = "all" /\ channels # {}
    THEN [k EXCEPT !.phase = "channels", !.todo = channels]
    ELSE IF k.tenants = {} THEN Idle
    ELSE [k EXCEPT !.pc = "tenant", !.tenant = NoTenant, !.phase = "low"]

CheckTenant(r) ==
    /\ task[r].pc = "tenant"
    /\ \E t \in task[r].tenants :
          LET channelsOnly == task[r].job.check = "channel_status" IN
          Become(r, Settled([task[r] EXCEPT !.pc = "pick", !.tenant = t, !.tenants = @ \ {t},
                        !.phase = IF channelsOnly THEN "channels" ELSE "low",
                        !.todo = IF channelsOnly THEN ChannelsOf(t) ELSE LowProducts(r, t)]))
    /\ Silent

\* Done with one subject: a handler is done, a job goes on with its loop.
Done(r, k) == IF r \in Handlers THEN Idle
              ELSE Settled([k EXCEPT !.pc = "pick", !.subject = NoSubject])

\* The next channel's health check; only a broken one goes on.
CheckHealth(r) ==
    /\ task[r].pc = "pick" /\ task[r].phase = "channels"
    /\ \E s \in task[r].todo :
          LET rest == [task[r] EXCEPT !.todo = @ \ {s}] IN
          Become(r, IF up[s.of] THEN Done(r, rest) ELSE [rest EXCEPT !.pc = "exists", !.subject = s])
    /\ Silent

\* What a runner may look for now: its subject, or one of the low products.
Sought(r) == IF task[r].pc = "exists" THEN {task[r].subject}
             ELSE IF task[r].pc = "pick" /\ task[r].phase = "low" THEN task[r].todo ELSE {}

LookForAlert(r) ==
    /\ \E s \in Sought(r) :
          LET rest == [task[r] EXCEPT !.todo = @ \ {s}] IN
          Become(r, IF AlertExists(s) THEN Done(r, rest)
                    ELSE [rest EXCEPT !.pc = "create", !.subject = s])
    /\ Silent

InsertAlert(r) ==
    /\ task[r].pc = "create"
    /\ CreateAlert(task[r].subject)
    /\ Become(r, Done(r, task[r]))
    /\ UNCHANGED <<engineVars, stock, up, read, rules, periodic, jobs, byHand, events>>

-----------------------------------------------------------------------------
(* Failing queries *)

\* In the agent an error while a channel is checked skips the channel, any
\* other one the rest of the tenant; the other tenants are not concerned.
AgentQueryFails(r) ==
    /\ r \in AgentSlots /\ task[r].pc \in {"pick", "exists", "create"}
    /\ task[r].tenant \in Flaky
    /\ \E left \in IF task[r].phase = "low" THEN {{}}
                  ELSE IF task[r].pc = "pick" THEN {task[r].todo \ {s} : s \in task[r].todo}
                  ELSE {task[r].todo} :
          Become(r, Done(r, [task[r] EXCEPT !.todo = left, !.phase = "channels"]))
    /\ Silent

\* Mutant of BackendQueryFails: there is no last attempt.
MutRetryForever(r) ==
    /\ r \in BackendSlots /\ task[r].pc # "idle" /\ Event
    /\ jobs' = Append(jobs, [task[r].job EXCEPT !.tries = @ + 1])
    /\ Become(r, Idle)
    /\ UNCHANGED <<engineVars, stock, up, unread, read, rules, periodic, byHand>>

\* In the backend it fails the job, which is tried again.
BackendQueryFails(r) ==
    /\ r \in BackendSlots /\ task[r].pc # "idle" /\ Event
    /\ LET job == task[r].job IN
       jobs' = IF job.tries + 1 < Attempts THEN Append(jobs, [job EXCEPT !.tries = @ + 1])
               ELSE jobs
    /\ Become(r, Idle)
    /\ UNCHANGED <<engineVars, stock, up, unread, read, rules, periodic, byHand>>

\* The process ends and its successor starts: what was in memory is gone, the
\* jobs that ran are waiting again.
Restart ==
    /\ state' = "stopped" /\ agent' = [a \in Agents |-> "null"] /\ call' = NoCall
    /\ redis' = TRUE /\ stats' = TRUE /\ listening' = {} /\ orphans' = {} /\ threw' = FALSE
    /\ rules' = [t \in Tenants |-> {}]
    /\ periodic' = periodic + Cardinality({r \in AgentSlots : task[r].pc # "idle"})
    /\ \E order \in [1..Cardinality({r \in BackendSlots : task[r].pc # "idle"}) ->
                       {r \in BackendSlots : task[r].pc # "idle"}] :
          /\ \A i, j \in DOMAIN order : order[i] = order[j] => i = j
          /\ jobs' = [i \in DOMAIN order |-> task[order[i]].job] \o jobs
    /\ task' = [r \in Runners |-> Idle]
    /\ UNCHANGED <<stock, up, unread, read, byHand, agentFaults, calls>>

Crash == Event /\ Restart

\* Nobody awaits an event handler: its error is an unhandled rejection, which
\* ends the process.
HandlerQueryFails(r) ==
    /\ r \in Handlers /\ task[r].pc # "idle" /\ Event
    /\ Restart

-----------------------------------------------------------------------------
(* Events, and the world *)

\* A handler is called: it begins by looking for an alert.
Handle(h, s) ==
    /\ h \in Handlers /\ task[h] = Idle
    /\ "alert" \in listening
    /\ Become(h, [Idle EXCEPT !.pc = "exists", !.subject = s, !.tenant = TenantOf(s)])
    /\ Silent

\* handleStockChange (of a report at or below the threshold, whatever the
\* database says by now) and handleChannelDisconnected.  handleDriftDetected does
\* the same of subjects of its own.  handleSyncFailed alerts on failures that are
\* not retryable, and processSyncJob, the one place that emits them, says
\* retryable of every failure (sync.ts:387): it never alerts.
StockReported(h, p) == Handle(h, Low(p))
ChannelLost(h, c) == Handle(h, Disconnected(c))

SetStock(p) ==
    /\ Event
    /\ \E q \in Levels : stock' = [stock EXCEPT ![p] = q]
    /\ UNCHANGED <<engineVars, up, unread, read, rules, periodic, jobs, task, byHand>>

ToggleChannel(c) ==
    /\ Event
    /\ up' = [up EXCEPT ![c] = ~@]
    /\ UNCHANGED <<engineVars, stock, unread, read, rules, periodic, jobs, task, byHand>>

-----------------------------------------------------------------------------
(* The routes *)

\* Requests that only write the table.
Touch == /\ Event
         /\ UNCHANGED <<engineVars, stock, up, rules, periodic, jobs, task>>

MarkRead(s) ==
    /\ unread[s] > 0 /\ Touch
    /\ unread' = [unread EXCEPT ![s] = @ - 1] /\ read' = [read EXCEPT ![s] = @ + 1]
    /\ UNCHANGED byHand

MarkUnread(s) ==
    /\ read[s] > 0 /\ Touch
    /\ unread' = [unread EXCEPT ![s] = @ + 1] /\ read' = [read EXCEPT ![s] = @ - 1]
    /\ byHand' = byHand + 1

MarkAllRead(t) ==
    /\ Touch
    /\ unread' = [s \in Subjects |-> IF TenantOf(s) = t THEN 0 ELSE unread[s]]
    /\ read' = [s \in Subjects |-> IF TenantOf(s) = t THEN read[s] + unread[s] ELSE read[s]]
    /\ UNCHANGED byHand

DeleteAlert(s) ==
    /\ Touch
    /\ \/ unread[s] > 0 /\ unread' = [unread EXCEPT ![s] = @ - 1] /\ UNCHANGED read
       \/ read[s] > 0 /\ read' = [read EXCEPT ![s] = @ - 1] /\ UNCHANGED unread
    /\ UNCHANGED byHand

\* POST /alerts takes any type and metadata, and looks for nothing.
PostAlert(s) == Touch /\ CreateAlert(s) /\ byHand' = byHand + 1 /\ UNCHANGED read

AddAlertJob(t, check, threshold) ==
    /\ Len(jobs) < MaxJobs
    /\ jobs' = Append(jobs, [tenant |-> t, check |-> check, threshold |-> threshold, tries |-> 0])

\* Requests about rules.
TouchRules == /\ Event
              /\ UNCHANGED <<engineVars, stock, up, unread, read, periodic, task, byHand>>

\* An active rule is checked once, for every product of the tenant.
CreateRule(t, ru) ==
    /\ TouchRules
    /\ rules' = [rules EXCEPT ![t] = @ \cup {ru}]
    /\ IF ru.isActive THEN AddAlertJob(t, "low_stock", ru.threshold) ELSE UNCHANGED jobs

UpdateRule(t, old, new) ==
    /\ old \in rules[t] /\ TouchRules
    /\ rules' = [rules EXCEPT ![t] = (@ \ {old}) \cup {new}]
    /\ UNCHANGED jobs

DeleteRule(t, ru) ==
    /\ ru \in rules[t] /\ TouchRules
    /\ rules' = [rules EXCEPT ![t] = @ \ {ru}]
    /\ UNCHANGED jobs

TestRule(t, ru) ==
    /\ ru \in rules[t] /\ TouchRules
    /\ AddAlertJob(t, "low_stock", ru.threshold)
    /\ UNCHANGED rules

CheckNow(t, check) ==
    /\ TouchRules
    /\ AddAlertJob(t, check, NoThreshold)
    /\ UNCHANGED rules

-----------------------------------------------------------------------------

\* The agent's worker.close() waits for the jobs that run, unless they are those of
\* an orphan.
SlotsIdle == "alert" \in orphans \/ \A r \in AgentSlots : task[r] = Idle

Engine == /\ EngineNext
          /\ \/ events + agentFaults' + calls' <= MaxEvents
             \/ events = 0 /\ \A r \in Runners : task[r] = Idle
          /\ call'.op = "stop" /\ agent["alert"] # "null" /\ agent'["alert"] = "null" => SlotsIdle
          /\ UNCHANGED alertVars

\* What a runner does when its queries succeed.
Step(r) == \/ TakePeriodic(r) \/ TakeJob(r) \/ CheckTenant(r)
           \/ CheckHealth(r) \/ LookForAlert(r) \/ InsertAlert(r)

Request ==
    \/ \E s \in Subjects : MarkRead(s) \/ MarkUnread(s) \/ DeleteAlert(s) \/ PostAlert(s)
    \/ \E t \in Tenants :
         \/ MarkAllRead(t)
         \/ \E check \in {"low_stock", "channel_status", "all"} : CheckNow(t, check)
    \* a rule of a tenant without products concerns nothing
    \/ \E t \in {Owner[p] : p \in Products} :
         \/ \E ru \in Rule : \/ CreateRule(t, ru) \/ DeleteRule(t, ru) \/ TestRule(t, ru)
                             \/ \E new \in Rule : UpdateRule(t, ru, new)

Next ==
    \/ Engine \/ PeriodicDue \/ Request \/ Crash
    \/ \E r \in Runners : Step(r) \/ AgentQueryFails(r) \/ BackendQueryFails(r) \/ HandlerQueryFails(r)
    \/ \E h \in Handlers, p \in Products : StockReported(h, p)
    \/ \E h \in Handlers, c \in Channels : ChannelLost(h, c)
    \/ \E p \in Products : SetStock(p)
    \/ \E c \in Channels : ToggleChannel(c)

Spec == Init /\ [][Next]_vars

\* The repeatable job falls due, and queries return.
FairSpec == /\ Spec /\ WF_vars(PeriodicDue) /\ WF_vars(Engine)
            /\ \A r \in Runners : WF_vars(Step(r))

-----------------------------------------------------------------------------
(* Properties *)

Creating(s) == {r \in Runners : task[r].pc = "create" /\ task[r].subject = s}

\* Nothing but a race makes a duplicate: the unread alerts of a subject, with
\* those about to be inserted, are never more than the runners that can be
\* between the look and the insert (alert.ts:317, :340, :367, :397, :434,
\* sync-integration.ts:795, :815), but for what users posted or marked unread again.
DuplicatesAreRaces ==
    \A s \in Subjects :
        unread[s] + Cardinality(Creating(s)) <= Cardinality(Runners) + byHand

\* While the engine runs, a product that stays low has an unread alert again
\* and again, however often users read or delete it and although the queries of
\* other tenants fail (processAlertCheck, alert.ts:252).
LowStockAlerted ==
    \A p \in Products : Owner[p] \notin Flaky =>
        (<>[](state = "running" /\ stock[p] <= LowStockThreshold) => []<>(unread[Low(p)] > 0))
===============================================================================
