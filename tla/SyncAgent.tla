------------------------------ MODULE SyncAgent ------------------------------
(***************************************************************************)
(* The Sync Agent (sync-engine/src/agents/sync.ts): a BullMQ queue of sync *)
(* jobs and a worker of some concurrency whose jobs write the database and *)
(* the sales channels.  Every await of a job is one action, so that jobs   *)
(* interleave exactly where the event loop lets them.                      *)
(*                                                                         *)
(* Environment: sales on the channels (reported as stock changes), users   *)
(* who trigger syncs and switch channels on and off, failing database      *)
(* statements, replies lost after the statement took effect, failing       *)
(* channel calls, and crashes of the process.  Every environment fault is  *)
(* counted and bounded.                                                    *)
(***************************************************************************)
EXTENDS Naturals, Sequences, SequencesExt, StockRules

CONSTANTS
    Products,       \* product ids a job may name
    Known,          \* the products that are (still) in the database
    Channels,       \* the tenant's channels
    ChannelType,    \* channel -> "eposnow", "shopify", "woocommerce", ...
    Mapping,        \* product -> the channels it is mapped to
    Buffer,         \* product -> bufferStock
    MaxStock,       \* stock levels are 0..MaxStock
    InitStock,      \* the stock every product starts with
    Workers,        \* the concurrent job slots of the BullMQ worker
    MaxJobs,        \* jobs ever accepted
    Ops,            \* operations the environment requests
    MaxAttempts,    \* config.maxRetries, the attempts of a job
    MaxStalls,      \* how often BullMQ re-queues a stalled job
    MaxDbErrors,    \* statements that fail without effect
    MaxLostReplies, \* statements that take effect and still report an error
    MaxChannelFaults, \* channel calls that fail
    MaxCrashes, MaxStops, MaxToggles,
    NoChannel, NoProduct, NoStock

Stock == 0..MaxStock
Jobs == 1..MaxJobs
Operations == {"stock_change", "product_sync", "channel_sync", "full_sync"}

ASSUME ProductsAssumption ==
    /\ Known \subseteq Products
    /\ Mapping \in [Products -> SUBSET Channels]
    /\ NoProduct \notin Products
ASSUME ChannelsAssumption ==
    /\ ChannelType \in [Channels -> STRING]
    /\ NoChannel \notin Channels
ASSUME StockAssumption ==
    /\ MaxStock \in Nat
    /\ InitStock \in Stock
    /\ Buffer \in [Products -> Nat]
    /\ NoStock \notin Stock
ASSUME BoundsAssumption ==
    /\ Ops \subseteq Operations
    /\ MaxJobs \in Nat
    /\ MaxAttempts \in Nat \ {0}
    /\ {MaxStalls, MaxDbErrors, MaxLostReplies, MaxChannelFaults} \subseteq Nat
    /\ {MaxCrashes, MaxStops, MaxToggles} \subseteq Nat

VARIABLES
    agentState,     \* SyncAgent.state
    jobData,        \* the accepted jobs, in the order they were added
    jobState,       \* job -> its BullMQ state
    waiting,        \* BullMQ's wait list
    attempts,       \* job -> failed attempts so far
    stalls,         \* job -> times it was found stalled
    result,         \* job -> the errors of the SyncResult it returned
    run,            \* worker slot -> the activation record of its job
    dbStock,        \* product -> products.current_stock
    chanStock,      \* product -> channel -> the stock the channel shows
    active,         \* channel -> channels.is_active
    audit,          \* the rows of sync_events, in order of creation
    dbErrors, lostReplies, channelFaults, crashes, stops, toggles,
    switched        \* history: the channels that were ever switched off or on

queueVars == <<jobData, jobState, waiting, attempts, stalls, result>>
dataVars  == <<dbStock, chanStock, audit>>
faultVars == <<dbErrors, lostReplies, channelFaults, crashes, stops, toggles, switched>>
vars == <<agentState, queueVars, run, dataVars, active, faultVars>>

-----------------------------------------------------------------------------
(* Types *)

\* SyncJobData.  src is sourceChannelId, qty is stockChange.newQuantity.
JobData ==
         [op: {"stock_change"}, prod: Products, src: Channels, qty: Stock, force: {FALSE}]
    \cup [op: {"product_sync"}, prod: Products, src: {NoChannel}, qty: {NoStock}, force: {FALSE}]
    \cup [op: {"channel_sync"}, prod: {NoProduct}, src: Channels, qty: {NoStock}, force: {FALSE}]
    \cup [op: {"full_sync"}, prod: {NoProduct}, src: {NoChannel}, qty: {NoStock}, force: BOOLEAN]

JobState == {"none", "waiting", "delayed", "active", "completed", "failed"}

\* A row of sync_events.  new is NoStock where the code writes newValue: {}.
\* job and try are history: the job that created the row, and in which attempt.
AuditRow == [prod: Products, src: Channels, new: Stock \cup {NoStock}, job: Jobs, try: Nat,
             status: {"processing", "completed", "failed"}]

\* SyncError, reduced to what it is about.
SyncError == (Products \cup {NoProduct}) \X (Channels \cup {NoChannel})

\* Where a slot is in its job: the await it is about to make.
PC == {"idle", "lookup", "source", "products", "next", "record", "pull",
       "unavailable", "write", "mappings", "push", "abort", "done", "throw"}

\* The local variables of the job a slot executes.
Run == [pc: PC, job: Jobs \cup {0}, src: Channels \cup {NoChannel},
        snap: [Products -> Stock], pending: SUBSET Products,
        cur: Products \cup {NoProduct}, qty: Stock, todo: SUBSET Channels,
        row: Nat, errors: SUBSET SyncError]

NoSnap == [p \in Products |-> 0]
IdleRun == [pc |-> "idle", job |-> 0, src |-> NoChannel, snap |-> NoSnap,
            pending |-> {}, cur |-> NoProduct, qty |-> 0, todo |-> {},
            row |-> 0, errors |-> {}]

TypeOK ==
    /\ agentState \in {"stopped", "running", "stopping"}
    /\ jobData \in Seq(JobData) /\ Len(jobData) <= MaxJobs
    /\ jobState \in [Jobs -> JobState]
    /\ waiting \in Seq(Jobs)
    /\ attempts \in [Jobs -> Nat]
    /\ stalls \in [Jobs -> Nat]
    /\ result \in [Jobs -> SUBSET SyncError]
    /\ run \in [Workers -> Run]
    /\ dbStock \in [Products -> Stock]
    /\ chanStock \in [Products -> [Channels -> Stock]]
    /\ active \in [Channels -> BOOLEAN]
    /\ audit \in Seq(AuditRow)
    /\ dbErrors \in Nat /\ lostReplies \in Nat /\ channelFaults \in Nat
    /\ crashes \in Nat /\ stops \in Nat /\ toggles \in Nat
    /\ switched \subseteq Channels

Expected(p, c, qty) == ExpectedStock(ChannelType[c], qty, Buffer[p])

Init ==
    /\ agentState = "stopped"
    /\ jobData = <<>>
    /\ jobState = [j \in Jobs |-> "none"]
    /\ waiting = <<>>
    /\ attempts = [j \in Jobs |-> 0]
    /\ stalls = [j \in Jobs |-> 0]
    /\ result = [j \in Jobs |-> {}]
    /\ run = [w \in Workers |-> IdleRun]
    /\ dbStock = [p \in Products |-> InitStock]
    /\ chanStock = [p \in Products |-> [c \in Channels |-> Expected(p, c, InitStock)]]
    /\ active = [c \in Channels |-> TRUE]
    /\ audit = <<>>
    /\ dbErrors = 0 /\ lostReplies = 0 /\ channelFaults = 0
    /\ crashes = 0 /\ stops = 0 /\ toggles = 0
    /\ switched = {}

-----------------------------------------------------------------------------
(* The queue *)

\* addSyncJob refuses when there is no queue, which stop() sets to null only
\* after the worker has drained.
AddSyncJob(data) ==
    /\ agentState \in {"running", "stopping"}
    /\ Len(jobData) < MaxJobs
    /\ LET j == Len(jobData) + 1 IN
         /\ jobData' = Append(jobData, data)
         /\ jobState' = [jobState EXCEPT ![j] = "waiting"]
         /\ waiting' = Append(waiting, j)
    /\ UNCHANGED <<agentState, attempts, stalls, result, run, active, faultVars>>

\* A sale on channel c leaves q units there; the Watcher turns the channel's
\* notification into stock:change, and handleStockChange adds the job.
HandleStockChange(p, c, q) ==
    /\ "stock_change" \in Ops
    /\ AddSyncJob([op |-> "stock_change", prod |-> p, src |-> c, qty |-> q, force |-> FALSE])
    /\ chanStock' = [chanStock EXCEPT ![p][c] = q]
    /\ UNCHANGED <<dbStock, audit>>

TriggerProductSync(p) ==
    /\ "product_sync" \in Ops
    /\ AddSyncJob([op |-> "product_sync", prod |-> p, src |-> NoChannel,
                   qty |-> NoStock, force |-> FALSE])
    /\ UNCHANGED dataVars

TriggerChannelSync(c) ==
    /\ "channel_sync" \in Ops
    /\ AddSyncJob([op |-> "channel_sync", prod |-> NoProduct, src |-> c,
                   qty |-> NoStock, force |-> FALSE])
    /\ UNCHANGED dataVars

\* triggerFullSync always forces; callers of addSyncJob need not.
TriggerFullSync(force) ==
    /\ "full_sync" \in Ops
    /\ AddSyncJob([op |-> "full_sync", prod |-> NoProduct, src |-> NoChannel,
                   qty |-> NoStock, force |-> force])
    /\ UNCHANGED dataVars

\* Stock changes have priority 1, everything else 5; BullMQ serves the lowest
\* number first, and equal ones in the order they joined the wait list.
Priority(j) == IF jobData[j].op = "stock_change" THEN 1 ELSE 5

IsNext(i) ==
    \A k \in 1..Len(waiting) :
        \/ Priority(waiting[i]) < Priority(waiting[k])
        \/ Priority(waiting[i]) = Priority(waiting[k]) /\ i <= k

JobOf(w) == jobData[run[w].job]

TakeJob(w) ==
    /\ agentState = "running"
    /\ run[w].pc = "idle"
    /\ \E i \in 1..Len(waiting) :
         LET j == waiting[i] IN
         /\ IsNext(i)
         /\ waiting' = RemoveAt(waiting, i)
         /\ jobState' = [jobState EXCEPT ![j] = "active"]
         /\ run' = [run EXCEPT ![w] =
              [IdleRun EXCEPT !.job = j,
                 !.src = jobData[j].src,
                 !.pc = IF jobData[j].op \in {"stock_change", "product_sync"}
                        THEN "lookup" ELSE "source"]]
    /\ UNCHANGED <<agentState, jobData, attempts, stalls, result, dataVars, active, faultVars>>

\* processSyncJob returns: success iff errors is empty.
FinishJob(w) ==
    /\ run[w].pc = "done"
    /\ jobState' = [jobState EXCEPT ![run[w].job] = "completed"]
    /\ result' = [result EXCEPT ![run[w].job] = run[w].errors]
    /\ run' = [run EXCEPT ![w] = IdleRun]
    /\ UNCHANGED <<agentState, jobData, waiting, attempts, stalls, dataVars, active, faultVars>>

\* Mutant of FailJob: the retried job is marked but never put on a list again.
MutRetryNotQueued(w) ==
    LET j == run[w].job IN
    /\ run[w].pc = "throw"
    /\ attempts' = [attempts EXCEPT ![j] = @ + 1]
    /\ jobState' = [jobState EXCEPT ![j] =
                      IF attempts[j] + 1 < MaxAttempts THEN "waiting" ELSE "failed"]
    /\ run' = [run EXCEPT ![w] = IdleRun]
    /\ UNCHANGED <<agentState, jobData, waiting, stalls, result, dataVars, active, faultVars>>

\* processSyncJob throws: BullMQ retries with backoff until the attempts are spent.
FailJob(w) ==
    LET j == run[w].job IN
    /\ run[w].pc = "throw"
    /\ attempts' = [attempts EXCEPT ![j] = @ + 1]
    /\ jobState' = [jobState EXCEPT ![j] =
                      IF attempts[j] + 1 < MaxAttempts THEN "delayed" ELSE "failed"]
    /\ run' = [run EXCEPT ![w] = IdleRun]
    /\ UNCHANGED <<agentState, jobData, waiting, stalls, result, dataVars, active, faultVars>>

\* The backoff of a delayed job is over.
PromoteDelayed(j) ==
    /\ jobState[j] = "delayed"
    /\ jobState' = [jobState EXCEPT ![j] = "waiting"]
    /\ waiting' = Append(waiting, j)
    /\ UNCHANGED <<agentState, jobData, attempts, stalls, result, run, dataVars, active, faultVars>>

\* BullMQ finds a job whose lock expired because its process died.
RecoverStalled(j) ==
    /\ agentState = "running"
    /\ jobState[j] = "active"
    /\ \A w \in Workers : run[w].job # j
    /\ IF stalls[j] < MaxStalls
       THEN /\ jobState' = [jobState EXCEPT ![j] = "waiting"]
            /\ waiting' = Append(waiting, j)
            /\ stalls' = [stalls EXCEPT ![j] = @ + 1]
       ELSE /\ jobState' = [jobState EXCEPT ![j] = "failed"]
            /\ UNCHANGED <<waiting, stalls>>
    /\ UNCHANGED <<agentState, jobData, attempts, result, run, dataVars, active, faultVars>>

-----------------------------------------------------------------------------
(* The steps of a job, one per await *)

Goto(w, l) == run' = [run EXCEPT ![w].pc = l]
OnlyRun == UNCHANGED <<agentState, queueVars, dataVars, active, faultVars>>

\* The active channels p is mapped to, without the source of the change.
Targets(p, src) == {c \in Mapping[p] : active[c] /\ c # src}

\* getProduct / getProductByExternalId.  A stock change names a product only
\* when the Watcher found the mapping of its channel.
Found(data) ==
    /\ data.prod \in Known
    /\ data.op = "stock_change" => data.src \in Mapping[data.prod]

LookupProduct(w) ==
    LET data == JobOf(w) IN
    /\ run[w].pc = "lookup"
    /\ IF Found(data)
       THEN run' = [run EXCEPT
              ![w].cur = data.prod,
              ![w].qty = IF data.op = "stock_change" THEN data.qty ELSE dbStock[data.prod],
              ![w].pc  = IF data.op = "stock_change" THEN "record" ELSE "mappings"]
       ELSE run' = [run EXCEPT
              ![w].errors = IF data.op = "product_sync" THEN {<<data.prod, NoChannel>>} ELSE {},
              ![w].pc = "done"]
    /\ OnlyRun

\* fullSync's preference: eposnow, then shopify, then woocommerce, then any.
SourceOfTruth(on) ==
    LET ofType(t) == {c \in on : ChannelType[c] = t} IN
    IF ofType("eposnow") # {} THEN ofType("eposnow")
    ELSE IF ofType("shopify") # {} THEN ofType("shopify")
    ELSE IF ofType("woocommerce") # {} THEN ofType("woocommerce")
    ELSE on

ActiveChannels == {c \in Channels : active[c]}

\* channel_sync: getChannel; an unknown or inactive channel ends the job.
CheckChannel(w) ==
    LET c == JobOf(w).src IN
    /\ run[w].pc = "source" /\ JobOf(w).op = "channel_sync"
    /\ IF active[c]
       THEN run' = [run EXCEPT ![w].pc = "products"]
       ELSE run' = [run EXCEPT ![w].pc = "done", ![w].errors = {<<NoProduct, c>>}]
    /\ OnlyRun

\* full_sync: getChannels, and the choice of the source of truth.
ChooseSourceOfTruth(w) ==
    /\ run[w].pc = "source" /\ JobOf(w).op = "full_sync"
    /\ \/ ActiveChannels = {} /\ Goto(w, "done")
       \/ \E c \in SourceOfTruth(ActiveChannels) :
             run' = [run EXCEPT ![w].src = c, ![w].pc = "products"]
    /\ OnlyRun

\* getProducts: the stock of every product is read here, once for the whole loop.
LoadProducts(w) ==
    /\ run[w].pc = "products"
    /\ run' = [run EXCEPT ![w].snap = dbStock, ![w].pending = Known, ![w].pc = "next"]
    /\ OnlyRun

\* The head of the loop over products: getProductMappings, and the skip of a
\* product the source does not carry.
NextProduct(w) ==
    /\ run[w].pc = "next"
    /\ \/ run[w].pending = {} /\ Goto(w, "done")
       \/ \E p \in run[w].pending :
             IF run[w].src \in Mapping[p]
             THEN run' = [run EXCEPT ![w].pending = @ \ {p}, ![w].cur = p,
                            ![w].todo = Targets(p, run[w].src), ![w].pc = "record"]
             ELSE run' = [run EXCEPT ![w].pending = @ \ {p}]
    /\ OnlyRun

\* Every attempt of a job ends in one more failure or one more stall, or is its last.
Try(j) == attempts[j] + stalls[j]

\* Mutant of NewRow: the row is inserted as already completed.
MutNewRowCompleted(w) == [prod |-> run[w].cur, src |-> run[w].src, new |-> JobOf(w).qty,
                          job |-> run[w].job, try |-> Try(run[w].job), status |-> "completed"]

\* The row createSyncEvent inserts for the product at hand.
NewRow(w) == [prod |-> run[w].cur, src |-> run[w].src, new |-> JobOf(w).qty,
              job |-> run[w].job, try |-> Try(run[w].job), status |-> "processing"]

CreateSyncEvent(w) ==
    /\ run[w].pc = "record"
    /\ audit' = Append(audit, NewRow(w))
    /\ run' = [run EXCEPT ![w].row = Len(audit) + 1,
                 ![w].pc = IF JobOf(w).op = "stock_change" THEN "write" ELSE "pull"]
    /\ UNCHANGED <<agentState, queueVars, dbStock, chanStock, active, faultVars>>

\* getChannelStock answers.  An unforced full sync skips an unchanged product.
PullStock(w) ==
    LET v == chanStock[run[w].cur][run[w].src]
        skip == JobOf(w).op = "full_sync" /\ ~JobOf(w).force /\ v = run[w].snap[run[w].cur]
    IN
    /\ run[w].pc = "pull"
    /\ run' = IF skip THEN [run EXCEPT ![w].todo = {}, ![w].pc = "push"]
                      ELSE [run EXCEPT ![w].qty = v, ![w].pc = "write"]
    /\ OnlyRun

\* getChannelStock answers null.
PullUnavailable(w) ==
    /\ run[w].pc = "pull"
    /\ channelFaults < MaxChannelFaults
    /\ channelFaults' = channelFaults + 1
    /\ Goto(w, "unavailable")
    /\ UNCHANGED <<agentState, queueVars, dataVars, active, dbErrors, lostReplies,
                   crashes, stops, toggles, switched>>

UpdateProductStock(w) ==
    /\ run[w].pc = "write"
    /\ dbStock' = [dbStock EXCEPT ![run[w].cur] = run[w].qty]
    /\ Goto(w, IF JobOf(w).op = "stock_change" THEN "mappings" ELSE "push")
    /\ UNCHANGED <<agentState, queueVars, chanStock, audit, active, faultVars>>

\* getProductMappings of stock_change and product_sync: isActive is read here.
LoadMappings(w) ==
    /\ run[w].pc = "mappings"
    /\ run' = [run EXCEPT ![w].todo = Targets(run[w].cur, run[w].src), ![w].pc = "push"]
    /\ OnlyRun

\* updateChannelStock on the next mapping of the loop.
WriteChannel(w, c) ==
    chanStock' = [chanStock EXCEPT ![run[w].cur][c] = Expected(run[w].cur, c, run[w].qty)]

PushChannel(w, c) ==
    /\ run[w].pc = "push" /\ c \in run[w].todo
    /\ WriteChannel(w, c)
    /\ run' = [run EXCEPT ![w].todo = @ \ {c}]
    /\ UNCHANGED <<agentState, queueVars, dbStock, audit, active, faultVars>>

\* Mutant of PushFails: the first failing channel ends the loop over channels.
MutPushBreaks(w, c, applied) ==
    /\ run[w].pc = "push" /\ c \in run[w].todo
    /\ channelFaults < MaxChannelFaults
    /\ channelFaults' = channelFaults + 1
    /\ IF applied THEN WriteChannel(w, c) ELSE UNCHANGED chanStock
    /\ run' = [run EXCEPT ![w].todo = {}, ![w].errors = @ \cup {<<run[w].cur, c>>}]
    /\ UNCHANGED <<agentState, queueVars, dbStock, audit, active, dbErrors, lostReplies,
                   crashes, stops, toggles, switched>>

\* updateChannelStock throws, before or after the provider took the value; the
\* error is collected and the loop goes on.
PushFails(w, c, applied) ==
    /\ run[w].pc = "push" /\ c \in run[w].todo
    /\ channelFaults < MaxChannelFaults
    /\ channelFaults' = channelFaults + 1
    /\ IF applied THEN WriteChannel(w, c) ELSE UNCHANGED chanStock
    /\ run' = [run EXCEPT ![w].todo = @ \ {c}, ![w].errors = @ \cup {<<run[w].cur, c>>}]
    /\ UNCHANGED <<agentState, queueVars, dbStock, audit, active, dbErrors, lostReplies,
                   crashes, stops, toggles, switched>>

\* syncProduct returns when its channels are done; it keeps no audit row.
EndProductSync(w) ==
    /\ run[w].pc = "push" /\ run[w].todo = {}
    /\ JobOf(w).op = "product_sync"
    /\ Goto(w, "done")
    /\ OnlyRun

SetStatus(w, s) == audit' = [audit EXCEPT ![run[w].row].status = s]

\* The row of the product at hand is settled: a stock_change job is over, a loop
\* goes on with its next product.
LeaveRow(w, errors, end) ==
    run' = [run EXCEPT ![w].row = 0, ![w].cur = NoProduct, ![w].qty = 0, ![w].todo = {},
              ![w].errors = @ \cup errors,
              ![w].pc = IF JobOf(w).op = "stock_change" THEN end ELSE "next"]

CompleteSyncEvent(w) ==
    /\ run[w].pc = "push" /\ run[w].todo = {}
    /\ JobOf(w).op # "product_sync"
    /\ SetStatus(w, "completed")
    /\ LeaveRow(w, {}, "done")
    /\ UNCHANGED <<agentState, queueVars, dbStock, chanStock, active, faultVars>>

\* Mutant of RejectSyncEvent: continue without updateSyncEventStatus.
MutRejectKeepsRow(w) ==
    /\ run[w].pc = "unavailable"
    /\ LeaveRow(w, {<<run[w].cur, run[w].src>>}, "next")
    /\ UNCHANGED <<agentState, queueVars, dataVars, active, faultVars>>

\* The source channel gave no stock.
RejectSyncEvent(w) ==
    /\ run[w].pc = "unavailable"
    /\ SetStatus(w, "failed")
    /\ LeaveRow(w, {<<run[w].cur, run[w].src>>}, "next")
    /\ UNCHANGED <<agentState, queueVars, dbStock, chanStock, active, faultVars>>

\* Mutant of FailSyncEvent: the catch block forgets the row.
MutCatchForgetsRow(w) ==
    /\ run[w].pc = "abort"
    /\ LeaveRow(w, IF JobOf(w).op = "stock_change" THEN {} ELSE {<<run[w].cur, run[w].src>>},
                "throw")
    /\ UNCHANGED <<agentState, queueVars, dataVars, active, faultVars>>

\* The catch block: stock_change rethrows, the loops collect the error.
FailSyncEvent(w) ==
    /\ run[w].pc = "abort"
    /\ SetStatus(w, "failed")
    /\ LeaveRow(w, IF JobOf(w).op = "stock_change" THEN {} ELSE {<<run[w].cur, run[w].src>>},
                "throw")
    /\ UNCHANGED <<agentState, queueVars, dbStock, chanStock, active, faultVars>>

-----------------------------------------------------------------------------
(* A database call throws *)

\* The awaits inside the try block end in its catch block, the others (and
\* the one of the catch block itself) leave the job.
InTry(w) ==
    \/ run[w].pc \in {"pull", "write", "unavailable"}
    \/ run[w].pc = "mappings" /\ JobOf(w).op = "stock_change"
    \/ run[w].pc = "push" /\ run[w].todo = {} /\ JobOf(w).op # "product_sync"

OutsideTry(w) ==
    \/ run[w].pc \in {"lookup", "source", "products", "record", "abort"}
    \/ run[w].pc = "next" /\ run[w].pending # {}
    \/ run[w].pc = "mappings" /\ JobOf(w).op = "product_sync"

Raise(w) ==
    \/ InTry(w) /\ run' = [run EXCEPT ![w].pc = "abort", ![w].todo = {}]
    \/ OutsideTry(w) /\ run' = [run EXCEPT ![w].pc = "throw", ![w].row = 0, ![w].todo = {}]

\* The statement had no effect.
DbError(w) ==
    /\ dbErrors < MaxDbErrors
    /\ dbErrors' = dbErrors + 1
    /\ Raise(w)
    /\ UNCHANGED <<agentState, queueVars, dataVars, active, lostReplies, channelFaults,
                   crashes, stops, toggles, switched>>

\* The statement took effect, its reply was lost.
LostReply(w) ==
    /\ lostReplies < MaxLostReplies
    /\ lostReplies' = lostReplies + 1
    /\ Raise(w)
    /\ \/ /\ run[w].pc = "record"
          /\ audit' = Append(audit, NewRow(w)) /\ UNCHANGED dbStock
       \/ /\ run[w].pc = "write"
          /\ dbStock' = [dbStock EXCEPT ![run[w].cur] = run[w].qty] /\ UNCHANGED audit
       \/ /\ run[w].pc = "push"
          /\ SetStatus(w, "completed") /\ UNCHANGED dbStock
       \/ /\ run[w].pc \in {"unavailable", "abort"}
          /\ SetStatus(w, "failed") /\ UNCHANGED dbStock
    /\ UNCHANGED <<agentState, queueVars, chanStock, active, dbErrors, channelFaults,
                   crashes, stops, toggles, switched>>

-----------------------------------------------------------------------------
(* Lifecycle and environment *)

Start ==
    /\ agentState = "stopped"
    /\ agentState' = "running"
    /\ UNCHANGED <<queueVars, run, dataVars, active, faultVars>>

\* stop(): worker.close() stops taking jobs and waits for the running ones.
Stop ==
    /\ agentState = "running" /\ stops < MaxStops
    /\ agentState' = "stopping" /\ stops' = stops + 1
    /\ UNCHANGED <<queueVars, run, dataVars, active, dbErrors, lostReplies, channelFaults,
                   crashes, toggles, switched>>

Stopped ==
    /\ agentState = "stopping"
    /\ \A w \in Workers : run[w].pc = "idle"
    /\ agentState' = "stopped"
    /\ UNCHANGED <<queueVars, run, dataVars, active, faultVars>>

\* The process dies: what is in Redis and the database stays.
Crash ==
    /\ agentState # "stopped" /\ crashes < MaxCrashes
    /\ crashes' = crashes + 1
    /\ agentState' = "stopped"
    /\ run' = [w \in Workers |-> IdleRun]
    /\ UNCHANGED <<queueVars, dataVars, active, dbErrors, lostReplies, channelFaults,
                   stops, toggles, switched>>

\* A user, or a failed health check, switches a channel on or off.
ToggleChannel(c) ==
    /\ toggles < MaxToggles
    /\ toggles' = toggles + 1
    /\ active' = [active EXCEPT ![c] = ~@]
    /\ switched' = switched \cup {c}
    /\ UNCHANGED <<agentState, queueVars, run, dataVars, dbErrors, lostReplies,
                   channelFaults, crashes, stops>>

Requests ==
    \/ \E p \in Products, c \in Channels, q \in Stock : HandleStockChange(p, c, q)
    \/ \E p \in Products : TriggerProductSync(p)
    \/ \E c \in Channels : TriggerChannelSync(c)
    \/ \E force \in BOOLEAN : TriggerFullSync(force)

JobStep(w) ==
    \/ FinishJob(w) \/ FailJob(w)
    \/ LookupProduct(w) \/ CheckChannel(w) \/ ChooseSourceOfTruth(w)
    \/ LoadProducts(w) \/ NextProduct(w) \/ CreateSyncEvent(w) \/ PullStock(w)
    \/ UpdateProductStock(w) \/ LoadMappings(w)
    \/ (\E c \in Channels : PushChannel(w, c))
    \/ EndProductSync(w) \/ CompleteSyncEvent(w) \/ RejectSyncEvent(w) \/ FailSyncEvent(w)

Faults(w) ==
    \/ PullUnavailable(w) \/ DbError(w) \/ LostReply(w)
    \/ \E c \in Channels, applied \in BOOLEAN : PushFails(w, c, applied)

Next ==
    \/ Requests
    \/ \E w \in Workers : TakeJob(w) \/ JobStep(w) \/ Faults(w)
    \/ \E j \in Jobs : PromoteDelayed(j) \/ RecoverStalled(j)
    \/ Start \/ Stop \/ Stopped \/ Crash
    \/ \E c \in Channels : ToggleChannel(c)

Spec == Init /\ [][Next]_vars

\* The event loop runs every slot whose call was answered, every call is
\* eventually answered, BullMQ's timers fire, and the engine is started (again).
Fairness ==
    /\ \A w \in Workers : WF_vars(TakeJob(w)) /\ WF_vars(JobStep(w))
    /\ \A j \in Jobs : WF_vars(PromoteDelayed(j)) /\ WF_vars(RecoverStalled(j))
    /\ WF_vars(Start) /\ WF_vars(Stopped)

FairSpec == Spec /\ Fairness

-----------------------------------------------------------------------------
(* Properties *)

\* Rows left "processing" that no running job will ever settle.
OrphanRows == {i \in DOMAIN audit : audit[i].status = "processing"
                                    /\ \A w \in Workers : run[w].row # i}

\* One failing database statement never leaves a sync_events row in
\* "processing" for good: the catch block of processStockChange, syncFromChannel
\* and fullSync settles it.  It takes a second failing statement (the one of
\* the catch block), a lost reply or a crash.
NoOrphanRows ==
    crashes = 0 /\ lostReplies = 0 /\ dbErrors < 2 => OrphanRows = {}

Accepted == 1..Len(jobData)

\* Every accepted job has been processed successfully, as BullMQ sees it.
Quiet == \A j \in Accepted : jobState[j] = "completed"

\* Row i is the newest one about its product.
Newest(i) == \A k \in i + 1..Len(audit) : audit[k].prod # audit[i].prod

\* If the newest row of product p records a completed change, that is the stock held.
AuditTells(p) ==
    \A i \in DOMAIN audit :
        audit[i].prod = p /\ Newest(i) /\ audit[i].status = "completed" /\ audit[i].new # NoStock
            => dbStock[p] = audit[i].new

\* With one slot, the audit trail tells the truth about the database: if the
\* newest row of a product records a completed change, that is the stock held,
\* whatever failed, crashed or was retried before.
AuditTellsStock == \A p \in Products : AuditTells(p)

\* Row i tells of a push by the attempt whose errors its job returned (an
\* unforced full sync may have skipped the product).
Pushed(i) ==
    LET j == audit[i].job IN
    /\ audit[i].status = "completed" /\ audit[i].try = Try(j)
    /\ jobData[j].op = "full_sync" => jobData[j].force

\* Once every job is done, a channel that disagrees with the database about p is
\* named in the errors of the job that changed p last, is the source of that change,
\* or was switched off and on in between.
ErrorsAccount(p) ==
    Quiet => \A i \in DOMAIN audit : audit[i].prod = p /\ Newest(i) /\ Pushed(i) =>
        \A c \in Mapping[p] \ ({audit[i].src} \cup switched) :
            <<p, c>> \notin result[audit[i].job]
                => chanStock[p][c] = Expected(p, c, dbStock[p])

\* With one slot, once every job is done a channel that disagrees with the
\* database is accounted for: no failure of one channel, no retry and no crash
\* keeps another channel from being updated unnoticed.  Excluded is a product that
\* only an earlier attempt of its job came to: what that attempt collected is lost
\* with it.  (processSyncJob)
ErrorsAccountForDivergence == \A p \in Products : ErrorsAccount(p)

\* Every accepted job is eventually completed or given up, through crashes,
\* retries and stalled locks.
EveryJobSettles ==
    \A j \in Jobs : jobState[j] # "none" ~> jobState[j] \in {"completed", "failed"}
=============================================================================
