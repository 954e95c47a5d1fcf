----------------------------- MODULE BackendSync -----------------------------
(***************************************************************************)
(* The stock pipeline of the backend (backend/src/sync-integration.ts on   *)
(* the queues of backend/src/queues/index.ts), which runs where tenants    *)
(* are not isolated: webhook jobs write the database and queue push jobs,  *)
(* push jobs write the channels, and a timer starts reconciliations that   *)
(* compare the channels with the database.  Every await is one action.     *)
(*                                                                         *)
(* Environment: sales and other changes of a channel's stock and their     *)
(* reports, users who set a stock or ask for a product to be synced,       *)
(* failing statements and channel calls, a crash.                          *)
(***************************************************************************)
EXTENDS Integers, FiniteSets, Sequences, StockRules

CONSTANTS
    Products, Channels, ChannelType, Mapping, Buffer,
    Sealed,         \* channels whose credentials are stored encrypted
    MaxStock, InitStock,
    Orders,         \* the orders customers place: the products of their items
    ReportSlots,    \* the concurrent slots of the webhook worker
    PushSlots,      \* the concurrent slots of the sync worker
    Runs,           \* reconciliations under way at once
    RepairLimit,    \* the largest drift that is repaired
    ReportAttempts, PushAttempts,   \* attempts of the two kinds of job
    MaxEvents       \* what the world does: reports and lost reports, requests of
                    \* users, failing statements and calls, a crash

Levels == -MaxStock..MaxStock

ASSUME BackendProducts ==
    /\ Mapping \in [Products -> SUBSET Channels] /\ Buffer \in [Products -> Nat]
    /\ ChannelType \in [Channels -> STRING] /\ Sealed \subseteq Channels
    /\ MaxStock \in Nat \ {0} /\ InitStock \in 0..MaxStock /\ RepairLimit \in Nat
ASSUME BackendOrders == Orders \subseteq Seq(Products) \ {<<>>}
ASSUME BackendSlots == IsFiniteSet(ReportSlots) /\ IsFiniteSet(PushSlots)
ASSUME BackendBounds ==
    /\ ReportAttempts \in Nat \ {0} /\ PushAttempts \in Nat \ {0}
    /\ MaxEvents \in Nat

VARIABLES
    db,         \* product -> products.current_stock
    shown,      \* product -> channel -> the stock the channel shows
    reports,    \* webhook job -> how many such jobs wait, for a retry included
    h,          \* webhook slot -> its activation record
    pushes,     \* push job -> how many such jobs wait, for a retry included
    failed,     \* the jobs the queues gave up and keep, as <<channel, product>>
    w,          \* sync slot -> its activation record
    g,          \* reconciliation -> its activation record
    unread,     \* history: the <<product, channel>> whose product a report has
                \* changed and no push job that serves the channel has read since
    events, crashed

stockVars == <<db, shown>>
queueVars == <<reports, pushes, failed>>
slotVars == <<h, w, g>>
bounds == <<events, crashed>>
vars == <<stockVars, queueVars, slotVars, unread, bounds>>

Change == [prod: Products, qty: Levels]
\* An order event has a change for each item, with the negated quantity sold.
Items(o) == [k \in DOMAIN o |-> [prod |-> o[k], qty |-> -1]]
Payload == {<<e>> : e \in Change} \cup {Items(o) : o \in Orders}
ReportJob == [src: Channels, changes: Payload, tries: 0..(ReportAttempts - 1)]
PushJob == [src: Channels, prod: Products, tries: 0..(PushAttempts - 1)]
Places == Products \X Channels

IdleReport == [pc |-> "idle", job |-> {}, i |-> 1]
IdlePush == [pc |-> "idle", job |-> {}, stock |-> 0, todo |-> {}]
IdleRun == [pc |-> "idle", snap |-> [p \in Products |-> 0], todo |-> {}, at |-> {}]

StockOK ==
    /\ db \in [Products -> Levels]
    /\ shown \in [Products -> [Channels -> Levels]]
    /\ \A p \in Products, c \in Channels : IsOnlineChannel(ChannelType[c]) => shown[p][c] >= 0
ReportsOK ==
    /\ reports \in [ReportJob -> Nat]
    /\ h \in [ReportSlots -> [pc: {"idle", "write", "enqueue"}, job: SUBSET ReportJob, i: Nat]]
    /\ \A s \in ReportSlots :
          IF h[s].pc = "idle" THEN h[s].job = {}
          ELSE \E j \in ReportJob : h[s].job = {j} /\ h[s].i \in DOMAIN j.changes
PushesOK ==
    /\ pushes \in [PushJob -> Nat]
    /\ w \in [PushSlots -> [pc: {"idle", "read", "push"}, job: SUBSET PushJob,
                            stock: Levels, todo: SUBSET Channels]]
    /\ \A s \in PushSlots :
          IF w[s].pc = "idle" THEN w[s].job = {} ELSE \E j \in PushJob : w[s].job = {j}
RunsOK ==
    g \in [Runs -> [pc: {"idle", "look", "repair", "alert"}, snap: [Products -> Levels],
                    todo: SUBSET Places, at: SUBSET Places]]

\* Every state is well typed; an online shop is never given a negative stock,
\* however far below zero or below its buffer the database has gone.
TypeOK ==
    /\ StockOK /\ ReportsOK /\ PushesOK /\ RunsOK
    /\ failed \subseteq Channels \X Products
    /\ unread \subseteq {x \in Places : x[2] \in Mapping[x[1]]}
    /\ events \in 0..MaxEvents /\ crashed \in BOOLEAN

Expected(p, c, qty) == ExpectedStock(ChannelType[c], qty, Buffer[p])

Init ==
    /\ db = [p \in Products |-> InitStock]
    /\ shown = [p \in Products |-> [c \in Channels |-> Expected(p, c, InitStock)]]
    /\ reports = [j \in ReportJob |-> 0]
    /\ h = [s \in ReportSlots |-> IdleReport]
    /\ pushes = [j \in PushJob |-> 0]
    /\ failed = {}
    /\ w = [s \in PushSlots |-> IdlePush]
    /\ g = [r \in Runs |-> IdleRun]
    /\ unread = {} /\ events = 0 /\ crashed = FALSE

Event == events < MaxEvents /\ events' = events + 1

-----------------------------------------------------------------------------
(* The world: channels change and report, users act.                       *)


\* The webhook route: 200 is sent first, then addWebhookJob queues the report.
QueueReport(c, changes) ==
    /\ Event
    /\ reports' = [reports EXCEPT ![[src |-> c, changes |-> changes, tries |-> 0]] = @ + 1]

\* A sale reported as an order.
Sold(o, p) == Cardinality({k \in DOMAIN o : o[k] = p})
Order(c, o) ==
    /\ \A k \in DOMAIN o : c \in Mapping[o[k]] /\ shown[o[k]][c] >= Sold(o, o[k])
    /\ shown' = [p \in Products |-> IF \E k \in DOMAIN o : o[k] = p
                                    THEN [shown[p] EXCEPT ![c] = @ - Sold(o, p)]
                                    ELSE shown[p]]
    /\ QueueReport(c, Items(o))
    /\ UNCHANGED <<db, pushes, failed, slotVars, unread, crashed>>

\* A stock event carries the new level: after a sale, or of a write of ours.
LevelEvent(c, p, qty) ==
    /\ qty \in {shown[p][c], shown[p][c] - 1} /\ qty >= 0
    /\ shown' = [shown EXCEPT ![p][c] = qty]
    /\ QueueReport(c, <<[prod |-> p, qty |-> qty]>>)
    /\ UNCHANGED <<db, pushes, failed, slotVars, unread, crashed>>

\* A sale whose event is never sent, or whose addWebhookJob fails after the
\* route has answered 200, so that the platform does not send it again.
LostSale(c, p) ==
    /\ Event /\ shown[p][c] > 0
    /\ shown' = [shown EXCEPT ![p][c] = @ - 1]
    /\ UNCHANGED <<db, queueVars, slotVars, unread, crashed>>

\* PUT /products/:id/stock writes the database and queues nothing.
SetStock(p, qty) ==
    /\ Event
    /\ db' = [db EXCEPT ![p] = qty]
    /\ UNCHANGED <<shown, queueVars, slotVars, unread, crashed>>

\* addSyncJob: a push job whose attempts are all to come.
Fresh(c, p) == [src |-> c, prod |-> p, tries |-> 0]

\* POST /sync/product: a push job for every channel asked for, as its source.
SyncProduct(p, cs) ==
    /\ Event
    /\ pushes' = [j \in PushJob |->
                     IF j \in {Fresh(c, p) : c \in cs} THEN pushes[j] + 1 ELSE pushes[j]]
    /\ UNCHANGED <<stockVars, reports, failed, slotVars, unread, crashed>>

World ==
    \/ \E c \in Channels, o \in Orders : Order(c, o)
    \/ \E p \in Products : \E c \in Mapping[p] :
          LostSale(c, p) \/ \E qty \in 0..MaxStock : LevelEvent(c, p, qty)
    \/ \E p \in Products, qty \in 0..MaxStock : SetStock(p, qty)
    \/ \E p \in Products : \E cs \in SUBSET Mapping[p] \ {{}} : SyncProduct(p, cs)

-----------------------------------------------------------------------------
(* processWebhookJob: the changes of one report, in order.                 *)

\* Waiting jobs are a bag: deliveries, ten slots and backoffs leave no order.
TakeReport(s, j) ==
    /\ h[s].pc = "idle" /\ reports[j] > 0
    /\ reports' = [reports EXCEPT ![j] = @ - 1]
    /\ h' = [h EXCEPT ![s] = [pc |-> "write", job |-> {j}, i |-> 1]]
    /\ UNCHANGED <<stockVars, pushes, failed, w, g, unread, bounds>>

\* updateProductStock(mapping.productId, change.newQuantity): the quantity of
\* the change event becomes the stock, whatever kind of event it was.
StoreStock(j, i) ==
    LET p == j.changes[i].prod IN
    /\ db' = [db EXCEPT ![p] = j.changes[i].qty]
    /\ unread' = unread \cup ({p} \X (Mapping[p] \ {j.src}))

\* The audit row of createSyncEvent follows, on which no stock depends.
WriteStock(s) ==
    /\ h[s].pc = "write"
    /\ \E j \in h[s].job : StoreStock(j, h[s].i)
    /\ h' = [h EXCEPT ![s].pc = "enqueue"]
    /\ UNCHANGED <<shown, queueVars, w, g, bounds>>

\* addSyncJob('push_update') on behalf of the reporting channel.
QueuePush(j, i) == pushes' = [pushes EXCEPT ![Fresh(j.src, j.changes[i].prod)] = @ + 1]

\* On to the next change of the report; after the last one the job is done.
EnqueuePush(s) ==
    /\ h[s].pc = "enqueue"
    /\ \E j \in h[s].job :
         /\ QueuePush(j, h[s].i)
         /\ h' = [h EXCEPT ![s] = IF h[s].i < Len(j.changes)
                                  THEN [pc |-> "write", job |-> {j}, i |-> h[s].i + 1]
                                  ELSE IdleReport]
    /\ UNCHANGED <<stockVars, reports, failed, w, g, unread, bounds>>

\* Mutant of Rethrow: the error is logged and swallowed, the job completes.
MutRethrow(j) == UNCHANGED <<reports, failed>>

\* The error is thrown on: the queue runs the whole report again, changes
\* already written included, until its attempts are used up.
Rethrow(j) ==
    IF j.tries + 1 < ReportAttempts
    THEN /\ reports' = [reports EXCEPT ![[j EXCEPT !.tries = @ + 1]] = @ + 1]
         /\ UNCHANGED failed
    ELSE /\ failed' = failed \cup {<<j.src, j.changes[k].prod>> : k \in DOMAIN j.changes}
         /\ UNCHANGED reports

\* A statement or the queue fails, before or after it took effect.
ReportFails(s) ==
    /\ h[s].pc # "idle" /\ Event
    /\ \E j \in h[s].job :
         /\ Rethrow(j)
         /\ \/ UNCHANGED <<db, unread, pushes>>
            \/ h[s].pc = "write" /\ StoreStock(j, h[s].i) /\ UNCHANGED pushes
            \/ h[s].pc = "enqueue" /\ QueuePush(j, h[s].i) /\ UNCHANGED <<db, unread>>
    /\ h' = [h EXCEPT ![s] = IdleReport]
    /\ UNCHANGED <<shown, w, g, crashed>>

-----------------------------------------------------------------------------
(* processSyncJob, operation push_update, of one product.                  *)

TakePush(s, j) ==
    /\ w[s].pc = "idle" /\ pushes[j] > 0
    /\ pushes' = [pushes EXCEPT ![j] = @ - 1]
    /\ w' = [w EXCEPT ![s] = [pc |-> "read", job |-> {j}, stock |-> 0, todo |-> {}]]
    /\ UNCHANGED <<stockVars, reports, failed, h, g, unread, bounds>>

\* getProduct and getProductMappings; the source channel is skipped.
ReadProduct(s) ==
    /\ w[s].pc = "read"
    /\ \E j \in w[s].job :
         LET targets == Mapping[j.prod] \ {j.src} IN
         /\ w' = [w EXCEPT ![s].pc = "push", ![s].stock = db[j.prod], ![s].todo = targets]
         /\ unread' = unread \ ({j.prod} \X targets)
    /\ UNCHANGED <<stockVars, queueVars, h, g, bounds>>

\* updateChannelStock parses the stored credentials as JSON: of a channel whose
\* credentials are encrypted, as the routes store them, every call fails.
Pushed(p, c, stock) == IF c \in Sealed THEN shown[p][c] ELSE Expected(p, c, stock)

\* Each channel gets the stock read before the first one; an error is logged.
PushChannel(s, c) ==
    /\ w[s].pc = "push" /\ c \in w[s].todo
    /\ \E j \in w[s].job : shown' = [shown EXCEPT ![j.prod][c] = Pushed(j.prod, c, w[s].stock)]
    /\ w' = [w EXCEPT ![s].todo = @ \ {c}]
    /\ UNCHANGED <<db, queueVars, h, g, unread, bounds>>

\* The call fails, before or after it took effect: logged, and on to the next.
PushChannelFails(s, c) ==
    /\ w[s].pc = "push" /\ c \in w[s].todo /\ Event
    /\ \/ UNCHANGED shown
       \/ \E j \in w[s].job :
             shown' = [shown EXCEPT ![j.prod][c] = Pushed(j.prod, c, w[s].stock)]
    /\ w' = [w EXCEPT ![s].todo = @ \ {c}]
    /\ UNCHANGED <<db, queueVars, h, g, unread, crashed>>

EndPush(s) ==
    /\ w[s].pc = "push" /\ w[s].todo = {}
    /\ w' = [w EXCEPT ![s] = IdlePush]
    /\ UNCHANGED <<stockVars, queueVars, h, g, unread, bounds>>

\* The database fails the job; after the last attempt the queue gives it up.
PushFails(s) ==
    /\ w[s].pc = "read" /\ Event
    /\ \E j \in w[s].job :
         IF j.tries + 1 < PushAttempts
         THEN /\ pushes' = [pushes EXCEPT ![[j EXCEPT !.tries = @ + 1]] = @ + 1]
              /\ UNCHANGED failed
         ELSE /\ failed' = failed \cup {<<j.src, j.prod>>}
              /\ UNCHANGED pushes
    /\ w' = [w EXCEPT ![s] = IdlePush]
    /\ UNCHANGED <<stockVars, reports, h, g, unread, crashed>>

-----------------------------------------------------------------------------
(* startGuardianSchedule: the reconciliation the timer starts.             *)

Distance(a, b) == IF a < b THEN b - a ELSE a - b
DriftFrom(stock, p, c) == Distance(shown[p][c], Expected(p, c, stock))

\* getChannels and getProducts: every stock is read once, here.
StartRun(r) ==
    /\ g[r].pc = "idle"
    /\ g' = [g EXCEPT ![r] = [pc |-> "look", snap |-> db, at |-> {},
                              todo |-> {x \in Places : x[2] \in Mapping[x[1]]}]]
    /\ UNCHANGED <<stockVars, queueVars, h, w, unread, bounds>>

\* Mutant of Verdict: a drift of exactly the limit is neither repaired nor told.
MutVerdict(drift) ==
    CASE drift \in 1..(RepairLimit - 1) -> "repair"
      [] drift > RepairLimit -> "alert"
      [] OTHER -> "look"

\* Small drifts are repaired, large ones raise an alert.
Verdict(drift) ==
    CASE drift = 0 -> "look"
      [] drift \in 1..RepairLimit -> "repair"
      [] drift > RepairLimit -> "alert"

\* getChannelStock and the comparison with the stock read at the start. A
\* channel whose credentials cannot be parsed is null and passed over.
Look(r, p, c) ==
    LET drift == IF c \in Sealed THEN 0 ELSE DriftFrom(g[r].snap[p], p, c) IN
    /\ g[r].pc = "look" /\ <<p, c>> \in g[r].todo
    /\ g' = [g EXCEPT ![r].todo = @ \ {<<p, c>>},
                      ![r].at = IF drift = 0 THEN {} ELSE {<<p, c>>},
                      ![r].pc = Verdict(drift)]
    /\ UNCHANGED <<stockVars, queueVars, h, w, unread, bounds>>

\* The channel cannot be read: null, and on to the next.
LookFails(r, p, c) ==
    /\ g[r].pc = "look" /\ <<p, c>> \in g[r].todo /\ Event
    /\ g' = [g EXCEPT ![r].todo = @ \ {<<p, c>>}]
    /\ UNCHANGED <<stockVars, queueVars, h, w, unread, crashed>>

\* updateChannelStock(..., expectedStock).
WriteExpected(r) ==
    \E x \in g[r].at : shown' = [shown EXCEPT ![x[1]][x[2]] =
                                     Pushed(x[1], x[2], g[r].snap[x[1]])]

Repair(r) ==
    /\ g[r].pc = "repair" /\ WriteExpected(r)
    /\ g' = [g EXCEPT ![r].pc = "look", ![r].at = {}]
    /\ UNCHANGED <<db, queueVars, h, w, unread, bounds>>

\* createAlert: a new alert whenever the drift is seen, none is looked for.
RaiseAlert(r) ==
    /\ g[r].pc = "alert"
    /\ g' = [g EXCEPT ![r].pc = "look", ![r].at = {}]
    /\ UNCHANGED <<stockVars, queueVars, h, w, unread, bounds>>

EndRun(r) ==
    /\ g[r].pc = "look" /\ g[r].todo = {}
    /\ g' = [g EXCEPT ![r] = IdleRun]
    /\ UNCHANGED <<stockVars, queueVars, h, w, unread, bounds>>

\* Any error, that of a repair included, ends the whole run.
RunFails(r) ==
    /\ g[r].pc # "idle" /\ Event
    /\ \/ UNCHANGED shown
       \/ g[r].pc = "repair" /\ WriteExpected(r)
    /\ g' = [g EXCEPT ![r] = IdleRun]
    /\ UNCHANGED <<db, queueVars, h, w, unread, crashed>>

-----------------------------------------------------------------------------
ReportHolders(j) == {s \in ReportSlots : h[s].job = {j}}
PushHolders(j) == {s \in PushSlots : w[s].job = {j}}

\* The process dies. Its jobs stall and are taken again; the queue fails a job
\* that stalls a second time, so the model has one crash.
Crash ==
    /\ ~crashed /\ crashed' = TRUE /\ Event
    /\ reports' = [j \in ReportJob |->
                      reports[j] + Cardinality(ReportHolders(j))]
    /\ pushes' = [j \in PushJob |->
                     pushes[j] + Cardinality(PushHolders(j))]
    /\ h' = [s \in ReportSlots |-> IdleReport]
    /\ w' = [s \in PushSlots |-> IdlePush]
    /\ g' = [r \in Runs |-> IdleRun]
    /\ UNCHANGED <<stockVars, failed, unread>>

ReportStep(s) ==
    \/ \E j \in ReportJob : TakeReport(s, j)
    \/ WriteStock(s) \/ EnqueuePush(s)
PushStep(s) ==
    \/ \E j \in PushJob : TakePush(s, j)
    \/ ReadProduct(s) \/ EndPush(s) \/ \E c \in Channels : PushChannel(s, c)
RunStep(r) ==
    \/ StartRun(r) \/ Repair(r) \/ RaiseAlert(r) \/ EndRun(r)
    \/ \E p \in Products, c \in Channels : Look(r, p, c)
Failure ==
    \/ \E s \in ReportSlots : ReportFails(s)
    \/ \E s \in PushSlots : PushFails(s) \/ \E c \in Channels : PushChannelFails(s, c)
    \/ \E r \in Runs : \/ RunFails(r)
                      \/ \E p \in Products, c \in Channels : LookFails(r, p, c)
    \/ Crash

Next ==
    \/ World \/ Failure
    \/ \E s \in ReportSlots : ReportStep(s)
    \/ \E s \in PushSlots : PushStep(s)
    \/ \E r \in Runs : RunStep(r)

\* Workers go on with the jobs they have and take those that wait; the timer
\* keeps firing. Nothing is assumed of the world or of failures.
Fairness ==
    /\ \A s \in ReportSlots : WF_vars(ReportStep(s))
    /\ \A s \in PushSlots : WF_vars(PushStep(s))
    /\ \A r \in Runs : WF_vars(RunStep(r))
Spec == Init /\ [][Next]_vars /\ Fairness
-----------------------------------------------------------------------------
\* The report has a change of p, at or after its i-th, for other channels than
\* its own.
Brings(j, i, p, c) == j.src # c /\ \E k \in i..Len(j.changes) : j.changes[k].prod = p

\* The news of p for channel c: in a report that waits or is being processed, in
\* a push that waits or has still to read, or in a job the queues gave up.
ReportWaits(p, c) == \E j \in ReportJob : reports[j] > 0 /\ Brings(j, 1, p, c)
ReportActive(p, c) == \E s \in ReportSlots : \E j \in h[s].job : Brings(j, h[s].i, p, c)
PushWaits(p, c) == \E j \in PushJob : pushes[j] > 0 /\ j.prod = p /\ j.src # c
PushReads(p, c) ==
    \E s \in PushSlots : w[s].pc = "read" /\ \E j \in w[s].job : j.prod = p /\ j.src # c
GivenUp(p, c) == \E f \in failed : f[1] # c /\ f[2] = p

NewsUnderWay(p, c) ==
    \/ ReportWaits(p, c) \/ ReportActive(p, c)
    \/ PushWaits(p, c) \/ PushReads(p, c) \/ GivenUp(p, c)

\* A stock a report has written is never forgotten half way: through retries,
\* lost replies and a crash there is always a job that will push it to each
\* other channel, or one the queue has visibly given up (processWebhookJob
\* rethrows, so the queue keeps the report until the push is queued).
NoSilentChange == \A x \in unread : NewsUnderWay(x[1], x[2])

\* Whatever was lost, reordered or half done: in the end each channel shows
\* the stock of the database, or the reconciliation goes on raising alerts of a
\* drift too large to repair.
ChannelsConverge ==
    \A p \in Products : \A c \in Mapping[p] :
        \/ <>[](DriftFrom(db[p], p, c) = 0)
        \/ []<>(/\ DriftFrom(db[p], p, c) > RepairLimit
                /\ \E r \in Runs : g[r].pc = "alert" /\ <<p, c>> \in g[r].at)
=============================================================================
