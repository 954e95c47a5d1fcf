------------------------------- MODULE TenantQueues -------------------------------
(***************************************************************************)
(* The jobs of one tenant when each has a process of its own: the routes   *)
(* of backend/src/sync-integration.ts, the messages TenantOrchestrator     *)
(* sends, the queues and workers of tenant-worker.ts.  (TenantOrchestrator *)
(* shows when processes come and go.)  Queues outlive the process, what is *)
(* on its way to it does not, and the shared queues have no workers then.  *)
(***************************************************************************)
EXTENDS Naturals, Sequences, FiniteSets

CONSTANTS
    Jobs,
    Pipe,       \* messages of the process that may wait to be read
    Mixes       \* of kinds that the jobs may have: "sync", "webhook", "alert" or "stock"

ASSUME PipeAssumption == Pipe \in Nat
ASSUME KindAssumption == Mixes \subseteq [Jobs -> {"sync", "webhook", "alert", "stock"}]

VARIABLES
    kindOf,     \* the mix at hand
    entry,      \* the orchestrator's entry for the tenant: its state, or "none"
    child,      \* the process: "none", "new", "up", "closing" or "dead" (its exit unseen)
    mailbox,    \* messages to the process
    place,      \* where each job is
    reports,    \* messages from the process
    shown,      \* what the dashboard says of the tenant's agents
    heard,      \* the jobs whose end the browsers were told
    health      \* lastHealthReport's state

queueVars == <<kindOf, entry, child, mailbox, place, reports, shown, heard, health>>

Order(what) == [what |-> what]
JobOrder(j) == [what |-> "job", job |-> j]
IsOrder(m) == m \in [what : {"init", "reconcile", "shutdown"}] \cup [what : {"job"}, job : Jobs]

EventOf(what, j) == [what |-> what, job |-> j]
IsReport(r) ==
    r \in [what : {"ready", "running", "reconciliation", "error"}]
          \cup [what : {"sync_started", "sync_completed", "stock_updated"}, job : Jobs]

\* What getOrchestratorStatus counts as healthy.
Healthy == entry = "running" /\ health = "running"

QueueTypeOK ==
    /\ kindOf \in Mixes
    /\ entry \in {"none", "spawning", "running", "stopping"}
    /\ child \in {"none", "new", "up", "closing", "dead"}
    /\ \A n \in DOMAIN mailbox : IsOrder(mailbox[n])
    /\ place \in [Jobs -> {"outside", "mailed", "tenant", "shared", "done", "lost"}]
    /\ \A n \in DOMAIN reports : IsReport(reports[n])
    /\ shown \in {"unknown", "active", "error"}
    /\ heard \subseteq Jobs
    /\ health \in {"none", "running"}
    \* Its messages are of the job where it is, and told only of one that was done.
    /\ \A j \in Jobs :
          /\ place[j] = "mailed" <=> \E n \in DOMAIN mailbox : mailbox[n] = JobOrder(j)
          /\ j \in heard => place[j] = "done"
    \* A tenant that is counted as healthy is shown as active.
    /\ Healthy => shown = "active"

QueueInit ==
    /\ kindOf \in Mixes
    /\ entry = "none" /\ child = "none" /\ mailbox = <<>> /\ reports = <<>>
    /\ place = [j \in Jobs |-> "outside"]
    /\ shown = "unknown" /\ heard = {} /\ health = "none"

-----------------------------------------------------------------------------
(* The backend *)

\* A discovery or the end of a backoff, seconds after the last process: the new one
\* is told to initialize first.
Forks ==
    /\ entry = "none" /\ child = "none" /\ reports = <<>>
    /\ entry' = "spawning" /\ child' = "new"
    /\ mailbox' = <<Order("init")>> /\ health' = "none"
    /\ UNCHANGED <<place, reports, shown, heard>>

\* sendToWorker: nothing to a process that is no longer connected.
Reachable == entry # "none" /\ child \in {"new", "up", "closing"}

\* routeSyncJob and routeWebhookJob: to the tenant's process if it has an entry,
\* else to the shared queue; a job for a process that died is lost.
RouteJob(j) ==
    /\ place[j] = "outside" /\ kindOf[j] \in {"sync", "webhook"}
    /\ IF entry = "none"
       THEN place' = [place EXCEPT ![j] = "shared"] /\ UNCHANGED mailbox
       ELSE IF Reachable
       THEN place' = [place EXCEPT ![j] = "mailed"] /\ mailbox' = Append(mailbox, JobOrder(j))
       ELSE place' = [place EXCEPT ![j] = "lost"] /\ UNCHANGED mailbox
    /\ UNCHANGED <<entry, child, reports, shown, heard, health>>

\* addTenantSyncJob and its like write to the tenant's queue themselves.
AddTenantJob(j) ==
    /\ place[j] = "outside"
    /\ place' = [place EXCEPT ![j] = "tenant"]
    /\ UNCHANGED <<entry, child, mailbox, reports, shown, heard, health>>

\* triggerReconciliation; one at a time is enough to see.
TriggerReconciliation ==
    /\ Reachable /\ ~\E n \in DOMAIN mailbox : mailbox[n] = Order("reconcile")
    /\ mailbox' = Append(mailbox, Order("reconcile"))
    /\ UNCHANGED <<entry, child, place, reports, shown, heard, health>>

StopsWorker ==
    /\ entry \in {"spawning", "running"}
    /\ entry' = "stopping"
    /\ mailbox' = IF Reachable THEN Append(mailbox, Order("shutdown")) ELSE mailbox
    /\ UNCHANGED <<child, place, reports, shown, heard, health>>

\* handleChildMessage, and the listeners initializeTenantIsolation sets.
HearsReady ==
    /\ Head(reports).what = "ready"
    /\ entry' = "running" /\ shown' = "active"
    /\ UNCHANGED <<heard, health>>

HearsHealth ==
    /\ Head(reports).what = "running"
    /\ health' = "running"
    /\ UNCHANGED <<entry, shown, heard>>

\* An error is logged; events go to the browsers, a reconciliation as a sync.
HearsEvent ==
    /\ Head(reports).what \notin {"ready", "running"}
    /\ heard' = IF Head(reports).what \in {"sync_completed", "stock_updated"}
                THEN heard \cup {Head(reports).job} ELSE heard
    /\ UNCHANGED <<entry, shown, health>>

Hears ==
    /\ reports # <<>>
    /\ IF entry = "none" THEN UNCHANGED <<entry, shown, heard, health>>
       ELSE HearsReady \/ HearsHealth \/ HearsEvent
    /\ reports' = Tail(reports)
    /\ UNCHANGED <<child, mailbox, place>>

\* handleChildExit, whether or not all the process said was heard: a crash is shown and the entry deleted until a respawn.
SeesExit ==
    /\ child = "dead"
    /\ child' = "none" /\ entry' = "none"
    /\ shown' = IF entry \in {"none", "stopping"} THEN shown ELSE "error"
    /\ UNCHANGED <<mailbox, place, reports, heard, health>>

-----------------------------------------------------------------------------
(* The process *)

Says(r) == Len(reports) < Pipe /\ reports' = Append(reports, r)
Alive == child \in {"new", "up", "closing"}
Reads(what) == Alive /\ mailbox # <<>> /\ Head(mailbox).what = what /\ mailbox' = Tail(mailbox)

\* initialize awaits nothing: no message finds the queues half made.
Initializes ==
    /\ Reads("init")
    /\ child' = "up" /\ Says(Order("ready"))
    /\ UNCHANGED <<entry, place, shown, heard, health>>

\* trigger_sync and add_webhook_job: the job goes into the tenant's queue.
QueuesJob ==
    /\ Reads("job")
    /\ place' = [place EXCEPT ![Head(mailbox).job] = "tenant"]
    /\ UNCHANGED <<entry, child, reports, shown, heard, health>>

\* queue.add rejects: unhandledRejection reports it, the job is gone.
QueueRefuses ==
    /\ Reads("job")
    /\ place' = [place EXCEPT ![Head(mailbox).job] = "lost"]
    /\ Says(Order("error"))
    /\ UNCHANGED <<entry, child, shown, heard, health>>

\* runGuardianReconciliation says that one started, and does nothing else; its
\* timer does so too, until the shutdown.
RunGuardianReconciliation ==
    /\ IF child = "up" THEN Says(Order("reconciliation")) ELSE UNCHANGED reports
    /\ UNCHANGED <<entry, child, place, shown, heard, health>>

Reconciles == Reads("reconcile") /\ RunGuardianReconciliation
GuardianTick == child = "up" /\ RunGuardianReconciliation /\ UNCHANGED mailbox

\* The processors count and tell, and touch no stock.
ProcessSyncJob(j) ==
    /\ kindOf[j] = "sync" /\ Len(reports) + 2 <= Pipe
    /\ reports' = reports \o <<EventOf("sync_started", j), EventOf("sync_completed", j)>>

ProcessWebhookJob(j) == kindOf[j] = "webhook" /\ Says(EventOf("stock_updated", j))

ProcessOtherJob(j) == kindOf[j] \in {"alert", "stock"} /\ UNCHANGED reports

ProcessJob(j) ==
    /\ child = "up" /\ place[j] = "tenant"
    /\ place' = [place EXCEPT ![j] = "done"]
    /\ ProcessSyncJob(j) \/ ProcessWebhookJob(j) \/ ProcessOtherJob(j)
    /\ UNCHANGED <<entry, child, mailbox, shown, heard, health>>

ReportHealth ==
    /\ child = "up" /\ health = "none"
    /\ Says(Order("running"))
    /\ UNCHANGED <<entry, child, mailbox, place, shown, heard, health>>

\* What was under way to it is lost with the process.
Gone ==
    /\ child' = "dead" /\ mailbox' = <<>>
    /\ place' = [j \in Jobs |-> IF place[j] = "mailed" THEN "lost" ELSE place[j]]

\* shutdown stops timers and workers, and awaits their end ...
ShutsDown ==
    /\ Reads("shutdown")
    /\ child' = "closing"
    /\ UNCHANGED <<entry, place, reports, shown, heard, health>>

\* ... before it exits, with whatever message was not read by then.
Exits ==
    /\ child = "closing" /\ Gone
    /\ UNCHANGED <<entry, reports, shown, heard, health>>

\* An exception nobody caught, or an initialization that failed: reported, then exit(1).
Crashes ==
    /\ Alive /\ Gone
    /\ Says(Order("error"))
    /\ UNCHANGED <<entry, shown, heard, health>>

QueueStep ==
    \/ Forks \/ TriggerReconciliation \/ StopsWorker \/ Hears \/ SeesExit
    \/ Initializes \/ QueuesJob \/ QueueRefuses \/ Reconciles \/ GuardianTick \/ ReportHealth
    \/ ShutsDown \/ Exits \/ Crashes
    \/ \E j \in Jobs : RouteJob(j) \/ AddTenantJob(j) \/ ProcessJob(j)

QueueNext == QueueStep /\ UNCHANGED kindOf
=============================================================================
