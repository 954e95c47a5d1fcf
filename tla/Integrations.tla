------------------------------ MODULE Integrations ------------------------------
(***************************************************************************)
(* What works around the stock pipeline: providers that set stock levels   *)
(* (ChannelBatch) and read catalogs (ChannelCatalog) and their manager     *)
(* (ProviderManager), the receivers of the shops' webhooks (WebhookIntake) *)
(* and the sync engine's reader of them (Watcher), the matching of two     *)
(* catalogs (ProductMapper), the jobs of a tenant with a process of its    *)
(* own (TenantQueues) and the pages that connect a shop (Onboarding).      *)
(* They meet only in the shops and in the database, and each job makes a   *)
(* provider object of its own; so a behaviour shows one of them at work,   *)
(* chosen at the beginning, and the rest at rest.                          *)
(***************************************************************************)
EXTENDS ChannelBatch, ChannelCatalog, WebhookIntake, Watcher,
        ProviderManager, ProductMapper, TenantQueues, Onboarding

VARIABLE part

Parts == {"updates", "catalog", "intake", "watcher", "manager", "mapper", "tenant", "wizard", "page"}

vars == <<part, sessionVars, batchVars, catalogVars, intakeVars, watchVars,
          managerVars, mapperVars, queueVars, wizardVars, epos>>

\* A part at rest stands in one of its initial states.
RestsUnless(p, state, initial) == part = p \/ state = initial

Init ==
    /\ part \in Parts
    /\ SessionInit /\ BatchInit /\ RestsUnless("updates", kind, "eposnow")
    /\ CatalogInit /\ RestsUnless("catalog", <<catalog, reader>>, <<{}, "eposnow">>)
    /\ IntakeInit /\ RestsUnless("intake", notice, [d \in Deliveries |-> CHOOSE n \in Notices : TRUE])
    /\ WatchInit /\ RestsUnless("watcher", webhook, [j \in WatchJobs |-> CHOOSE w \in Webhooks : TRUE])
    /\ RestsUnless("watcher", stock, [i \in Mappings |-> Unmapped])
    /\ ManagerInit /\ MapperInit /\ QueueInit
    /\ OnboardInit /\ RestsUnless("page", epos.account, FALSE)

Next ==
    \/ part = "updates" /\ BatchNext
       /\ UNCHANGED <<part, catalogVars, intakeVars, watchVars, managerVars, mapperVars,
                      queueVars, wizardVars, epos>>
    \/ part = "catalog" /\ CatalogNext
       /\ UNCHANGED <<part, sessionVars, batchVars, intakeVars, watchVars, managerVars,
                      mapperVars, queueVars, wizardVars, epos>>
    \/ part = "intake" /\ IntakeNext
       /\ UNCHANGED <<part, sessionVars, batchVars, catalogVars, watchVars, managerVars,
                      mapperVars, queueVars, wizardVars, epos>>
    \/ part = "watcher" /\ WatchNext
       /\ UNCHANGED <<part, sessionVars, batchVars, catalogVars, intakeVars, managerVars,
                      mapperVars, queueVars, wizardVars, epos>>
    \/ part = "manager" /\ ManagerNext
       /\ UNCHANGED <<part, sessionVars, batchVars, catalogVars, intakeVars, watchVars,
                      mapperVars, queueVars, wizardVars, epos>>
    \/ part = "mapper" /\ MapperNext
       /\ UNCHANGED <<part, sessionVars, batchVars, catalogVars, intakeVars, watchVars,
                      managerVars, queueVars, wizardVars, epos>>
    \/ part = "tenant" /\ QueueNext
       /\ UNCHANGED <<part, sessionVars, batchVars, catalogVars, intakeVars, watchVars,
                      managerVars, mapperVars, wizardVars, epos>>
    \/ part = "wizard" /\ WizardNext
       /\ UNCHANGED <<part, sessionVars, batchVars, catalogVars, intakeVars, watchVars,
                      managerVars, mapperVars, queueVars, epos>>
    \/ part = "page" /\ EposNext
       /\ UNCHANGED <<part, sessionVars, batchVars, catalogVars, intakeVars, watchVars,
                      managerVars, mapperVars, queueVars, wizardVars>>

Spec == Init /\ [][Next]_vars

\* The timers and answers a client waits for come (see ChannelBatch).
FairSpec == Spec /\ WF_vars(part = "updates" /\ ClientStep
                            /\ UNCHANGED <<part, catalogVars, intakeVars, watchVars,
                                           managerVars, mapperVars, queueVars, wizardVars, epos>>)

TypeOK ==
    /\ part \in Parts
    /\ SessionTypeOK /\ BatchTypeOK /\ CatalogTypeOK /\ IntakeTypeOK /\ WatchTypeOK
    /\ ManagerTypeOK /\ MapperTypeOK /\ QueueTypeOK /\ OnboardTypeOK
=============================================================================
