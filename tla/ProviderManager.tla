------------------------------ MODULE ProviderManager ------------------------------
(***************************************************************************)
(* ProviderRegistry and ProviderManager of integrations/src/factory.ts:    *)
(* providers under keys, connected before they are registered and          *)
(* disconnected before they are forgotten, with an await in between.       *)
(***************************************************************************)
EXTENDS Functions

CONSTANTS
    RegistryKeys,
    Providers,  \* provider objects
    Removals,   \* calls of removeProvider in flight
    NoKey, NoProvider

ASSUME KeyAssumption == NoKey \notin RegistryKeys /\ NoProvider \notin Providers

VARIABLES
    registry,   \* the Map of providers
    link,       \* of each object: "unused", "connecting", "connected" or "closed"
    goal,       \* the key an object is being added for
    removal,    \* what each removal disconnects
    clearing,   \* the objects clear() waits for, and whether it is under way
    sent        \* a broadcast under way: the answers by key

managerVars == <<registry, link, goal, removal, clearing, sent>>

ManagerTypeOK ==
    /\ DOMAIN registry \subseteq RegistryKeys
    /\ \A k \in DOMAIN registry : registry[k] \in Providers /\ link[registry[k]] # "unused"
    /\ link \in [Providers -> {"unused", "connecting", "connected", "closed"}]
    /\ goal \in [Providers -> RegistryKeys \cup {NoKey}]
    /\ removal \in [Removals -> [key : RegistryKeys \cup {NoKey}, of : Providers \cup {NoProvider}]]
    /\ clearing \in [on : BOOLEAN, of : SUBSET Providers]
    /\ DOMAIN sent \subseteq RegistryKeys
    /\ \A k \in DOMAIN sent : sent[k] \in {"pending", "success", "failed"}

NoRemoval == [key |-> NoKey, of |-> NoProvider]

ManagerInit ==
    /\ registry = <<>> /\ sent = <<>>
    /\ link = [p \in Providers |-> "unused"]
    /\ goal = [p \in Providers |-> NoKey]
    /\ removal = [r \in Removals |-> NoRemoval]
    /\ clearing = [on |-> FALSE, of |-> {}]

\* addProvider connects first.
AddProvider(k, p) ==
    /\ link[p] = "unused"
    /\ link' = [link EXCEPT ![p] = "connecting"]
    /\ goal' = [goal EXCEPT ![p] = k]
    /\ UNCHANGED <<registry, removal, clearing, sent>>

\* register throws for a key that is taken, and the provider stays connected, known to nobody.
Registers(p) ==
    /\ link[p] = "connecting"
    /\ link' = [link EXCEPT ![p] = "connected"]
    /\ registry' = [k \in DOMAIN registry \cup {goal[p]} |->
                      IF k \in DOMAIN registry THEN registry[k] ELSE p]
    /\ goal' = [goal EXCEPT ![p] = NoKey]
    /\ UNCHANGED <<removal, clearing, sent>>

ConnectThrows(p) ==
    /\ link[p] = "connecting"
    /\ link' = [link EXCEPT ![p] = "closed"]
    /\ goal' = [goal EXCEPT ![p] = NoKey]
    /\ UNCHANGED <<registry, removal, clearing, sent>>

\* removeProvider: the provider is disconnected ...
RemoveProvider(r, k) ==
    /\ removal[r] = NoRemoval /\ k \in DOMAIN registry
    /\ removal' = [removal EXCEPT ![r] = [key |-> k, of |-> registry[k]]]
    /\ UNCHANGED <<registry, link, goal, clearing, sent>>

\* ... and whatever the key has by then deleted.
Removes(r) ==
    LET m == removal[r]
    IN /\ m # NoRemoval
       /\ link' = [link EXCEPT ![m.of] = "closed"]
       /\ registry' = Restrict(registry, DOMAIN registry \ {m.key})
       /\ removal' = [removal EXCEPT ![r] = NoRemoval]
       /\ UNCHANGED <<goal, clearing, sent>>

\* shutdown: clear disconnects all ...
Shutdown ==
    /\ ~clearing.on
    /\ clearing' = [on |-> TRUE, of |-> Range(registry)]
    /\ UNCHANGED <<registry, link, goal, removal, sent>>

\* ... and then forgets all, one that was registered meanwhile too.
Clears ==
    /\ clearing.on
    /\ link' = [p \in Providers |-> IF p \in clearing.of THEN "closed" ELSE link[p]]
    /\ registry' = <<>>
    /\ clearing' = [on |-> FALSE, of |-> {}]
    /\ UNCHANGED <<goal, removal, sent>>

\* broadcastStockUpdate: a provider that is not there or not connected fails at once.
BroadcastStockUpdate(ks) ==
    /\ sent = <<>>
    /\ sent' = [k \in ks |-> IF k \in DOMAIN registry /\ link[registry[k]] = "connected"
                             THEN "pending" ELSE "failed"]
    /\ UNCHANGED <<registry, link, goal, removal, clearing>>

UpdateAnswers(k, answer) ==
    /\ k \in DOMAIN sent /\ sent[k] = "pending"
    /\ sent' = [sent EXCEPT ![k] = answer]
    /\ UNCHANGED <<registry, link, goal, removal, clearing>>

\* The results are returned when all have answered.
BroadcastReturns ==
    /\ sent # <<>> /\ \A k \in DOMAIN sent : sent[k] # "pending"
    /\ sent' = <<>>
    /\ UNCHANGED <<registry, link, goal, removal, clearing>>

ManagerNext ==
    \/ \E p \in Providers :
          \/ Registers(p) \/ ConnectThrows(p)
          \/ \E k \in RegistryKeys : AddProvider(k, p)
    \/ \E r \in Removals : Removes(r) \/ \E k \in RegistryKeys : RemoveProvider(r, k)
    \/ \E k \in RegistryKeys, answer \in {"success", "failed"} : UpdateAnswers(k, answer)
    \/ \E ks \in SUBSET RegistryKeys \ {{}} : BroadcastStockUpdate(ks)
    \/ BroadcastReturns \/ Shutdown \/ Clears
=============================================================================
