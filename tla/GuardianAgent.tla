---------------------------- MODULE GuardianAgent ----------------------------
(***************************************************************************)
(* The Guardian Agent (sync-engine/src/agents/guardian.ts): a BullMQ worker *)
(* with one slot that compares, product by product, what the channels show *)
(* with the source of truth, repairs small drifts and flags large ones.    *)
(* Every await is one action; whoever else writes the database or the      *)
(* channels meanwhile is the action Others, which a composition refines.   *)
(***************************************************************************)
EXTENDS Integers, FiniteSets, StockRules

CONSTANTS
    Products, Known,    \* product ids; the ones that are in the database
    Channels, ChannelType, Mapping, Buffer,
    MaxStock,           \* stock levels are 0..MaxStock
    Threshold,          \* config.driftAutoRepairThreshold
    MaxGuardianFaults,  \* failing statements and channel calls
    NoChannel, NoProduct, NoStock

Levels == 0..MaxStock

ASSUME GuardianProducts ==
    /\ Known \subseteq Products /\ NoProduct \notin Products
    /\ Mapping \in [Products -> SUBSET Channels]
ASSUME GuardianChannels ==
    /\ ChannelType \in [Channels -> STRING] /\ NoChannel \notin Channels
ASSUME GuardianStock ==
    /\ MaxStock \in Nat /\ Buffer \in [Products -> Nat] /\ NoStock \notin Levels
ASSUME GuardianBounds == Threshold \in Nat /\ MaxGuardianFaults \in Nat

VARIABLES
    dbStock,        \* product -> products.current_stock
    chanStock,      \* product -> channel -> the stock the channel shows
    active,         \* channel -> channels.is_active
    g,              \* the activation record of the reconciliation job
    flagged,        \* the products with an unread alert for review
    disturbed,      \* history: someone else wrote since g took up g.cur
    guardianFaults

stockVars == <<dbStock, chanStock, active>>
guardianVars == <<g, flagged, disturbed, guardianFaults>>
vars == <<stockVars, guardianVars>>

\* Where the job is: the await it is about to make.  "judge" is the synchronous
\* rest of checkProductDrift.
PC == {"idle", "channels", "products", "next", "read", "judge", "repairDb", "repair", "flag"}

\* How the check of product cur ended.
Outcome == {"open", "clean", "repaired", "unrepaired", "flagged", "error"}

Job == [pc: PC, auto: BOOLEAN, wanted: SUBSET Products, actives: SUBSET Channels,
        truth: Channels \cup {NoChannel}, pending: SUBSET Products,
        cur: Products \cup {NoProduct}, seen: [Channels -> Levels \cup {NoStock}],
        todo: SUBSET Channels, outcome: Outcome]

Unread == [c \in Channels |-> NoStock]
NoJob == [pc |-> "idle", auto |-> FALSE, wanted |-> {}, actives |-> {},
          truth |-> NoChannel, pending |-> {}, cur |-> NoProduct, seen |-> Unread,
          todo |-> {}, outcome |-> "open"]

TypeOK ==
    /\ dbStock \in [Products -> Levels]
    /\ chanStock \in [Products -> [Channels -> Levels]]
    /\ active \in [Channels -> BOOLEAN]
    /\ g \in Job
    /\ flagged \subseteq Products
    /\ disturbed \in BOOLEAN
    /\ guardianFaults \in Nat

Expect(p, c, qty) == ExpectedStock(ChannelType[c], qty, Buffer[p])

GuardianInit == g = NoJob /\ flagged = {} /\ disturbed = FALSE /\ guardianFaults = 0

Init ==
    /\ dbStock \in [Products -> Levels]
    /\ chanStock \in [Products -> [Channels -> Levels]]
    /\ active \in [Channels -> BOOLEAN]
    /\ GuardianInit

-----------------------------------------------------------------------------
(* processReconciliation and reconcileTenant *)

\* The scheduled job, or one a user triggered, for some products.
StartJob(wanted, auto) ==
    /\ g.pc = "idle"
    /\ g' = [NoJob EXCEPT !.pc = "channels", !.auto = auto, !.wanted = wanted]
    /\ UNCHANGED <<stockVars, flagged, disturbed, guardianFaults>>

ScheduledJob == StartJob(Products, TRUE)

\* The first active eposnow channel; without one, the first active channel.
TruthChannels(actives) ==
    LET pos == {c \in actives : ChannelType[c] = "eposnow"} IN
    IF pos # {} THEN pos ELSE actives

\* getChannels.  Fewer than two active channels: nothing to reconcile.
ReadChannels ==
    LET actives == {c \in Channels : active[c]} IN
    /\ g.pc = "channels"
    /\ \/ /\ Cardinality(actives) < 2
          /\ g' = NoJob
       \/ /\ Cardinality(actives) >= 2
          /\ \E t \in TruthChannels(actives) :
                g' = [g EXCEPT !.pc = "products", !.actives = actives, !.truth = t]
    /\ UNCHANGED <<stockVars, flagged, disturbed, guardianFaults>>

ReadProducts ==
    /\ g.pc = "products"
    /\ g' = [g EXCEPT !.pc = "next", !.pending = g.wanted \cap Known]
    /\ UNCHANGED <<stockVars, flagged, disturbed, guardianFaults>>

\* The next product and its mappings.
NextProduct ==
    /\ g.pc = "next"
    /\ \E p \in g.pending :
          g' = [g EXCEPT !.pc = "read", !.pending = @ \ {p}, !.cur = p, !.seen = Unread,
                         !.todo = Mapping[p] \cap g.actives, !.outcome = "open"]
    /\ disturbed' = FALSE
    /\ UNCHANGED <<stockVars, flagged, guardianFaults>>

EndJob ==
    /\ g.pc = "next" /\ g.pending = {}
    /\ g' = NoJob
    /\ UNCHANGED <<stockVars, flagged, disturbed, guardianFaults>>

-----------------------------------------------------------------------------
(* checkProductDrift *)

ReadStock(c) ==
    /\ g.pc = "read" /\ c \in g.todo
    /\ g' = [g EXCEPT !.todo = @ \ {c}, !.seen[c] = chanStock[g.cur][c]]
    /\ UNCHANGED <<stockVars, flagged, disturbed, guardianFaults>>

EndReads ==
    /\ g.pc = "read" /\ g.todo = {}
    /\ g' = [g EXCEPT !.pc = "judge"]
    /\ UNCHANGED <<stockVars, flagged, disturbed, guardianFaults>>

Seen == {c \in Channels : g.seen[c] # NoStock}
Target(c) == Expect(g.cur, c, g.seen[g.truth])
Distance(a, b) == IF a > b THEN a - b ELSE b - a
Drift(c) == Distance(g.seen[c], Target(c))

\* channelStates holds the truth and at least one more.
Comparable == Cardinality(Seen) >= 2 /\ g.truth \in Seen
Drifting == IF Comparable THEN {c \in Seen \ {g.truth} : Drift(c) > 0} ELSE {}

\* Mutant of SmallDrift: the threshold itself still counts as small.
MutSmallDrift == \A c \in Drifting : Drift(c) <= Threshold

\* maxDrift < driftAutoRepairThreshold
SmallDrift == \A c \in Drifting : Drift(c) < Threshold

Judge ==
    /\ g.pc = "judge"
    /\ \/ /\ Drifting = {}
          /\ g' = [g EXCEPT !.pc = "next", !.outcome = "clean"]
       \/ /\ Drifting # {} /\ SmallDrift /\ g.auto
          /\ g' = [g EXCEPT !.pc = "repairDb"]
       \/ /\ Drifting # {} /\ ~(SmallDrift /\ g.auto)
          /\ g' = [g EXCEPT !.pc = "flag"]
    /\ UNCHANGED <<stockVars, flagged, disturbed, guardianFaults>>

-----------------------------------------------------------------------------
(* repairDrift and flagDriftForReview *)

RepairDatabase ==
    /\ g.pc = "repairDb"
    /\ dbStock' = [dbStock EXCEPT ![g.cur] = g.seen[g.truth]]
    /\ g' = [g EXCEPT !.pc = "repair", !.todo = Drifting]
    /\ UNCHANGED <<chanStock, active, flagged, disturbed, guardianFaults>>

\* Mutant of RepairChannel: the channel is given the stock of the truth itself.
MutRepairUnbuffered(c) ==
    /\ g.pc = "repair" /\ c \in g.todo
    /\ chanStock' = [chanStock EXCEPT ![g.cur][c] = g.seen[g.truth]]
    /\ g' = [g EXCEPT !.todo = @ \ {c}]
    /\ UNCHANGED <<dbStock, active, flagged, disturbed, guardianFaults>>

RepairChannel(c) ==
    /\ g.pc = "repair" /\ c \in g.todo
    /\ chanStock' = [chanStock EXCEPT ![g.cur][c] = Target(c)]
    /\ g' = [g EXCEPT !.todo = @ \ {c}]
    /\ UNCHANGED <<dbStock, active, flagged, disturbed, guardianFaults>>

EndRepair ==
    /\ g.pc = "repair" /\ g.todo = {}
    /\ g' = [g EXCEPT !.pc = "next",
                      !.outcome = IF @ = "open" THEN "repaired" ELSE @]
    /\ UNCHANGED <<stockVars, flagged, disturbed, guardianFaults>>

\* Mutant of FlagForReview: counted, but no alert is created.
MutFlagSilently ==
    /\ g.pc = "flag"
    /\ g' = [g EXCEPT !.pc = "next", !.outcome = "flagged"]
    /\ UNCHANGED <<stockVars, flagged, disturbed, guardianFaults>>

FlagForReview ==
    /\ g.pc = "flag"
    /\ flagged' = flagged \cup {g.cur}
    /\ g' = [g EXCEPT !.pc = "next", !.outcome = "flagged"]
    /\ UNCHANGED <<stockVars, disturbed, guardianFaults>>

-----------------------------------------------------------------------------
(* Faults *)

Fault ==
    /\ guardianFaults < MaxGuardianFaults
    /\ guardianFaults' = guardianFaults + 1

\* A channel cannot be read: it is left out of the comparison.
ReadFails(c) ==
    /\ g.pc = "read" /\ c \in g.todo
    /\ Fault
    /\ g' = [g EXCEPT !.todo = @ \ {c}]
    /\ UNCHANGED <<stockVars, flagged, disturbed>>

\* A channel cannot be written, or was written and the answer lost: the other
\* channels are still repaired.
RepairChannelFails(c, applied) ==
    /\ g.pc = "repair" /\ c \in g.todo
    /\ Fault
    /\ chanStock' = IF applied THEN [chanStock EXCEPT ![g.cur][c] = Target(c)] ELSE chanStock
    /\ g' = [g EXCEPT !.todo = @ \ {c}, !.outcome = "unrepaired"]
    /\ UNCHANGED <<dbStock, active, flagged, disturbed>>

\* A failing statement: before the loop it fails the job, in the loop the error
\* is noted and the loop goes on, and it makes repairDrift return false.
StatementFails ==
    /\ Fault
    /\ \/ g.pc \in {"channels", "products"} /\ g' = NoJob
       \/ g.pc = "next" /\ \E p \in g.pending :
             g' = [g EXCEPT !.pending = @ \ {p}, !.cur = p, !.seen = Unread,
                            !.todo = {}, !.outcome = "error"]
       \/ g.pc = "flag" /\ g' = [g EXCEPT !.pc = "next", !.outcome = "error"]
    /\ UNCHANGED <<stockVars, flagged, disturbed>>

RepairDatabaseFails(applied) ==
    /\ g.pc = "repairDb"
    /\ Fault
    /\ dbStock' = IF applied THEN [dbStock EXCEPT ![g.cur] = g.seen[g.truth]] ELSE dbStock
    /\ g' = [g EXCEPT !.pc = "next", !.outcome = "unrepaired"]
    /\ UNCHANGED <<chanStock, active, flagged, disturbed>>

\* The process dies.
GuardianCrash ==
    /\ g.pc # "idle"
    /\ Fault
    /\ g' = NoJob
    /\ UNCHANGED <<stockVars, flagged, disturbed>>

-----------------------------------------------------------------------------

\* A user reads the alert about p, whether or not anything was done about it.
Review(p) ==
    /\ p \in flagged
    /\ flagged' = flagged \ {p}
    /\ UNCHANGED <<stockVars, g, disturbed, guardianFaults>>

\* Sales, the Sync Agent, users who switch channels: they write what the
\* Guardian reads, at any moment.
Others ==
    /\ dbStock' \in [Products -> Levels]
    /\ chanStock' \in [Products -> [Channels -> Levels]]
    /\ active' \in [Channels -> BOOLEAN]
    /\ disturbed' = TRUE
    /\ UNCHANGED <<g, flagged, guardianFaults>>

Works ==
    \/ ReadChannels \/ ReadProducts \/ NextProduct \/ EndJob
    \/ (\E c \in Channels : ReadStock(c)) \/ EndReads \/ Judge
    \/ RepairDatabase \/ (\E c \in Channels : RepairChannel(c)) \/ EndRepair
    \/ FlagForReview

Fails ==
    \/ \E c \in Channels : ReadFails(c)
    \/ \E c \in Channels, applied \in BOOLEAN : RepairChannelFails(c, applied)
    \/ StatementFails \/ (\E applied \in BOOLEAN : RepairDatabaseFails(applied))
    \/ GuardianCrash

GuardianNext ==
    \/ \E wanted \in {Products} \cup {{p} : p \in Products}, auto \in BOOLEAN :
          StartJob(wanted, auto)
    \/ Works \/ Fails
    \/ \E p \in Products : Review(p)

Next == GuardianNext \/ Others

Spec == Init /\ [][Next]_vars

\* The event loop goes on with a job whose call was answered; the queue serves
\* the scheduled job whatever else was triggered.
Fairness == WF_vars(Works) /\ SF_vars(ScheduledJob)

-----------------------------------------------------------------------------
(* Properties *)

\* A repair that nobody disturbed leaves the database and every channel that
\* could be read in agreement with the source of truth.
RepairedMeansConsistent ==
    g.outcome = "repaired" /\ ~disturbed =>
        LET truth == chanStock[g.cur][g.truth] IN
        /\ dbStock[g.cur] = truth
        /\ \A c \in Seen \ {g.truth} : chanStock[g.cur][c] = Expect(g.cur, c, truth)

\* "Flags large ones for review" (guardian.ts:4): as long as nobody disturbs it
\* the Guardian never moves a channel's stock by the threshold or more, nor
\* anything when it was asked not to repair.
LargeDriftsAreKept ==
    [][g' # g /\ chanStock' # chanStock /\ ~disturbed =>
          /\ g.auto
          /\ \A p \in Products, c \in Channels :
                Distance(chanStock[p][c], chanStock'[p][c]) < Threshold]_vars
=============================================================================
