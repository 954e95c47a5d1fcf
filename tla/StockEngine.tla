----------------------------- MODULE StockEngine -----------------------------
(***************************************************************************)
(* The engine's two writers of stock at work together                      *)
(* (sync-engine/src/engine.ts starts both): the jobs of the Sync Agent and *)
(* the reconciliation of the Guardian write the same products and channels *)
(* with nothing between them but the event loop, and a sale whose report   *)
(* is lost reaches neither.                                                *)
(***************************************************************************)
EXTENDS GuardianAgent, Sequences

CONSTANTS
    InitStock, Workers, MaxJobs, Ops, MaxAttempts, MaxStalls, MaxDbErrors,
    MaxLostReplies, MaxChannelFaults, MaxCrashes, MaxStops, MaxToggles,
    MaxUnreported   \* sales whose report is lost

VARIABLES
    agentState, jobData, jobState, waiting, attempts, stalls, result, run, audit,
    dbErrors, lostReplies, channelFaults, crashes, stops, toggles, switched,
    unreported

Sync == INSTANCE SyncAgent

\* The two agents are configured for one database: what the Guardian assumes of
\* products, channels and levels the Sync Agent does too.
ASSUME EngineStock == InitStock \in Levels
ASSUME EngineBounds == Sync!BoundsAssumption /\ MaxUnreported \in Nat

syncVars == <<agentState, jobData, jobState, waiting, attempts, stalls, result, run, audit,
              dbErrors, lostReplies, channelFaults, crashes, stops, toggles, switched>>
engineVars == <<vars, syncVars, unreported>>

EngineInit == Sync!Init /\ GuardianInit /\ unreported = 0

SyncStep ==
    /\ Sync!Next
    /\ disturbed' = (disturbed \/ stockVars' # stockVars)
    /\ UNCHANGED <<g, flagged, guardianFaults, unreported>>

GuardianStep == GuardianNext /\ UNCHANGED <<syncVars, unreported>>

\* A sale on channel c whose webhook never arrives.
UnreportedSale(p, c) ==
    /\ unreported < MaxUnreported
    /\ unreported' = unreported + 1
    /\ \E q \in Levels :
          q < chanStock[p][c] /\ chanStock' = [chanStock EXCEPT ![p][c] = q]
    /\ disturbed' = TRUE
    /\ UNCHANGED <<dbStock, active, g, flagged, guardianFaults, syncVars>>

EngineNext ==
    \/ SyncStep \/ GuardianStep
    \/ \E p \in Known : \E c \in Mapping[p] : UnreportedSale(p, c)

EngineSpec == EngineInit /\ [][EngineNext]_engineVars /\ Sync!Fairness /\ Fairness

-----------------------------------------------------------------------------
(* Properties *)

TheTruth == TruthChannels({c \in Channels : active[c]})

\* The active channels of p show one stock, as far as the Guardian compares it.
Agree(p) ==
    \A t \in TheTruth \cap Mapping[p], c \in Mapping[p] :
        active[c] /\ c # t => chanStock[p][c] = Expect(p, c, chanStock[p][t])

\* "Auto-repairs small discrepancies, flags large ones for review"
\* (guardian.ts:4): whatever reports were lost, writes failed and jobs raced, a
\* product whose channels disagree is repaired or flagged again and again until
\* they agree.
DriftIsDealtWith == \A p \in Known : []<>(Agree(p) \/ p \in flagged)
=============================================================================
